---------------------------- MODULE MCNcertImport ----------------------------
(* NcertImport with a catalogue that lists one of the books under two       *)
(* subjects and another one that is too big.                                *)
EXTENDS NcertImport

CONSTANTS a, b, big

ThreeBooks == {a, b, big}
PlanTwice == <<a, big, b, a>>
=============================================================================
