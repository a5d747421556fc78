---------------------------- MODULE MCDeckAccess ----------------------------
(* DeckAccess for TLC: users other than the bootstrap user are alike. *)
EXTENDS DeckAccess, TLC

Alike == Permutations(Users \ {Bootstrap})
=============================================================================
