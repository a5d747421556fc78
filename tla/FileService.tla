---------------------------- MODULE FileService ----------------------------
(***************************************************************************)
(* What an upload promises for its files, whose cards an AI provider is    *)
(* paid to write.  Work begins only on a file that waits for it, and on no *)
(* more files at a time than there are threads.  A file waits once for     *)
(* every attempt that users ask for and once more when the process died at *)
(* work on it.  What is done or over is left alone, but for a cancel that  *)
(* was asked for while the file still waited or was worked on.  Jobs,      *)
(* claims and stop flags are the business of BulkUpload, which implements  *)
(* this.                                                                   *)
(***************************************************************************)
EXTENDS Naturals, FiniteSets

CONSTANTS Files, Threads

VARIABLES
  life,       \* per file: "waiting", "working", "done" or "over" (failed, stopped)
  asked,      \* per file: the last attempt users asked for
  canceling,  \* the files of a cancel that is on its way
  faults      \* deaths of the process

vars == <<life, asked, canceling, faults>>

Lives == {"waiting", "working", "done", "over"}

UnderWork == {f \in Files : life[f] = "working"}

Init ==
  /\ life = [f \in Files |-> "waiting"]
  /\ asked \in [Files -> Nat]
  /\ canceling = {}
  /\ faults = 0

\* A retry of the files F.  What is being worked on then counts no more.
Ask(F) ==
  /\ canceling = {}
  /\ life' = [f \in Files |-> IF f \in F THEN "waiting" ELSE life[f]]
  /\ asked' \in [Files -> Nat]
  /\ \A f \in Files : IF f \in F THEN asked'[f] > asked[f]
                                 ELSE asked'[f] = asked[f]
  /\ UNCHANGED <<canceling, faults>>

\* A cancel of the files F, which are not done.
AskCancel(F) ==
  /\ canceling = {}
  /\ \A f \in F : life[f] \in {"waiting", "working"}
  /\ canceling' = F
  /\ UNCHANGED <<life, asked, faults>>

\* The cancel arrives: it ends what is not being worked on, whether that waits
\* or was done meanwhile; a file that is worked on is told later, and one that
\* is just being taken up again after a death not at all.
Cancel ==
  /\ canceling # {}
  /\ canceling' = {}
  /\ life' \in [Files -> Lives]
  /\ \A f \in Files :
       \/ life'[f] = life[f]
       \/ f \in canceling /\ life[f] # "working" /\ life'[f] = "over"
  /\ UNCHANGED <<asked, faults>>

\* The files F fail, or go with their upload, before they are worked on.
Withdraw(F) ==
  /\ \A f \in F : life[f] = "waiting"
  /\ life' = [f \in Files |-> IF f \in F THEN "over" ELSE life[f]]
  /\ UNCHANGED <<asked, canceling, faults>>

Begin(f) ==
  /\ life[f] = "waiting"
  /\ Cardinality(UnderWork) < Threads
  /\ life' = [life EXCEPT ![f] = "working"]
  /\ UNCHANGED <<asked, canceling, faults>>

End(f) ==
  /\ life[f] = "working"
  /\ \E outcome \in {"done", "over"} : life' = [life EXCEPT ![f] = outcome]
  /\ UNCHANGED <<asked, canceling, faults>>

\* The process dies: what it worked on waits again, unless it was canceled; so
\* does what it was taking up again.
Die ==
  /\ life' \in [Files -> Lives]
  /\ \A f \in Files :
       IF life[f] \in {"waiting", "working"}
       THEN life'[f] \in {"waiting", "over"} ELSE life'[f] = life[f]
  /\ faults' = faults + 1
  /\ UNCHANGED <<asked, canceling>>

Next ==
  \/ \E F \in SUBSET Files : Ask(F) \/ AskCancel(F) \/ Withdraw(F)
  \/ \E f \in Files : Begin(f) \/ End(f)
  \/ Cancel \/ Die

Spec == Init /\ [][Next]_vars
=============================================================================
