----------------------------- MODULE JobService -----------------------------
(***************************************************************************)
(* What the job queue promises to those who enqueue and retry jobs: a run  *)
(* begins only on a job that is owed one and that is not running, and the  *)
(* end of a run owes no new one: without a fault there are never more runs *)
(* than requests.  How jobs are polled, claimed, leased and handed to      *)
(* threads is the business of JobQueue, which implements this.             *)
(***************************************************************************)
EXTENDS Naturals

CONSTANT Jobs

VARIABLES
  owed,     \* jobs with a request no run has begun to serve
  running,  \* jobs that execute
  faults    \* process deaths and runs that ended without a trace

vars == <<owed, running, faults>>

TypeOK ==
  /\ owed \subseteq Jobs
  /\ running \subseteq Jobs
  /\ faults \in Nat

Init == owed = {} /\ running = {} /\ faults = 0

Ask(j) ==
  /\ owed' = owed \cup {j}
  /\ UNCHANGED <<running, faults>>

\* A stop or a purge of a job nobody executes.
Withdraw(j) ==
  /\ owed' = owed \ {j}
  /\ UNCHANGED <<running, faults>>

Begin(j) ==
  /\ j \in owed \ running
  /\ owed' = owed \ {j}
  /\ running' = running \cup {j}
  /\ UNCHANGED faults

\* A request made during the run is served by it or stays owed.
End(j) ==
  /\ j \in running
  /\ running' = running \ {j}
  /\ owed' \in {owed, owed \ {j}}
  /\ UNCHANGED faults

\* A run breaks off and the job is owed again, or all running ones do.
Break(S) ==
  /\ S \subseteq running
  /\ running' = running \ S
  /\ owed' \subseteq owed \cup S
  /\ faults' = faults + 1

Next ==
  \/ \E j \in Jobs : Ask(j) \/ Withdraw(j) \/ Begin(j) \/ End(j)
  \/ \E S \in SUBSET Jobs : Break(S)

Spec == Init /\ [][Next]_vars
=============================================================================
