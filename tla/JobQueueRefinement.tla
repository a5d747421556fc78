------------------------- MODULE JobQueueRefinement -------------------------
(***************************************************************************)
(* JobQueue implements JobService: one process, one thread (the defaults   *)
(* of job_worker.py), polls that find the pool's queue empty.              *)
(***************************************************************************)
EXTENDS JobQueue

\* Handed to the pool of a process or about to be: such a job starts even if
\* it is FAILED by then.
Submitted(j) ==
  \E w \in Workers :
    \/ j \in poll[w].running \cup poll[w].pending
    \/ \E i \in 1 .. Len(queue[w]) : queue[w][i] = j
    \/ \E t \in Threads : thr[w][t] = [pc |-> "load", job |-> j]

Owed ==
  {j \in Jobs :
     \/ status[j] = "pending"
     \/ ~Executing(j) /\ status[j] = "running"
     \/ ~Executing(j) /\ status[j] = "failed" /\ Submitted(j)}

Service == INSTANCE JobService
             WITH owed <- Owed, running <- {j \in Jobs : Executing(j)},
                  faults <- crashes

\* Runs begin on owed jobs only, one at a time per job, and no more of them
\* than were asked for (process_job, claim_available_jobs, the web handlers).
ImplementsJobService == Service!Spec
=============================================================================
