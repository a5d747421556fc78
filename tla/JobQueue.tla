------------------------------ MODULE JobQueue ------------------------------
(***************************************************************************)
(* The background job queue of app/services/job_worker.py: the jobs table  *)
(* (app/models/job.py), the poll loop of each worker process               *)
(* (run_worker_loop, claim_available_jobs), its thread pool (process_job)  *)
(* and the requests that write job rows from the web handlers (enqueue,    *)
(* stop, resume, purge).  What a job does while it executes is left out    *)
(* here; module BulkUpload models it for the bulk-upload jobs.             *)
(*                                                                         *)
(* A job's number is its place in created_at order.  Every action is one   *)
(* database transaction or one critical section of the process, so the     *)
(* reads of a poll (Poll) and the transaction that claims what was read    *)
(* (Claim) are two steps: the claim takes no row lock.                     *)
(***************************************************************************)
EXTENDS Integers, FiniteSets, Sequences

CONSTANTS
  Workers,      \* worker processes (WORKER_ID)
  Threads,      \* the threads of each process's pool (JOB_WORKER_THREADS)
  Nobody,       \* worker_id IS NULL
  Dead,         \* worker_id of a process that died
  MaxJobs,      \* bound: jobs ever enqueued
  MaxQueue,     \* bound: a poll starts only with fewer submissions waiting
  MaxRequests,  \* bound: stop and resume requests on job rows
  MaxCrashes    \* bound: process deaths and runs that end without a commit

ASSUME ConstantsAssumption ==
  /\ IsFiniteSet(Threads) /\ Threads # {}
  /\ Nobody \notin Workers /\ Dead \notin Workers /\ Nobody # Dead
  /\ MaxJobs \in Nat \ {0}
  /\ MaxQueue \in Nat \ {0}
  /\ MaxRequests \in Nat
  /\ MaxCrashes \in Nat

Jobs == 1 .. MaxJobs
NoJob == 0
VARIABLES
  status,    \* job row: status ("none": not created, "deleted": purged)
  owner,     \* job row: worker_id
  lease,     \* job row: locked_at, compared with now - JOB_LEASE_SECONDS
  late,      \* files were added to the job since its run read the file list
  poll,      \* per process: where its poll loop is and the claim it holds
  queue,     \* per process: the pool's submissions no thread has taken
  active,    \* per process: _active_jobs
  thr,       \* per process and thread: the job in process_job and its place
  requests,  \* stop and resume requests so far
  crashes    \* process deaths and uncommitted endings so far

rows == <<status, owner, lease, late>>
procs == <<poll, queue, active, thr>>
budget == <<requests, crashes>>
vars == <<rows, procs, budget>>

JobStatuses == {"none", "pending", "running", "completed", "failed", "deleted"}
Leases == {"null", "fresh", "expired"}
PollStates == [pc : {"idle", "claim", "submit"}, running : SUBSET Jobs,
               pending : SUBSET Jobs, foreign : SUBSET Jobs]
ThreadStates == [pc : {"idle", "load", "run", "exit"}, job : Jobs \cup {NoJob}]

Idle == [pc |-> "idle", job |-> NoJob]
NoClaim == [pc |-> "idle", running |-> {}, pending |-> {}, foreign |-> {}]

Init ==
  /\ status = [j \in Jobs |-> "none"]
  /\ owner = [j \in Jobs |-> Nobody]
  /\ lease = [j \in Jobs |-> "null"]
  /\ late = [j \in Jobs |-> FALSE]
  /\ poll = [w \in Workers |-> NoClaim]
  /\ queue = [w \in Workers |-> <<>>]
  /\ active = [w \in Workers |-> {}]
  /\ thr = [w \in Workers |-> [t \in Threads |-> Idle]]
  /\ requests = 0
  /\ crashes = 0

-----------------------------------------------------------------------------
(***************************************************************************)
(* Faults: plausible mistakes in the code, used by no specification.  Each *)
(* property below is known to fail when one of them takes the place of the *)
(* definition it is named after.                                           *)
(***************************************************************************)
\* The claim of pending jobs forgets the lease of a retried job's old owner.
FaultyClaimable ==
  {j \in Jobs : status[j] = "pending" /\ (owner[j] = Nobody \/ lease[j] = "null")}

\* Only the process's own running jobs are recovered.
FaultyReclaimable(w) == {j \in Jobs : status[j] = "running" /\ owner[j] = w}

\* process_job does not ask _mark_job_active.
FaultyTake(w, t) ==
  /\ thr[w][t] = Idle
  /\ queue[w] # <<>>
  /\ queue' = [queue EXCEPT ![w] = Tail(@)]
  /\ active' = [active EXCEPT ![w] = @ \cup {Head(queue[w])}]
  /\ thr' = [thr EXCEPT ![w][t] = [pc |-> "load", job |-> Head(queue[w])]]
  /\ UNCHANGED <<rows, poll, budget>>

\* A run returns without the commit of its final status.
FaultyFinish(w, t) ==
  /\ thr[w][t].pc = "run"
  /\ thr' = [thr EXCEPT ![w][t].pc = "exit"]
  /\ UNCHANGED <<rows, poll, queue, active, budget>>

\* A return of process_job misses _mark_job_inactive.
FaultyLeave(w, t) ==
  /\ thr[w][t].pc = "exit"
  /\ thr' = [thr EXCEPT ![w][t] = Idle]
  /\ UNCHANGED <<rows, poll, queue, active, budget>>

-----------------------------------------------------------------------------
(***************************************************************************)
(* The poll loop.                                                          *)
(***************************************************************************)
PoolSize == Cardinality(Threads)

Capacity(w) ==
  IF Cardinality(active[w]) < PoolSize THEN PoolSize - Cardinality(active[w])
                                       ELSE 0

Oldest(S, n) == {j \in S : Cardinality({k \in S : k < j}) < n}

Unleased(j) == owner[j] = Nobody \/ lease[j] \in {"null", "expired"}

\* Own RUNNING jobs are selected again at every poll, live or not.
Reclaimable(w) == {j \in Jobs : /\ status[j] = "running"
                                /\ owner[j] = w \/ Unleased(j)}

Claimable == {j \in Jobs : status[j] = "pending" /\ Unleased(j)}

\* Capacity and the two SELECTs of claim_available_jobs.
Poll(w) ==
  /\ poll[w].pc = "idle"
  /\ Len(queue[w]) < MaxQueue
  /\ Capacity(w) > 0
  /\ LET running == Oldest(Reclaimable(w), Capacity(w))
         pending == Oldest(Claimable, Capacity(w) - Cardinality(running))
     IN /\ running \cup pending # {}
        /\ poll' = [poll EXCEPT ![w] =
                      [pc |-> "claim", running |-> running, pending |-> pending,
                       foreign |-> {j \in running \cup pending : owner[j] # w}]]
  /\ UNCHANGED <<rows, queue, active, thr, budget>>

\* The commit of claim_available_jobs.  Only attributes that differ from the
\* row as it was read are written; a row deleted meanwhile fails the flush and
\* with it the whole claim.
Claim(w) ==
  LET claimed == poll[w].running \cup poll[w].pending
  IN /\ poll[w].pc = "claim"
     /\ IF \E j \in claimed : status[j] = "deleted"
        THEN /\ poll' = [poll EXCEPT ![w] = NoClaim]
             /\ UNCHANGED rows
        ELSE /\ poll' = [poll EXCEPT ![w].pc = "submit"]
             /\ status' = [j \in Jobs |-> IF j \in poll[w].pending
                                          THEN "running" ELSE status[j]]
             /\ owner' = [j \in Jobs |-> IF j \in poll[w].foreign
                                         THEN w ELSE owner[j]]
             /\ lease' = [j \in Jobs |-> IF j \in claimed
                                         THEN "fresh" ELSE lease[j]]
     /\ UNCHANGED <<late, queue, active, thr, budget>>

\* executor.submit for one claimed job: the reclaimed ones first, oldest first.
Submit(w) ==
  /\ poll[w].pc = "submit"
  /\ LET left == IF poll[w].running # {} THEN poll[w].running
                                         ELSE poll[w].pending
     IN \E j \in Oldest(left, 1) :
          LET running == poll[w].running \ {j}
              pending == IF poll[w].running # {} THEN poll[w].pending
                                                 ELSE poll[w].pending \ {j}
          IN /\ queue' = [queue EXCEPT ![w] = Append(@, j)]
             /\ poll' = [poll EXCEPT ![w] =
                           IF running \cup pending = {} THEN NoClaim
                           ELSE [@ EXCEPT !.running = running,
                                          !.pending = pending]]
  /\ UNCHANGED <<rows, active, thr, budget>>

-----------------------------------------------------------------------------
(***************************************************************************)
(* The pool's threads: process_job.                                        *)
(***************************************************************************)
\* A thread takes the next submission; _mark_job_active drops it when another
\* thread of the process is already in process_job with that job.
Take(w, t) ==
  /\ thr[w][t] = Idle
  /\ queue[w] # <<>>
  /\ queue' = [queue EXCEPT ![w] = Tail(@)]
  /\ LET j == Head(queue[w])
     IN IF j \in active[w]
        THEN UNCHANGED <<active, thr>>
        ELSE /\ active' = [active EXCEPT ![w] = @ \cup {j}]
             /\ thr' = [thr EXCEPT ![w][t] = [pc |-> "load", job |-> j]]
  /\ UNCHANGED <<rows, poll, budget>>

\* process_job reads the row: it drops a finished, purged or foreign job,
\* renews the lease of its own running one, and takes a pending or FAILED one.
Start(w, t) ==
  /\ thr[w][t].pc = "load"
  /\ LET j == thr[w][t].job
         own == status[j] = "running" /\ owner[j] = w
         fresh == status[j] \in {"pending", "failed"}
     IN IF own \/ fresh
        THEN /\ status' = [status EXCEPT ![j] = "running"]
             /\ owner' = [owner EXCEPT ![j] = w]
             /\ lease' = [lease EXCEPT ![j] = "fresh"]
             /\ late' = [late EXCEPT ![j] = FALSE]
             /\ thr' = [thr EXCEPT ![w][t].pc = "run"]
        ELSE /\ thr' = [thr EXCEPT ![w][t].pc = "exit"]
             /\ UNCHANGED rows
  /\ UNCHANGED <<poll, queue, active, budget>>

\* The run ends with its last commit: a final status, or back to pending when
\* files arrived meanwhile (_requeue_job_for_late_files).  Nothing is compared
\* with what the row holds by then; a purged row makes the commit fail.
Finish(w, t) ==
  /\ thr[w][t].pc = "run"
  /\ thr' = [thr EXCEPT ![w][t].pc = "exit"]
  /\ LET j == thr[w][t].job
     IN IF status[j] = "deleted"
        THEN UNCHANGED rows
        ELSE \/ /\ \E s \in {"completed", "failed"} :
                     status' = [status EXCEPT ![j] = s]
                /\ UNCHANGED <<owner, lease, late>>
             \/ /\ late[j]
                /\ late' = [late EXCEPT ![j] = FALSE]
                /\ status' = [status EXCEPT ![j] = "pending"]
                /\ owner' = [owner EXCEPT ![j] = Nobody]
                /\ lease' = [lease EXCEPT ![j] = "null"]
  /\ UNCHANGED <<poll, queue, active, budget>>

\* The run raises and the handler's own commit fails too: the row stays.
Abort(w, t) ==
  /\ thr[w][t].pc = "run"
  /\ crashes < MaxCrashes
  /\ crashes' = crashes + 1
  /\ thr' = [thr EXCEPT ![w][t].pc = "exit"]
  /\ UNCHANGED <<rows, poll, queue, active, requests>>

\* _mark_job_inactive in the finally clause.
Leave(w, t) ==
  /\ thr[w][t].pc = "exit"
  /\ active' = [active EXCEPT ![w] = @ \ {thr[w][t].job}]
  /\ thr' = [thr EXCEPT ![w][t] = Idle]
  /\ UNCHANGED <<rows, poll, queue, budget>>

-----------------------------------------------------------------------------
(***************************************************************************)
(* The web handlers' writes, the clock, and process death.                 *)
(***************************************************************************)
Enqueue(j) ==
  /\ status[j] = "none"
  /\ \A k \in Jobs : k < j => status[k] # "none"
  /\ status' = [status EXCEPT ![j] = "pending"]
  /\ UNCHANGED <<owner, lease, late, procs, budget>>

\* resume_bulk_ai_upload of one file or deck adds a file and reuses the job row
\* whatever its status; worker_id and locked_at stay.
Resume(j) ==
  /\ requests < MaxRequests
  /\ status[j] \notin {"none", "deleted"}
  /\ status' = [status EXCEPT ![j] = "pending"]
  /\ late' = [late EXCEPT ![j] = TRUE]
  /\ requests' = requests + 1
  /\ UNCHANGED <<owner, lease, procs, crashes>>

\* stop_bulk_ai_upload.
Stop(j) ==
  /\ requests < MaxRequests
  /\ status[j] = "running"
  /\ status' = [status EXCEPT ![j] = "failed"]
  /\ requests' = requests + 1
  /\ UNCHANGED <<owner, lease, late, procs, crashes>>

\* purge_bulk_upload deletes the jobs of an upload that has no active one.
Purge(j) ==
  /\ requests < MaxRequests
  /\ status[j] \in {"completed", "failed"}
  /\ status' = [status EXCEPT ![j] = "deleted"]
  /\ requests' = requests + 1
  /\ UNCHANGED <<owner, lease, late, procs, crashes>>

LeaseExpires(j) ==
  /\ lease[j] = "fresh"
  /\ lease' = [lease EXCEPT ![j] = "expired"]
  /\ UNCHANGED <<status, owner, late, procs, budget>>

\* The process dies and comes back under a new WORKER_ID: the rows it owned
\* keep an id no process has any more.
CrashRestart(w) ==
  /\ crashes < MaxCrashes
  /\ crashes' = crashes + 1
  /\ owner' = [j \in Jobs |-> IF owner[j] = w THEN Dead ELSE owner[j]]
  /\ poll' = [poll EXCEPT ![w] = NoClaim]
  /\ queue' = [queue EXCEPT ![w] = <<>>]
  /\ active' = [active EXCEPT ![w] = {}]
  /\ thr' = [thr EXCEPT ![w] = [t \in Threads |-> Idle]]
  /\ UNCHANGED <<status, lease, late, requests>>

WorkerStep(w) == Poll(w) \/ Claim(w) \/ Submit(w)
ThreadStep(w, t) == Take(w, t) \/ Start(w, t) \/ Leave(w, t)

Next ==
  \/ \E w \in Workers : WorkerStep(w) \/ CrashRestart(w)
  \/ \E w \in Workers, t \in Threads :
       ThreadStep(w, t) \/ Finish(w, t) \/ Abort(w, t)
  \/ \E j \in Jobs :
       Enqueue(j) \/ Resume(j) \/ Stop(j) \/ Purge(j) \/ LeaseExpires(j)

Spec == Init /\ [][Next]_vars

\* The loop polls for ever, idle threads take work and the clock advances; how
\* long a run takes is up to the AI provider.
SchedulerFairness ==
  /\ \A w \in Workers : WF_vars(WorkerStep(w))
  /\ \A w \in Workers, t \in Threads : WF_vars(ThreadStep(w, t))
  /\ \A j \in Jobs : WF_vars(LeaseExpires(j))

\* Every run also ends: each pass has a timeout and a retry limit.
RunFairness == \A w \in Workers, t \in Threads : WF_vars(Finish(w, t))

SchedulerSpec == Spec /\ SchedulerFairness
FairSpec == SchedulerSpec /\ RunFairness

-----------------------------------------------------------------------------
(***************************************************************************)
(* Properties.                                                             *)
(***************************************************************************)
\* Shapes of the rows, of the poll loops and of the pools.
TypeOK ==
  /\ status \in [Jobs -> JobStatuses]
  /\ owner \in [Jobs -> Workers \cup {Nobody, Dead}]
  /\ lease \in [Jobs -> Leases]
  /\ late \in [Jobs -> BOOLEAN]
  /\ poll \in [Workers -> PollStates]
  /\ queue \in [Workers -> Seq(Jobs)]
  /\ active \in [Workers -> SUBSET Jobs]
  /\ thr \in [Workers -> [Threads -> ThreadStates]]
  /\ requests \in 0 .. MaxRequests
  /\ crashes \in 0 .. MaxCrashes

Busy(w, t) == thr[w][t].pc # "idle"
Executes(w, t, j) == thr[w][t] = [pc |-> "run", job |-> j]
Executing(j) == \E w \in Workers, t \in Threads : Executes(w, t, j)

\* Two threads of one process are never in process_job with the same job,
\* whatever is claimed again, resumed or submitted twice (_mark_job_active).
PerProcessExclusion ==
  \A w \in Workers : \A t, u \in Threads :
    Busy(w, t) /\ Busy(w, u) /\ t # u => thr[w][t].job # thr[w][u].job

\* No slot of the pool leaks: _active_jobs holds exactly the jobs whose thread
\* is in process_job, so the capacity the poll computes is the true one.
ActiveIsBusy ==
  \A w \in Workers :
    active[w] = {thr[w][t].job : t \in {u \in Threads : Busy(w, u)}}

\* A job executes at most once at a time, across all processes: worker_id and
\* locked_at are the lock (models/job.py, "Lock for worker coordination").
MutualExclusion ==
  \A w, v \in Workers : \A t, u \in Threads : \A j \in Jobs :
    Executes(w, t, j) /\ Executes(v, u, j) => w = v /\ t = u

\* A pending job nobody executes is executed in the end or stopped, whatever
\* crashed, was stopped or was resumed before.
PendingIsServed ==
  \A j \in Jobs :
    (status[j] = "pending" /\ ~Executing(j))
      ~> (Executing(j) \/ status[j] \in {"failed", "deleted"})

\* A row a dead process or a failed commit left running does not stay so.
RunningEnds == \A j \in Jobs : (status[j] = "running") ~> (status[j] # "running")

\* An idle thread does not stay idle while a job waits: with two threads, the
\* second of two jobs executes next to the first one.
\* (The code does not keep this: README 3.3.)
IdleThreadServes ==
  \A w \in Workers, t \in Threads, j \in Jobs :
    (status[j] = "pending" /\ ~Busy(w, t)) ~> (Executing(j) \/ Busy(w, t))
=============================================================================
