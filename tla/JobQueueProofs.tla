--------------------------- MODULE JobQueueProofs ---------------------------
(***************************************************************************)
(* Theorems about JobQueue, for any number of processes, threads, jobs and *)
(* any bounds.  The inductive invariant is TypeOK with PoolInv: the active *)
(* set of each process is the set of its busy threads' jobs, and busy      *)
(* threads of a process have different jobs.  Neither half is inductive    *)
(* alone: a take is safe because the active set covers the busy threads,   *)
(* and a leave removes its job from the set because no other thread has it.*)
(*                                                                         *)
(* With one process, one thread and one submission at a time the queue     *)
(* implements JobService, step by step: OneAtATime adds that a job is      *)
(* polled, queued or executed, and never two of these at once.             *)
(***************************************************************************)
EXTENDS JobQueueRefinement, TLAPS, FiniteSetTheorems

PoolInv == ActiveIsBusy /\ PerProcessExclusion

LEMMA OldestIsSubset ==
  ASSUME NEW S, NEW n
  PROVE  Oldest(S, n) \subseteq S
BY DEF Oldest

\* The updates of one process's poll state, and of one thread's state, keep
\* their types; the steps of TypeCorrect cite these.
LEMMA PollUpdate ==
  ASSUME TypeOK, NEW w \in Workers, NEW p \in PollStates,
         poll' = [poll EXCEPT ![w] = p]
  PROVE  poll' \in [Workers -> PollStates]
BY DEF TypeOK

LEMMA ThreadUpdate ==
  ASSUME TypeOK, NEW w \in Workers, NEW t \in Threads,
         NEW p \in {"idle", "load", "run", "exit"}, NEW j \in Jobs \cup {NoJob},
         thr' = [thr EXCEPT ![w][t] = [pc |-> p, job |-> j]]
  PROVE  thr' \in [Workers -> [Threads -> ThreadStates]]
<1>1. [pc |-> p, job |-> j] \in ThreadStates
  BY DEF ThreadStates
<1> QED BY <1>1 DEF TypeOK

LEMMA ThreadPcUpdate ==
  ASSUME TypeOK, NEW w \in Workers, NEW t \in Threads,
         NEW p \in {"idle", "load", "run", "exit"},
         thr' = [thr EXCEPT ![w][t].pc = p]
  PROVE  thr' \in [Workers -> [Threads -> ThreadStates]]
<1>1. thr[w][t] \in ThreadStates
  BY DEF TypeOK
<1>2. [thr[w][t] EXCEPT !.pc = p] \in ThreadStates
  BY <1>1 DEF ThreadStates
<1> QED BY <1>2 DEF TypeOK

\* Every reachable state has the rows, claims, pools and counters the code
\* can hold.
THEOREM TypeCorrect == Spec => []TypeOK
<1> USE ConstantsAssumption
<1>1. Init => TypeOK
  BY DEF Init, Idle, NoClaim, TypeOK, PollStates, ThreadStates, Jobs, NoJob,
         JobStatuses, Leases
<1>2. TypeOK /\ [Next]_vars => TypeOK'
  <2> SUFFICES ASSUME TypeOK, [Next]_vars PROVE TypeOK'
    OBVIOUS
  <2>1. CASE UNCHANGED vars
    BY <2>1 DEF vars, rows, procs, budget, TypeOK
  <2>2. ASSUME NEW w \in Workers, Poll(w) PROVE TypeOK'
    <3> DEFINE running == Oldest(Reclaimable(w), Capacity(w))
               pending == Oldest(Claimable, Capacity(w) - Cardinality(running))
               foreign == {j \in running \cup pending : owner[j] # w}
               picked == [pc |-> "claim", running |-> running,
                          pending |-> pending, foreign |-> foreign]
    <3>1. running \subseteq Jobs /\ pending \subseteq Jobs
      BY OldestIsSubset DEF Reclaimable, Claimable
    <3>2. poll' = [poll EXCEPT ![w] = picked]
      BY <2>2 DEF Poll
    <3>3. picked \in PollStates
      <4> HIDE DEF running, pending
      <4> QED BY <3>1 DEF PollStates
    <3>4. poll' \in [Workers -> PollStates]
      <4> HIDE DEF picked
      <4> QED BY <3>2, <3>3, PollUpdate
    <3> QED BY <2>2, <3>4 DEF Poll, TypeOK, rows, budget
  <2>3. ASSUME NEW w \in Workers, Claim(w) PROVE TypeOK'
    <3>1. poll' = [poll EXCEPT ![w] = NoClaim]
            \/ poll' = [poll EXCEPT ![w] = [poll[w] EXCEPT !.pc = "submit"]]
      BY <2>3 DEF Claim
    <3>2. NoClaim \in PollStates
      BY DEF NoClaim, PollStates
    <3>3. [poll[w] EXCEPT !.pc = "submit"] \in PollStates
      <4>1. poll[w] \in PollStates
        BY DEF TypeOK
      <4> QED BY <4>1 DEF PollStates
    <3>4. poll' \in [Workers -> PollStates]
      BY <3>1, <3>2, <3>3, PollUpdate
    <3>5. /\ status' \in [Jobs -> JobStatuses]
          /\ owner' \in [Jobs -> Workers \cup {Nobody, Dead}]
          /\ lease' \in [Jobs -> Leases]
          /\ late' = late
      <4>1. CASE UNCHANGED rows
        BY <4>1 DEF rows, TypeOK
      <4>2. CASE ~UNCHANGED rows
        <5>1. status' = [j \in Jobs |-> IF j \in poll[w].pending
                                        THEN "running" ELSE status[j]]
          BY <2>3, <4>2 DEF Claim
        <5>2. owner' = [j \in Jobs |-> IF j \in poll[w].foreign
                                       THEN w ELSE owner[j]]
          BY <2>3, <4>2 DEF Claim
        <5>3. lease' = [j \in Jobs |->
                          IF j \in poll[w].running \cup poll[w].pending
                          THEN "fresh" ELSE lease[j]]
          BY <2>3, <4>2 DEF Claim
        <5>4. status' \in [Jobs -> JobStatuses]
          BY <5>1 DEF TypeOK, JobStatuses
        <5>5. owner' \in [Jobs -> Workers \cup {Nobody, Dead}]
          BY <5>2 DEF TypeOK
        <5>6. lease' \in [Jobs -> Leases]
          BY <5>3 DEF TypeOK, Leases
        <5> QED BY <2>3, <4>2, <5>4, <5>5, <5>6 DEF Claim
      <4> QED BY <4>1, <4>2
    <3> QED BY <2>3, <3>4, <3>5 DEF Claim, TypeOK, budget
  <2>4. ASSUME NEW w \in Workers, Submit(w) PROVE TypeOK'
    <3> DEFINE left == IF poll[w].running # {} THEN poll[w].running
                                               ELSE poll[w].pending
               rest(j) == [poll[w] EXCEPT
                             !.running = poll[w].running \ {j},
                             !.pending = IF poll[w].running # {}
                                         THEN poll[w].pending
                                         ELSE poll[w].pending \ {j}]
    <3>1. PICK j \in Oldest(left, 1) :
            /\ queue' = [queue EXCEPT ![w] = Append(@, j)]
            /\ \/ poll' = [poll EXCEPT ![w] = NoClaim]
               \/ poll' = [poll EXCEPT ![w] = rest(j)]
      BY <2>4 DEF Submit
    <3>2. poll[w] \in PollStates
      BY DEF TypeOK
    <3>3. j \in Jobs
      BY <3>2, OldestIsSubset DEF PollStates
    <3>4. queue' \in [Workers -> Seq(Jobs)]
      BY <3>1, <3>3 DEF TypeOK
    <3>5. NoClaim \in PollStates /\ rest(j) \in PollStates
      BY <3>2 DEF NoClaim, PollStates
    <3>6. poll' \in [Workers -> PollStates]
      <4> HIDE DEF rest
      <4> QED BY <3>1, <3>5, PollUpdate
    <3> QED BY <2>4, <3>4, <3>6 DEF Submit, TypeOK, rows, budget
  <2>5. ASSUME NEW w \in Workers, CrashRestart(w) PROVE TypeOK'
    <3>1. NoClaim \in PollStates /\ Idle \in ThreadStates
      BY DEF NoClaim, PollStates, Idle, ThreadStates
    <3>2. poll' \in [Workers -> PollStates]
      BY <2>5, <3>1, PollUpdate DEF CrashRestart
    <3>3. queue' \in [Workers -> Seq(Jobs)]
      BY <2>5 DEF CrashRestart, TypeOK
    <3>4. thr' \in [Workers -> [Threads -> ThreadStates]]
      BY <2>5, <3>1 DEF CrashRestart, TypeOK
    <3>5. owner' \in [Jobs -> Workers \cup {Nobody, Dead}]
      BY <2>5 DEF CrashRestart, TypeOK
    <3> QED BY <2>5, <3>2, <3>3, <3>4, <3>5 DEF CrashRestart, TypeOK
  <2>6. ASSUME NEW w \in Workers, NEW t \in Threads, Take(w, t) PROVE TypeOK'
    <3> DEFINE j == Head(queue[w])
    <3>1. queue[w] \in Seq(Jobs) /\ queue[w] # <<>>
      BY <2>6 DEF Take, TypeOK
    <3>2. j \in Jobs /\ Tail(queue[w]) \in Seq(Jobs)
      BY <3>1
    <3>3. queue' \in [Workers -> Seq(Jobs)]
      BY <2>6, <3>2 DEF Take, TypeOK
    <3>4. CASE UNCHANGED <<active, thr>>
      BY <2>6, <3>3, <3>4 DEF Take, TypeOK, rows, budget
    <3>5. CASE /\ active' = [active EXCEPT ![w] = @ \cup {j}]
               /\ thr' = [thr EXCEPT ![w][t] = [pc |-> "load", job |-> j]]
      <4> HIDE DEF j
      <4>1. thr' \in [Workers -> [Threads -> ThreadStates]]
        BY <3>2, <3>5, ThreadUpdate
      <4>2. active' \in [Workers -> SUBSET Jobs]
        BY <3>2, <3>5 DEF TypeOK
      <4> QED BY <2>6, <3>3, <4>1, <4>2 DEF Take, TypeOK, rows, budget
    <3> QED BY <2>6, <3>4, <3>5 DEF Take
  <2>7. ASSUME NEW w \in Workers, NEW t \in Threads, Start(w, t) PROVE TypeOK'
    <3>1. thr' \in [Workers -> [Threads -> ThreadStates]]
      BY <2>7, ThreadPcUpdate DEF Start
    <3>2. thr[w][t].job \in Jobs \cup {NoJob}
      BY DEF TypeOK, ThreadStates
    <3>3. CASE UNCHANGED rows
      BY <2>7, <3>1, <3>3 DEF Start, TypeOK, rows, budget
    <3>4. CASE \E j \in Jobs \cup {NoJob} :
                 /\ status' = [status EXCEPT ![j] = "running"]
                 /\ owner' = [owner EXCEPT ![j] = w]
                 /\ lease' = [lease EXCEPT ![j] = "fresh"]
                 /\ late' = [late EXCEPT ![j] = FALSE]
      <4>1. status' \in [Jobs -> JobStatuses]
        BY <3>4 DEF TypeOK, JobStatuses
      <4>2. owner' \in [Jobs -> Workers \cup {Nobody, Dead}]
        BY <3>4 DEF TypeOK
      <4>3. lease' \in [Jobs -> Leases]
        BY <3>4 DEF TypeOK, Leases
      <4>4. late' \in [Jobs -> BOOLEAN]
        BY <3>4 DEF TypeOK
      <4> QED BY <2>7, <3>1, <4>1, <4>2, <4>3, <4>4 DEF Start, TypeOK, budget
    <3> QED BY <2>7, <3>2, <3>3, <3>4 DEF Start
  <2>8. ASSUME NEW w \in Workers, NEW t \in Threads, Leave(w, t) PROVE TypeOK'
    <3>1. thr' \in [Workers -> [Threads -> ThreadStates]]
      BY <2>8, ThreadUpdate DEF Leave, Idle
    <3>2. active' \in [Workers -> SUBSET Jobs]
      BY <2>8 DEF Leave, TypeOK
    <3> QED BY <2>8, <3>1, <3>2 DEF Leave, TypeOK, rows, budget
  <2>9. ASSUME NEW w \in Workers, NEW t \in Threads, Finish(w, t) PROVE TypeOK'
    <3>1. thr' \in [Workers -> [Threads -> ThreadStates]]
      BY <2>9, ThreadPcUpdate DEF Finish
    <3>2. /\ status' \in [Jobs -> JobStatuses]
          /\ owner' \in [Jobs -> Workers \cup {Nobody, Dead}]
          /\ lease' \in [Jobs -> Leases]
          /\ late' \in [Jobs -> BOOLEAN]
      BY <2>9 DEF Finish, TypeOK, rows, JobStatuses, Leases
    <3> QED BY <2>9, <3>1, <3>2 DEF Finish, TypeOK, budget
  <2>10. ASSUME NEW w \in Workers, NEW t \in Threads, Abort(w, t) PROVE TypeOK'
    <3>1. thr' \in [Workers -> [Threads -> ThreadStates]]
      BY <2>10, ThreadPcUpdate DEF Abort
    <3> QED BY <2>10, <3>1 DEF Abort, TypeOK, rows
  <2>11. ASSUME NEW j \in Jobs, Enqueue(j) PROVE TypeOK'
    BY <2>11 DEF Enqueue, procs, budget, TypeOK, JobStatuses
  <2>12. ASSUME NEW j \in Jobs, Resume(j) PROVE TypeOK'
    BY <2>12 DEF Resume, procs, TypeOK, JobStatuses
  <2>13. ASSUME NEW j \in Jobs, Stop(j) PROVE TypeOK'
    BY <2>13 DEF Stop, procs, TypeOK, JobStatuses
  <2>14. ASSUME NEW j \in Jobs, Purge(j) PROVE TypeOK'
    BY <2>14 DEF Purge, procs, TypeOK, JobStatuses
  <2>15. ASSUME NEW j \in Jobs, LeaseExpires(j) PROVE TypeOK'
    BY <2>15 DEF LeaseExpires, procs, budget, TypeOK, Leases
  <2> QED
    BY <2>1, <2>2, <2>3, <2>4, <2>5, <2>6, <2>7, <2>8, <2>9, <2>10, <2>11,
       <2>12, <2>13, <2>14, <2>15 DEF Next, WorkerStep, ThreadStep
<1> QED BY <1>1, <1>2, PTL DEF Spec

-----------------------------------------------------------------------------
\* A thread that moves on within process_job keeps its job: the pool is as it
\* was for the invariant.
LEMMA PoolMovesOn ==
  ASSUME TypeOK, PoolInv, NEW w \in Workers, NEW t \in Threads, Busy(w, t),
         NEW p \in {"load", "run", "exit"},
         thr' = [thr EXCEPT ![w][t].pc = p], active' = active
  PROVE  PoolInv'
<1>1. \A v \in Workers, u \in Threads :
        thr'[v][u].job = thr[v][u].job /\ (Busy(v, u)' <=> Busy(v, u))
  BY DEF TypeOK, ThreadStates, Busy
<1>2. ActiveIsBusy'
  BY <1>1 DEF PoolInv, ActiveIsBusy
<1>3. PerProcessExclusion'
  BY <1>1 DEF PoolInv, PerProcessExclusion
<1> QED BY <1>2, <1>3 DEF PoolInv

LEMMA PoolUntouched ==
  ASSUME PoolInv, thr' = thr, active' = active
  PROVE  PoolInv'
BY DEF PoolInv, ActiveIsBusy, PerProcessExclusion, Busy

LEMMA PoolInitially == Init => PoolInv
BY DEF Init, PoolInv, ActiveIsBusy, PerProcessExclusion, Busy, Idle

LEMMA PoolTake ==
  ASSUME TypeOK, PoolInv, NEW w \in Workers, NEW t \in Threads, Take(w, t)
  PROVE  PoolInv'
<1> DEFINE j == Head(queue[w])
<1>1. CASE j \in active[w]
  BY <1>1, PoolUntouched DEF Take
<1>2. CASE j \notin active[w]
  <2>1. /\ active' = [active EXCEPT ![w] = @ \cup {j}]
        /\ thr' = [thr EXCEPT ![w][t] = [pc |-> "load", job |-> j]]
        /\ ~Busy(w, t)
    BY <1>2 DEF Take, Busy, Idle
  <2> HIDE DEF j
  <2>2. /\ Busy(w, t)' /\ thr'[w][t].job = j
        /\ \A v \in Workers, u \in Threads : v # w \/ u # t =>
             (thr'[v][u] = thr[v][u] /\ (Busy(v, u)' <=> Busy(v, u)))
    BY <2>1 DEF TypeOK, Busy
  <2>3. \A u \in Threads : Busy(w, u) => thr[w][u].job # j
    BY <1>2 DEF PoolInv, ActiveIsBusy
  <2>4. PerProcessExclusion'
    BY <2>2, <2>3 DEF PoolInv, PerProcessExclusion
  <2>5. ASSUME NEW v \in Workers
        PROVE  active'[v] =
                 {thr'[v][u].job : u \in {x \in Threads : Busy(v, x)'}}
    <3>1. CASE v # w
      BY <2>1, <2>2, <3>1 DEF PoolInv, ActiveIsBusy, TypeOK
    <3>2. CASE v = w
      <4>1. active'[w] = active[w] \cup {j}
        BY <2>1 DEF TypeOK
      <4>2. active[w] = {thr[w][u].job : u \in {x \in Threads : Busy(w, x)}}
        BY DEF PoolInv, ActiveIsBusy
      <4> QED BY <2>1, <2>2, <3>2, <4>1, <4>2
    <3> QED BY <3>1, <3>2
  <2> QED BY <2>4, <2>5 DEF PoolInv, ActiveIsBusy
<1> QED BY <1>1, <1>2

LEMMA PoolLeave ==
  ASSUME TypeOK, PoolInv, NEW w \in Workers, NEW t \in Threads, Leave(w, t)
  PROVE  PoolInv'
<1> DEFINE j == thr[w][t].job
<1>1. /\ active' = [active EXCEPT ![w] = @ \ {j}]
      /\ thr' = [thr EXCEPT ![w][t] = Idle]
      /\ Busy(w, t)
  BY DEF Leave, Busy
<1>2. /\ ~Busy(w, t)'
      /\ \A v \in Workers, u \in Threads : v # w \/ u # t =>
           (thr'[v][u] = thr[v][u] /\ (Busy(v, u)' <=> Busy(v, u)))
  BY <1>1 DEF TypeOK, Busy, Idle
<1>3. \A u \in Threads : Busy(w, u) /\ u # t => thr[w][u].job # j
  BY <1>1 DEF PoolInv, PerProcessExclusion
<1>4. PerProcessExclusion'
  BY <1>2 DEF PoolInv, PerProcessExclusion
<1>5. ASSUME NEW v \in Workers
      PROVE  active'[v] = {thr'[v][u].job : u \in {x \in Threads : Busy(v, x)'}}
  <2>1. CASE v # w
    BY <1>1, <1>2, <2>1 DEF PoolInv, ActiveIsBusy, TypeOK
  <2>2. CASE v = w
    <3>1. active'[w] = active[w] \ {j}
      BY <1>1 DEF TypeOK
    <3>2. active[w] = {thr[w][u].job : u \in {x \in Threads : Busy(w, x)}}
      BY DEF PoolInv, ActiveIsBusy
    <3> QED BY <1>1, <1>2, <1>3, <2>2, <3>1, <3>2
  <2> QED BY <2>1, <2>2
<1> QED BY <1>4, <1>5 DEF PoolInv, ActiveIsBusy

LEMMA PoolCrash ==
  ASSUME TypeOK, PoolInv, NEW w \in Workers, CrashRestart(w)
  PROVE  PoolInv'
<1>1. /\ active' = [active EXCEPT ![w] = {}]
      /\ thr' = [thr EXCEPT ![w] = [t \in Threads |-> Idle]]
  BY DEF CrashRestart
<1>2. /\ \A u \in Threads : ~Busy(w, u)'
      /\ \A v \in Workers \ {w} : /\ active'[v] = active[v]
                                  /\ thr'[v] = thr[v]
      /\ active'[w] = {}
  BY <1>1 DEF TypeOK, Busy, Idle
<1>3. ActiveIsBusy'
  BY <1>2 DEF PoolInv, ActiveIsBusy, Busy
<1>4. PerProcessExclusion'
  BY <1>2 DEF PoolInv, PerProcessExclusion, Busy
<1> QED BY <1>3, <1>4 DEF PoolInv

\* The pools stay sound: no thread of a process executes, starts or ends a job
\* another thread of it holds, and no capacity leaks, through every claim,
\* duplicate submission, failed commit, user request and crash.
THEOREM PoolCorrect == Spec => [](PerProcessExclusion /\ ActiveIsBusy)
<1>1. TypeOK /\ PoolInv /\ [Next]_vars => PoolInv'
  <2> SUFFICES ASSUME TypeOK, PoolInv, [Next]_vars PROVE PoolInv'
    OBVIOUS
  <2>1. CASE UNCHANGED vars
    BY <2>1, PoolUntouched DEF vars, procs
  <2>2. ASSUME NEW w \in Workers, WorkerStep(w) PROVE PoolInv'
    BY <2>2, PoolUntouched DEF WorkerStep, Poll, Claim, Submit
  <2>3. ASSUME NEW w \in Workers, CrashRestart(w) PROVE PoolInv'
    BY <2>3, PoolCrash
  <2>4. ASSUME NEW w \in Workers, NEW t \in Threads, Take(w, t) PROVE PoolInv'
    BY <2>4, PoolTake
  <2>5. ASSUME NEW w \in Workers, NEW t \in Threads, Start(w, t) PROVE PoolInv'
    BY <2>5, PoolMovesOn DEF Start, Busy
  <2>6. ASSUME NEW w \in Workers, NEW t \in Threads, Finish(w, t) PROVE PoolInv'
    BY <2>6, PoolMovesOn DEF Finish, Busy
  <2>7. ASSUME NEW w \in Workers, NEW t \in Threads, Abort(w, t) PROVE PoolInv'
    BY <2>7, PoolMovesOn DEF Abort, Busy
  <2>8. ASSUME NEW w \in Workers, NEW t \in Threads, Leave(w, t) PROVE PoolInv'
    BY <2>8, PoolLeave
  <2>9. ASSUME NEW j \in Jobs,
               Enqueue(j) \/ Resume(j) \/ Stop(j) \/ Purge(j) \/ LeaseExpires(j)
        PROVE  PoolInv'
    BY <2>9, PoolUntouched
    DEF Enqueue, Resume, Stop, Purge, LeaseExpires, procs
  <2> QED
    BY <2>1, <2>2, <2>3, <2>4, <2>5, <2>6, <2>7, <2>8, <2>9
    DEF Next, ThreadStep
<1>2. PoolInv => PerProcessExclusion /\ ActiveIsBusy
  BY DEF PoolInv
<1> QED BY <1>1, <1>2, PoolInitially, TypeCorrect, PTL DEF Spec

\* With one worker process (docker-compose.yml runs one app container) a job
\* never executes twice at once, however many threads the pool has: what the
\* row lock does not give, _active_jobs does.
THEOREM OneProcessExclusion ==
  ASSUME \A w, v \in Workers : w = v
  PROVE  Spec => []MutualExclusion
<1>1. PerProcessExclusion => MutualExclusion
  BY DEF PerProcessExclusion, MutualExclusion, Executes, Busy
<1> QED BY <1>1, PoolCorrect, PTL

-----------------------------------------------------------------------------
(* One process with one thread and no submission but one at a time.         *)

\* What a poll has claimed or is about to, and has not submitted.
Claimed(w) == poll[w].running \cup poll[w].pending

\* A claim is of one job, and of none while a job waits for the thread or is in
\* it: a run's own job is never submitted again beside it.
Submits(w) ==
  /\ poll[w].pc = "idle" => Claimed(w) = {}
  /\ poll[w].running = {} \/ poll[w].pending = {}
  /\ \A j, k \in Claimed(w) : j = k
  /\ Claimed(w) # {} => queue[w] = <<>> /\ \A t \in Threads : ~Busy(w, t)
  /\ Len(queue[w]) <= 1
  /\ queue[w] # <<>> => \A t \in Threads : ~Busy(w, t)

\* Files that were added to a run's job have left its row pending.
Serves(w, t) ==
  LET j == thr[w][t].job IN
  /\ Busy(w, t) => j \in Jobs
  /\ thr[w][t].pc = "run" /\ late[j] => status[j] = "pending"

OneAtATime == \A w \in Workers : Submits(w) /\ \A t \in Threads : Serves(w, t)

\* The defaults: one process with one thread, and polls that find the pool's
\* queue empty.
OneOfEach ==
  /\ \A w, v \in Workers : w = v
  /\ \A t, u \in Threads : t = u
  /\ MaxQueue = 1

ServiceInv == TypeOK /\ PoolInv /\ OneAtATime

LEMMA JobsAreFinite ==
  ASSUME NEW S, S \subseteq Jobs
  PROVE  IsFiniteSet(S) /\ Cardinality(S) \in Nat /\ (Cardinality(S) = 0 <=> S = {})
<1>1. IsFiniteSet(Jobs)
  BY ConstantsAssumption, FS_Interval DEF Jobs
<1>2. IsFiniteSet(S)
  BY <1>1, FS_Subset
<1> QED BY <1>2, FS_CardinalityType, FS_EmptySet

\* The n oldest of some jobs are at most one when n is.
LEMMA OldestIsOne ==
  ASSUME NEW S, S \subseteq Jobs, NEW n \in Int, n <= 1,
         NEW j \in Oldest(S, n), NEW k \in Oldest(S, n)
  PROVE  j = k /\ n = 1
<1>1. ASSUME NEW i \in Oldest(S, n)
      PROVE  i \in Int /\ i \in S /\ {x \in S : x < i} = {} /\ n = 1
  <2>1. i \in S /\ Cardinality({x \in S : x < i}) < n
    BY <1>1 DEF Oldest
  <2>2. /\ Cardinality({x \in S : x < i}) \in Nat
        /\ Cardinality({x \in S : x < i}) = 0 <=> {x \in S : x < i} = {}
    <3>1. {x \in S : x < i} \subseteq Jobs
      OBVIOUS
    <3> QED BY <3>1, JobsAreFinite
  <2> QED BY <2>1, <2>2 DEF Jobs
<1>2. ~(j < k) /\ ~(k < j)
  BY <1>1
<1> QED BY <1>1, <1>2

LEMMA OneThreadCapacity ==
  ASSUME TypeOK, PoolInv, \A t, u \in Threads : t = u, NEW w \in Workers, Capacity(w) > 0
  PROVE  Capacity(w) = 1 /\ \A t \in Threads : ~Busy(w, t)
<1>1. Cardinality(active[w]) \in Nat /\ (Cardinality(active[w]) = 0 <=> active[w] = {})
  BY JobsAreFinite DEF TypeOK
<1>2. PoolSize = 1
  <2>1. PICK t \in Threads : Threads = {t}
    BY ConstantsAssumption
  <2> QED BY <2>1, FS_Singleton DEF PoolSize
<1>3. Capacity(w) = 1 /\ active[w] = {}
  BY <1>1, <1>2 DEF Capacity
<1>4. ASSUME NEW t \in Threads, Busy(w, t) PROVE thr[w][t].job \in active[w]
  BY <1>4 DEF PoolInv, ActiveIsBusy
<1> QED BY <1>3, <1>4

\* A thread that moves on keeps what the other processes, threads and jobs do.
LEMMA Moves ==
  ASSUME TypeOK, NEW w \in Workers, NEW t \in Threads, Busy(w, t),
         NEW p \in {"idle", "load", "run", "exit"}, thr' = [thr EXCEPT ![w][t].pc = p]
  PROVE  /\ thr'[w][t].pc = p /\ thr'[w][t].job = thr[w][t].job
         /\ \A v \in Workers, u \in Threads : v # w \/ u # t => thr'[v][u] = thr[v][u]
         /\ \A v \in Workers, u \in Threads : Busy(v, u)' => Busy(v, u)
BY DEF TypeOK, ThreadStates, Busy

LEMMA SubmitsStays ==
  ASSUME NEW w \in Workers, Submits(w), poll'[w] = poll[w], queue'[w] = queue[w],
         \A t \in Threads : Busy(w, t)' => Busy(w, t)
  PROVE  Submits(w)'
BY DEF Submits, Claimed

LEMMA ServesStays ==
  ASSUME NEW w \in Workers, NEW t \in Threads, Serves(w, t), thr'[w][t] = thr[w][t],
         LET j == thr[w][t].job IN
           thr[w][t].pc = "run" /\ late'[j] => status'[j] = "pending"
             \/ (late[j] /\ status'[j] = status[j])
  PROVE  Serves(w, t)'
BY DEF Serves, Busy

LEMMA ServiceInvInitially == Init => OneAtATime
BY DEF Init, OneAtATime, Submits, Serves, Claimed, NoClaim, Idle, Busy

LEMMA PollKeepsOne ==
  ASSUME ServiceInv, OneOfEach, NEW w \in Workers, Poll(w)
  PROVE  OneAtATime'
<1> DEFINE running == Oldest(Reclaimable(w), Capacity(w))
           pending == Oldest(Claimable, Capacity(w) - Cardinality(running))
           foreign == {j \in running \cup pending : owner[j] # w}
<1>1. /\ queue[w] = <<>> /\ Capacity(w) = 1
      /\ \A t \in Threads : ~Busy(w, t)
  <2>1. queue[w] \in Seq(Jobs) /\ Len(queue[w]) < 1 /\ Capacity(w) > 0
    BY DEF Poll, ServiceInv, TypeOK, OneOfEach
  <2>2. queue[w] = <<>>
    BY <2>1
  <2> QED BY <2>1, <2>2, OneThreadCapacity DEF ServiceInv, OneOfEach
<1>2. running \subseteq Jobs /\ pending \subseteq Jobs
  BY DEF Oldest, Reclaimable, Claimable
<1>3. Cardinality(running) \in Nat /\ (Cardinality(running) = 0 <=> running = {})
  BY <1>2, JobsAreFinite
<1>4. running = {} \/ pending = {}
  <2> SUFFICES ASSUME running # {}, NEW j \in pending PROVE FALSE
    OBVIOUS
  <2>1. Cardinality(running) > 0 /\ Capacity(w) - Cardinality(running) \in Int
        /\ Capacity(w) - Cardinality(running) <= 0
    BY <1>1, <1>3
  <2>2. Claimable \subseteq Jobs
    BY DEF Claimable
  <2> QED BY <2>1, <2>2, OldestIsOne
<1>5. \A j, k \in running \cup pending : j = k
  <2>1. Reclaimable(w) \subseteq Jobs /\ Claimable \subseteq Jobs
    BY DEF Reclaimable, Claimable
  <2>2. \A j, k \in running : j = k
    BY <1>1, <2>1, OldestIsOne
  <2>3. Capacity(w) - Cardinality(running) \in Int /\ Capacity(w) - Cardinality(running) <= 1
    BY <1>1, <1>3
  <2>4. \A j, k \in pending : j = k
    BY <2>3, <2>1, OldestIsOne
  <2> QED BY <1>4, <2>2, <2>4
<1>6. /\ poll' = [poll EXCEPT ![w] = [pc |-> "claim", running |-> running,
                                     pending |-> pending, foreign |-> foreign]]
      /\ UNCHANGED <<rows, queue, thr>>
  BY DEF Poll
<1> HIDE DEF running, pending, foreign
<1>7. /\ poll'[w].pc = "claim" /\ poll'[w].running = running /\ poll'[w].pending = pending
      /\ \A v \in Workers : v # w => poll'[v] = poll[v]
  BY <1>6 DEF ServiceInv, TypeOK
<1>8. Submits(w)'
  BY <1>1, <1>4, <1>5, <1>6, <1>7 DEF Submits, Claimed, Busy
<1>9. ASSUME NEW v \in Workers, v # w PROVE Submits(v)'
  BY <1>9, <1>6, <1>7, SubmitsStays DEF ServiceInv, OneAtATime, Busy
<1>10. ASSUME NEW v \in Workers, NEW t \in Threads PROVE Serves(v, t)'
  BY <1>6 DEF ServiceInv, OneAtATime, Serves, Busy, rows
<1> QED BY <1>8, <1>9, <1>10 DEF OneAtATime

LEMMA ClaimKeepsOne ==
  ASSUME ServiceInv, OneOfEach, NEW w \in Workers, Claim(w)
  PROVE  OneAtATime'
<1>1. /\ queue' = queue /\ thr' = thr /\ late' = late
      /\ \A v \in Workers : v # w => poll'[v] = poll[v]
  BY DEF Claim, ServiceInv, TypeOK
<1>2. Submits(w)'
  <2>1. poll'[w] = NoClaim \/ (poll'[w].pc = "submit" /\ poll'[w].running = poll[w].running
                             /\ poll'[w].pending = poll[w].pending)
    BY DEF Claim, ServiceInv, TypeOK, PollStates
  <2>2. Submits(w)
    BY DEF ServiceInv, OneAtATime
  <2> QED BY <1>1, <2>1, <2>2 DEF Submits, Claimed, Busy, NoClaim
<1>3. ASSUME NEW v \in Workers, v # w PROVE Submits(v)'
  BY <1>1, <1>3, SubmitsStays DEF ServiceInv, OneAtATime, Busy
<1>4. ASSUME NEW t \in Threads PROVE Serves(w, t)'
  <2>1. Submits(w) /\ Serves(w, t)
    BY DEF ServiceInv, OneAtATime
  <2>2. CASE Busy(w, t)
    <3>1. Claimed(w) = {}
      BY <2>1, <2>2 DEF Submits
    <3>2. \A j \in Jobs : status'[j] = status[j]
      BY <3>1 DEF Claim, Claimed, rows, ServiceInv, TypeOK
    <3> QED BY <1>1, <2>1, <2>2, <3>2 DEF Serves, Busy
  <2>3. CASE ~Busy(w, t)
    BY <1>1, <2>3 DEF Serves, Busy
  <2> QED BY <2>2, <2>3
<1> QED BY <1>2, <1>3, <1>4 DEF OneAtATime, OneOfEach

LEMMA SubmitKeepsOne ==
  ASSUME ServiceInv, OneOfEach, NEW w \in Workers, Submit(w)
  PROVE  OneAtATime'
<1> DEFINE left == IF poll[w].running # {} THEN poll[w].running ELSE poll[w].pending
<1>1. PICK j \in Oldest(left, 1) :
        LET running == poll[w].running \ {j}
            pending == IF poll[w].running # {} THEN poll[w].pending
                                               ELSE poll[w].pending \ {j}
        IN /\ queue' = [queue EXCEPT ![w] = Append(@, j)]
           /\ poll' = [poll EXCEPT ![w] = IF running \cup pending = {} THEN NoClaim
                                         ELSE [@ EXCEPT !.running = running,
                                                        !.pending = pending]]
  BY DEF Submit
<1>2. /\ Submits(w) /\ queue[w] \in Seq(Jobs)
      /\ poll[w].running \subseteq Jobs /\ poll[w].pending \subseteq Jobs
  BY DEF ServiceInv, OneAtATime, TypeOK, PollStates
<1>3. j \in left /\ j \in Claimed(w) /\ j \in Jobs
  BY <1>2 DEF Oldest, Claimed
<1>4. /\ Claimed(w) = {j} /\ queue[w] = <<>> /\ \A t \in Threads : ~Busy(w, t)
      /\ poll[w].running = {} \/ poll[w].pending = {}
  BY <1>2, <1>3 DEF Submits
<1>5. queue'[w] = <<j>> /\ poll'[w] = NoClaim
  BY <1>1, <1>4 DEF Claimed, ServiceInv, TypeOK
<1>6. UNCHANGED <<rows, thr>> /\ Len(<<j>>) = 1
  BY DEF Submit
<1>7. Submits(w)'
  BY <1>4, <1>5, <1>6 DEF Submits, Claimed, NoClaim, Busy
<1>8. ASSUME NEW t \in Threads PROVE Serves(w, t)'
  BY <1>6 DEF Serves, Busy, ServiceInv, OneAtATime, rows
<1> QED BY <1>7, <1>8 DEF OneAtATime, OneOfEach

LEMMA TakeKeepsOne ==
  ASSUME ServiceInv, OneOfEach, NEW w \in Workers, NEW t \in Threads, Take(w, t)
  PROVE  OneAtATime'
<1>1. Submits(w) /\ queue[w] \in Seq(Jobs) /\ queue[w] # <<>> /\ Len(queue[w]) <= 1
  BY DEF ServiceInv, OneAtATime, TypeOK, Submits, Take
<1>2. Claimed(w) = {} /\ Tail(queue[w]) = <<>> /\ Head(queue[w]) \in Jobs
  BY <1>1 DEF Submits
<1>3. queue'[w] = <<>> /\ poll'[w] = poll[w] /\ UNCHANGED rows
  BY <1>2 DEF Take, ServiceInv, TypeOK
<1>4. Submits(w)'
  BY <1>1, <1>2, <1>3 DEF Submits, Claimed
<1>5. thr'[w][t] = thr[w][t] \/ thr'[w][t] = [pc |-> "load", job |-> Head(queue[w])]
  BY DEF Take, ServiceInv, TypeOK
<1>6. Serves(w, t)'
  BY <1>2, <1>3, <1>5 DEF Serves, Busy, ServiceInv, OneAtATime, rows
<1> QED BY <1>4, <1>6 DEF OneAtATime, OneOfEach

\* Steps of a thread in process_job: the pool's queue and the polls stay.
LEMMA ThreadKeepsOne ==
  ASSUME ServiceInv, OneOfEach, NEW w \in Workers, NEW t \in Threads,
         Start(w, t) \/ Finish(w, t) \/ Abort(w, t) \/ Leave(w, t)
  PROVE  OneAtATime'
<1> DEFINE j == thr[w][t].job
<1>1. /\ poll' = poll /\ queue' = queue /\ Busy(w, t) /\ Submits(w) /\ Serves(w, t)
      /\ \A u \in Threads : u = t
  BY DEF Start, Finish, Abort, Leave, Busy, ServiceInv, OneAtATime, OneOfEach
<1>2. Submits(w)'
  BY <1>1, SubmitsStays
<1>3. j \in Jobs
  BY <1>1 DEF Serves
<1>4. ASSUME Leave(w, t) PROVE Serves(w, t)'
  BY <1>4 DEF Leave, Serves, Busy, ServiceInv, TypeOK, Idle
<1>5. ASSUME ~Leave(w, t) PROVE Serves(w, t)'
  <2>1. PICK p \in {"run", "exit"} : thr' = [thr EXCEPT ![w][t].pc = p]
    BY <1>5 DEF Start, Finish, Abort
  <2>2. thr'[w][t].pc = p /\ thr'[w][t].job = j
    BY <1>1, <2>1, Moves DEF ServiceInv
  <2>3. p = "run" => ~late'[j]
    <3> HIDE DEF j
    <3>1. thr'[w][t].pc = "run" => Start(w, t) /\ late' = [late EXCEPT ![j] = FALSE]
      BY <1>5, <2>1 DEF Start, Finish, Abort, ServiceInv, TypeOK, ThreadStates, j
    <3> QED BY <1>3, <2>2, <3>1 DEF ServiceInv, TypeOK
  <2>4. Serves(w, t)'
    BY <1>3, <2>2, <2>3 DEF Serves
  <2> QED BY <2>4
<1>6. Serves(w, t)'
  BY <1>4, <1>5
<1> QED BY <1>1, <1>2, <1>6 DEF OneAtATime, OneOfEach

\* Requests, the clock and a crash.
LEMMA EventKeepsOne ==
  ASSUME ServiceInv,
         \/ \E j \in Jobs : Enqueue(j) \/ Resume(j) \/ Stop(j) \/ Purge(j) \/ LeaseExpires(j)
         \/ UNCHANGED vars
  PROVE  OneAtATime'
<1>1. poll' = poll /\ queue' = queue /\ thr' = thr
  BY DEF Enqueue, Resume, Stop, Purge, LeaseExpires, vars, procs
<1>2. ASSUME NEW w \in Workers PROVE Submits(w)'
  BY <1>1, <1>2, SubmitsStays DEF ServiceInv, OneAtATime, Busy
<1>3. ASSUME NEW k \in Jobs
      PROVE  late'[k] /\ (late[k] => status[k] = "pending") => status'[k] = "pending"
  BY DEF Enqueue, Resume, Stop, Purge, LeaseExpires, vars, rows, ServiceInv, TypeOK
<1>4. ASSUME NEW w \in Workers, NEW t \in Threads PROVE Serves(w, t)'
  BY <1>1, <1>3, <1>4 DEF ServiceInv, OneAtATime, Serves, Busy
<1> QED BY <1>2, <1>4 DEF OneAtATime

LEMMA CrashKeepsOne ==
  ASSUME ServiceInv, OneOfEach, NEW w \in Workers, CrashRestart(w)
  PROVE  OneAtATime'
<1>1. poll'[w] = NoClaim /\ queue'[w] = <<>> /\ \A t \in Threads : thr'[w][t] = Idle
  BY DEF CrashRestart, ServiceInv, TypeOK
<1>2. Submits(w)' /\ \A t \in Threads : Serves(w, t)'
  BY <1>1 DEF Submits, Serves, Claimed, NoClaim, Idle, Busy
<1> QED BY <1>2 DEF OneAtATime, OneOfEach

LEMMA ServiceInvStep == OneOfEach /\ ServiceInv /\ [Next]_vars => OneAtATime'
BY PollKeepsOne, ClaimKeepsOne, SubmitKeepsOne, TakeKeepsOne, ThreadKeepsOne,
   EventKeepsOne, CrashKeepsOne DEF Next, WorkerStep, ThreadStep

-----------------------------------------------------------------------------
(* Every step of the queue is a step of the service or a stutter.           *)

Runs == {j \in Jobs : Executing(j)}

LEMMA SameService ==
  ASSUME Owed' = Owed, Runs' = Runs, crashes' = crashes
  PROVE  UNCHANGED Service!vars
BY DEF Service!vars, Runs

\* What changes at most whether one job is owed is a request, a withdrawal or
\* nothing.
LEMMA OneIsAskedOrWithdrawn ==
  ASSUME NEW j \in Jobs, crashes' = crashes, Runs' = Runs,
         \A k \in Jobs \ {j} : k \in Owed' <=> k \in Owed
  PROVE  [Service!Next]_(Service!vars)
<1>0. Owed \subseteq Jobs /\ Owed' \subseteq Jobs
  BY DEF Owed
<1>1. Owed' = Owed \/ Owed' = Owed \cup {j} \/ Owed' = Owed \ {j}
  BY <1>0
<1>2. CASE Owed' = Owed
  BY <1>2, SameService
<1>3. CASE Owed' = Owed \cup {j}
  <2>1. Service!Ask(j)
    BY <1>3 DEF Service!Ask, Runs
  <2> QED BY <2>1 DEF Service!Next
<1>4. CASE Owed' = Owed \ {j}
  <2>1. Service!Withdraw(j)
    BY <1>4 DEF Service!Withdraw, Runs
  <2> QED BY <2>1 DEF Service!Next
<1> QED BY <1>1, <1>2, <1>3, <1>4

\* A job is owed as before when its row and its submissions are.
LEMMA OwedAsBefore ==
  ASSUME NEW k \in Jobs, status'[k] = status[k], Executing(k)' <=> Executing(k),
         status[k] = "failed" /\ ~Executing(k) => (Submitted(k)' <=> Submitted(k))
  PROVE  k \in Owed' <=> k \in Owed
BY DEF Owed

LEMMA ServiceInitially == Init => Service!Init
<1> SUFFICES ASSUME Init PROVE Service!Init
  OBVIOUS
<1>1. Workers = Workers /\ \A k \in Jobs : ~Executing(k) /\ status[k] = "none"
  BY DEF Init, Executing, Executes, Idle
<1>2. Owed = {} /\ Runs = {}
  BY <1>1 DEF Owed, Runs
<1> QED BY <1>2 DEF Init, Service!Init, Runs

LEMMA OwedInAll ==
  ASSUME \A k \in Jobs : k \in Owed' <=> k \in Owed
  PROVE  Owed' = Owed
<1>1. Owed \subseteq Jobs /\ Owed' \subseteq Jobs
  BY DEF Owed
<1> QED BY <1>1

LEMMA SameRuns ==
  ASSUME thr' = thr
  PROVE  Runs' = Runs /\ \A k \in Jobs : Executing(k)' <=> Executing(k)
BY DEF Runs, Executing, Executes

Waits(w, k) == \E i \in 1 .. Len(queue[w]) : queue[w][i] = k
Loads(w, k) == \E t \in Threads : thr[w][t] = [pc |-> "load", job |-> k]

LEMMA SubmittedBy ==
  ASSUME OneOfEach, NEW w \in Workers, NEW k \in Jobs
  PROVE  /\ Submitted(k) <=> k \in Claimed(w) \/ Waits(w, k) \/ Loads(w, k)
         /\ Submitted(k)' <=> k \in Claimed(w)' \/ Waits(w, k)' \/ Loads(w, k)'
BY DEF OneOfEach, Submitted, Claimed, Waits, Loads

\* A poll looks at rows that are pending or running, and those are owed anyway.
LEMMA PollServes ==
  ASSUME ServiceInv, OneOfEach, NEW w \in Workers, Poll(w)
  PROVE  UNCHANGED Service!vars
<1>1. UNCHANGED <<rows, queue, thr, budget>> /\ Claimed(w) = {}
  BY DEF Poll, ServiceInv, OneAtATime, Submits
<1>2. \A k \in Claimed(w)' : status[k] \in {"pending", "running"}
  BY DEF Poll, Claimed, ServiceInv, TypeOK, Oldest, Reclaimable, Claimable
<1>3. ASSUME NEW k \in Jobs PROVE k \in Owed' <=> k \in Owed
  <2>1. /\ status'[k] = status[k] /\ (Executing(k)' <=> Executing(k))
        /\ (Waits(w, k)' <=> Waits(w, k)) /\ (Loads(w, k)' <=> Loads(w, k))
    BY <1>1, SameRuns DEF rows, Waits, Loads
  <2>2. status[k] = "failed" => k \notin Claimed(w)' /\ k \notin Claimed(w)
    BY <1>1, <1>2
  <2> QED BY <2>1, <2>2, SubmittedBy, OwedAsBefore
<1> QED BY <1>1, <1>3, OwedInAll, SameRuns, SameService DEF budget

\* Even a claim that fails, or comes after a stop, changes what one job is owed.
LEMMA ClaimServes ==
  ASSUME ServiceInv, OneOfEach, NEW w \in Workers, Claim(w)
  PROVE  [Service!Next]_(Service!vars)
<1>1. UNCHANGED <<queue, thr, budget>> /\ \A j, k \in Claimed(w) : j = k
  BY DEF Claim, ServiceInv, OneAtATime, Submits
<1>2. Claimed(w) \subseteq Jobs /\ (Claimed(w)' = Claimed(w) \/ Claimed(w)' = {})
  <2>1. poll[w] \in PollStates
    BY DEF ServiceInv, TypeOK
  <2>2. poll'[w] = NoClaim \/ poll'[w] = [poll[w] EXCEPT !.pc = "submit"]
    BY DEF Claim, ServiceInv, TypeOK
  <2> QED BY <2>1, <2>2 DEF Claimed, PollStates, NoClaim
<1>3. ASSUME NEW k \in Jobs, k \notin Claimed(w) PROVE k \in Owed' <=> k \in Owed
  <2>1. status'[k] = status[k]
    BY <1>3 DEF Claim, Claimed, rows, ServiceInv, TypeOK
  <2>2. /\ (Executing(k)' <=> Executing(k))
        /\ (Waits(w, k)' <=> Waits(w, k)) /\ (Loads(w, k)' <=> Loads(w, k))
    BY <1>1, SameRuns DEF Waits, Loads
  <2>3. k \notin Claimed(w)'
    BY <1>2, <1>3
  <2> QED BY <1>3, <2>1, <2>2, <2>3, SubmittedBy, OwedAsBefore
<1>4. crashes' = crashes /\ Runs' = Runs
  BY <1>1, SameRuns DEF budget
<1>5. CASE Claimed(w) = {}
  BY <1>3, <1>4, <1>5, OwedInAll, SameService
<1>6. ASSUME NEW j \in Claimed(w) PROVE [Service!Next]_(Service!vars)
  <2>1. j \in Jobs /\ \A k \in Jobs \ {j} : k \notin Claimed(w)
    BY <1>1, <1>2, <1>6
  <2> QED BY <1>3, <1>4, <2>1, OneIsAskedOrWithdrawn
<1> QED BY <1>5, <1>6

LEMMA SubmitServes ==
  ASSUME ServiceInv, OneOfEach, NEW w \in Workers, Submit(w)
  PROVE  UNCHANGED Service!vars
<1> DEFINE left == IF poll[w].running # {} THEN poll[w].running ELSE poll[w].pending
<1>1. PICK j \in Oldest(left, 1) : queue' = [queue EXCEPT ![w] = Append(@, j)]
  BY DEF Submit
<1>2. /\ poll[w] \in PollStates /\ Submits(w) /\ UNCHANGED <<rows, thr, budget>>
      /\ queue[w] \in Seq(Jobs)
  BY DEF Submit, ServiceInv, OneAtATime, TypeOK
<1>3. j \in Claimed(w) /\ j \in Jobs
  BY <1>2 DEF Oldest, Claimed, PollStates
<1>4. Claimed(w) = {j} /\ queue[w] = <<>>
  BY <1>2, <1>3 DEF Submits
<1>5. queue'[w] = <<j>>
  BY <1>1, <1>4 DEF ServiceInv, TypeOK
<1>6. Claimed(w)' \subseteq Claimed(w)
  BY DEF Submit, Claimed, NoClaim, ServiceInv, TypeOK, PollStates
<1>7. ASSUME NEW k \in Jobs PROVE k \in Owed' <=> k \in Owed
  <2>1. status'[k] = status[k] /\ (Executing(k)' <=> Executing(k)) /\ (Loads(w, k)' <=> Loads(w, k))
    BY <1>2, SameRuns DEF rows, Loads
  <2>2. (Waits(w, k)' <=> k = j) /\ ~Waits(w, k)
    BY <1>4, <1>5 DEF Waits
  <2>3. Submitted(k)' <=> Submitted(k)
    BY <1>4, <1>6, <2>1, <2>2, SubmittedBy
  <2> QED BY <2>1, <2>3, OwedAsBefore
<1> QED BY <1>2, <1>7, OwedInAll, SameRuns, SameService DEF budget

\* A request or the clock writes one row.
LEMMA RowServes ==
  ASSUME NEW j \in Jobs,
         Enqueue(j) \/ Resume(j) \/ Stop(j) \/ Purge(j) \/ LeaseExpires(j), ServiceInv
  PROVE  [Service!Next]_(Service!vars)
<1>1. UNCHANGED procs /\ crashes' = crashes
  BY DEF Enqueue, Resume, Stop, Purge, LeaseExpires, budget
<1>2. \A k \in Jobs \ {j} : status'[k] = status[k]
  BY DEF Enqueue, Resume, Stop, Purge, LeaseExpires, ServiceInv, TypeOK
<1>3. \A k \in Jobs : Submitted(k)' <=> Submitted(k)
  BY <1>1 DEF Submitted, procs
<1>4. Runs' = Runs /\ \A k \in Jobs : Executing(k)' <=> Executing(k)
  BY <1>1, SameRuns DEF procs
<1>5. \A k \in Jobs \ {j} : k \in Owed' <=> k \in Owed
  BY <1>2, <1>3, <1>4, OwedAsBefore
<1> QED BY <1>1, <1>4, <1>5, OneIsAskedOrWithdrawn

\* What one thread executes, and does not.
LEMMA RunsOfOne ==
  ASSUME ServiceInv, ServiceInv', OneOfEach, NEW w \in Workers, NEW t \in Threads
  PROVE  /\ \A k \in Jobs : Executing(k) <=> thr[w][t].pc = "run" /\ thr[w][t].job = k
         /\ \A k \in Jobs : Loads(w, k) <=> thr[w][t].pc = "load" /\ thr[w][t].job = k
         /\ \A k \in Jobs : Executing(k)' <=> thr'[w][t].pc = "run" /\ thr'[w][t].job = k
<1>1. thr[w][t] \in ThreadStates /\ thr'[w][t] \in ThreadStates
  BY DEF ServiceInv, TypeOK
<1>2. ASSUME NEW p \in {"load", "run"}, NEW k \in Jobs
      PROVE  /\ (thr[w][t] = [pc |-> p, job |-> k]) <=> (thr[w][t].pc = p /\ thr[w][t].job = k)
             /\ (thr'[w][t] = [pc |-> p, job |-> k]) <=> (thr'[w][t].pc = p /\ thr'[w][t].job = k)
  BY <1>1 DEF ThreadStates
<1>3. /\ \A v \in Workers : v = w
      /\ \A u \in Threads : u = t
  BY DEF OneOfEach
<1>4. ASSUME NEW k \in Jobs
      PROVE  /\ Executing(k) <=> thr[w][t] = [pc |-> "run", job |-> k]
             /\ Executing(k)' <=> thr'[w][t] = [pc |-> "run", job |-> k]
             /\ Loads(w, k) <=> thr[w][t] = [pc |-> "load", job |-> k]
  <2>1. Executing(k) <=> thr[w][t] = [pc |-> "run", job |-> k]
    BY <1>3 DEF Executing, Executes
  <2>2. Executing(k)' <=> thr'[w][t] = [pc |-> "run", job |-> k]
    BY <1>3 DEF Executing, Executes
  <2>3. Loads(w, k) <=> thr[w][t] = [pc |-> "load", job |-> k]
    BY <1>3 DEF Loads
  <2> QED BY <2>1, <2>2, <2>3
<1> QED BY <1>2, <1>4

LEMMA TakeServes ==
  ASSUME ServiceInv, ServiceInv', OneOfEach, NEW w \in Workers, NEW t \in Threads, Take(w, t)
  PROVE  [Service!Next]_(Service!vars)
<1> DEFINE j == Head(queue[w])
<1>1. queue[w] \in Seq(Jobs) /\ queue[w] # <<>> /\ Len(queue[w]) <= 1
  BY DEF ServiceInv, OneAtATime, TypeOK, Submits, Take
<1>2. queue[w] = <<j>> /\ Tail(queue[w]) = <<>> /\ j \in Jobs
  BY <1>1
<1> HIDE DEF j
<1>3. /\ queue'[w] = <<>> /\ UNCHANGED <<rows, poll, budget>> /\ thr[w][t] = Idle
      /\ thr'[w][t] = Idle \/ thr'[w][t] = [pc |-> "load", job |-> j]
  BY <1>2 DEF Take, ServiceInv, TypeOK, j
<1>4. \A k \in Jobs : ~Executing(k) /\ ~Executing(k)'
  BY <1>3, RunsOfOne DEF OneOfEach, Executing, Executes, Idle
<1>5. ASSUME NEW k \in Jobs, k # j PROVE Submitted(k)' <=> Submitted(k)
  <2>1. ~Waits(w, k) /\ ~Waits(w, k)'
    BY <1>2, <1>3, <1>5 DEF Waits
  <2>2. ~Loads(w, k) /\ ~Loads(w, k)'
    BY <1>3, <1>5 DEF Loads, Idle, OneOfEach
  <2>3. Claimed(w)' = Claimed(w)
    BY <1>3 DEF Claimed
  <2> QED BY <2>1, <2>2, <2>3, SubmittedBy
<1>6. \A k \in Jobs \ {j} : k \in Owed' <=> k \in Owed
  BY <1>3, <1>4, <1>5, OwedAsBefore DEF rows
<1>7. Runs' = Runs
  BY <1>4 DEF Runs
<1> QED BY <1>2, <1>3, <1>6, <1>7, OneIsAskedOrWithdrawn DEF budget

\* A step of the thread in process_job changes nothing for other jobs.
LEMMA OthersAreOwed ==
  ASSUME ServiceInv, OneOfEach, NEW w \in Workers, NEW t \in Threads, Busy(w, t),
         thr'[w][t].job = thr[w][t].job \/ thr'[w][t] = Idle,
         poll' = poll, queue' = queue,
         NEW k \in Jobs, k # thr[w][t].job, status'[k] = status[k]
  PROVE  /\ ~Executing(k) /\ ~Executing(k)'
         /\ k \in Owed' <=> k \in Owed
<1>1. ~Executing(k) /\ ~Executing(k)'
  BY DEF OneOfEach, Executing, Executes, Idle
<1>2. ~Loads(w, k) /\ ~Loads(w, k)'
  BY DEF OneOfEach, Loads, Idle
<1>3. (Waits(w, k)' <=> Waits(w, k)) /\ Claimed(w)' = Claimed(w)
  BY DEF Waits, Claimed
<1>4. Submitted(k)' <=> Submitted(k)
  BY <1>2, <1>3, SubmittedBy
<1> QED BY <1>1, <1>4, OwedAsBefore

\* While its thread has a job, nothing else of the process has.
LEMMA BusyHasTheOnly ==
  ASSUME ServiceInv, NEW w \in Workers, NEW t \in Threads, Busy(w, t)
  PROVE  Claimed(w) = {} /\ queue[w] = <<>> /\ \A k : ~Waits(w, k)
<1>1. queue[w] \in Seq(Jobs) /\ Claimed(w) = {} /\ queue[w] = <<>>
  BY DEF ServiceInv, TypeOK, OneAtATime, Submits
<1> QED BY <1>1 DEF Waits

LEMMA StartServes ==
  ASSUME ServiceInv, ServiceInv', OneOfEach, NEW w \in Workers, NEW t \in Threads, Start(w, t)
  PROVE  [Service!Next]_(Service!vars)
<1>1. Busy(w, t) /\ thr[w][t].pc = "load" /\ UNCHANGED <<poll, queue, budget>>
  BY DEF Start, Busy
<1>2. PICK j \in Jobs : j = thr[w][t].job
  BY <1>1 DEF ServiceInv, OneAtATime, Serves
<1>3. PICK p \in {"run", "exit"} : thr' = [thr EXCEPT ![w][t].pc = p]
  BY DEF Start
<1>4. thr'[w][t].pc = p /\ thr'[w][t].job = j
  BY <1>1, <1>2, <1>3, Moves DEF ServiceInv
<1>5. \A k \in Jobs \ {j} : status'[k] = status[k]
  BY <1>2 DEF Start, ServiceInv, TypeOK, rows
<1>6. \A k \in Jobs \ {j} : /\ ~Executing(k) /\ ~Executing(k)'
                            /\ k \in Owed' <=> k \in Owed
  BY <1>1, <1>4, <1>5, <1>2, OthersAreOwed
<1>7. ~Executing(j) /\ (Executing(j)' <=> p = "run") /\ Loads(w, j)
  <2>1. Executing(j)' <=> thr'[w][t].pc = "run" /\ thr'[w][t].job = j
    BY <1>2, RunsOfOne
  <2> QED BY <1>1, <1>2, <1>4, <2>1, RunsOfOne
<1>8. CASE p = "exit"
  <2>1. Runs' = Runs
    BY <1>6, <1>7, <1>8 DEF Runs
  <2> QED BY <1>1, <1>2, <1>6, <2>1, OneIsAskedOrWithdrawn DEF budget
<1>9. CASE p = "run"
  <2>1. status[j] \in {"running", "pending", "failed"} /\ status'[j] = "running"
    <3>1. thr' # [thr EXCEPT ![w][t].pc = "exit"]
      BY <1>4, <1>9 DEF ServiceInv, TypeOK, ThreadStates
    <3> QED BY <1>2, <3>1 DEF Start, ServiceInv, TypeOK
  <2>2. Submitted(j)
    BY <1>2, <1>7, SubmittedBy
  <2>3. j \in Owed /\ j \notin Owed'
    BY <1>2, <1>7, <1>9, <2>1, <2>2 DEF Owed
  <2>4. Owed' = Owed \ {j}
    BY <1>6, <2>3 DEF Owed
  <2>5. Runs' = Runs \cup {j} /\ j \notin Runs
    BY <1>2, <1>6, <1>7, <1>9 DEF Runs
  <2>6. Service!Begin(j)
    BY <1>1, <2>3, <2>4, <2>5 DEF Service!Begin, Runs, budget
  <2> QED BY <1>2, <2>6 DEF Service!Next
<1> QED BY <1>8, <1>9

\* A run's end owes no new run: its job waits nowhere else, and when files came
\* late its row was pending all along.
LEMMA EndServes ==
  ASSUME ServiceInv, ServiceInv', OneOfEach, NEW w \in Workers, NEW t \in Threads,
         Finish(w, t) \/ Abort(w, t)
  PROVE  [Service!Next]_(Service!vars)
<1>1. Busy(w, t) /\ thr[w][t].pc = "run" /\ UNCHANGED <<poll, queue>>
  BY DEF Finish, Abort, Busy
<1>2. PICK j \in Jobs : j = thr[w][t].job
  BY <1>1 DEF ServiceInv, OneAtATime, Serves
<1>3. thr' = [thr EXCEPT ![w][t].pc = "exit"]
  BY DEF Finish, Abort
<1>4. thr'[w][t].pc = "exit" /\ thr'[w][t].job = j
  BY <1>1, <1>2, <1>3, Moves DEF ServiceInv
<1>5. \A k \in Jobs \ {j} : status'[k] = status[k]
  BY <1>2 DEF Finish, Abort, ServiceInv, TypeOK, rows
<1>6. \A k \in Jobs \ {j} : /\ ~Executing(k) /\ ~Executing(k)'
                            /\ k \in Owed' <=> k \in Owed
  BY <1>1, <1>2, <1>4, <1>5, OthersAreOwed
<1>7. Executing(j) /\ ~Executing(j)' /\ ~Submitted(j)'
  <2>1. Executing(j) /\ ~Executing(j)'
    BY <1>1, <1>2, <1>4, RunsOfOne
  <2>2. Busy(w, t)'
    BY <1>4 DEF Busy
  <2>3. Claimed(w)' = {} /\ ~Waits(w, j)'
    BY <1>1, BusyHasTheOnly DEF Claimed, Waits
  <2>4. ~Loads(w, j)'
    BY <1>4 DEF Loads, OneOfEach
  <2> QED BY <2>1, <2>3, <2>4, SubmittedBy
<1>8. Runs' = Runs \ {j} /\ j \in Runs
  BY <1>2, <1>6, <1>7 DEF Runs
<1>9. Owed \subseteq Jobs /\ Owed' \subseteq Jobs
  BY DEF Owed
<1>10. CASE Finish(w, t)
  <2>1. j \in Owed' => j \in Owed
    <3>1. status'[j] # status[j] => status'[j] \in {"completed", "failed"} \/ late[j]
      BY <1>2, <1>10 DEF Finish, ServiceInv, TypeOK, rows
    <3>2. status'[j] = "running" => status[j] = "running" /\ status[j] = "deleted"
      BY <1>2, <1>10 DEF Finish, ServiceInv, TypeOK, rows
    <3>3. late[j] => status[j] = "pending"
      BY <1>1, <1>2 DEF ServiceInv, OneAtATime, Serves
    <3> QED BY <1>2, <1>7, <3>1, <3>2, <3>3 DEF Owed
  <2>2. Owed' \in {Owed, Owed \ {j}}
    BY <1>6, <1>9, <2>1
  <2>3. Service!End(j)
    BY <1>8, <1>10, <2>2 DEF Service!End, Runs, Finish, budget
  <2> QED BY <1>2, <2>3 DEF Service!Next
<1>11. CASE Abort(w, t)
  <2>1. Owed' \subseteq Owed \cup {j}
    BY <1>6, <1>9
  <2>2. Service!Break({j})
    BY <1>8, <1>11, <2>1 DEF Service!Break, Runs, Abort
  <2> QED BY <1>2, <2>2 DEF Service!Next
<1> QED BY <1>10, <1>11

LEMMA LeaveServes ==
  ASSUME ServiceInv, ServiceInv', OneOfEach, NEW w \in Workers, NEW t \in Threads, Leave(w, t)
  PROVE  UNCHANGED Service!vars
<1>1. thr[w][t].pc = "exit" /\ thr'[w][t] = Idle /\ UNCHANGED <<rows, poll, queue, budget>>
  BY DEF Leave, ServiceInv, TypeOK
<1>2. ASSUME NEW k \in Jobs
      PROVE  ~Executing(k) /\ ~Executing(k)' /\ (Submitted(k)' <=> Submitted(k))
  <2>1. ~Executing(k) /\ ~Executing(k)' /\ ~Loads(w, k) /\ ~Loads(w, k)'
    BY <1>1 DEF OneOfEach, Executing, Executes, Loads, Idle
  <2>2. (Waits(w, k)' <=> Waits(w, k)) /\ Claimed(w)' = Claimed(w)
    BY <1>1 DEF Waits, Claimed
  <2> QED BY <2>1, <2>2, SubmittedBy
<1>3. \A k \in Jobs : k \in Owed' <=> k \in Owed
  BY <1>1, <1>2, OwedAsBefore DEF rows
<1>4. Runs' = Runs
  BY <1>2 DEF Runs
<1> QED BY <1>1, <1>3, <1>4, OwedInAll, SameService DEF budget

LEMMA CrashServes ==
  ASSUME ServiceInv, ServiceInv', OneOfEach, NEW w \in Workers, CrashRestart(w)
  PROVE  [Service!Next]_(Service!vars)
<1>1. /\ poll'[w] = NoClaim /\ queue'[w] = <<>> /\ \A t \in Threads : thr'[w][t] = Idle
      /\ status' = status /\ crashes' = crashes + 1
  BY DEF CrashRestart, ServiceInv, TypeOK
<1>2. ASSUME NEW k \in Jobs PROVE ~Executing(k)' /\ ~Submitted(k)'
  <2>1. ~Executing(k)' /\ ~Loads(w, k)' /\ ~Waits(w, k)' /\ Claimed(w)' = {}
    BY <1>1 DEF OneOfEach, Executing, Executes, Loads, Waits, Claimed, NoClaim, Idle
  <2> QED BY <2>1, SubmittedBy
<1>3. Runs' = Runs \ Runs /\ Runs \subseteq Jobs
  BY <1>2 DEF Runs
<1>4. Owed' \subseteq Owed \cup Runs
  BY <1>1, <1>2 DEF Owed, Runs
<1>5. Service!Break(Runs)
  BY <1>1, <1>3, <1>4 DEF Service!Break, Runs
<1> QED BY <1>3, <1>5 DEF Service!Next

\* With the defaults of job_worker.py the queue keeps what JobService promises,
\* for any number of jobs, requests, stops and crashes: a run begins only on a
\* job that is owed one, and its end owes no new one.
THEOREM OneThreadServes ==
  ASSUME OneOfEach
  PROVE  Spec => ImplementsJobService
<1>1. TypeOK /\ PoolInv /\ OneAtATime /\ [Next]_vars => OneAtATime'
  BY ServiceInvStep DEF ServiceInv
<1>2. ServiceInv /\ ServiceInv' /\ [Next]_vars => [Service!Next]_(Service!vars)
  <2> SUFFICES ASSUME ServiceInv, ServiceInv', [Next]_vars PROVE [Service!Next]_(Service!vars)
    OBVIOUS
  <2>1. CASE UNCHANGED vars
    BY <2>1 DEF vars, rows, procs, budget, Service!vars, Owed, Submitted, Executing, Executes
  <2>2. CASE Next
    BY <2>2, PollServes, ClaimServes, SubmitServes, TakeServes, StartServes, EndServes,
       LeaveServes, CrashServes, RowServes DEF Next, WorkerStep, ThreadStep
  <2> QED BY <2>1, <2>2
<1>3. Init => Service!Init
  BY ServiceInitially
<1>4. Spec => []ServiceInv
  <2>1. Spec => []TypeOK
    BY TypeCorrect
  <2>2. Spec => []PoolInv
    BY PoolCorrect DEF PoolInv
  <2>3. Init => OneAtATime
    BY ServiceInvInitially
  <2> QED BY <1>1, <2>1, <2>2, <2>3, PTL DEF Spec, ServiceInv
<1> QED BY <1>2, <1>3, <1>4, PTL DEF Spec, ImplementsJobService, Service!Spec
=============================================================================
