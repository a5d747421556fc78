-------------------------- MODULE BulkUploadProofs --------------------------
(***************************************************************************)
(* Proofs about BulkUpload, for any files, chunks, attempts and jobs: the  *)
(* types; and, with the one thread that JOB_WORKER_THREADS defaults to,    *)
(* that a completed file's deck holds its own cards and is left alone,     *)
(* that a superseded attempt is over, and that the upload implements       *)
(* FileService.                                                            *)
(*                                                                         *)
(* The invariant of the first, Base, counts attempts: a file has one row   *)
(* per retry, numbered in order.  PureInv adds what one thread makes true: *)
(* the file a run is filling is not completed, is on its list once, and    *)
(* its deck has only the cards this run has written.  OpenInv adds who     *)
(* holds the attempts that are open, WaitInv that what a run has not begun *)
(* waits or was canceled, which is what lets FileService's Begin follow.   *)
(***************************************************************************)
EXTENDS BulkUploadRefinement, FiniteSetTheorems, SequenceTheorems, TLAPS

-----------------------------------------------------------------------------
(* Numbers of sets of numbers: the place of a member in the order.          *)

Rank(S, a) == Cardinality({b \in S : b <= a})

LEMMA RankFacts ==
  ASSUME NEW S, IsFiniteSet(S), S \subseteq Nat
  PROVE  /\ Cardinality(S) \in Nat
         /\ \A a \in S : Rank(S, a) \in 1 .. Cardinality(S)
         /\ \A a, b \in S : a < b => Rank(S, a) < Rank(S, b)
<1>1. Cardinality(S) \in Nat
  BY FS_CardinalityType
<1>2. ASSUME NEW a
      PROVE  /\ IsFiniteSet({x \in S : x <= a})
             /\ Rank(S, a) \in Nat /\ Rank(S, a) <= Cardinality(S)
  <2>1. {x \in S : x <= a} \in SUBSET S
    OBVIOUS
  <2>2. /\ IsFiniteSet({x \in S : x <= a})
        /\ Cardinality({x \in S : x <= a}) <= Cardinality(S)
    BY <2>1, FS_Subset
  <2> QED BY <2>2, FS_CardinalityType DEF Rank
<1>3. ASSUME NEW a \in S PROVE Rank(S, a) # 0
  <2>1. a \in {x \in S : x <= a}
    OBVIOUS
  <2> QED BY <2>1, <1>2, FS_EmptySet DEF Rank
<1>4. ASSUME NEW a \in S, NEW b \in S, a < b PROVE Rank(S, a) < Rank(S, b)
  <2>0. a \in Nat /\ b \in Nat /\ \A x \in S : x \in Nat
    OBVIOUS
  <2>1. /\ \A x \in S : x <= a => x <= b
        /\ b <= b /\ ~(b <= a)
    BY <1>4, <2>0
  <2>2. /\ {x \in S : x <= a} \in SUBSET {x \in S : x <= b}
        /\ b \in {x \in S : x <= b} /\ b \notin {x \in S : x <= a}
    BY <2>1
  <2>3. /\ Rank(S, a) <= Rank(S, b) /\ Rank(S, a) # Rank(S, b)
    BY <2>2, <1>2, FS_Subset DEF Rank
  <2>4. Rank(S, a) \in Nat /\ Rank(S, b) \in Nat
    BY <1>2
  <2> QED BY <2>3, <2>4
<1>5. ASSUME NEW a \in S PROVE Rank(S, a) \in 1 .. Cardinality(S)
  <2>1. /\ Rank(S, a) \in Nat /\ Rank(S, a) <= Cardinality(S)
        /\ Rank(S, a) # 0
    BY <1>2, <1>3
  <2> QED BY <2>1, <1>1
<1> QED BY <1>1, <1>4, <1>5

LEMMA RankIsOnto ==
  ASSUME NEW S, IsFiniteSet(S), S \subseteq Nat, NEW i \in 1 .. Cardinality(S)
  PROVE  \E a \in S : Rank(S, a) = i
<1>1. PICK r : r = [a \in S |-> Rank(S, a)]
  OBVIOUS
<1>2. r \in [S -> 1 .. Cardinality(S)] /\ \A a \in S : r[a] = Rank(S, a)
  BY <1>1, RankFacts
<1>3. ASSUME NEW a \in S, NEW b \in S, a # b PROVE r[a] # r[b]
  <2>1. a \in Nat /\ b \in Nat
    OBVIOUS
  <2>2. a < b \/ b < a
    BY <1>3, <2>1
  <2>3. Rank(S, a) < Rank(S, b) \/ Rank(S, b) < Rank(S, a)
    BY <2>2, RankFacts
  <2> QED BY <2>3, <1>2
<1>4. r \in Injection(S, 1 .. Cardinality(S))
  BY <1>2, <1>3 DEF Injection, IsInjective
<1>5. /\ IsFiniteSet(1 .. Cardinality(S))
      /\ Cardinality(1 .. Cardinality(S)) = Cardinality(S)
  <2>1. Cardinality(S) \in Nat
    BY RankFacts
  <2>2. /\ IsFiniteSet(1 .. Cardinality(S))
        /\ Cardinality(1 .. Cardinality(S))
             = IF 1 > Cardinality(S) THEN 0 ELSE Cardinality(S) - 1 + 1
    BY <2>1, FS_Interval
  <2> QED BY <2>1, <2>2
<1>6. r \in Surjection(S, 1 .. Cardinality(S))
  BY <1>4, <1>5, FS_Injection
<1>7. \A k \in 1 .. Cardinality(S) : \E a \in S : r[a] = k
  BY <1>6 DEF Surjection
<1> QED BY <1>7, <1>2

LEMMA AscendingFacts ==
  ASSUME NEW S, IsFiniteSet(S), S \subseteq Nat
  PROVE  /\ Ascending(S) \in [1 .. Cardinality(S) -> S]
         /\ \A i, k \in 1 .. Cardinality(S) : i < k => Ascending(S)[i] < Ascending(S)[k]
<1>1. PICK s : s = [i \in 1 .. Cardinality(S) |-> CHOOSE a \in S : Rank(S, a) = i]
  OBVIOUS
<1>2. \A i \in 1 .. Cardinality(S) : s[i] \in S /\ Rank(S, s[i]) = i
  BY <1>1, RankIsOnto
<1>3. s \in [1 .. Cardinality(S) -> S]
  BY <1>1, <1>2
<1>4. ASSUME NEW i \in 1 .. Cardinality(S), NEW k \in 1 .. Cardinality(S), i < k
      PROVE  s[i] < s[k]
  <2>1. s[i] \in Nat /\ s[k] \in Nat
    BY <1>2
  <2>2. CASE s[k] < s[i]
    <3>1. Rank(S, s[k]) < Rank(S, s[i])
      BY <2>2, <1>2, RankFacts
    <3> QED BY <3>1, <1>2, <1>4
  <2>3. CASE s[k] = s[i]
    BY <2>3, <1>2, <1>4
  <2> QED BY <2>1, <2>2, <2>3
<1> QED BY <1>3, <1>4 DEF Ascending
-----------------------------------------------------------------------------
(* Types of the rows and of the runs' variables, and what goes with them:    *)
(* attempts are created in order, a file's latest attempt is one of its own, *)
(* and a run's list of attempts is there while the run works on it.          *)

Finals == BulkStatuses \cup JobStatuses \cup {"keep"}

RunRecord == [pc : Places, left : Seq(Attempts), chunk : 0 .. Chunks,
              got : BOOLEAN, final : Seq(Finals)]

Types ==
  /\ bulk \in [status : BulkStatuses, stop : BOOLEAN]
  /\ file \in [Attempts -> Files \cup {0}]
  /\ status \in [Attempts -> AttemptStatuses]
  /\ latest \in [Files -> Attempts]
  /\ deck \in [Files -> SUBSET (Attempts \X Jobs)]
  /\ job \in [Jobs -> [status : JobStatuses, ok : BOOLEAN, bad : BOOLEAN]]
  /\ run \in [Jobs -> RunRecord]
  /\ note \in {"none", "pending", "making", "ready", "failed"}
  /\ request \in [kind : {"none", "stop", "cancel", "resumeFile", "resumeAll"},
                  rows : SUBSET Attempts,
                  status : BulkStatuses \cup {"keep"}, stop : BOOLEAN]
  /\ stops \in 0 .. MaxStops
  /\ crashes \in 0 .. MaxCrashes

Rows ==
  /\ \E n \in Nat : Created = 1 .. n
  /\ \A a \in Attempts : status[a] = "none" <=> file[a] = 0
  /\ \A f \in Files : latest[f] \in Created /\ file[latest[f]] = f

\* Only a cancel holds rows between its two steps.
RequestFits ==
  /\ request.rows \subseteq Created
  /\ request.kind # "cancel" => request.rows = {}
  /\ request.status # "gone"

\* A run in the loop over its files has a current one.
Looping ==
  {"resolve", "next", "start", "title", "check", "write", "done", "ending"}

\* It has written no chunk yet.
Early ==
  {"begin", "select", "reclaim", "reselect", "resolve", "next", "start", "title"}

RunFits(j) ==
  /\ run[j].pc \in Looping => run[j].left # <<>>
  /\ run[j].pc \in Early => run[j].chunk = 0
  /\ run[j].pc \in {"check", "write"} => run[j].chunk < Chunks
  /\ run[j].pc = "commit" => /\ Len(run[j].final) = 2
                             /\ run[j].final[1] \in (BulkStatuses \ {"gone"}) \cup {"keep"}
                             /\ run[j].final[2] \in JobStatuses \cup {"keep"}
  /\ run[j].pc = "halt" => run[j].final[1] \in {"keep", "stopped"}
  /\ \A i \in 1 .. Len(run[j].left) : run[j].left[i] \in Created

Base == Types /\ Rows /\ RequestFits /\ \A j \in Jobs : RunFits(j)

LEMMA NumbersAreNat ==
  /\ NumFiles \in Nat \ {0} /\ MaxAttempts \in Nat /\ NumFiles <= MaxAttempts
  /\ MaxJobs \in Nat \ {0} /\ Chunks \in Nat \ {0} /\ Threads \in Nat \ {0}
  /\ MaxStops \in Nat /\ MaxCrashes \in Nat
  /\ Files \subseteq Attempts
BY ConstantsAssumption DEF Files, Attempts

LEMMA BaseGivesTypeOK == Base => TypeOK
BY DEF Base, Types, TypeOK, RunRecord, Finals

LEMMA InitEstablishesBase == Init => Base
<1> SUFFICES ASSUME Init PROVE Base
  OBVIOUS
<1> USE NumbersAreNat DEF Init
<1>1. Types
  <2>1. NoRun \in RunRecord
    BY DEF NoRun, RunRecord, Places
  <2>2. file \in [Attempts -> Files \cup {0}] /\ status \in [Attempts -> AttemptStatuses]
    BY DEF AttemptStatuses
  <2>3. latest \in [Files -> Attempts] /\ deck \in [Files -> SUBSET (Attempts \X Jobs)]
    OBVIOUS
  <2>4. NoRequest \in [kind : {"none", "stop", "cancel", "resumeFile", "resumeAll"},
                       rows : SUBSET Attempts,
                       status : BulkStatuses \cup {"keep"}, stop : BOOLEAN]
    BY DEF NoRequest
  <2> QED BY <2>1, <2>2, <2>3, <2>4 DEF Types, BulkStatuses, JobStatuses
<1>2. Created = 1 .. NumFiles
  BY DEF Created, Files, Attempts
<1>3. Rows
  <2>1. \A f \in Files : latest[f] = f /\ file[f] = f
    OBVIOUS
  <2>2. \A a \in Attempts : status[a] = "none" <=> file[a] = 0
    BY DEF Files
  <2> QED BY <1>2, <2>1, <2>2 DEF Rows, Files
<1>4. \A j \in Jobs : RunFits(j)
  <2>1. \A j \in Jobs : run[j] = NoRun
    OBVIOUS
  <2> QED BY <2>1 DEF RunFits, NoRun, Looping, Early
<1>5. RequestFits
  BY DEF RequestFits, NoRequest
<1> QED BY <1>1, <1>3, <1>4, <1>5 DEF Base

\* Nothing is a run's fault that neither changes the run nor removes rows.
LEMMA RunStays ==
  ASSUME NEW i \in Jobs, RunFits(i), run'[i] = run[i], Created \subseteq Created'
  PROVE  RunFits(i)'
BY DEF RunFits

LEMMA NoRunFits ==
  ASSUME NEW i \in Jobs, run'[i] = NoRun \/ run'[i] = [NoRun EXCEPT !.pc = "begin"]
  PROVE  RunFits(i)' /\ run'[i] \in RunRecord
<1>1. PICK p \in {"idle", "begin"} :
        run'[i] = [pc |-> p, left |-> <<>>, chunk |-> 0, got |-> FALSE, final |-> <<>>]
  BY DEF NoRun
<1>2. run'[i] \in RunRecord
  BY <1>1, NumbersAreNat DEF RunRecord, Places
<1>3. RunFits(i)'
  <2>1. /\ run'[i].pc \in {"idle", "begin"} /\ run'[i].chunk = 0
        /\ run'[i].left = <<>>
    BY <1>1
  <2> QED BY <2>1 DEF RunFits, Looping, Early
<1> QED BY <1>2, <1>3

LEMMA RequestStays ==
  ASSUME Base, request' = request, Created \subseteq Created'
  PROVE  RequestFits'
BY DEF Base, RequestFits

LEMMA RowsStay ==
  ASSUME Types, Rows, file' = file, latest' = latest,
         \A a \in Attempts : status'[a] = "none" <=> status[a] = "none"
  PROVE  Rows' /\ Created' = Created
BY DEF Rows, Created

LEMMA RunChanges ==
  ASSUME Base, NEW j \in Jobs, \A i \in Jobs \ {j} : run'[i] = run[i],
         Created' = Created, RunFits(j)'
  PROVE  \A i \in Jobs : RunFits(i)'
<1>1. \A i \in Jobs : RunFits(i)
  BY DEF Base
<1> QED BY <1>1, RunStays

LEMMA RunEnds ==
  ASSUME Base, NEW j \in Jobs, run' = [run EXCEPT ![j] = NoRun], Created' = Created
  PROVE  run' \in [Jobs -> RunRecord] /\ \A i \in Jobs : RunFits(i)'
<1>1. run'[j] = NoRun
  BY DEF Base, Types
<1>2. RunFits(j)' /\ NoRun \in RunRecord
  BY <1>1, NoRunFits
<1>3. run' \in [Jobs -> RunRecord] /\ \A i \in Jobs \ {j} : run'[i] = run[i]
  BY <1>2 DEF Base, Types
<1> QED BY <1>2, <1>3, RunChanges

LEMMA PlaceChanges ==
  ASSUME Base, NEW j \in Jobs, NEW p \in Places \ {"commit", "halt"}, run' = [run EXCEPT ![j].pc = p],
         Created' = Created,
         p \in Looping => run[j].pc \in Looping,
         p \in Early => run[j].chunk = 0,
         p \in {"check", "write"} => run[j].chunk < Chunks
  PROVE  run' \in [Jobs -> RunRecord] /\ \A i \in Jobs : RunFits(i)'
<1>1. run \in [Jobs -> RunRecord] /\ RunFits(j)
  BY DEF Base, Types
<1>2. /\ run' \in [Jobs -> RunRecord] /\ \A i \in Jobs \ {j} : run'[i] = run[i]
      /\ run'[j].pc = p /\ run'[j].left = run[j].left /\ run'[j].chunk = run[j].chunk
  BY <1>1 DEF RunRecord
<1>3. RunFits(j)'
  BY <1>1, <1>2 DEF RunFits
<1> QED BY <1>2, <1>3, RunChanges

\* Back to the top of the loop: the next attempt of the list, or none is left.
LEMMA AdvanceFacts ==
  ASSUME Base, NEW j \in Jobs, run[j].pc \in Looping, Advance(j), Created' = Created
  PROVE  /\ run' \in [Jobs -> RunRecord] /\ \A i \in Jobs : RunFits(i)'
         /\ \A i \in Jobs \ {j} : run'[i] = run[i]
         /\ run'[j].pc \in {"next", "final"} /\ run'[j].left = Tail(run[j].left)
<1>1. run[j] \in RunRecord /\ RunFits(j) /\ run \in [Jobs -> RunRecord]
  BY DEF Base, Types
<1>2. run[j].left \in Seq(Attempts) /\ run[j].left # <<>>
  BY <1>1 DEF RunRecord, RunFits
<1>3. /\ Tail(run[j].left) \in Seq(Attempts)
      /\ Len(Tail(run[j].left)) = Len(run[j].left) - 1
      /\ \A i \in 1 .. Len(Tail(run[j].left)) : Tail(run[j].left)[i] = run[j].left[i + 1]
      /\ Len(run[j].left) \in Nat
  BY <1>2, HeadTailProperties, LenProperties
<1>4. PICK p \in {"next", "final"} :
        p = IF Len(run[j].left) = 1 THEN "final" ELSE "next"
  OBVIOUS
<1>5. run' = [run EXCEPT ![j].left = Tail(@), ![j].chunk = 0, ![j].got = FALSE,
                         ![j].pc = p]
  BY <1>4 DEF Advance
<1>6. /\ run' \in [Jobs -> RunRecord] /\ \A i \in Jobs \ {j} : run'[i] = run[i]
      /\ run'[j].pc = p /\ run'[j].left = Tail(run[j].left) /\ run'[j].chunk = 0
  <2>1. /\ \A i \in Jobs \ {j} : run'[i] = run[i]
        /\ run'[j].pc = p /\ run'[j].left = Tail(run[j].left) /\ run'[j].chunk = 0
    BY <1>1, <1>5 DEF RunRecord
  <2>2. 0 \in 0 .. Chunks /\ p \in Places
    BY NumbersAreNat DEF Places
  <2>3. run' \in [Jobs -> RunRecord]
    BY <1>1, <1>3, <1>5, <2>2 DEF RunRecord
  <2> QED BY <2>1, <2>3
<1>7. RunFits(j)'
  <2>1. p = "next" => run'[j].left # <<>>
    <3>1. Len(run[j].left) # 0
      BY <1>2, EmptySeq
    <3>2. p = "next" => Len(Tail(run[j].left)) # 0
      BY <1>3, <1>4, <3>1
    <3> QED BY <1>6, <3>2, EmptySeq
  <2>2. \A i \in 1 .. Len(run'[j].left) : run'[j].left[i] \in Created'
    BY <1>1, <1>3, <1>6 DEF RunFits
  <2> QED BY <1>4, <1>6, <2>1, <2>2 DEF RunFits, Looping
<1> QED BY <1>4, <1>6, <1>7, RunChanges

LEMMA CurrentFacts ==
  ASSUME Base, NEW j \in Jobs, run[j].pc \in Looping
  PROVE  /\ Current(j) \in Created /\ Current(j) \in Attempts
         /\ file[Current(j)] \in Files /\ status[Current(j)] # "none"
         /\ Len(run[j].left) \in Nat \ {0} /\ Current(j) = run[j].left[1]
<1>1. run[j] \in RunRecord /\ RunFits(j)
  BY DEF Base, Types
<1>2. run[j].left \in Seq(Attempts) /\ run[j].left # <<>>
  BY <1>1 DEF RunRecord, RunFits
<1>3. Len(run[j].left) \in Nat \ {0}
  BY <1>2, EmptySeq
<1>4. Current(j) = run[j].left[1]
  BY <1>2, <1>3 DEF Current
<1>5. Current(j) \in Created
  BY <1>1, <1>3, <1>4 DEF RunFits
<1> QED BY <1>3, <1>4, <1>5 DEF Created, Base, Rows, Types

LEMMA StatusOfIsStatus == ASSUME NEW S PROVE StatusOf(S) \in BulkStatuses \ {"gone"}
BY DEF StatusOf, BulkStatuses

LEMMA ListFacts ==
  ASSUME NEW S \in SUBSET Created, S # {}
  PROVE  LET s == Ascending(S) IN
         /\ s \in Seq(Attempts) /\ s # <<>>
         /\ \A i \in 1 .. Len(s) : s[i] \in S
         /\ \A i, k \in 1 .. Len(s) : i # k => s[i] # s[k]
<1>1. Created \subseteq Attempts
  BY DEF Created
<1>2. IsFiniteSet(Attempts) /\ Attempts \subseteq Nat
  BY NumbersAreNat, FS_Interval DEF Attempts
<1>3. IsFiniteSet(S) /\ S \subseteq Nat
  BY <1>1, <1>2, FS_Subset
<1>4. Cardinality(S) \in Nat /\ Cardinality(S) # 0
  BY <1>3, FS_CardinalityType, FS_EmptySet
<1>5. PICK s : s = Ascending(S)
  OBVIOUS
<1>6. /\ s \in [1 .. Cardinality(S) -> S]
      /\ \A i, k \in 1 .. Cardinality(S) : i < k => s[i] < s[k]
  BY <1>3, <1>5, AscendingFacts
<1>7. s \in Seq(S) /\ Len(s) = Cardinality(S)
  BY <1>4, <1>6
<1>8. s \in Seq(Attempts) /\ s # <<>>
  BY <1>1, <1>4, <1>7, SeqMonotonic, EmptySeq
<1>9. ASSUME NEW i \in 1 .. Len(s), NEW k \in 1 .. Len(s), i # k PROVE s[i] # s[k]
  <2>1. s[i] \in Nat /\ s[k] \in Nat
    BY <1>3, <1>6, <1>7
  <2>2. i < k \/ k < i
    BY <1>4, <1>7, <1>9
  <2> QED BY <1>6, <1>7, <2>1, <2>2
<1> QED BY <1>5, <1>6, <1>7, <1>8, <1>9

LEMMA WithStatusIsCreated ==
  Chosen \in SUBSET Created /\ Orphans \in SUBSET Created
BY DEF Chosen, Orphans, WithStatus

\* A run gets a list of attempts.
LEMMA ListBegins ==
  ASSUME Base, NEW j \in Jobs, NEW S \in SUBSET Created, S # {},
         NEW p \in {"resolve", "reclaim"}, run[j].chunk = 0, Created' = Created,
         run' = [run EXCEPT ![j].pc = p, ![j].left = Ascending(S)]
  PROVE  run' \in [Jobs -> RunRecord] /\ \A i \in Jobs : RunFits(i)'
<1>1. PICK s : s = Ascending(S)
  OBVIOUS
<1>2. /\ s \in Seq(Attempts) /\ s # <<>>
      /\ \A i \in 1 .. Len(s) : s[i] \in Created
  BY <1>1, ListFacts
<1>3. run \in [Jobs -> RunRecord] /\ run[j] \in RunRecord
  BY DEF Base, Types
<1>4. run' = [run EXCEPT ![j].pc = p, ![j].left = s]
  BY <1>1
<1>5. /\ \A i \in Jobs \ {j} : run'[i] = run[i]
      /\ run'[j].pc = p /\ run'[j].left = s /\ run'[j].chunk = run[j].chunk
  BY <1>3, <1>4 DEF RunRecord
<1>6. run' \in [Jobs -> RunRecord]
  <2>1. p \in Places
    BY DEF Places
  <2>2. [run[j] EXCEPT !.pc = p, !.left = s] \in RunRecord
    BY <1>2, <1>3, <2>1 DEF RunRecord
  <2>3. run' = [run EXCEPT ![j] = [run[j] EXCEPT !.pc = p, !.left = s]]
    BY <1>3, <1>4 DEF RunRecord
  <2> QED BY <1>3, <2>2, <2>3
<1>7. RunFits(j)'
  BY <1>2, <1>5 DEF RunFits
<1> QED BY <1>5, <1>6, <1>7, RunChanges

\* What is listed is created.
LEMMA ListedFacts ==
  ASSUME Base, NEW j \in Jobs
  PROVE  Listed(j) \in SUBSET Created
<1>1. run[j].left \in Seq(Attempts) /\ RunFits(j)
  BY DEF Base, Types, RunRecord
<1>2. DOMAIN run[j].left = 1 .. Len(run[j].left)
  BY <1>1, LenProperties
<1> QED BY <1>1, <1>2 DEF RunFits, Listed

LEMMA RunStepKeepsBase ==
  ASSUME Base, NEW j \in Jobs, RunStep(j)
  PROVE  Base'
<1>1. /\ Types /\ Rows /\ RunFits(j)
      /\ run \in [Jobs -> RunRecord] /\ run[j] \in RunRecord
  BY DEF Base, Types
<1>0. Created' = Created => RequestFits'
  <2>1. request' = request
    BY DEF RunStep, Begin, Select, FindOrphans, Reclaim, MissFiles, FailMissing, Resolve,
           Raise, LoopStopped, HaltUpload, EndStopped, SkipFile, LookFile, StartFile,
           ClearDeck, CheckChunk, WriteChunk, CompletePartial, CompleteFile, LoseSession,
           FailFile, ReadFinal, CommitFinal, LoseRows
  <2> QED BY <2>1, RequestStays
<1> DEFINE Runs == run' \in [Jobs -> RunRecord] /\ \A i \in Jobs : RunFits(i)'
<1>2. CASE Begin(j)
  <2>1. Rows' /\ Created' = Created
    BY <1>1, <1>2, RowsStay DEF Begin
  <2>2. Runs
    BY <1>1, <1>2, <2>1, PlaceChanges DEF Begin, Places, Looping, Early, RunFits
  <2>3. bulk' \in [status : BulkStatuses, stop : BOOLEAN]
    BY <1>1, <1>2 DEF Begin, Types, BulkStatuses
  <2> QED BY <1>0, <1>1, <1>2, <2>1, <2>2, <2>3 DEF Begin, Base, Types, counters
<1>3. CASE Select(j)
  <2>1. Rows' /\ Created' = Created
    BY <1>1, <1>3, RowsStay DEF Select
  <2>2. run[j].chunk = 0
    BY <1>1, <1>3 DEF RunFits, Select, Early
  <2>3. Runs
    BY <1>3, <2>1, <2>2, WithStatusIsCreated, ListBegins DEF Select
  <2> QED BY <1>0, <1>1, <1>3, <2>1, <2>3 DEF Select, Base, Types, counters
<1>19. CASE FindOrphans(j)
  <2>1. Rows' /\ Created' = Created
    BY <1>1, <1>19, RowsStay DEF FindOrphans
  <2>2. run[j].chunk = 0
    BY <1>1, <1>19 DEF RunFits, FindOrphans, Early
  <2>3. Runs
    BY <1>19, <2>1, <2>2, WithStatusIsCreated, ListBegins DEF FindOrphans
  <2> QED BY <1>0, <1>1, <1>19, <2>1, <2>3 DEF FindOrphans, Base, Types, counters
<1>20. CASE Reclaim(j)
  <2>1. /\ status' \in [Attempts -> AttemptStatuses]
        /\ \A a \in Attempts : status'[a] = "none" <=> status[a] = "none"
        /\ file' = file /\ latest' = latest
    <3>1. \A a \in Listed(j) : a \in Attempts /\ file[a] # 0
      BY ListedFacts DEF Created
    <3>2. status' = [a \in Attempts |-> IF a \in Listed(j) THEN "pending" ELSE status[a]]
      BY <1>20 DEF Reclaim
    <3> QED BY <1>1, <1>20, <3>1, <3>2 DEF Reclaim, Types, Rows, AttemptStatuses
  <2>2. Rows' /\ Created' = Created
    BY <1>1, <2>1, RowsStay
  <2>3. Runs
    <3>1. run' = [run EXCEPT ![j].pc = "reselect", ![j].left = <<>>]
      BY <1>20 DEF Reclaim
    <3>2. /\ \A i \in Jobs \ {j} : run'[i] = run[i]
          /\ run'[j].pc = "reselect" /\ run'[j].left = <<>> /\ run'[j].chunk = run[j].chunk
      BY <1>1, <3>1 DEF RunRecord
    <3>5. run' \in [Jobs -> RunRecord]
      <4>1. "reselect" \in Places /\ <<>> \in Seq(Attempts)
        BY DEF Places
      <4> QED BY <1>1, <3>1, <4>1 DEF RunRecord
    <3>3. run[j].chunk = 0
      BY <1>1, <1>20 DEF RunFits, Reclaim, Early
    <3>4. RunFits(j)'
      BY <3>2, <3>3 DEF RunFits, Looping
    <3> QED BY <2>2, <3>2, <3>4, <3>5, RunChanges
  <2> QED BY <1>0, <1>1, <1>20, <2>1, <2>2, <2>3 DEF Reclaim, Base, Types, counters
<1>21. CASE MissFiles(j)
  <2>1. Rows' /\ Created' = Created
    BY <1>1, <1>21, RowsStay DEF MissFiles
  <2>2. Runs
    BY <1>1, <1>21, <2>1, PlaceChanges DEF MissFiles, Places, Looping, Early
  <2> QED BY <1>0, <1>1, <1>21, <2>1, <2>2 DEF MissFiles, Base, Types, counters
<1>22. CASE FailMissing(j)
  <2>1. Rows' /\ Created' = Created
    BY <1>1, <1>22, RowsStay DEF FailMissing
  <2>2. Runs
    BY <1>22, <2>1, RunEnds DEF FailMissing
  <2>3. /\ bulk' \in [status : BulkStatuses, stop : BOOLEAN]
        /\ job' \in [Jobs -> [status : JobStatuses, ok : BOOLEAN, bad : BOOLEAN]]
    BY <1>1, <1>22 DEF FailMissing, Types, BulkStatuses, JobStatuses
  <2> QED BY <1>0, <1>1, <1>22, <2>1, <2>2, <2>3 DEF FailMissing, Base, Types, counters
<1>4. CASE Resolve(j)
  <2>1. Rows' /\ Created' = Created
    BY <1>1, <1>4, RowsStay DEF Resolve
  <2>2. Runs
    BY <1>1, <1>4, <2>1, PlaceChanges DEF Resolve, Places, Looping, Early, RunFits
  <2> QED BY <1>0, <1>1, <1>4, <2>1, <2>2 DEF Resolve, Base, Types, counters
<1>5. CASE Raise(j)
  <2>1. /\ status' \in [Attempts -> AttemptStatuses]
        /\ \A a \in Attempts : status'[a] = "none" <=> status[a] = "none"
        /\ file' = file /\ latest' = latest
    BY <1>1, <1>5 DEF Raise, Types, AttemptStatuses
  <2>2. Rows' /\ Created' = Created
    BY <1>1, <2>1, RowsStay
  <2>3. Runs
    BY <1>5, <2>2, RunEnds DEF Raise
  <2>4. /\ bulk' \in [status : BulkStatuses, stop : BOOLEAN]
        /\ job' \in [Jobs -> [status : JobStatuses, ok : BOOLEAN, bad : BOOLEAN]]
    BY <1>1, <1>5 DEF Raise, Types, BulkStatuses, JobStatuses
  <2> QED BY <1>0, <1>1, <1>5, <2>1, <2>2, <2>3, <2>4 DEF Raise, Base, Types, counters
<1>6. CASE LoopStopped(j)
  <2>1. Rows' /\ Created' = Created
    BY <1>1, <1>6, RowsStay DEF LoopStopped
  <2>2. PICK x \in {"keep", "stopped"} :
          run' = [run EXCEPT ![j].pc = "halt", ![j].final = <<x>>]
    BY <1>6 DEF LoopStopped
  <2>3. /\ \A i \in Jobs \ {j} : run'[i] = run[i]
        /\ run'[j].pc = "halt" /\ run'[j].left = run[j].left /\ run'[j].final = <<x>>
    BY <1>1, <2>2 DEF RunRecord
  <2>4. run' \in [Jobs -> RunRecord]
    <3>1. <<x>> \in Seq(Finals)
      BY DEF Finals, BulkStatuses
    <3> QED BY <1>1, <2>2, <3>1 DEF RunRecord, Places
  <2>5. RunFits(j)'
    BY <1>1, <2>1, <2>3 DEF RunFits, Looping, Early
  <2>6. Runs
    BY <2>1, <2>3, <2>4, <2>5, RunChanges
  <2> QED BY <1>0, <1>1, <1>6, <2>1, <2>6 DEF LoopStopped, Base, Types, counters
<1>23. CASE HaltUpload(j)
  <2>1. Rows' /\ Created' = Created
    BY <1>1, <1>23, RowsStay DEF HaltUpload
  <2>2. Runs
    <3>1. run' = [run EXCEPT ![j].pc = "stopped", ![j].final = <<>>]
      BY <1>23 DEF HaltUpload
    <3>2. /\ \A i \in Jobs \ {j} : run'[i] = run[i]
          /\ run'[j].pc = "stopped" /\ run'[j].left = run[j].left
      BY <1>1, <3>1 DEF RunRecord
    <3>4. run' \in [Jobs -> RunRecord]
      <4>1. "stopped" \in Places /\ <<>> \in Seq(Finals)
        BY DEF Places
      <4> QED BY <1>1, <3>1, <4>1 DEF RunRecord
    <3>3. RunFits(j)'
      BY <1>1, <2>1, <3>2 DEF RunFits, Looping, Early
    <3> QED BY <2>1, <3>2, <3>3, <3>4, RunChanges
  <2>3. bulk' \in [status : BulkStatuses, stop : BOOLEAN]
    <3>1. run[j].final[1] \in {"keep", "stopped"}
      BY <1>1, <1>23 DEF HaltUpload, RunFits
    <3> QED BY <1>1, <1>23, <3>1 DEF HaltUpload, Types, BulkStatuses
  <2> QED BY <1>0, <1>1, <1>23, <2>1, <2>2, <2>3 DEF HaltUpload, Base, Types, counters
<1>7. CASE EndStopped(j)
  <2>1. Rows' /\ Created' = Created
    BY <1>1, <1>7, RowsStay DEF EndStopped
  <2>2. Runs
    BY <1>7, <2>1, RunEnds DEF EndStopped
  <2>3. job' \in [Jobs -> [status : JobStatuses, ok : BOOLEAN, bad : BOOLEAN]]
    BY <1>1, <1>7 DEF EndStopped, Types, JobStatuses
  <2> QED BY <1>0, <1>1, <1>7, <2>1, <2>2, <2>3 DEF EndStopped, Base, Types, counters
<1>8. CASE SkipFile(j)
  <2>0. run[j].pc \in Looping
    BY <1>8 DEF SkipFile, Looping
  <2>1. /\ status' \in [Attempts -> AttemptStatuses]
        /\ \A a \in Attempts : status'[a] = "none" <=> status[a] = "none"
        /\ file' = file /\ latest' = latest
    BY <1>1, <1>8, <2>0, CurrentFacts DEF SkipFile, Types, AttemptStatuses
  <2>2. Rows' /\ Created' = Created
    BY <1>1, <2>1, RowsStay
  <2>3. Runs
    BY <1>8, <2>0, <2>2, AdvanceFacts DEF SkipFile
  <2>4. job' \in [Jobs -> [status : JobStatuses, ok : BOOLEAN, bad : BOOLEAN]]
    BY <1>1, <1>8 DEF SkipFile, Types
  <2> QED BY <1>0, <1>1, <1>8, <2>1, <2>2, <2>3, <2>4 DEF SkipFile, Base, Types, counters
<1>24. CASE LookFile(j)
  <2>1. Rows' /\ Created' = Created
    BY <1>1, <1>24, RowsStay DEF LookFile
  <2>2. Runs
    BY <1>1, <1>24, <2>1, PlaceChanges DEF LookFile, Places, Looping, Early, RunFits
  <2> QED BY <1>0, <1>1, <1>24, <2>1, <2>2 DEF LookFile, Base, Types, counters
<1>9. CASE StartFile(j)
  <2>0. run[j].pc \in Looping
    BY <1>9 DEF StartFile, Looping
  <2>1. /\ status' \in [Attempts -> AttemptStatuses]
        /\ \A a \in Attempts : status'[a] = "none" <=> status[a] = "none"
        /\ file' = file /\ latest' = latest
    BY <1>1, <1>9, <2>0, CurrentFacts DEF StartFile, Types, AttemptStatuses
  <2>2. Rows' /\ Created' = Created
    BY <1>1, <2>1, RowsStay
  <2>3. Runs
    BY <1>1, <1>9, <2>2, PlaceChanges DEF StartFile, Places, Looping, Early, RunFits
  <2> QED BY <1>0, <1>1, <1>9, <2>1, <2>2, <2>3 DEF StartFile, Base, Types, counters
<1>10. CASE ClearDeck(j)
  <2>1. Rows' /\ Created' = Created
    BY <1>1, <1>10, RowsStay DEF ClearDeck
  <2>2. run[j].chunk = 0 /\ 0 < Chunks
    BY <1>1, <1>10, NumbersAreNat DEF ClearDeck, RunFits, Early
  <2>3. Runs
    BY <1>10, <2>1, <2>2, PlaceChanges DEF ClearDeck, Places, Looping, Early
  <2>4. deck' \in [Files -> SUBSET (Attempts \X Jobs)]
    BY <1>1, <1>10 DEF ClearDeck, Types
  <2> QED BY <1>0, <1>1, <1>10, <2>1, <2>3, <2>4 DEF ClearDeck, Base, Types, counters
<1>11. CASE CheckChunk(j)
  <2>1. Rows' /\ Created' = Created
    BY <1>1, <1>11, RowsStay DEF CheckChunk
  <2>2. Runs
    BY <1>1, <1>11, <2>1, PlaceChanges DEF CheckChunk, Places, Looping, Early, RunFits
  <2> QED BY <1>0, <1>1, <1>11, <2>1, <2>2 DEF CheckChunk, Base, Types, counters
<1>12. CASE WriteChunk(j)
  <2>1. Rows' /\ Created' = Created
    BY <1>1, <1>12, RowsStay DEF WriteChunk
  <2>2. PICK cards \in BOOLEAN :
          /\ deck' = IF cards
                     THEN [deck EXCEPT ![file[Current(j)]] = @ \cup {<<Current(j), j>>}]
                     ELSE deck
          /\ run' = [run EXCEPT ![j].chunk = @ + 1, ![j].got = @ \/ cards,
                                ![j].pc = IF run[j].chunk + 1 = Chunks
                                          THEN "done" ELSE "check"]
    BY <1>12 DEF WriteChunk
  <2>3. PICK p \in {"done", "check"}, g \in BOOLEAN, n \in 0 .. Chunks :
          /\ n = run[j].chunk + 1
          /\ p = IF run[j].chunk + 1 = Chunks THEN "done" ELSE "check"
          /\ g = (run[j].got \/ cards)
    <3>1. run[j].chunk \in 0 .. Chunks /\ run[j].chunk < Chunks
      BY <1>1, <1>12 DEF RunRecord, RunFits, WriteChunk
    <3>2. run[j].chunk + 1 \in 0 .. Chunks
      BY <3>1, NumbersAreNat
    <3>3. (run[j].got \/ cards) \in BOOLEAN
      OBVIOUS
    <3> QED BY <3>2, <3>3
  <2>4. run' = [run EXCEPT ![j].chunk = n, ![j].got = g, ![j].pc = p]
    BY <2>2, <2>3
  <2>5. /\ \A i \in Jobs \ {j} : run'[i] = run[i]
        /\ run'[j].pc = p /\ run'[j].left = run[j].left /\ run'[j].chunk = n
    BY <1>1, <2>4 DEF RunRecord
  <2>6. run' \in [Jobs -> RunRecord]
    BY <1>1, <2>4 DEF RunRecord, Places
  <2>7. RunFits(j)'
    <3>1. p = "check" => n < Chunks
      BY <2>3, NumbersAreNat
    <3>2. run[j].left # <<>> /\ \A i \in 1 .. Len(run[j].left) : run[j].left[i] \in Created
      BY <1>1, <1>12 DEF RunFits, WriteChunk, Looping
    <3> QED BY <2>1, <2>5, <3>1, <3>2 DEF RunFits, Early
  <2>8. Runs
    BY <2>1, <2>5, <2>6, <2>7, RunChanges
  <2>9. deck' \in [Files -> SUBSET (Attempts \X Jobs)]
    <3>1. Current(j) \in Attempts
      BY <1>12, CurrentFacts DEF WriteChunk, Looping
    <3>2. {<<Current(j), j>>} \subseteq Attempts \X Jobs
      BY <3>1
    <3>3. deck \in [Files -> SUBSET (Attempts \X Jobs)]
      BY <1>1 DEF Types
    <3>4. CASE cards = TRUE
      BY <2>2, <3>2, <3>3, <3>4
    <3>5. CASE cards = FALSE
      BY <2>2, <3>3, <3>5
    <3> QED BY <3>4, <3>5
  <2> QED BY <1>0, <1>1, <1>12, <2>1, <2>8, <2>9 DEF WriteChunk, Base, Types, counters
<1>25. CASE CompletePartial(j)
  <2>0. run[j].pc \in Looping
    BY <1>25 DEF CompletePartial, Looping
  <2>1. /\ status' \in [Attempts -> AttemptStatuses]
        /\ \A a \in Attempts : status'[a] = "none" <=> status[a] = "none"
        /\ file' = file /\ latest' = latest
    BY <1>1, <1>25, <2>0, CurrentFacts DEF CompletePartial, Types, AttemptStatuses
  <2>2. Rows' /\ Created' = Created
    BY <1>1, <2>1, RowsStay
  <2>3. Runs
    BY <1>25, <2>0, <2>2, PlaceChanges DEF CompletePartial, Places, Looping, Early
  <2> QED BY <1>0, <1>1, <1>25, <2>1, <2>2, <2>3 DEF CompletePartial, Base, Types, counters
<1>13. CASE CompleteFile(j)
  <2>0. run[j].pc \in Looping
    BY <1>13 DEF CompleteFile, Looping
  <2>1. /\ status' \in [Attempts -> AttemptStatuses]
        /\ \A a \in Attempts : status'[a] = "none" <=> status[a] = "none"
        /\ file' = file /\ latest' = latest
    BY <1>1, <1>13, <2>0, CurrentFacts DEF CompleteFile, Types, AttemptStatuses
  <2>2. Rows' /\ Created' = Created
    BY <1>1, <2>1, RowsStay
  <2>3. Runs
    BY <1>13, <2>0, <2>2, AdvanceFacts DEF CompleteFile
  <2>4. /\ job' \in [Jobs -> [status : JobStatuses, ok : BOOLEAN, bad : BOOLEAN]]
        /\ note' \in {"none", "pending", "making", "ready", "failed"}
    BY <1>1, <1>13 DEF CompleteFile, Types
  <2> QED BY <1>0, <1>1, <1>13, <2>1, <2>2, <2>3, <2>4 DEF CompleteFile, Base, Types, counters
<1>14. CASE LoseSession(j)
  <2>1. Rows' /\ Created' = Created
    BY <1>1, <1>14, RowsStay DEF LoseSession
  <2>2. Runs
    BY <1>14, <2>1, RunEnds DEF LoseSession
  <2> QED BY <1>0, <1>1, <1>14, <2>1, <2>2 DEF LoseSession, Base, Types, counters
<1>15. CASE FailFile(j)
  <2>0. run[j].pc \in Looping
    BY <1>15 DEF FailFile, Looping
  <2>1. /\ status' \in [Attempts -> AttemptStatuses]
        /\ \A a \in Attempts : status'[a] = "none" <=> status[a] = "none"
        /\ file' = file /\ latest' = latest
    BY <1>1, <1>15, <2>0, CurrentFacts DEF FailFile, Types, AttemptStatuses
  <2>2. Rows' /\ Created' = Created
    BY <1>1, <2>1, RowsStay
  <2>3. Runs
    BY <1>15, <2>0, <2>2, AdvanceFacts DEF FailFile
  <2>4. job' \in [Jobs -> [status : JobStatuses, ok : BOOLEAN, bad : BOOLEAN]]
    <3>1. job' = [job EXCEPT ![j].bad = TRUE]
      BY <1>15 DEF FailFile
    <3> QED BY <1>1, <3>1 DEF Types
  <2> QED BY <1>0, <1>1, <1>15, <2>1, <2>2, <2>3, <2>4 DEF FailFile, Base, Types, counters
<1>16. CASE ReadFinal(j)
  <2>1. Rows' /\ Created' = Created
    BY <1>1, <1>16, RowsStay DEF ReadFinal
  <2>2. PICK x \in (BulkStatuses \ {"gone"}) \cup {"keep"}, y \in JobStatuses \cup {"keep"} :
          run' = [run EXCEPT ![j].pc = "commit", ![j].final = <<x, y>>]
    BY <1>16, StatusOfIsStatus DEF ReadFinal, BulkStatuses, JobStatuses
  <2>3. /\ \A i \in Jobs \ {j} : run'[i] = run[i]
        /\ run'[j].pc = "commit" /\ run'[j].left = run[j].left /\ run'[j].final = <<x, y>>
    BY <1>1, <2>2 DEF RunRecord
  <2>4. run' \in [Jobs -> RunRecord]
    <3>1. <<x, y>> \in Seq(Finals)
      BY DEF Finals
    <3> QED BY <1>1, <2>2, <3>1 DEF RunRecord, Places
  <2>5. RunFits(j)'
    BY <1>1, <2>1, <2>3 DEF RunFits, Looping, Early
  <2>6. Runs
    BY <2>1, <2>3, <2>4, <2>5, RunChanges
  <2> QED BY <1>0, <1>1, <1>16, <2>1, <2>6 DEF ReadFinal, Base, Types, counters
<1>17. CASE CommitFinal(j)
  <2>1. Rows' /\ Created' = Created
    BY <1>1, <1>17, RowsStay DEF CommitFinal
  <2>2. Runs
    BY <1>17, <2>1, RunEnds DEF CommitFinal
  <2>3. /\ run[j].final[1] \in (BulkStatuses \ {"gone"}) \cup {"keep"}
        /\ run[j].final[2] \in JobStatuses \cup {"keep"}
    BY <1>1, <1>17 DEF CommitFinal, RunFits
  <2>4. /\ bulk' \in [status : BulkStatuses, stop : BOOLEAN]
        /\ job' \in [Jobs -> [status : JobStatuses, ok : BOOLEAN, bad : BOOLEAN]]
    BY <1>1, <1>17, <2>3 DEF CommitFinal, Types
  <2> QED BY <1>0, <1>1, <1>17, <2>1, <2>2, <2>4 DEF CommitFinal, Base, Types, counters
<1>18. CASE LoseRows(j)
  <2>1. Rows' /\ Created' = Created
    BY <1>1, <1>18, RowsStay DEF LoseRows
  <2>2. Runs
    BY <1>18, <2>1, RunEnds DEF LoseRows
  <2> QED BY <1>0, <1>1, <1>18, <2>1, <2>2 DEF LoseRows, Base, Types, counters
<1> QED
  BY <1>2, <1>3, <1>4, <1>5, <1>6, <1>7, <1>8, <1>9, <1>10, <1>11, <1>12, <1>13,
     <1>14, <1>15, <1>16, <1>17, <1>18, <1>19, <1>20, <1>21, <1>22, <1>23, <1>24,
     <1>25 DEF RunStep

-----------------------------------------------------------------------------
(* A retry: its files' new attempts are the next ones, in the files' order.  *)

Added(F) == {Cardinality(Created) + Rank(F, f) : f \in F}

LEMMA FilesAreFinite ==
  /\ \A F \in SUBSET Files : IsFiniteSet(F) /\ F \subseteq Nat /\ Cardinality(F) \in Nat
  /\ IsFiniteSet(Jobs) /\ Jobs \subseteq Nat
<1>1. IsFiniteSet(Files) /\ Files \subseteq Nat /\ IsFiniteSet(Jobs) /\ Jobs \subseteq Nat
  BY NumbersAreNat, FS_Interval DEF Files, Jobs
<1>2. \A F \in SUBSET Files : IsFiniteSet(F) /\ F \subseteq Nat
  BY <1>1, FS_Subset
<1> QED BY <1>1, <1>2, FS_CardinalityType

LEMMA RetryFacts ==
  ASSUME Types, Rows, NEW F \in SUBSET Files, Retry(F)
  PROVE  /\ Created \subseteq Created' /\ Added(F) \cap Created = {}
         /\ \A f \in F : /\ latest'[f] \in Added(F) /\ latest'[f] # latest[f]
                        /\ deck'[f] = {}
         /\ \A f \in Files \ F : latest'[f] = latest[f] /\ deck'[f] = deck[f]
         /\ \A a \in Added(F) : /\ a \in Attempts /\ status'[a] = "pending"
                               /\ file'[a] \in F /\ latest'[file'[a]] = a
         /\ \A a \in Attempts \ Added(F) :
              /\ file'[a] = file[a]
              /\ status'[a] = IF a \in Superseded(F) THEN "stopped" ELSE status[a]
         /\ Superseded(F) \subseteq Created
         /\ Rows'
         /\ file' \in [Attempts -> Files \cup {0}]
         /\ status' \in [Attempts -> AttemptStatuses]
         /\ latest' \in [Files -> Attempts]
         /\ deck' \in [Files -> SUBSET (Attempts \X Jobs)]
<1>1. PICK n \in Nat : Created = 1 .. n
  BY DEF Rows
<1>2. Cardinality(Created) = n
  BY <1>1, FS_Interval
<1>3. PICK m \in Nat : m = Cardinality(F)
  BY FilesAreFinite
<1>4. PICK new : new = [f \in F |-> n + Rank(F, f)]
  OBVIOUS
<1>5. /\ \A f \in F : new[f] \in Nat /\ new[f] > n /\ new[f] <= n + m
      /\ \A f, g \in F : new[f] = new[g] => f = g
  <2>1. \A f \in F : Rank(F, f) \in 1 .. m
    BY <1>3, FilesAreFinite, RankFacts
  <2>2. ASSUME NEW f \in F, NEW g \in F, f # g PROVE Rank(F, f) # Rank(F, g)
    <3>1. f \in Nat /\ g \in Nat
      BY FilesAreFinite
    <3>2. f < g \/ g < f
      BY <2>2, <3>1
    <3>3. Rank(F, f) < Rank(F, g) \/ Rank(F, g) < Rank(F, f)
      BY <3>2, FilesAreFinite, RankFacts
    <3> QED BY <2>1, <3>3
  <2> QED BY <1>4, <2>1, <2>2
<1>6. Added(F) = {new[f] : f \in F}
  BY <1>2, <1>4 DEF Added
<1>7. /\ n + m <= MaxAttempts
      /\ file' = [a \in Attempts |->
                   IF a \in Added(F) THEN CHOOSE f \in F : new[f] = a ELSE file[a]]
      /\ status' = [a \in Attempts |-> IF a \in Superseded(F) THEN "stopped"
                                       ELSE IF a \in Added(F) THEN "pending"
                                       ELSE status[a]]
      /\ latest' = [f \in Files |-> IF f \in F THEN new[f] ELSE latest[f]]
      /\ deck' = [f \in Files |-> IF f \in F THEN {} ELSE deck[f]]
  BY <1>2, <1>3, <1>4, <1>6 DEF Retry, Rank
<1>8. Created \subseteq Attempts
  BY DEF Created
<1>9. Added(F) \subseteq Attempts /\ Added(F) \cap Created = {}
  BY <1>1, <1>5, <1>6, <1>7, NumbersAreNat DEF Attempts
<1>10. Superseded(F) \subseteq Created
  BY DEF Superseded, Rows
<1>11. \A f \in F : latest'[f] = new[f] /\ latest[f] \in Created
  BY <1>7 DEF Rows
<1>12. ASSUME NEW a \in Added(F)
       PROVE  /\ status'[a] = "pending" /\ file'[a] \in F /\ latest'[file'[a]] = a
  <2>1. file'[a] \in F /\ new[file'[a]] = a
    BY <1>6, <1>7, <1>9
  <2>2. status'[a] = "pending"
    BY <1>7, <1>9, <1>10
  <2> QED BY <1>11, <2>1, <2>2
<1>13. \A a \in Attempts \ Added(F) :
         /\ file'[a] = file[a]
         /\ status'[a] = IF a \in Superseded(F) THEN "stopped" ELSE status[a]
  BY <1>7
<1>14. 0 \notin Files
  BY DEF Files
<1>15. Created' = Created \cup Added(F)
  BY <1>8, <1>9, <1>12, <1>13, <1>14 DEF Created
<1>16. Created' = 1 .. n + m
  <2>1. Added(F) = n + 1 .. n + m
    <3>1. ASSUME NEW i \in n + 1 .. n + m PROVE i \in Added(F)
      <4>1. i - n \in 1 .. m
        OBVIOUS
      <4>2. PICK f \in F : Rank(F, f) = i - n
        BY <1>3, <4>1, FilesAreFinite, RankIsOnto
      <4>3. n + (i - n) = i
        BY <1>3
      <4> QED BY <1>4, <1>6, <4>2, <4>3
    <3>2. \A f \in F : new[f] \in n + 1 .. n + m
      BY <1>5
    <3> QED BY <1>6, <3>1, <3>2
  <2> QED BY <1>1, <1>15, <2>1
<1>17. Rows'
  <2>1. \A a \in Attempts : status'[a] = "none" <=> file'[a] = 0
    <3>1. ASSUME NEW a \in Attempts \ Added(F)
          PROVE  status'[a] = "none" <=> file'[a] = 0
      BY <1>10, <1>13 DEF Rows, Created
    <3> QED BY <1>12, <1>14, <3>1
  <2>2. \A f \in Files : latest'[f] \in Created' /\ file'[latest'[f]] = f
    <3>1. ASSUME NEW f \in F PROVE latest'[f] \in Created' /\ file'[latest'[f]] = f
      BY <1>5, <1>6, <1>11, <1>12, <1>15
    <3>2. ASSUME NEW f \in Files \ F PROVE latest'[f] \in Created' /\ file'[latest'[f]] = f
      <4>1. latest'[f] = latest[f] /\ latest[f] \in Created /\ file[latest[f]] = f
        BY <1>7 DEF Rows
      <4> QED BY <1>8, <1>9, <1>13, <1>15, <4>1
    <3> QED BY <3>1, <3>2
  <2> QED BY <1>16, <2>1, <2>2 DEF Rows
<1>18. /\ file' \in [Attempts -> Files \cup {0}]
       /\ status' \in [Attempts -> AttemptStatuses]
       /\ latest' \in [Files -> Attempts]
       /\ deck' \in [Files -> SUBSET (Attempts \X Jobs)]
  <2>1. file' \in [Attempts -> Files \cup {0}]
    <3>1. \A a \in Attempts : file'[a] \in Files \cup {0}
      BY <1>12, <1>13 DEF Types
    <3> QED BY <1>7, <3>1
  <2>2. status' \in [Attempts -> AttemptStatuses]
    BY <1>7 DEF Types, AttemptStatuses
  <2>3. latest' \in [Files -> Attempts]
    BY <1>6, <1>7, <1>9 DEF Types
  <2>4. deck' \in [Files -> SUBSET (Attempts \X Jobs)]
    BY <1>7 DEF Types
  <2> QED BY <2>1, <2>2, <2>3, <2>4
<1>19. \A f \in F : latest'[f] \in Added(F) /\ latest'[f] # latest[f] /\ deck'[f] = {}
  BY <1>6, <1>7, <1>9, <1>11
<1>20. \A f \in Files \ F : latest'[f] = latest[f] /\ deck'[f] = deck[f]
  BY <1>7
<1> QED BY <1>9, <1>10, <1>12, <1>13, <1>15, <1>17, <1>18, <1>19, <1>20

\* A step that leaves all runs alone and takes no row away.
LEMMA RunsStay ==
  ASSUME Base, run' = run, Created \subseteq Created'
  PROVE  run' \in [Jobs -> RunRecord] /\ \A i \in Jobs : RunFits(i)'
<1>1. run \in [Jobs -> RunRecord] /\ \A i \in Jobs : RunFits(i)
  BY DEF Base, Types
<1> QED BY <1>1, RunStays

LEMMA RequestKeepsBase ==
  ASSUME Base, FirstCommit \/ SecondCommit
  PROVE  Base'
<1>1. Types /\ Rows
  BY DEF Base
<1> DEFINE Runs == run' \in [Jobs -> RunRecord] /\ \A i \in Jobs : RunFits(i)'
<1>2. ASSUME NEW kind, MayStop(kind)
      PROVE  stops' \in 0 .. MaxStops
  BY <1>1, <1>2, NumbersAreNat DEF MayStop, Types
<1> DEFINE Requested ==
             request' \in [kind : {"none", "stop", "cancel", "resumeFile", "resumeAll"},
                           rows : SUBSET Attempts,
                           status : BulkStatuses \cup {"keep"}, stop : BOOLEAN]
<1>12. ASSUME request' = NoRequest \/ \E kind \in {"stop", "resumeFile", "resumeAll"} :
                                        request' = HalfDone(kind)
       PROVE  Requested /\ RequestFits'
  <2>1. PICK kind \in {"none", "stop", "resumeFile", "resumeAll"} :
          request' = [kind |-> kind, rows |-> {}, status |-> "keep", stop |-> FALSE]
    BY <1>12 DEF NoRequest, HalfDone
  <2> QED BY <2>1 DEF RequestFits
<1>13. ASSUME NEW rows \in SUBSET Created, ReadCancel(rows), stops' \in 0 .. MaxStops
       PROVE  Base'
  <2>1. Rows' /\ Created' = Created
    BY <1>1, <1>13, RowsStay DEF ReadCancel
  <2>2. Runs
    BY <1>13, <2>1, RunsStay DEF ReadCancel
  <2>3. PICK s \in (BulkStatuses \ {"gone"}) \cup {"keep"}, stop \in BOOLEAN :
          request' = [kind |-> "cancel", rows |-> rows, status |-> s, stop |-> stop]
    BY <1>13, StatusOfIsStatus DEF ReadCancel
  <2>4. Requested /\ RequestFits'
    <3>1. rows \in SUBSET Attempts
      BY <1>13 DEF Created
    <3> QED BY <1>13, <2>1, <2>3, <3>1 DEF RequestFits
  <2> QED BY <1>1, <1>13, <2>1, <2>2, <2>4 DEF ReadCancel, Base, Types
<1>3. CASE StopUpload
  <2>1. Rows' /\ Created' = Created
    BY <1>1, <1>3, RowsStay DEF StopUpload
  <2>2. Runs
    BY <1>3, <2>1, RunsStay DEF StopUpload
  <2>3. stops' \in 0 .. MaxStops
    BY <1>2, <1>3 DEF StopUpload
  <2>4. bulk' \in [status : BulkStatuses, stop : BOOLEAN]
    BY <1>3 DEF StopUpload, BulkStatuses
  <2>5. Requested /\ RequestFits'
    BY <1>3, <1>12 DEF StopUpload
  <2> QED BY <1>1, <1>3, <2>1, <2>2, <2>3, <2>4, <2>5 DEF StopUpload, Base, Types
<1>4. CASE StopJob
  <2>1. Rows' /\ Created' = Created
    BY <1>1, <1>4, RowsStay DEF StopJob
  <2>2. Runs
    BY <1>4, <2>1, RunsStay DEF StopJob
  <2>3. job' \in [Jobs -> [status : JobStatuses, ok : BOOLEAN, bad : BOOLEAN]]
    <3>1. CASE JobsWith("running") = {}
      BY <1>1, <1>4, <3>1 DEF StopJob, Types
    <3>2. CASE JobsWith("running") # {}
      <4>1. PICK j \in JobsWith("running") : job' = [job EXCEPT ![j].status = "failed"]
        BY <1>4, <3>2 DEF StopJob
      <4> QED BY <1>1, <4>1 DEF Types, JobStatuses
    <3> QED BY <3>1, <3>2
  <2>5. Requested /\ RequestFits'
    BY <1>4, <1>12 DEF StopJob
  <2> QED BY <1>1, <1>4, <2>1, <2>2, <2>3, <2>5 DEF StopJob, Base, Types, counters
<1>5. CASE CancelAll
  <2>1. {a \in LatestRows : status[a] \in Open} \in SUBSET Created
    BY <1>1 DEF LatestRows, Rows
  <2>2. stops' \in 0 .. MaxStops
    BY <1>2, <1>5 DEF CancelAll
  <2> QED BY <1>5, <1>13, <2>1, <2>2 DEF CancelAll
<1>6. ASSUME NEW f \in Files, CancelFile(f) PROVE Base'
  <2>1. PICK a \in Created : ReadCancel({a})
    BY <1>6 DEF CancelFile
  <2>2. stops' \in 0 .. MaxStops
    BY <1>2, <1>6 DEF CancelFile
  <2> QED BY <1>13, <2>1, <2>2
<1>14. CASE CommitCancel
  <2>1. /\ status' \in [Attempts -> AttemptStatuses]
        /\ \A a \in Attempts : status'[a] = "none" <=> status[a] = "none"
        /\ file' = file /\ latest' = latest
    <3>1. \A a \in request.rows : a \in Attempts /\ file[a] # 0
      BY DEF Base, RequestFits, Created
    <3>2. status' = [a \in Attempts |-> IF a \in request.rows THEN "stopped" ELSE status[a]]
      BY <1>14 DEF CommitCancel
    <3> QED BY <1>1, <1>14, <3>1, <3>2 DEF CommitCancel, Types, Rows, AttemptStatuses
  <2>2. Rows' /\ Created' = Created
    BY <1>1, <2>1, RowsStay
  <2>3. Runs
    BY <1>14, <2>2, RunsStay DEF CommitCancel
  <2>4. bulk' \in [status : BulkStatuses, stop : BOOLEAN]
    <3>1. request.status \in BulkStatuses \cup {"keep"} /\ request.stop \in BOOLEAN
      BY <1>1 DEF Types
    <3> QED BY <1>1, <1>14, <3>1 DEF CommitCancel, Types
  <2>5. Requested /\ RequestFits'
    BY <1>12, <1>14 DEF CommitCancel
  <2> QED BY <1>1, <1>14, <2>1, <2>2, <2>3, <2>4, <2>5 DEF CommitCancel, Base, Types, counters
<1>7. ASSUME NEW f \in Files, ResumeFile(f) PROVE Base'
  <2>1. {f} \in SUBSET Files /\ Retry({f})
    BY <1>7 DEF ResumeFile
  <2>2. /\ Rows' /\ Created \subseteq Created'
        /\ file' \in [Attempts -> Files \cup {0}]
        /\ status' \in [Attempts -> AttemptStatuses]
        /\ latest' \in [Files -> Attempts]
        /\ deck' \in [Files -> SUBSET (Attempts \X Jobs)]
    BY <1>1, <2>1, RetryFacts
  <2>3. Runs
    BY <1>7, <2>2, RunsStay DEF ResumeFile
  <2>4. bulk' \in [status : BulkStatuses, stop : BOOLEAN]
    BY <1>7, StatusOfIsStatus DEF ResumeFile
  <2>5. Requested /\ RequestFits'
    BY <1>7, <1>12 DEF ResumeFile
  <2> QED BY <1>1, <1>7, <2>2, <2>3, <2>4, <2>5 DEF ResumeFile, Base, Types, counters
<1>8. CASE ResumeFileJob
  <2>1. Rows' /\ Created' = Created
    BY <1>1, <1>8, RowsStay DEF ResumeFileJob
  <2>2. Runs
    BY <1>8, <2>1, RunsStay DEF ResumeFileJob
  <2>3. job' \in [Jobs -> [status : JobStatuses, ok : BOOLEAN, bad : BOOLEAN]]
    <3>1. PICK j \in Jobs :
            job' = [job EXCEPT ![j] = [status |-> "pending", ok |-> FALSE, bad |-> FALSE]]
      BY <1>8 DEF ResumeFileJob
    <3> QED BY <1>1, <3>1 DEF Types, JobStatuses
  <2>5. Requested /\ RequestFits'
    BY <1>8, <1>12 DEF ResumeFileJob
  <2> QED BY <1>1, <1>8, <2>1, <2>2, <2>3, <2>5 DEF ResumeFileJob, Base, Types, counters
<1>9. CASE ResumeAll
  <2>1. Files \in SUBSET Files /\ Retry(Files)
    BY <1>9 DEF ResumeAll
  <2>2. /\ Rows' /\ Created \subseteq Created'
        /\ file' \in [Attempts -> Files \cup {0}]
        /\ status' \in [Attempts -> AttemptStatuses]
        /\ latest' \in [Files -> Attempts]
        /\ deck' \in [Files -> SUBSET (Attempts \X Jobs)]
    BY <1>1, <2>1, RetryFacts
  <2>3. Runs
    BY <1>9, <2>2, RunsStay DEF ResumeAll
  <2>4. bulk' \in [status : BulkStatuses, stop : BOOLEAN]
    BY <1>9 DEF ResumeAll, BulkStatuses
  <2>5. Requested /\ RequestFits'
    BY <1>9, <1>12 DEF ResumeAll
  <2> QED BY <1>1, <1>9, <2>2, <2>3, <2>4, <2>5 DEF ResumeAll, Base, Types, counters
<1>10. CASE ResumeAllJob
  <2>1. Rows' /\ Created' = Created
    BY <1>1, <1>10, RowsStay DEF ResumeAllJob
  <2>2. Runs
    BY <1>10, <2>1, RunsStay DEF ResumeAllJob
  <2>3. job' \in [Jobs -> [status : JobStatuses, ok : BOOLEAN, bad : BOOLEAN]]
    BY <1>1, <1>10 DEF ResumeAllJob, Types, JobStatuses
  <2>5. Requested /\ RequestFits'
    BY <1>10, <1>12 DEF ResumeAllJob
  <2> QED BY <1>1, <1>10, <2>1, <2>2, <2>3, <2>5 DEF ResumeAllJob, Base, Types, counters
<1>11. CASE Purge
  <2>1. Rows' /\ Created' = Created
    BY <1>1, <1>11, RowsStay DEF Purge
  <2>2. Runs
    BY <1>11, <2>1, RunsStay DEF Purge
  <2>3. /\ bulk' \in [status : BulkStatuses, stop : BOOLEAN]
        /\ job' \in [Jobs -> [status : JobStatuses, ok : BOOLEAN, bad : BOOLEAN]]
    BY <1>1, <1>11 DEF Purge, Types, BulkStatuses, JobStatuses
  <2>4. RequestFits'
    BY <1>11, <2>1, RequestStays DEF Purge
  <2> QED BY <1>1, <1>11, <2>1, <2>2, <2>3, <2>4 DEF Purge, Base, Types, counters
<1> QED
  BY <1>3, <1>4, <1>5, <1>6, <1>7, <1>8, <1>9, <1>10, <1>11, <1>14
     DEF FirstCommit, SecondCommit

LEMMA NextKeepsBase == Base /\ [Next]_vars => Base'
<1> SUFFICES ASSUME Base, [Next]_vars PROVE Base'
  OBVIOUS
<1>1. Types /\ Rows
  BY DEF Base
<1> DEFINE Runs == run' \in [Jobs -> RunRecord] /\ \A i \in Jobs : RunFits(i)'
<1>2. CASE Poll
  <2>1. Rows' /\ Created' = Created
    BY <1>1, <1>2, RowsStay DEF Poll
  <2>2. Runs
    <3>1. \A i \in Jobs : run'[i] = run[i] \/ run'[i] = [NoRun EXCEPT !.pc = "begin"]
      BY <1>2 DEF Poll
    <3>2. ASSUME NEW i \in Jobs PROVE run'[i] \in RunRecord /\ RunFits(i)'
      <4>1. CASE run'[i] = run[i]
        BY <2>1, <4>1, RunStays DEF Base, Types
      <4>2. CASE run'[i] = [NoRun EXCEPT !.pc = "begin"]
        BY <4>2, NoRunFits
      <4> QED BY <3>1, <4>1, <4>2
    <3>3. run' = [i \in Jobs |-> run'[i]]
      BY <1>2 DEF Poll
    <3> QED BY <3>2, <3>3
  <2>3. job' \in [Jobs -> [status : JobStatuses, ok : BOOLEAN, bad : BOOLEAN]]
    BY <1>1, <1>2 DEF Poll, Types, JobStatuses
  <2>9. RequestFits'
    BY <1>2, <2>1, RequestStays DEF Poll
  <2> QED BY <1>1, <1>2, <2>1, <2>2, <2>3, <2>9 DEF Poll, Base, Types, counters
<1>3. CASE MakeNote
  <2>1. Rows' /\ Created' = Created
    BY <1>1, <1>3, RowsStay DEF MakeNote
  <2>2. Runs
    BY <1>3, <2>1, RunsStay DEF MakeNote
  <2>9. RequestFits'
    BY <1>3, <2>1, RequestStays DEF MakeNote
  <2> QED BY <1>1, <1>3, <2>1, <2>2, <2>9 DEF MakeNote, Base, Types, counters
<1>4. CASE FinishNote
  <2>1. Rows' /\ Created' = Created
    BY <1>1, <1>4, RowsStay DEF FinishNote
  <2>2. Runs
    BY <1>4, <2>1, RunsStay DEF FinishNote
  <2>9. RequestFits'
    BY <1>4, <2>1, RequestStays DEF FinishNote
  <2> QED BY <1>1, <1>4, <2>1, <2>2, <2>9 DEF FinishNote, Base, Types, counters
<1>5. CASE CrashRestart
  <2>1. Rows' /\ Created' = Created
    BY <1>1, <1>5, RowsStay DEF CrashRestart
  <2>2. Runs
    <3>1. \A i \in Jobs : run'[i] = NoRun
      BY <1>5 DEF CrashRestart
    <3>2. \A i \in Jobs : run'[i] \in RunRecord /\ RunFits(i)'
      BY <3>1, NoRunFits
    <3>3. run' = [i \in Jobs |-> run'[i]]
      BY <1>5 DEF CrashRestart
    <3> QED BY <3>2, <3>3
  <2>3. /\ crashes' \in 0 .. MaxCrashes
        /\ note' \in {"none", "pending", "making", "ready", "failed"}
    BY <1>1, <1>5, NumbersAreNat DEF CrashRestart, Types
  <2>9. RequestFits'
    BY <1>5, <2>1, RequestStays DEF CrashRestart
  <2> QED BY <1>1, <1>5, <2>1, <2>2, <2>3, <2>9 DEF CrashRestart, Base, Types
<1>6. ASSUME NEW j \in Jobs, RunStep(j) PROVE Base'
  BY <1>6, RunStepKeepsBase
<1>7. CASE UNCHANGED vars
  <2>1. Rows' /\ Created' = Created
    BY <1>1, <1>7, RowsStay DEF vars
  <2>2. Runs
    BY <1>7, <2>1, RunsStay DEF vars
  <2>9. RequestFits'
    BY <1>7, <2>1, RequestStays DEF vars
  <2> QED BY <1>1, <1>7, <2>1, <2>2, <2>9 DEF vars, Base, Types, counters
<1> QED BY <1>2, <1>3, <1>4, <1>5, <1>6, <1>7, RequestKeepsBase DEF Next

\* Types of the rows and of the runs' local variables, for any files, chunks,
\* threads, attempts and jobs.
THEOREM TypeCorrect == Spec => []TypeOK
<1>1. Base /\ [Next]_vars => Base'
  BY NextKeepsBase
<1> QED BY <1>1, InitEstablishesBase, BaseGivesTypeOK, PTL DEF Spec

-----------------------------------------------------------------------------
(* Pure decks.  With one thread there is one run at a time.  What is on its  *)
(* list is not completed, what it fills has nothing but its own cards unless *)
(* a retry has taken the deck from it, and no run works on a deck whose file *)
(* is completed.                                                             *)

Solo ==
  /\ \A i, j \in Jobs : Running(i) /\ Running(j) => i = j
  /\ note = "making" => \A j \in Jobs : ~Running(j)

Filling == {"check", "write", "done"}

Apart(s) == \A i, k \in 1 .. Len(s) : i # k => s[i] # s[k]

ListFits(j) ==
  run[j].pc \in Looping \cup {"reclaim"} =>
    /\ \A i \in 1 .. Len(run[j].left) :
         i # 1 \/ run[j].pc # "ending" => status[run[j].left[i]] # "completed"
    /\ Apart(run[j].left)

CurrentFits(j) ==
  run[j].pc \in Working => status[latest[file[Current(j)]]] # "completed"

DeckFits(j) ==
  LET d == deck[file[Current(j)]] IN
  /\ run[j].pc \in Early => ~run[j].got
  /\ run[j].pc \in Filling /\ latest[file[Current(j)]] = Current(j) =>
       d \subseteq {<<Current(j), j>>} /\ (run[j].got => d = {<<Current(j), j>>})

RunIsPure(j) == ListFits(j) /\ CurrentFits(j) /\ DeckFits(j)

PureInv == Solo /\ CompletedDeckIsPure /\ \A j \in Jobs : RunIsPure(j)

\* What a step does not do to the decks of completed files.
Untouched ==
  \A f \in Files : status[latest[f]] = "completed" /\ latest'[f] = latest[f]
    => /\ deck'[f] = deck[f]
       /\ \/ status'[latest[f]] = "completed"
          \/ /\ status'[latest[f]] = "stopped"
             /\ request.kind = "cancel" /\ latest[f] \in request.rows

NoneIsCompleted ==
  \A f \in Files : status'[latest'[f]] = "completed"
    => status[latest[f]] = "completed" /\ latest'[f] = latest[f]

SameCompleted ==
  \A a \in Attempts : status'[a] = "completed" <=> status[a] = "completed"

LEMMA PureStays ==
  ASSUME CompletedDeckIsPure, Untouched, NoneIsCompleted
  PROVE  CompletedDeckIsPure'
BY DEF CompletedDeckIsPure, Untouched, NoneIsCompleted

LEMMA SameDecksStay ==
  ASSUME Base, CompletedDeckIsPure, latest' = latest, deck' = deck, SameCompleted
  PROVE  CompletedDeckIsPure' /\ Untouched
<1>1. \A f \in Files : latest[f] \in Attempts
  BY DEF Base, Types
<1>2. Untouched /\ NoneIsCompleted
  BY <1>1 DEF Untouched, NoneIsCompleted, SameCompleted
<1> QED BY <1>2, PureStays

LEMMA IdleIsPure ==
  ASSUME NEW j \in Jobs, \/ run'[j] = NoRun
                         \/ run'[j] = [NoRun EXCEPT !.pc = "begin"]
                         \/ run'[j].pc \in {"idle", "missing", "halt", "stopped", "final",
                                           "commit"}
  PROVE  RunIsPure(j)'
<1>1. /\ run'[j].pc \notin Looping \cup {"reclaim"}
      /\ run'[j].pc \in Early => ~run'[j].got
  BY DEF NoRun, Looping, Early
<1> QED BY <1>1 DEF RunIsPure, ListFits, CurrentFits, DeckFits, Looping, Filling, Working

LEMMA PlaceKeepsPure ==
  ASSUME Base, NEW j \in Jobs, NEW p, run' = [run EXCEPT ![j].pc = p], RunIsPure(j),
         file' = file, latest' = latest, deck' = deck,
         run[j].pc \in Looping => SameCompleted,
         p \in Early => run[j].pc \in Early,
         p \in Looping => run[j].pc \in Looping,
         p # "reclaim", run[j].pc # "ending",
         p \in Working =>
           run[j].pc \in Working \/ status[latest[file[Current(j)]]] # "completed",
         p \in Filling => run[j].pc \in Filling
  PROVE  RunIsPure(j)'
<1>1. /\ run'[j].pc = p /\ run'[j].left = run[j].left /\ run'[j].got = run[j].got
  BY DEF Base, Types, RunRecord
<1>2. p \in Working => p \in Looping
  BY DEF Working, Looping
<1>3. Current(j)' = Current(j)
  BY <1>1 DEF Current
<1>4. /\ \A i \in 1 .. Len(run[j].left) : run[j].left[i] \in Attempts
      /\ \A f \in Files : latest[f] \in Attempts
  BY DEF Base, RunFits, Types, Created
<1>5. p \in Looping => file[Current(j)] \in Files
  BY CurrentFacts
<1>6. ListFits(j)'
  BY <1>1, <1>4 DEF RunIsPure, ListFits, SameCompleted
<1>7. CurrentFits(j)'
  <2>1. ASSUME p \in Working
        PROVE  status'[latest[file[Current(j)]]] # "completed"
    BY <1>2, <1>4, <1>5, <2>1 DEF RunIsPure, CurrentFits, SameCompleted
  <2> QED BY <1>1, <1>3, <2>1 DEF CurrentFits
<1>8. DeckFits(j)'
  BY <1>1, <1>3 DEF RunIsPure, DeckFits
<1> QED BY <1>6, <1>7, <1>8 DEF RunIsPure

\* The current attempt ends: the rest of the list is as it was.
LEMMA AdvanceKeepsPure ==
  ASSUME Base, NEW j \in Jobs, run[j].pc \in Looping, RunIsPure(j), Advance(j),
         Created' = Created, NEW s, status' = [status EXCEPT ![Current(j)] = s]
  PROVE  RunIsPure(j)'
<1>1. /\ run[j].left \in Seq(Attempts) /\ run[j].left # <<>>
      /\ \A i \in 1 .. Len(run[j].left) : run[j].left[i] \in Attempts
  BY DEF Base, Types, RunRecord, RunFits, Created
<1>2. /\ Len(Tail(run[j].left)) = Len(run[j].left) - 1
      /\ \A i \in 1 .. Len(Tail(run[j].left)) : Tail(run[j].left)[i] = run[j].left[i + 1]
      /\ Len(run[j].left) \in Nat
  BY <1>1, HeadTailProperties, LenProperties
<1>3. run'[j].pc \in {"next", "final"} /\ run'[j].left = Tail(run[j].left)
  BY AdvanceFacts
<1>4. Current(j) = run[j].left[1] /\ Len(run[j].left) \in Nat \ {0}
  BY CurrentFacts
<1>5. ListFits(j)'
  <2>1. /\ Apart(run[j].left)
        /\ \A i \in 1 .. Len(run[j].left) :
             i # 1 => status[run[j].left[i]] # "completed"
    BY DEF RunIsPure, ListFits
  <2>2. ASSUME NEW i \in 1 .. Len(Tail(run[j].left))
        PROVE  status'[Tail(run[j].left)[i]] # "completed"
    <3>1. i + 1 \in 1 .. Len(run[j].left) /\ i + 1 # 1 /\ 1 \in 1 .. Len(run[j].left)
      BY <1>2, <1>4
    <3>2. run[j].left[i + 1] # Current(j) /\ run[j].left[i + 1] \in Attempts
      BY <1>1, <1>4, <2>1, <3>1 DEF Apart
    <3>3. status'[run[j].left[i + 1]] = status[run[j].left[i + 1]]
      BY <3>2 DEF Base, Types
    <3> QED BY <1>2, <2>1, <3>1, <3>3
  <2>3. Apart(Tail(run[j].left))
    <3>1. ASSUME NEW i \in 1 .. Len(Tail(run[j].left)), NEW k \in 1 .. Len(Tail(run[j].left)),
                 i # k
          PROVE  Tail(run[j].left)[i] # Tail(run[j].left)[k]
      <4>1. i + 1 \in 1 .. Len(run[j].left) /\ k + 1 \in 1 .. Len(run[j].left) /\ i + 1 # k + 1
        BY <1>2, <3>1
      <4> QED BY <1>2, <2>1, <4>1 DEF Apart
    <3> QED BY <3>1 DEF Apart
  <2> QED BY <1>3, <2>2, <2>3 DEF ListFits
<1>6. ~run'[j].got
  BY DEF Advance, Base, Types, RunRecord
<1> QED BY <1>3, <1>5, <1>6 DEF RunIsPure, CurrentFits, DeckFits, Filling, Working

\* The decks of the other files are not the current one's.
LEMMA OnlyCurrentDeck ==
  ASSUME Base, NEW j \in Jobs, run[j].pc \in Working, RunIsPure(j),
         CompletedDeckIsPure, latest' = latest, SameCompleted,
         \A f \in Files \ {file[Current(j)]} : deck'[f] = deck[f]
  PROVE  CompletedDeckIsPure' /\ Untouched
<1>1. status[latest[file[Current(j)]]] # "completed"
  BY DEF RunIsPure, CurrentFits
<1>2. \A f \in Files : latest[f] \in Attempts
  BY DEF Base, Types
<1>3. Untouched /\ NoneIsCompleted
  BY <1>1, <1>2 DEF Untouched, NoneIsCompleted, SameCompleted
<1> QED BY <1>3, PureStays

\* An attempt of a run's list is not completed, whatever else it becomes.
LEMMA OtherEndsStay ==
  ASSUME Base, NEW j \in Jobs, run[j].pc \in Looping \ {"ending"}, RunIsPure(j),
         NEW s, s # "completed",
         status' = [status EXCEPT ![Current(j)] = s]
  PROVE  SameCompleted
<1>1. Current(j) \in Attempts /\ Current(j) = run[j].left[1] /\ Len(run[j].left) \in Nat \ {0}
  BY CurrentFacts
<1>2. status[Current(j)] # "completed"
  BY <1>1 DEF RunIsPure, ListFits
<1> QED BY <1>1, <1>2 DEF SameCompleted, Base, Types

LEMMA RunStepKeepsPure ==
  ASSUME Base, CompletedDeckIsPure, NEW j \in Jobs, RunIsPure(j), RunStep(j)
  PROVE  RunIsPure(j)' /\ CompletedDeckIsPure' /\ Untouched
<1>1. /\ Types /\ Rows /\ RunFits(j) /\ run[j] \in RunRecord
      /\ run \in [Jobs -> RunRecord]
  BY DEF Base, Types
<1>2. CASE Begin(j) \/ MissFiles(j) \/ Resolve(j) \/ LoopStopped(j) \/ HaltUpload(j)
           \/ LookFile(j) \/ CheckChunk(j) \/ ReadFinal(j)
  <2>1. file' = file /\ latest' = latest /\ deck' = deck /\ status' = status
    BY <1>2 DEF Begin, MissFiles, Resolve, LoopStopped, HaltUpload, LookFile, CheckChunk,
                ReadFinal
  <2>2. CompletedDeckIsPure' /\ Untouched /\ SameCompleted
    BY <2>1, SameDecksStay DEF SameCompleted
  <2>3. RunIsPure(j)'
    <3>1. CASE Begin(j)
      BY <2>1, <2>2, <3>1, PlaceKeepsPure DEF Begin, Early, Looping, Filling, Working
    <3>2. CASE Resolve(j)
      BY <2>1, <2>2, <3>2, PlaceKeepsPure DEF Resolve, Early, Looping, Filling, Working
    <3>3. CASE CheckChunk(j)
      BY <2>1, <2>2, <3>3, PlaceKeepsPure DEF CheckChunk, Early, Looping, Filling, Working
    <3>4. CASE MissFiles(j) \/ LoopStopped(j) \/ HaltUpload(j) \/ ReadFinal(j)
      <4>1. run'[j].pc \in {"missing", "halt", "stopped", "commit"}
        BY <1>1, <3>4 DEF MissFiles, LoopStopped, HaltUpload, ReadFinal, RunRecord
      <4> QED BY <4>1, IdleIsPure
    <3>5. CASE LookFile(j)
      <4>1. /\ run[j].pc = "next" /\ run[j].pc \in Looping
            /\ latest[file[Current(j)]] = Current(j)
            /\ run' = [run EXCEPT ![j].pc = "start"]
        BY <3>5 DEF LookFile, Looping
      <4>2. status[latest[file[Current(j)]]] # "completed"
        BY <4>1, CurrentFacts DEF RunIsPure, ListFits
      <4> QED BY <2>1, <2>2, <4>1, <4>2, PlaceKeepsPure DEF Early, Looping, Filling
    <3> QED BY <1>2, <3>1, <3>2, <3>3, <3>4, <3>5
  <2> QED BY <2>2, <2>3
<1>3. CASE Select(j) \/ FindOrphans(j)
  <2>1. file' = file /\ latest' = latest /\ deck' = deck /\ status' = status /\ SameCompleted
    BY <1>3 DEF Select, FindOrphans, SameCompleted
  <2>2. PICK S \in SUBSET Created, p \in {"resolve", "reclaim"} :
          /\ S # {} /\ run' = [run EXCEPT ![j].pc = p, ![j].left = Ascending(S)]
          /\ \A a \in S : status[a] # "completed"
    <3>1. CASE Select(j)
      BY <3>1, WithStatusIsCreated DEF Select, Chosen, WithStatus
    <3>2. CASE FindOrphans(j)
      BY <3>2, WithStatusIsCreated DEF FindOrphans, Orphans, WithStatus
    <3> QED BY <1>3, <3>1, <3>2
  <2>3. PICK s : s = Ascending(S)
    OBVIOUS
  <2>4. (\A i \in 1 .. Len(s) : s[i] \in S) /\ Apart(s)
    BY <2>2, <2>3, ListFacts DEF Apart
  <2>5. run'[j].pc = p /\ run'[j].left = s /\ run'[j].got = run[j].got
    BY <1>1, <2>2, <2>3 DEF RunRecord
  <2>6. ~run[j].got
    BY <1>3 DEF Select, FindOrphans, RunIsPure, DeckFits, Early
  <2>7. RunIsPure(j)'
    BY <2>1, <2>2, <2>4, <2>5, <2>6
       DEF RunIsPure, ListFits, CurrentFits, DeckFits, Filling, Working
  <2> QED BY <2>1, <2>7, SameDecksStay
<1>10. CASE Reclaim(j)
  <2>1. /\ file' = file /\ latest' = latest /\ deck' = deck
        /\ status' = [a \in Attempts |-> IF a \in Listed(j) THEN "pending" ELSE status[a]]
        /\ run' = [run EXCEPT ![j].pc = "reselect", ![j].left = <<>>]
        /\ run[j].pc = "reclaim"
    BY <1>10 DEF Reclaim
  <2>2. \A a \in Listed(j) : status[a] # "completed"
    <3>1. DOMAIN run[j].left = 1 .. Len(run[j].left)
      BY <1>1, LenProperties DEF RunRecord
    <3> QED BY <2>1, <3>1 DEF Listed, RunIsPure, ListFits
  <2>3. SameCompleted
    BY <2>1, <2>2 DEF SameCompleted
  <2>4. run'[j].pc = "reselect" /\ run'[j].got = run[j].got
    BY <1>1, <2>1 DEF RunRecord
  <2>5. ~run[j].got
    BY <2>1 DEF RunIsPure, DeckFits, Early
  <2>6. RunIsPure(j)'
    BY <2>4, <2>5 DEF RunIsPure, ListFits, CurrentFits, DeckFits, Filling, Working, Looping
  <2> QED BY <2>1, <2>3, <2>6, SameDecksStay
<1>4. CASE FailMissing(j) \/ Raise(j) \/ EndStopped(j) \/ LoseSession(j) \/ CommitFinal(j)
           \/ LoseRows(j)
  <2>1. /\ file' = file /\ latest' = latest /\ deck' = deck /\ SameCompleted
    BY <1>1, <1>4 DEF FailMissing, Raise, EndStopped, LoseSession, CommitFinal, LoseRows,
                      SameCompleted
  <2>2. run'[j] = NoRun
    BY <1>1, <1>4 DEF FailMissing, Raise, EndStopped, LoseSession, CommitFinal, LoseRows
  <2> QED BY <2>1, <2>2, SameDecksStay, IdleIsPure
<1>5. CASE SkipFile(j) \/ FailFile(j)
  <2>1. run[j].pc \in Looping \ {"ending"} /\ Advance(j)
    BY <1>5 DEF SkipFile, FailFile, Looping
  <2>2. /\ file' = file /\ latest' = latest /\ deck' = deck
        /\ \E s \in {"stopped", "failed"} : status' = [status EXCEPT ![Current(j)] = s]
    BY <1>5 DEF SkipFile, FailFile
  <2>3. SameCompleted
    BY <2>1, <2>2, OtherEndsStay
  <2>4. Created' = Created
    BY <2>2 DEF Created
  <2>5. RunIsPure(j)'
    BY <2>1, <2>2, <2>4, AdvanceKeepsPure
  <2> QED BY <2>2, <2>3, <2>5, SameDecksStay
<1>6. CASE StartFile(j)
  <2>1. run[j].pc = "start" /\ run[j].pc \in Looping \ {"ending"}
    BY <1>6 DEF StartFile, Looping
  <2>2. /\ file' = file /\ latest' = latest /\ deck' = deck
        /\ status' = [status EXCEPT ![Current(j)] = "processing"]
        /\ run' = [run EXCEPT ![j].pc = "title"]
    BY <1>6 DEF StartFile
  <2>3. SameCompleted
    BY <2>1, <2>2, OtherEndsStay
  <2>4. RunIsPure(j)'
    BY <2>1, <2>2, <2>3, PlaceKeepsPure DEF Early, Looping, Filling, Working
  <2> QED BY <2>2, <2>3, <2>4, SameDecksStay
<1>7. CASE ClearDeck(j)
  <2>1. run[j].pc = "title" /\ run[j].pc \in Looping
    BY <1>7 DEF ClearDeck, Looping
  <2>2. /\ file' = file /\ latest' = latest /\ status' = status
        /\ deck' = [deck EXCEPT ![file[Current(j)]] = {}]
        /\ run' = [run EXCEPT ![j].pc = "check"]
    BY <1>7 DEF ClearDeck
  <2>3. CompletedDeckIsPure' /\ Untouched
    <3>1. SameCompleted /\ \A f \in Files \ {file[Current(j)]} : deck'[f] = deck[f]
      BY <1>1, <2>2 DEF Types, SameCompleted
    <3> QED BY <2>1, <2>2, <3>1, OnlyCurrentDeck DEF Working
  <2>4. file[Current(j)] \in Files /\ deck'[file[Current(j)]] = {}
    BY <1>1, <2>1, <2>2, CurrentFacts DEF Types
  <2>5. /\ run'[j].pc = "check" /\ run'[j].left = run[j].left /\ run'[j].got = run[j].got
    BY <1>1, <2>2 DEF RunRecord
  <2>6. Current(j)' = Current(j)
    BY <2>5 DEF Current
  <2>7. ListFits(j)' /\ CurrentFits(j)'
    BY <2>1, <2>2, <2>5, <2>6 DEF RunIsPure, ListFits, CurrentFits, Working
  <2>8. DeckFits(j)'
    <3>1. ~run[j].got
      BY <2>1 DEF RunIsPure, DeckFits, Early
    <3> QED BY <2>2, <2>4, <2>5, <2>6, <3>1 DEF DeckFits, Early
  <2> QED BY <2>3, <2>7, <2>8 DEF RunIsPure
<1>8. CASE WriteChunk(j)
  <2>1. run[j].pc = "write" /\ run[j].pc \in Looping
    BY <1>8 DEF WriteChunk, Looping
  <2>2. file' = file /\ latest' = latest /\ status' = status
    BY <1>8 DEF WriteChunk
  <2>3. PICK cards \in BOOLEAN :
          /\ deck' = IF cards
                     THEN [deck EXCEPT ![file[Current(j)]] = @ \cup {<<Current(j), j>>}]
                     ELSE deck
          /\ run' = [run EXCEPT ![j].chunk = @ + 1, ![j].got = @ \/ cards,
                                ![j].pc = IF run[j].chunk + 1 = Chunks
                                          THEN "done" ELSE "check"]
    BY <1>8 DEF WriteChunk
  <2>4. CompletedDeckIsPure' /\ Untouched
    <3>1. SameCompleted /\ \A f \in Files \ {file[Current(j)]} : deck'[f] = deck[f]
      BY <1>1, <2>2, <2>3 DEF Types, SameCompleted
    <3> QED BY <2>1, <2>2, <3>1, OnlyCurrentDeck DEF Working
  <2>5. PICK p \in {"done", "check"}, g \in BOOLEAN :
          /\ p = IF run[j].chunk + 1 = Chunks THEN "done" ELSE "check"
          /\ g = (run[j].got \/ cards)
    OBVIOUS
  <2>6. run' = [run EXCEPT ![j].chunk = @ + 1, ![j].got = g, ![j].pc = p]
    BY <2>3, <2>5
  <2>7. run'[j].pc = p /\ run'[j].left = run[j].left /\ run'[j].got = g
    BY <1>1, <2>6 DEF RunRecord
  <2>8. Current(j)' = Current(j)
    BY <2>7 DEF Current
  <2>9. ListFits(j)' /\ CurrentFits(j)'
    BY <2>1, <2>2, <2>7, <2>8 DEF RunIsPure, ListFits, CurrentFits, Working
  <2>10. DeckFits(j)'
    <3>1. file[Current(j)] \in Files
      BY <2>1, CurrentFacts
    <3>2. deck'[file[Current(j)]] = IF cards
            THEN deck[file[Current(j)]] \cup {<<Current(j), j>>} ELSE deck[file[Current(j)]]
      BY <1>1, <2>3, <3>1 DEF Types
    <3>3. latest[file[Current(j)]] = Current(j) =>
            /\ deck[file[Current(j)]] \subseteq {<<Current(j), j>>}
            /\ run[j].got => deck[file[Current(j)]] = {<<Current(j), j>>}
      BY <2>1 DEF RunIsPure, DeckFits, Filling
    <3>4. latest[file[Current(j)]] = Current(j) =>
            /\ deck'[file[Current(j)]] \subseteq {<<Current(j), j>>}
            /\ g => deck'[file[Current(j)]] = {<<Current(j), j>>}
      BY <2>5, <3>2, <3>3
    <3> QED BY <2>2, <2>7, <2>8, <3>4 DEF DeckFits, Early
  <2> QED BY <2>4, <2>9, <2>10 DEF RunIsPure
<1>9. ASSUME run[j].pc = "done", run[j].got, deck' = deck, latest' = latest, file' = file,
             status' = [status EXCEPT ![Current(j)] = "completed"]
      PROVE  Untouched /\ CompletedDeckIsPure'
  <2>1. Untouched
    <3>1. \A f \in Files : status'[latest[f]] \in {status[latest[f]], "completed"}
      BY <1>1, <1>9 DEF Types
    <3> QED BY <1>9, <3>1 DEF Untouched
  <2>2. CompletedDeckIsPure'
    <3>1. ASSUME NEW f \in Files, status'[latest[f]] = "completed"
          PROVE  \E i \in Jobs : deck[f] = {<<latest[f], i>>}
      <4>1. CASE latest[f] = Current(j)
        <5>1. file[Current(j)] = f
          BY <1>1, <4>1 DEF Rows
        <5> QED BY <1>9, <4>1, <5>1 DEF RunIsPure, DeckFits, Filling
      <4>2. CASE latest[f] # Current(j)
        <5>1. status[latest[f]] = "completed"
          BY <1>1, <1>9, <3>1, <4>2 DEF Types
        <5> QED BY <5>1 DEF CompletedDeckIsPure
      <4> QED BY <4>1, <4>2
    <3> QED BY <1>9, <3>1 DEF CompletedDeckIsPure
  <2> QED BY <2>1, <2>2
<1>11. CASE CompletePartial(j)
  <2>1. /\ run[j].pc = "done" /\ run[j].pc \in Looping /\ run[j].got
        /\ file' = file /\ latest' = latest /\ deck' = deck
        /\ status' = [status EXCEPT ![Current(j)] = "completed"]
        /\ run' = [run EXCEPT ![j].pc = "ending"]
    BY <1>11 DEF CompletePartial, Looping
  <2>2. run'[j].pc = "ending" /\ run'[j].left = run[j].left
    BY <1>1, <2>1 DEF RunRecord
  <2>3. ListFits(j)'
    <3>1. /\ Apart(run[j].left) /\ Current(j) = run[j].left[1] /\ Len(run[j].left) \in Nat \ {0}
          /\ \A i \in 1 .. Len(run[j].left) : status[run[j].left[i]] # "completed"
      BY <2>1, CurrentFacts DEF RunIsPure, ListFits
    <3>2. ASSUME NEW i \in 1 .. Len(run[j].left), i # 1
          PROVE  status'[run[j].left[i]] # "completed"
      <4>1. run[j].left[i] # Current(j) /\ run[j].left[i] \in Attempts
        BY <1>1, <3>1, <3>2 DEF Apart, RunFits, Created
      <4> QED BY <1>1, <2>1, <3>1, <4>1 DEF Types
    <3> QED BY <2>2, <3>1, <3>2 DEF ListFits
  <2>4. RunIsPure(j)'
    BY <2>2, <2>3 DEF RunIsPure, CurrentFits, DeckFits, Filling, Working, Early
  <2> QED BY <1>9, <2>1, <2>4
<1>12. CASE CompleteFile(j)
  <2>1. /\ run[j].pc \in Looping /\ run[j].got /\ Advance(j)
        /\ file' = file /\ latest' = latest /\ deck' = deck
    BY <1>12 DEF CompleteFile, Looping
  <2>2. Created' = Created /\ status = [status EXCEPT ![Current(j)] = status[Current(j)]]
    BY <1>1, <2>1 DEF Created, Types
  <2>3. CASE run[j].pc = "done"
    <3>1. status' = [status EXCEPT ![Current(j)] = "completed"]
      BY <1>12, <2>3 DEF CompleteFile
    <3> QED BY <1>9, <2>1, <2>2, <2>3, <3>1, AdvanceKeepsPure
  <2>4. CASE run[j].pc = "ending"
    <3>1. status' = status /\ SameCompleted
      BY <1>12, <2>4 DEF CompleteFile, SameCompleted
    <3>2. RunIsPure(j)'
      BY <2>1, <2>2, <3>1, AdvanceKeepsPure
    <3> QED BY <2>1, <3>1, <3>2, SameDecksStay
  <2> QED BY <1>12, <2>3, <2>4 DEF CompleteFile
<1> QED BY <1>2, <1>3, <1>4, <1>5, <1>6, <1>7, <1>8, <1>10, <1>11, <1>12 DEF RunStep

LEMMA RetryKeepsPure ==
  ASSUME Base, CompletedDeckIsPure, NEW F \in SUBSET Files, Retry(F), run' = run
  PROVE  /\ CompletedDeckIsPure' /\ Untouched
         /\ \A j \in Jobs : RunIsPure(j) => RunIsPure(j)'
<1>1. Types /\ Rows
  BY DEF Base
<1>2. ASSUME NEW a \in Created
      PROVE  /\ a \in Attempts /\ file'[a] = file[a] /\ file[a] \in Files /\ a \notin Added(F)
             /\ status'[a] = "completed" => status[a] = "completed"
  <2>1. a \in Attempts /\ a \notin Added(F) /\ file[a] \in Files
    BY <1>1, RetryFacts DEF Created, Types
  <2>2. /\ file'[a] = file[a]
        /\ status'[a] = IF a \in Superseded(F) THEN "stopped" ELSE status[a]
    BY <1>1, <2>1, RetryFacts
  <2> QED BY <2>1, <2>2
<1>3. \A f \in F : /\ latest'[f] \in Added(F) /\ latest'[f] # latest[f]
                  /\ status'[latest'[f]] = "pending"
  BY <1>1, RetryFacts
<1>4. \A f \in Files \ F : latest'[f] = latest[f] /\ deck'[f] = deck[f] /\ latest[f] \in Created
  BY <1>1, RetryFacts DEF Rows
<1>5. Untouched /\ NoneIsCompleted
  <2>1. ASSUME NEW f \in Files, status'[latest'[f]] = "completed"
        PROVE  status[latest[f]] = "completed" /\ latest'[f] = latest[f]
    <3>1. f \notin F
      BY <1>3, <2>1
    <3> QED BY <1>2, <1>4, <2>1, <3>1
  <2>2. ASSUME NEW f \in Files, status[latest[f]] = "completed", latest'[f] = latest[f]
        PROVE  status'[latest[f]] = "completed" /\ deck'[f] = deck[f]
    <3>1. f \notin F
      BY <1>3, <2>2
    <3>2. latest[f] \notin Superseded(F)
      <4>1. \A g \in F : latest[g] # latest[f]
        BY <1>1, <3>1 DEF Rows
      <4> QED BY <4>1 DEF Superseded
    <3>3. status'[latest[f]] = status[latest[f]]
      BY <1>1, <1>2, <1>4, <3>1, <3>2, RetryFacts
    <3> QED BY <1>4, <2>2, <3>1, <3>3
  <2> QED BY <2>1, <2>2 DEF Untouched, NoneIsCompleted
<1>6. ASSUME NEW j \in Jobs, RunIsPure(j) PROVE RunIsPure(j)'
  <2>1. run'[j] = run[j] /\ Current(j)' = Current(j)
    BY DEF Current
  <2>2. \A i \in 1 .. Len(run[j].left) : run[j].left[i] \in Created
    BY DEF Base, RunFits
  <2>3. ListFits(j)'
    BY <1>2, <1>6, <2>1, <2>2 DEF RunIsPure, ListFits
  <2>4. run[j].pc \in Working => Current(j) \in Created
    BY CurrentFacts DEF Working, Looping
  <2>5. CurrentFits(j)'
    <3>1. ASSUME run[j].pc \in Working
          PROVE  status'[latest'[file'[Current(j)]]] # "completed"
      <4>1. file'[Current(j)] = file[Current(j)] /\ file[Current(j)] \in Files
        BY <1>2, <2>4, <3>1
      <4>2. status[latest[file[Current(j)]]] # "completed"
        BY <1>6, <3>1 DEF RunIsPure, CurrentFits
      <4>3. CASE file[Current(j)] \in F
        BY <1>3, <4>1, <4>3
      <4>4. CASE file[Current(j)] \notin F
        BY <1>2, <1>4, <4>1, <4>2, <4>4
      <4> QED BY <4>3, <4>4
    <3> QED BY <2>1, <3>1 DEF CurrentFits
  <2>6. DeckFits(j)'
    <3>1. ASSUME run[j].pc \in Filling, latest'[file'[Current(j)]] = Current(j)
          PROVE  /\ deck'[file'[Current(j)]] \subseteq {<<Current(j), j>>}
                 /\ run[j].got => deck'[file'[Current(j)]] = {<<Current(j), j>>}
      <4>1. /\ file'[Current(j)] = file[Current(j)] /\ file[Current(j)] \in Files
            /\ Current(j) \notin Added(F)
        BY <1>2, <2>4, <3>1 DEF Filling, Working
      <4>2. file[Current(j)] \notin F
        BY <1>3, <3>1, <4>1
      <4>3. /\ latest[file[Current(j)]] = Current(j)
            /\ deck'[file[Current(j)]] = deck[file[Current(j)]]
        BY <1>4, <3>1, <4>1, <4>2
      <4> QED BY <1>6, <3>1, <4>1, <4>3 DEF RunIsPure, DeckFits
    <3>2. run[j].pc \in Early => ~run[j].got
      BY <1>6 DEF RunIsPure, DeckFits
    <3> QED BY <2>1, <3>1, <3>2 DEF DeckFits
  <2> QED BY <2>3, <2>5, <2>6 DEF RunIsPure
<1> QED BY <1>5, <1>6, PureStays

\* A step that leaves the runs, the files and the decks alone, and completes
\* nothing.
LEMMA QuietKeepsPure ==
  ASSUME Base, run' = run, file' = file, latest' = latest, deck' = deck,
         \A a \in Attempts : status'[a] = "completed" => status[a] = "completed"
  PROVE  \A j \in Jobs : RunIsPure(j) => RunIsPure(j)'
<1>1. ASSUME NEW j \in Jobs, RunIsPure(j) PROVE RunIsPure(j)'
  <2>1. \A i \in 1 .. Len(run[j].left) : run[j].left[i] \in Attempts
    BY DEF Base, RunFits, Created
  <2>2. run[j].pc \in Working => latest[file[Current(j)]] \in Attempts
    BY CurrentFacts DEF Working, Looping, Base, Types
  <2>3. Current(j)' = Current(j)
    BY DEF Current
  <2>4. ListFits(j)'
    BY <1>1, <2>1 DEF RunIsPure, ListFits
  <2>5. CurrentFits(j)'
    BY <1>1, <2>2, <2>3 DEF RunIsPure, CurrentFits
  <2>6. DeckFits(j)'
    BY <1>1, <2>3 DEF RunIsPure, DeckFits
  <2> QED BY <2>4, <2>5, <2>6 DEF RunIsPure
<1> QED BY <1>1

\* With one thread, a poll starts a run only when there is none.
LEMMA FreeFacts ==
  ASSUME Base, Threads = 1
  PROVE  /\ Free \in Int /\ Free <= 1
         /\ (\E j \in Jobs : Running(j)) \/ note = "making" => Free <= 0
<1>1. PICK S : S = {j \in Jobs : Running(j)}
  OBVIOUS
<1>2. IsFiniteSet(S) /\ Cardinality(S) \in Nat
  BY <1>1, FilesAreFinite, FS_Subset, FS_CardinalityType
<1>3. Free = 1 - Cardinality(S) - (IF note = "making" THEN 1 ELSE 0)
  BY <1>1 DEF Free
<1>4. (\E j \in Jobs : Running(j)) => Cardinality(S) # 0
  BY <1>1, <1>2, FS_EmptySet
<1> QED BY <1>2, <1>3, <1>4

LEMMA OldestFacts ==
  ASSUME NEW S \in SUBSET Jobs, NEW n \in Int
  PROVE  /\ n <= 0 => Oldest(S, n) = {}
         /\ n <= 1 => \A i, j \in Oldest(S, n) : i = j
         /\ Oldest(S, n) \subseteq S
<1>1. IsFiniteSet(S) /\ S \subseteq Nat
  BY FilesAreFinite, FS_Subset
<1>2. ASSUME NEW j PROVE /\ IsFiniteSet({k \in S : k < j})
                         /\ Cardinality({k \in S : k < j}) \in Nat
  BY <1>1, FS_Subset, FS_CardinalityType
<1>3. ASSUME n <= 1, NEW i \in Oldest(S, n), NEW j \in Oldest(S, n), i < j PROVE FALSE
  <2>1. i \in S /\ j \in S /\ Cardinality({k \in S : k < j}) < n
    BY DEF Oldest
  <2>2. Cardinality({k \in S : k < j}) = 0
    BY <1>2, <1>3, <2>1
  <2>3. {k \in S : k < j} = {}
    BY <1>2, <2>2, FS_EmptySet
  <2> QED BY <1>3, <2>1, <2>3
<1>4. ASSUME n <= 1, NEW i \in Oldest(S, n), NEW j \in Oldest(S, n) PROVE i = j
  <2>1. i \in Nat /\ j \in Nat
    BY <1>1 DEF Oldest
  <2> QED BY <1>3, <1>4, <2>1
<1>5. ASSUME n <= 0 PROVE Oldest(S, n) = {}
  BY <1>2, <1>5 DEF Oldest
<1> QED BY <1>4, <1>5 DEF Oldest

LEMMA ClaimedFacts ==
  ASSUME Base, Threads = 1, Claimed # {}
  PROVE  /\ \A j \in Jobs : ~Running(j)
         /\ note # "making"
         /\ \A i, j \in Claimed : i = j
<1>1. PICK R \in SUBSET Jobs, n \in Int :
        R = Oldest(JobsWith("running"), Free) /\ n = Free - Cardinality(R)
  <2>1. /\ Oldest(JobsWith("running"), Free) \in SUBSET Jobs
        /\ Cardinality(Oldest(JobsWith("running"), Free)) \in Nat
    BY FilesAreFinite, FS_Subset, FS_CardinalityType DEF Oldest, JobsWith
  <2> QED BY <2>1, FreeFacts
<1>2. PICK P \in SUBSET Jobs : P = Oldest(JobsWith("pending"), n)
  BY DEF Oldest, JobsWith
<1>3. Claimed = (R \cup P) \ {j \in Jobs : Running(j)}
  BY <1>1, <1>2 DEF Claimed
<1>4. IsFiniteSet(R) /\ Cardinality(R) \in Nat
  BY <1>1, FilesAreFinite, FS_Subset, FS_CardinalityType
<1>5. Free \in Int /\ Free <= 1 /\ n <= 1
  BY <1>1, <1>4, FreeFacts
<1>6. JobsWith("running") \in SUBSET Jobs /\ JobsWith("pending") \in SUBSET Jobs
  BY DEF JobsWith
<1>7. Free > 0
  <2>1. ASSUME Free <= 0 PROVE FALSE
    <3>1. R = {} /\ n <= 0
      BY <1>1, <1>4, <1>5, <1>6, <2>1, OldestFacts
    <3>2. P = {}
      BY <1>2, <1>6, <3>1, OldestFacts
    <3> QED BY <1>3, <3>1, <3>2
  <2> QED BY <1>5, <2>1
<1>8. \A i, j \in R \cup P : i = j
  <2>1. /\ \A i, j \in R : i = j
        /\ \A i, j \in P : i = j
    BY <1>1, <1>2, <1>5, <1>6, OldestFacts
  <2>2. R # {} => P = {}
    <3>1. ASSUME R # {} PROVE P = {}
      <4>1. Cardinality(R) # 0
        BY <1>4, <3>1, FS_EmptySet
      <4>2. n <= 0
        BY <1>1, <1>4, <1>5, <4>1
      <4> QED BY <1>2, <1>6, <4>2, OldestFacts
    <3> QED BY <3>1
  <2> QED BY <2>1, <2>2
<1> QED BY <1>3, <1>5, <1>7, <1>8, FreeFacts

\* With one run at a time, the other jobs' runs are idle before and after a step
\* of it.
LEMMA OthersAreIdle ==
  ASSUME Base, Solo, NEW j \in Jobs, RunStep(j)
  PROVE  /\ run[j].pc # "idle"
         /\ \A i \in Jobs \ {j} : run'[i] = run[i] /\ run[i].pc = "idle"
<1>0. run \in [Jobs -> RunRecord]
  BY DEF Base, Types
<1>1. Running(j)
  BY DEF RunStep, Running, Begin, Select, FindOrphans, Reclaim, MissFiles, FailMissing, Resolve,
         Raise, LoopStopped, HaltUpload, EndStopped, SkipFile, LookFile, StartFile,
         ClearDeck, CheckChunk, WriteChunk, CompletePartial, CompleteFile,
         LoseSession, FailFile, ReadFinal, CommitFinal, LoseRows
<1>2. \A i \in Jobs \ {j} : run'[i] = run[i]
  <2>1. CASE SkipFile(j) \/ CompleteFile(j) \/ FailFile(j)
    BY <1>0, <2>1 DEF SkipFile, CompleteFile, FailFile, Advance
  <2>2. CASE Begin(j) \/ MissFiles(j) \/ FailMissing(j) \/ Resolve(j) \/ LookFile(j)
             \/ StartFile(j) \/ ClearDeck(j) \/ CheckChunk(j) \/ CompletePartial(j)
             \/ Raise(j) \/ EndStopped(j) \/ LoseSession(j) \/ CommitFinal(j)
             \/ LoseRows(j)
    BY <1>0, <2>2 DEF Begin, MissFiles, FailMissing, Resolve, LookFile, StartFile,
                      ClearDeck, CheckChunk, CompletePartial, Raise, EndStopped,
                      LoseSession, CommitFinal, LoseRows
  <2>3. CASE Select(j) \/ FindOrphans(j) \/ Reclaim(j) \/ LoopStopped(j)
             \/ HaltUpload(j) \/ WriteChunk(j) \/ ReadFinal(j)
    BY <1>0, <2>3 DEF Select, FindOrphans, Reclaim, LoopStopped, HaltUpload, WriteChunk,
                      ReadFinal
  <2> QED BY <2>1, <2>2, <2>3 DEF RunStep
<1>3. \A i, k \in Jobs : Running(i) /\ Running(k) => i = k
  BY DEF Solo
<1> QED BY <1>1, <1>2, <1>3 DEF Running

LEMMA PureStep ==
  ASSUME Threads = 1
  PROVE  Base /\ PureInv /\ [Next]_vars => PureInv' /\ Untouched
<1> SUFFICES ASSUME Base, PureInv, [Next]_vars PROVE PureInv' /\ Untouched
  OBVIOUS
<1>1. /\ Solo /\ CompletedDeckIsPure /\ \A j \in Jobs : RunIsPure(j)
      /\ Types /\ run \in [Jobs -> RunRecord]
  BY DEF PureInv, Base, Types
<1>2. ASSUME run' = run, note' = note \/ note' # "making"
      PROVE  Solo'
  BY <1>1, <1>2 DEF Solo, Running
<1>3. CASE Poll
  <2>1. /\ file' = file /\ latest' = latest /\ deck' = deck /\ SameCompleted
        /\ note' = note /\ Claimed # {}
    BY <1>3 DEF Poll, SameCompleted
  <2>2. /\ \A j \in Jobs : ~Running(j)
        /\ note # "making" /\ \A i, j \in Claimed : i = j
    BY <2>1, ClaimedFacts
  <2>3. \A j \in Jobs : run'[j] = IF j \in Claimed THEN [NoRun EXCEPT !.pc = "begin"]
                                                ELSE run[j]
    BY <1>3 DEF Poll
  <2>4. \A j \in Jobs : RunIsPure(j)'
    <3>1. ASSUME NEW j \in Jobs PROVE RunIsPure(j)'
      <4>1. run[j].pc = "idle"
        BY <2>2 DEF Running
      <4>2. run'[j] = [NoRun EXCEPT !.pc = "begin"] \/ run'[j].pc = "idle"
        BY <2>3, <4>1
      <4> QED BY <4>2, IdleIsPure
    <3> QED BY <3>1
  <2>5. Solo'
    <3>1. \A j \in Jobs : run'[j].pc # "idle" => j \in Claimed
      BY <2>2, <2>3 DEF Running
    <3> QED BY <2>1, <2>2, <3>1 DEF Solo, Running
  <2> QED BY <1>1, <2>1, <2>4, <2>5, SameDecksStay DEF PureInv
<1>4. CASE MakeNote
  <2>1. /\ file' = file /\ latest' = latest /\ deck' = deck /\ SameCompleted /\ run' = run
        /\ note # "making" /\ Free > 0
    BY <1>4 DEF MakeNote, SameCompleted
  <2>2. \A j \in Jobs : ~Running(j)
    BY <2>1, FreeFacts
  <2>3. Solo'
    BY <2>1, <2>2 DEF Solo, Running
  <2> QED BY <1>1, <2>1, <2>3, QuietKeepsPure, SameDecksStay DEF PureInv, SameCompleted
<1>5. CASE FinishNote \/ StopUpload \/ StopJob \/ ResumeFileJob \/ ResumeAllJob \/ Purge
           \/ CancelAll \/ (\E f \in Files : CancelFile(f)) \/ UNCHANGED vars
  <2>1. /\ file' = file /\ latest' = latest /\ deck' = deck /\ run' = run /\ status' = status
        /\ note' = note \/ note' # "making"
    BY <1>5 DEF FinishNote, StopUpload, StopJob, ResumeFileJob, ResumeAllJob,
                Purge, CancelAll, CancelFile, ReadCancel, vars
  <2>2. SameCompleted
    BY <2>1 DEF SameCompleted
  <2>3. Solo'
    BY <1>2, <2>1
  <2> QED BY <1>1, <2>1, <2>2, <2>3, QuietKeepsPure, SameDecksStay DEF PureInv, SameCompleted
<1>6. CASE CommitCancel
  <2>1. /\ file' = file /\ latest' = latest /\ deck' = deck /\ run' = run /\ note' = note
        /\ request.kind = "cancel"
        /\ status' = [a \in Attempts |-> IF a \in request.rows THEN "stopped" ELSE status[a]]
    BY <1>6 DEF CommitCancel
  <2>2. \A f \in Files : latest[f] \in Attempts
    BY <1>1 DEF Types
  <2>3. Untouched /\ NoneIsCompleted
    BY <2>1, <2>2 DEF Untouched, NoneIsCompleted
  <2>4. \A j \in Jobs : RunIsPure(j)'
    BY <1>1, <2>1, QuietKeepsPure
  <2> QED BY <1>1, <1>2, <2>1, <2>3, <2>4, PureStays DEF PureInv
<1>7. ASSUME NEW F \in SUBSET Files, Retry(F), run' = run, note' = note
      PROVE  PureInv' /\ Untouched
  BY <1>1, <1>2, <1>7, RetryKeepsPure DEF PureInv
<1>8. ASSUME NEW f \in Files, ResumeFile(f) PROVE PureInv' /\ Untouched
  BY <1>7, <1>8 DEF ResumeFile
<1>9. CASE ResumeAll
  BY <1>7, <1>9 DEF ResumeAll
<1>10. CASE CrashRestart
  <2>1. /\ file' = file /\ latest' = latest /\ deck' = deck /\ SameCompleted
        /\ note' # "making"
    BY <1>10 DEF CrashRestart, SameCompleted
  <2>2. \A j \in Jobs : run'[j] = NoRun
    BY <1>10 DEF CrashRestart
  <2>3. \A j \in Jobs : RunIsPure(j)'
    BY <2>2, IdleIsPure
  <2>4. Solo'
    BY <2>1, <2>2 DEF Solo, Running, NoRun
  <2> QED BY <1>1, <2>1, <2>3, <2>4, SameDecksStay DEF PureInv
<1>11. ASSUME NEW j \in Jobs, RunStep(j) PROVE PureInv' /\ Untouched
  <2>1. RunIsPure(j)' /\ CompletedDeckIsPure' /\ Untouched
    BY <1>1, <1>11, RunStepKeepsPure
  <2>2. note' = note \/ note' # "making"
    BY <1>11 DEF RunStep, Begin, Select, FindOrphans, Reclaim, MissFiles, FailMissing, Resolve,
                 Raise, LoopStopped, HaltUpload, EndStopped, SkipFile, LookFile, StartFile,
                 ClearDeck, CheckChunk, WriteChunk, CompletePartial, CompleteFile,
                 LoseSession, FailFile, ReadFinal, CommitFinal, LoseRows
  <2>3. /\ Running(j)
        /\ \A i \in Jobs \ {j} : run'[i].pc = "idle"
    BY <1>1, <1>11, OthersAreIdle DEF Running
  <2>4. \A i \in Jobs : RunIsPure(i)'
    <3>1. ASSUME NEW i \in Jobs \ {j} PROVE RunIsPure(i)'
      BY <2>3, IdleIsPure
    <3> QED BY <2>1, <3>1
  <2>5. Solo'
    BY <1>1, <2>2, <2>3 DEF Solo, Running
  <2> QED BY <2>1, <2>4, <2>5 DEF PureInv
<1> QED
  BY <1>3, <1>4, <1>5, <1>6, <1>8, <1>9, <1>10, <1>11 DEF Next, FirstCommit, SecondCommit

LEMMA InitIsPure == Init => PureInv
<1> SUFFICES ASSUME Init PROVE PureInv
  OBVIOUS
<1>1. \A j \in Jobs : run[j] = NoRun
  BY DEF Init
<1>2. \A j \in Jobs : RunIsPure(j)
  BY <1>1 DEF RunIsPure, ListFits, CurrentFits, DeckFits, NoRun, Looping, Filling, Working,
              Early
<1>3. Solo
  BY <1>1 DEF Init, Solo, Running, NoRun
<1>4. \A f \in Files : status[latest[f]] # "completed"
  BY NumbersAreNat DEF Init
<1> QED BY <1>2, <1>3, <1>4 DEF PureInv, CompletedDeckIsPure

\* With the one thread JOB_WORKER_THREADS defaults to, the deck of a completed
\* file holds the cards of its latest attempt from one run and no others.
THEOREM OneThreadFillsCleanly ==
  ASSUME Threads = 1
  PROVE  Spec => []CompletedDeckIsPure
<1> DEFINE IInv == Base /\ PureInv
<1>1. Init => IInv
  BY InitEstablishesBase, InitIsPure
<1>2. IInv /\ [Next]_vars => IInv'
  BY NextKeepsBase, PureStep
<1>3. IInv => CompletedDeckIsPure
  BY DEF PureInv
<1> HIDE DEF IInv
<1> QED BY <1>1, <1>2, <1>3, PTL DEF Spec

\* ... and such a file keeps that deck and stays completed until it is retried;
\* only a cancel that read it before it was completed marks it stopped.
THEOREM OneThreadLeavesAlone ==
  ASSUME Threads = 1
  PROVE  Spec => CompletedFileIsLeftAlone
<1> DEFINE IInv == Base /\ PureInv
           Kept == \A f \in Files :
                     status[latest[f]] = "completed" /\ latest'[f] = latest[f]
                       => /\ deck'[f] = deck[f]
                          /\ \/ status'[latest[f]] = "completed"
                             \/ /\ status'[latest[f]] = "stopped"
                                /\ request.kind = "cancel" /\ latest[f] \in request.rows
<1>1. Init => IInv
  BY InitEstablishesBase, InitIsPure
<1>2. IInv /\ [Next]_vars => IInv'
  BY NextKeepsBase, PureStep
<1>3. IInv /\ [Next]_vars => [Kept]_vars
  BY PureStep DEF Untouched
<1>4. CompletedFileIsLeftAlone <=> [][Kept]_vars
  BY PTL DEF CompletedFileIsLeftAlone
<1> HIDE DEF IInv, Kept
<1> QED BY <1>1, <1>2, <1>3, <1>4, PTL DEF Spec

-----------------------------------------------------------------------------
(* Superseded attempts.  As long as the process has not died, a processing   *)
(* attempt is in the hands of the one run, and a pending one is its file's   *)
(* latest.  (LoseSession, in an upload into an existing deck, lets go of a   *)
(* processing one.)                                                          *)

InOrder(a) ==
  /\ status[a] = "processing" => \E j \in Jobs : InHand(j, a)
  /\ status[a] = "pending" => latest[file[a]] = a

OpenInv ==
  /\ crashes = 0 => /\ \A a \in Created : InOrder(a)
                    /\ \A j \in Jobs : run[j].pc # "reclaim"
  /\ ~Exists => \A a \in Created : status[a] \notin Open

LEMMA OpenInvIsOver == OpenInv => SupersededIsOver
BY DEF OpenInv, InOrder, SupersededIsOver, Open

LEMMA WriteFacts ==
  ASSUME Base, NEW j \in Jobs, WriteChunk(j)
  PROVE  run'[j].left = run[j].left /\ run'[j].pc \in {"done", "check"}
<1>1. run[j] \in RunRecord /\ run \in [Jobs -> RunRecord]
  BY DEF Base, Types
<1>2. PICK cards \in BOOLEAN :
        run' = [run EXCEPT ![j].chunk = @ + 1, ![j].got = @ \/ cards,
                           ![j].pc = IF run[j].chunk + 1 = Chunks
                                     THEN "done" ELSE "check"]
  BY DEF WriteChunk
<1>3. PICK p \in {"done", "check"}, g \in BOOLEAN :
        /\ p = IF run[j].chunk + 1 = Chunks THEN "done" ELSE "check"
        /\ g = (run[j].got \/ cards)
  OBVIOUS
<1>4. run' = [run EXCEPT ![j].chunk = @ + 1, ![j].got = g, ![j].pc = p]
  BY <1>2, <1>3
<1> QED BY <1>1, <1>4 DEF RunRecord

\* A step of the run leaves the attempts in order, if it does so with those that
\* are open afterwards.
LEMMA RunStepKeepsOpen ==
  ASSUME ~SingleDeck, Base, PureInv, OpenInv, NEW j \in Jobs, RunStep(j)
  PROVE  OpenInv'
<1>1. /\ Types /\ Rows /\ run[j] \in RunRecord /\ run \in [Jobs -> RunRecord] /\ RunFits(j)
      /\ Created \subseteq Attempts /\ Solo
  BY DEF Base, Types, PureInv, Created
<1>2. run[j].pc # "idle" /\ \A i \in Jobs \ {j} : run'[i] = run[i] /\ run[i].pc = "idle"
  BY <1>1, OthersAreIdle
<1>3. file' = file /\ latest' = latest /\ crashes' = crashes /\ Created' = Created
  BY DEF RunStep, Created, counters, Begin, Select, FindOrphans, Reclaim, MissFiles, FailMissing, Resolve,
         Raise, LoopStopped, HaltUpload, EndStopped, SkipFile, LookFile, StartFile,
         ClearDeck, CheckChunk, WriteChunk, CompletePartial, CompleteFile,
         LoseSession, FailFile, ReadFinal, CommitFinal, LoseRows
<1>4. \A a \in Attempts, i \in Jobs : InHand(i, a) => i = j
  BY <1>2 DEF InHand
<1>5. ASSUME Exists', run'[j].pc # "reclaim",
             crashes = 0 => \A a \in Created : InOrder(a)'
      PROVE  OpenInv'
  <2>1. \A i \in Jobs : run'[i].pc # "reclaim"
    BY <1>2, <1>5
  <2> QED BY <1>3, <1>5, <2>1 DEF OpenInv
<1>6. CASE Begin(j) \/ Select(j) \/ MissFiles(j) \/ FailMissing(j) \/ Resolve(j)
           \/ LoopStopped(j) \/ HaltUpload(j) \/ EndStopped(j) \/ LookFile(j)
           \/ ReadFinal(j) \/ CommitFinal(j)
  <2>1. /\ run[j].pc \notin {"start", "title", "check", "write", "done"}
        /\ status' = status /\ Exists
    BY <1>6 DEF Begin, Select, MissFiles, FailMissing, Resolve, LoopStopped, HaltUpload,
                EndStopped, LookFile, ReadFinal, CommitFinal
  <2>2. run'[j].pc # "reclaim"
    BY <1>1, <1>6 DEF Begin, Select, MissFiles, FailMissing, Resolve, LoopStopped, HaltUpload,
                      EndStopped, LookFile, ReadFinal, CommitFinal, RunRecord, NoRun
  <2>3. Exists'
    <3>1. CASE Begin(j) \/ FailMissing(j)
      BY <1>1, <3>1 DEF Begin, FailMissing, Exists, Types
    <3>2. CASE CommitFinal(j) \/ HaltUpload(j)
      BY <1>1, <3>2 DEF CommitFinal, HaltUpload, Exists, Types, RunFits
    <3>3. CASE Select(j) \/ MissFiles(j) \/ Resolve(j) \/ LoopStopped(j) \/ EndStopped(j)
               \/ LookFile(j) \/ ReadFinal(j)
      BY <2>1, <3>3 DEF Select, MissFiles, Resolve, LoopStopped, EndStopped, LookFile,
                        ReadFinal, Exists
    <3> QED BY <1>6, <3>1, <3>2, <3>3
  <2>4. ASSUME crashes = 0, NEW a \in Created PROVE InOrder(a)'
    <3>1. InOrder(a) /\ a \in Attempts
      BY <1>1, <2>4 DEF OpenInv
    <3>2. status[a] # "processing"
      BY <1>4, <2>1, <3>1 DEF InOrder, InHand
    <3> QED BY <1>3, <2>1, <3>1, <3>2 DEF InOrder
  <2> QED BY <1>5, <2>2, <2>3, <2>4
<1>7. CASE FindOrphans(j) \/ Reclaim(j)
  <2>1. crashes # 0
    <3>1. ASSUME crashes = 0 PROVE FALSE
      <4>1. FindOrphans(j)
        BY <1>7, <3>1 DEF Reclaim, OpenInv
      <4>2. PICK a \in Created : status[a] = "processing"
        BY <4>1 DEF FindOrphans, Orphans, WithStatus
      <4>3. PICK i \in Jobs : InHand(i, a)
        BY <3>1, <4>2 DEF OpenInv, InOrder
      <4>4. run[j].pc = "select"
        BY <4>1 DEF FindOrphans
      <4> QED BY <1>1, <1>4, <4>3, <4>4 DEF InHand
    <3> QED BY <3>1
  <2>2. Exists'
    BY <1>7 DEF FindOrphans, Reclaim, Exists
  <2> QED BY <1>3, <2>1, <2>2 DEF OpenInv
<1>8. CASE Raise(j)
  <2>1. /\ run[j].pc = "resolve" /\ run'[j].pc # "reclaim" /\ Exists'
        /\ \A a \in Created : status'[a] \in Open => status'[a] = status[a]
    BY <1>1, <1>8 DEF Raise, NoRun, Exists, Types, Open
  <2>2. ASSUME crashes = 0, NEW a \in Created PROVE InOrder(a)'
    <3>1. InOrder(a) /\ a \in Attempts
      BY <1>1, <2>2 DEF OpenInv
    <3>2. status[a] # "processing"
      BY <1>4, <2>1, <3>1 DEF InOrder, InHand
    <3> QED BY <1>3, <2>1, <3>1, <3>2 DEF InOrder, Open
  <2> QED BY <1>5, <2>1, <2>2
<1>9. CASE SkipFile(j) \/ CompletePartial(j) \/ CompleteFile(j) \/ FailFile(j)
  <2>1. /\ Exists' /\ run[j].pc \in Looping
        /\ \/ \E s \in {"stopped", "completed", "failed"} :
                status' = [status EXCEPT ![Current(j)] = s]
           \/ status' = status /\ run[j].pc = "ending"
    BY <1>9 DEF SkipFile, CompletePartial, CompleteFile, FailFile, Exists, Looping
  <2>2. run'[j].pc # "reclaim"
    <3>1. CASE CompletePartial(j)
      BY <1>1, <3>1 DEF CompletePartial, RunRecord
    <3>2. CASE SkipFile(j) \/ CompleteFile(j) \/ FailFile(j)
      <4>1. Advance(j)
        BY <3>2 DEF SkipFile, CompleteFile, FailFile
      <4> QED BY <1>3, <2>1, <4>1, AdvanceFacts
    <3> QED BY <1>9, <3>1, <3>2
  <2>3. ASSUME crashes = 0, NEW a \in Created PROVE InOrder(a)'
    <3>1. InOrder(a) /\ a \in Attempts
      BY <1>1, <2>3 DEF OpenInv
    <3>2. a # Current(j) => status'[a] = status[a]
      BY <1>1, <2>1, <3>1 DEF Types
    <3>3. a # Current(j) \/ run[j].pc = "ending" => status[a] # "processing"
      BY <1>4, <3>1 DEF InOrder, InHand
    <3>4. a = Current(j) => status'[a] \notin Open \/ status'[a] = status[a]
      BY <1>1, <2>1, <3>1 DEF Types, Open
    <3>5. status'[a] # "processing"
      BY <1>1, <2>1, <3>1, <3>2, <3>3 DEF Types
    <3> QED BY <1>3, <3>1, <3>2, <3>4, <3>5 DEF InOrder, Open
  <2> QED BY <1>5, <2>1, <2>2, <2>3
<1>10. CASE StartFile(j) \/ ClearDeck(j) \/ CheckChunk(j) \/ WriteChunk(j)
  <2>1. /\ Exists' /\ run[j].pc \in {"start", "title", "check", "write"}
        /\ status' = status \/ status' = [status EXCEPT ![Current(j)] = "processing"]
    BY <1>10 DEF StartFile, ClearDeck, CheckChunk, WriteChunk, Exists
  <2>2. run'[j].pc \in {"title", "check", "write", "done"} /\ run'[j].left = run[j].left
    <3>1. CASE StartFile(j) \/ ClearDeck(j) \/ CheckChunk(j)
      BY <1>1, <3>1 DEF StartFile, ClearDeck, CheckChunk, RunRecord
    <3>2. CASE WriteChunk(j)
      BY <3>2, WriteFacts
    <3> QED BY <1>10, <3>1, <3>2
  <2>3. \A a \in Attempts : a = Current(j) => InHand(j, a)'
    BY <2>2 DEF InHand, Current
  <2>4. ASSUME crashes = 0, NEW a \in Created PROVE InOrder(a)'
    <3>1. InOrder(a) /\ a \in Attempts
      BY <1>1, <2>4 DEF OpenInv
    <3>2. a # Current(j) => status'[a] = status[a] /\ status[a] # "processing"
      BY <1>1, <1>4, <2>1, <3>1 DEF Types, InOrder, InHand
    <3>3. status'[a] = "processing" => InHand(j, a)'
      BY <2>3, <3>1, <3>2
    <3>4. status'[a] = "pending" => status[a] = "pending"
      BY <1>1, <2>1, <3>1 DEF Types
    <3> QED BY <1>3, <3>1, <3>3, <3>4 DEF InOrder
  <2> QED BY <1>5, <2>1, <2>2, <2>4
<1>11. CASE LoseSession(j)
  BY <1>11 DEF LoseSession, NoteInTheWay
<1>12. CASE LoseRows(j)
  <2>1. status' = status /\ ~Exists /\ run'[j].pc = "idle" /\ ~Exists'
    BY <1>1, <1>12 DEF LoseRows, NoRun, Exists
  <2>2. \A a \in Created : status[a] \notin Open
    BY <2>1 DEF OpenInv
  <2>3. \A a \in Created : InOrder(a)' /\ status'[a] \notin Open
    BY <2>1, <2>2 DEF InOrder, Open
  <2>4. crashes = 0 => \A i \in Jobs : run'[i].pc # "reclaim"
    BY <1>2, <2>1 DEF OpenInv
  <2> QED BY <1>3, <2>1, <2>3, <2>4 DEF OpenInv
<1> QED BY <1>6, <1>7, <1>8, <1>9, <1>10, <1>11, <1>12 DEF RunStep

LEMMA RetryKeepsOpen ==
  ASSUME Base, OpenInv, NEW F \in SUBSET Files, Retry(F), run' = run, crashes' = crashes, Exists'
  PROVE  OpenInv'
<1>1. Types /\ Rows
  BY DEF Base
<1>2. ASSUME crashes = 0, NEW a \in Attempts, file'[a] # 0 PROVE InOrder(a)'
  <2>1. CASE a \in Added(F)
    BY <1>1, <2>1, RetryFacts DEF InOrder
  <2>2. CASE a \notin Added(F)
    <3>1. /\ file'[a] = file[a] /\ a \in Created /\ file[a] \in Files
          /\ status'[a] = IF a \in Superseded(F) THEN "stopped" ELSE status[a]
      BY <1>1, <1>2, <2>2, RetryFacts DEF Created, Types
    <3>2. InOrder(a)
      BY <1>2, <3>1 DEF OpenInv
    <3>3. status'[a] = "processing" => \E j \in Jobs : InHand(j, a)'
      BY <3>1, <3>2 DEF InOrder, InHand, Current
    <3>4. ASSUME status'[a] = "pending" PROVE latest'[file'[a]] = a
      <4>1. latest[file[a]] = a /\ a \notin Superseded(F)
        BY <3>1, <3>2, <3>4 DEF InOrder
      <4>2. file[a] \notin F
        BY <3>1, <4>1 DEF Superseded
      <4> QED BY <1>1, <3>1, <4>1, <4>2, RetryFacts
    <3> QED BY <3>3, <3>4 DEF InOrder
  <2> QED BY <2>1, <2>2
<1> QED BY <1>2 DEF OpenInv, Created

LEMMA OpenStep ==
  ASSUME Threads = 1, ~SingleDeck
  PROVE  Base /\ PureInv /\ OpenInv /\ [Next]_vars => OpenInv'
<1> SUFFICES ASSUME Base, PureInv, OpenInv, [Next]_vars PROVE OpenInv'
  OBVIOUS
<1>1. Types /\ Rows /\ RequestFits /\ Created \subseteq Attempts /\ crashes \in Nat
  BY DEF Base, Types, Created
<1>2. ASSUME file' = file, latest' = latest, crashes' = crashes, Exists' <=> Exists, run' = run,
             \A a \in Created : status'[a] = status[a] \/ status'[a] = "stopped"
      PROVE  OpenInv'
  <2>1. \A a \in Created : InOrder(a) => InOrder(a)'
    BY <1>2 DEF InOrder, InHand, Current
  <2>2. \A a \in Created : status[a] \notin Open => status'[a] \notin Open
    BY <1>2 DEF Open
  <2> QED BY <1>2, <2>1, <2>2 DEF OpenInv, Created
<1>3. CASE MakeNote \/ FinishNote \/ StopJob \/ ResumeFileJob \/ ResumeAllJob \/ UNCHANGED vars
           \/ CancelAll \/ \E f \in Files : CancelFile(f)
  <2>1. /\ file' = file /\ latest' = latest /\ crashes' = crashes /\ bulk' = bulk /\ run' = run
        /\ status' = status
    BY <1>3 DEF MakeNote, FinishNote, StopJob, ResumeFileJob, ResumeAllJob, vars, counters,
                CancelAll, CancelFile, ReadCancel
  <2> QED BY <1>2, <2>1 DEF Exists
<1>4. CASE StopUpload
  <2>1. /\ file' = file /\ latest' = latest /\ crashes' = crashes /\ run' = run
        /\ status' = status /\ Exists /\ bulk'.status = "stopped"
    BY <1>4 DEF StopUpload, MayStop, May
  <2> QED BY <1>2, <2>1 DEF Exists
<1>5. CASE CommitCancel
  <2>1. /\ file' = file /\ latest' = latest /\ crashes' = crashes /\ run' = run /\ Exists
        /\ status' = [a \in Attempts |-> IF a \in request.rows THEN "stopped" ELSE status[a]]
    BY <1>5 DEF CommitCancel, counters
  <2>2. Exists'
    BY <1>1, <1>5 DEF CommitCancel, Exists, RequestFits
  <2> QED BY <1>1, <1>2, <2>1, <2>2
<1>6. CASE Poll
  <2>1. /\ file' = file /\ latest' = latest /\ crashes' = crashes /\ bulk' = bulk
        /\ status' = status /\ Claimed # {}
        /\ \A j \in Jobs : run'[j] = run[j] \/ run'[j] = [NoRun EXCEPT !.pc = "begin"]
    BY <1>6 DEF Poll, counters
  <2>2. \A j \in Jobs : run[j].pc = "idle"
    BY <1>1, <2>1, ClaimedFacts DEF Running
  <2>3. \A j \in Jobs : run'[j].pc \in {"idle", "begin"}
    BY <2>1, <2>2 DEF NoRun
  <2>4. \A a \in Created : InOrder(a) => InOrder(a)'
    BY <2>1, <2>2 DEF InOrder, InHand
  <2> QED BY <2>1, <2>3, <2>4 DEF OpenInv, Created, Exists
<1>7. CASE CrashRestart
  <2>1. crashes' # 0 /\ file' = file /\ status' = status /\ bulk' = bulk
    BY <1>1, <1>7 DEF CrashRestart
  <2> QED BY <2>1 DEF OpenInv, Created, Exists
<1>8. CASE Purge
  <2>1. /\ file' = file /\ latest' = latest /\ crashes' = crashes /\ run' = run
        /\ status' = status /\ Purgeable
    BY <1>8 DEF Purge, counters
  <2>2. \A a \in Created : status[a] \notin Open
    BY <2>1 DEF Purgeable, WithStatus, Open
  <2>3. \A a \in Created : InOrder(a)'
    BY <2>1, <2>2 DEF InOrder, Open
  <2> QED BY <2>1, <2>2, <2>3 DEF OpenInv, Created
<1>9. ASSUME NEW f \in Files, ResumeFile(f) PROVE OpenInv'
  <2>1. /\ {f} \in SUBSET Files /\ Retry({f}) /\ run' = run /\ crashes' = crashes /\ Exists'
    BY <1>9, StatusOfIsStatus DEF ResumeFile, Exists, counters
  <2> QED BY <2>1, RetryKeepsOpen
<1>10. CASE ResumeAll
  <2>1. /\ Files \in SUBSET Files /\ Retry(Files) /\ run' = run /\ crashes' = crashes /\ Exists'
    BY <1>10 DEF ResumeAll, Exists, counters
  <2> QED BY <2>1, RetryKeepsOpen
<1>11. ASSUME NEW j \in Jobs, RunStep(j) PROVE OpenInv'
  BY <1>11, RunStepKeepsOpen
<1> QED
  BY <1>3, <1>4, <1>5, <1>6, <1>7, <1>8, <1>9, <1>10, <1>11
     DEF Next, FirstCommit, SecondCommit

LEMMA InitIsInOrder == Init => OpenInv
<1> SUFFICES ASSUME Init PROVE OpenInv
  OBVIOUS
<1>1. Created = Files /\ \A a \in Files : status[a] = "pending" /\ latest[file[a]] = a
  BY NumbersAreNat DEF Init, Created, Files
<1>2. \A j \in Jobs : run[j].pc # "reclaim"
  BY DEF Init, NoRun
<1> QED BY <1>1, <1>2 DEF Init, OpenInv, InOrder, Exists

\* With one thread and decks of its own, an attempt that a retry superseded is
\* over, or in the hands of the run that looked at it before the retry, until
\* the process dies: for any number of files, jobs and retries.
THEOREM OnlyLatestIsOpen ==
  ASSUME Threads = 1, ~SingleDeck
  PROVE  Spec => []SupersededIsOver
<1> DEFINE IInv == Base /\ PureInv /\ OpenInv
<1>1. Init => IInv
  BY InitEstablishesBase, InitIsPure, InitIsInOrder
<1>2. IInv /\ [Next]_vars => IInv'
  BY NextKeepsBase, PureStep, OpenStep
<1>3. IInv => SupersededIsOver
  BY OpenInvIsOver
<1> HIDE DEF IInv
<1> QED BY <1>1, <1>2, <1>3, PTL DEF Spec

-----------------------------------------------------------------------------
(* The life of a file.  What a run has on its list and has not begun waits,  *)
(* or was canceled.                                                          *)

Fresh == {"pending", "stopped"}

Unbegun(j) ==
  run[j].pc \in Looping =>
    \A i \in 1 .. Len(run[j].left) :
      run[j].pc \in {"resolve", "next"} \/ i # 1 => status[run[j].left[i]] \in Fresh

WaitInv == \A j \in Jobs : Unbegun(j)

\* What is fresh remains so, unless a run begins or ends it.
StaysFresh == \A a \in Created : status[a] \in Fresh => status'[a] \in Fresh

LEMMA ListStays ==
  ASSUME Base, NEW j \in Jobs, Unbegun(j), run'[j] = run[j], StaysFresh
  PROVE  Unbegun(j)'
<1>1. \A i \in 1 .. Len(run[j].left) : run[j].left[i] \in Created
  BY DEF Base, RunFits
<1> QED BY <1>1 DEF Unbegun, StaysFresh

LEMMA NoListIsUnbegun ==
  ASSUME NEW j \in Jobs, run'[j].pc \notin Looping
  PROVE  Unbegun(j)'
BY DEF Unbegun

LEMMA IdleIsUnbegun ==
  ASSUME NEW j \in Jobs, run'[j] = NoRun \/ run'[j] = [NoRun EXCEPT !.pc = "begin"]
  PROVE  Unbegun(j)'
BY DEF NoRun, Unbegun, Looping

\* A step within the current attempt, or from its beginning.
LEMMA CurrentStaysUnbegun ==
  ASSUME Base, NEW j \in Jobs, Unbegun(j), RunIsPure(j), run[j].pc \in Looping,
         run'[j].left = run[j].left,
         run'[j].pc \in {"resolve", "next"} =>
           run[j].pc \in {"resolve", "next"} /\ status' = status,
         \A a \in Created : a # Current(j) => status'[a] = status[a]
  PROVE  Unbegun(j)'
<1>1. /\ \A i \in 1 .. Len(run[j].left) : run[j].left[i] \in Created
      /\ Current(j) = run[j].left[1] /\ Len(run[j].left) \in Nat \ {0}
  BY CurrentFacts DEF Base, RunFits
<1>2. \A i \in 1 .. Len(run[j].left) : i # 1 => run[j].left[i] # Current(j)
  BY <1>1 DEF RunIsPure, ListFits, Apart
<1>3. ASSUME NEW i \in 1 .. Len(run[j].left), run'[j].pc \in {"resolve", "next"} \/ i # 1
      PROVE  status'[run[j].left[i]] \in Fresh
  <2>1. CASE i # 1
    BY <1>1, <1>2, <2>1 DEF Unbegun
  <2>2. CASE run'[j].pc \in {"resolve", "next"}
    BY <2>2 DEF Unbegun
  <2> QED BY <1>3, <2>1, <2>2
<1> QED BY <1>3 DEF Unbegun

LEMMA AdvanceKeepsUnbegun ==
  ASSUME Base, NEW j \in Jobs, Unbegun(j), RunIsPure(j), run[j].pc \in Looping, Advance(j),
         Created' = Created, \A a \in Created : a # Current(j) => status'[a] = status[a]
  PROVE  Unbegun(j)'
<1>1. /\ run[j].left \in Seq(Attempts) /\ run[j].left # <<>>
      /\ \A i \in 1 .. Len(run[j].left) : run[j].left[i] \in Created
  BY DEF Base, Types, RunRecord, RunFits
<1>2. /\ Len(Tail(run[j].left)) = Len(run[j].left) - 1
      /\ \A i \in 1 .. Len(Tail(run[j].left)) : Tail(run[j].left)[i] = run[j].left[i + 1]
      /\ Len(run[j].left) \in Nat
  BY <1>1, HeadTailProperties, LenProperties
<1>3. run'[j].left = Tail(run[j].left)
  BY AdvanceFacts
<1>4. Current(j) = run[j].left[1] /\ Len(run[j].left) \in Nat \ {0}
  BY CurrentFacts
<1>5. ASSUME NEW i \in 1 .. Len(Tail(run[j].left))
      PROVE  status'[Tail(run[j].left)[i]] \in Fresh
  <2>1. i + 1 \in 1 .. Len(run[j].left) /\ i + 1 # 1 /\ 1 \in 1 .. Len(run[j].left)
    BY <1>2, <1>4
  <2>2. run[j].left[i + 1] # Current(j) /\ run[j].left[i + 1] \in Created
    BY <1>1, <1>4, <2>1 DEF RunIsPure, ListFits, Apart
  <2>3. status[run[j].left[i + 1]] \in Fresh
    BY <2>1 DEF Unbegun
  <2> QED BY <1>2, <2>2, <2>3
<1> QED BY <1>3, <1>5 DEF Unbegun

LEMMA RunStepKeepsUnbegun ==
  ASSUME Base, NEW j \in Jobs, RunIsPure(j), Unbegun(j), RunStep(j)
  PROVE  Unbegun(j)'
<1>1. /\ Types /\ RunFits(j) /\ run[j] \in RunRecord /\ run \in [Jobs -> RunRecord]
      /\ Created \subseteq Attempts
  BY DEF Base, Types, Created
<1>2. CASE Begin(j) \/ FindOrphans(j) \/ Reclaim(j) \/ MissFiles(j) \/ LoopStopped(j)
           \/ HaltUpload(j) \/ ReadFinal(j)
  <2>1. run'[j].pc \in {"select", "reclaim", "reselect", "missing", "halt", "stopped", "commit"}
    BY <1>1, <1>2 DEF Begin, FindOrphans, Reclaim, MissFiles, LoopStopped, HaltUpload,
                      ReadFinal, RunRecord
  <2> QED BY <2>1, NoListIsUnbegun DEF Looping
<1>3. CASE FailMissing(j) \/ Raise(j) \/ EndStopped(j) \/ LoseSession(j) \/ CommitFinal(j)
           \/ LoseRows(j)
  <2>1. run'[j] = NoRun
    BY <1>1, <1>3 DEF FailMissing, Raise, EndStopped, LoseSession, CommitFinal, LoseRows
  <2> QED BY <2>1, IdleIsUnbegun
<1>4. CASE Resolve(j) \/ LookFile(j) \/ ClearDeck(j) \/ CheckChunk(j)
  <2>1. /\ status' = status /\ run'[j].left = run[j].left /\ run[j].pc \in Looping
        /\ run'[j].pc = "next" => run[j].pc = "resolve"
        /\ run'[j].pc # "resolve"
    BY <1>1, <1>4 DEF Resolve, LookFile, ClearDeck, CheckChunk, RunRecord, Looping
  <2> QED BY <2>1, CurrentStaysUnbegun
<1>5. CASE WriteChunk(j)
  <2>1. status' = status /\ run[j].pc = "write"
    BY <1>5 DEF WriteChunk
  <2>2. run'[j].left = run[j].left /\ run'[j].pc \in {"done", "check"}
    BY <1>5, WriteFacts
  <2> QED BY <2>1, <2>2, CurrentStaysUnbegun DEF Looping
<1>6. CASE StartFile(j) \/ CompletePartial(j)
  <2>1. /\ \E s \in {"processing", "completed"} : status' = [status EXCEPT ![Current(j)] = s]
        /\ run'[j].left = run[j].left /\ run'[j].pc \in {"title", "ending"}
        /\ run[j].pc \in {"start", "done"}
    BY <1>1, <1>6 DEF StartFile, CompletePartial, RunRecord
  <2>2. \A a \in Created : a # Current(j) => status'[a] = status[a]
    BY <1>1, <2>1 DEF Types
  <2> QED BY <2>1, <2>2, CurrentStaysUnbegun DEF Looping
<1>7. CASE SkipFile(j) \/ CompleteFile(j) \/ FailFile(j)
  <2>1. /\ run[j].pc \in Looping /\ Advance(j) /\ file' = file
        /\ \/ status' = status
           \/ \E s \in {"stopped", "completed", "failed"} :
                status' = [status EXCEPT ![Current(j)] = s]
    BY <1>7 DEF SkipFile, CompleteFile, FailFile, Looping
  <2>2. /\ Created' = Created
        /\ \A a \in Created : a # Current(j) => status'[a] = status[a]
    BY <1>1, <2>1 DEF Types, Created
  <2> QED BY <2>1, <2>2, AdvanceKeepsUnbegun
<1>8. CASE Select(j)
  <2>1. PICK s : s = Ascending(Chosen)
    OBVIOUS
  <2>2. \A i \in 1 .. Len(s) : s[i] \in Chosen
    BY <1>8, <2>1, ListFacts, WithStatusIsCreated DEF Select
  <2>3. run' = [run EXCEPT ![j].pc = "resolve", ![j].left = s] /\ status' = status
    BY <1>8, <2>1 DEF Select
  <2>4. run'[j].left = s
    BY <1>1, <2>3 DEF RunRecord
  <2> QED BY <2>2, <2>3, <2>4 DEF Unbegun, Fresh, Chosen, WithStatus
<1> QED BY <1>2, <1>3, <1>4, <1>5, <1>6, <1>7, <1>8 DEF RunStep

LEMMA RequestsStayFresh ==
  ASSUME Base, FirstCommit \/ SecondCommit \/ Poll \/ MakeNote \/ FinishNote
               \/ CrashRestart \/ UNCHANGED vars
  PROVE  StaysFresh
<1>1. Types /\ Rows /\ Created \subseteq Attempts
  BY DEF Base, Created
<1>2. CASE StopJob \/ ResumeFileJob \/ ResumeAllJob \/ Poll \/ MakeNote \/ FinishNote
           \/ CrashRestart \/ StopUpload \/ Purge \/ CancelAll \/ (\E f \in Files : CancelFile(f))
           \/ UNCHANGED vars
  <2>1. status' = status
    BY <1>2 DEF StopJob, ResumeFileJob, ResumeAllJob, Poll, MakeNote, FinishNote,
                CrashRestart, StopUpload, Purge, CancelAll, CancelFile, ReadCancel, vars
  <2> QED BY <2>1 DEF StaysFresh
<1>3. CASE CommitCancel
  <2>1. status' = [a \in Attempts |-> IF a \in request.rows THEN "stopped" ELSE status[a]]
    BY <1>3 DEF CommitCancel
  <2> QED BY <1>1, <2>1 DEF StaysFresh, Fresh
<1>5. ASSUME NEW F \in SUBSET Files, Retry(F) PROVE StaysFresh
  <2>1. ASSUME NEW a \in Created, status[a] \in Fresh PROVE status'[a] \in Fresh
    <3>1. a \in Attempts \ Added(F)
      BY <1>1, <1>5, RetryFacts
    <3>2. status'[a] = IF a \in Superseded(F) THEN "stopped" ELSE status[a]
      BY <1>1, <1>5, <3>1, RetryFacts
    <3> QED BY <2>1, <3>2 DEF Fresh
  <2> QED BY <2>1 DEF StaysFresh
<1>6. ASSUME NEW f \in Files, ResumeFile(f) PROVE StaysFresh
  BY <1>5, <1>6 DEF ResumeFile
<1>7. CASE ResumeAll
  BY <1>5, <1>7 DEF ResumeAll
<1> QED BY <1>2, <1>3, <1>6, <1>7 DEF FirstCommit, SecondCommit

LEMMA WaitStep == Base /\ PureInv /\ WaitInv /\ [Next]_vars => WaitInv'
<1> SUFFICES ASSUME Base, PureInv, WaitInv, [Next]_vars PROVE WaitInv'
  OBVIOUS
<1>1. ASSUME NEW j \in Jobs, RunStep(j) PROVE WaitInv'
  <2>1. Unbegun(j)'
    BY <1>1, RunStepKeepsUnbegun DEF PureInv, WaitInv
  <2>2. ASSUME NEW i \in Jobs \ {j} PROVE Unbegun(i)'
    <3>1. run'[i].pc = "idle"
      BY <1>1, OthersAreIdle DEF PureInv
    <3> QED BY <3>1, NoListIsUnbegun DEF Looping
  <2> QED BY <2>1, <2>2 DEF WaitInv
<1>2. ASSUME StaysFresh, \A i \in Jobs : \/ run'[i] = run[i] \/ run'[i] = NoRun
                                        \/ run'[i] = [NoRun EXCEPT !.pc = "begin"]
      PROVE  WaitInv'
  <2>1. ASSUME NEW i \in Jobs PROVE Unbegun(i)'
    <3>1. CASE run'[i] = run[i]
      BY <1>2, <3>1, ListStays DEF WaitInv
    <3>2. CASE run'[i] # run[i]
      BY <1>2, <3>2, IdleIsUnbegun
    <3> QED BY <3>1, <3>2
  <2> QED BY <2>1 DEF WaitInv
<1>3. CASE Poll
  BY <1>2, <1>3, RequestsStayFresh DEF Poll
<1>4. CASE CrashRestart
  BY <1>2, <1>4, RequestsStayFresh DEF CrashRestart
<1>5. CASE FirstCommit \/ SecondCommit \/ MakeNote \/ FinishNote \/ UNCHANGED vars
  <2>1. run' = run
    BY <1>5 DEF FirstCommit, StopUpload, CancelAll, ReadCancel, ResumeAll, Purge, CancelFile,
                ResumeFile, SecondCommit, CommitCancel, StopJob, ResumeFileJob, ResumeAllJob,
                MakeNote, FinishNote, vars
  <2> QED BY <1>2, <1>5, <2>1, RequestsStayFresh
<1> QED BY <1>1, <1>3, <1>4, <1>5 DEF Next

LEMMA InitWaits == Init => WaitInv
BY DEF Init, WaitInv, Unbegun, NoRun, Looping

-----------------------------------------------------------------------------
(* Each step is one of FileService.                                          *)

FileInv == Base /\ PureInv /\ WaitInv

\* The life of a file is decided by its latest attempt and by who works on it or
\* has taken it up.
LEMMA SameLives ==
  ASSUME NEW f \in Files, latest'[f] = latest[f], status'[latest[f]] = status[latest[f]],
         AtWork(f)' <=> AtWork(f), TakenUp(f)' <=> TakenUp(f)
  PROVE  Life(f)' = Life(f)
BY DEF Life

Canceling == {f \in Files : latest[f] \in request.rows}

LEMMA NothingHappens ==
  ASSUME \A f \in Files : Life(f)' = Life(f), latest' = latest, crashes' = crashes,
         Canceling' = Canceling
  PROVE  [Service!Next]_(Service!vars)
BY DEF Service!vars, Canceling

\* With one run at a time, it alone decides who is at work.
LEMMA AtWorkFacts ==
  ASSUME Solo, NEW j \in Jobs, run[j].pc # "idle", NEW f \in Files
  PROVE  /\ (AtWork(f) <=> (Exists /\ run[j].pc \in Working /\ Current(j) = latest[f]))
         /\ (TakenUp(f) <=> (Exists /\ run[j].pc = "reclaim" /\ latest[f] \in Listed(j)))
<1>1. ASSUME NEW i \in Jobs, run[i].pc \in Working \cup {"reclaim"} PROVE i = j
  <2>1. run[i].pc # "idle"
    BY <1>1 DEF Working
  <2> QED BY <2>1 DEF Solo, Running
<1> QED BY <1>1 DEF AtWork, TakenUp

LEMMA AtWorkNextFacts ==
  ASSUME NEW j \in Jobs, \A i \in Jobs \ {j} : run'[i].pc = "idle", NEW f \in Files
  PROVE  /\ (AtWork(f)' <=> (Exists' /\ run'[j].pc \in Working /\ Current(j)' = latest'[f]))
         /\ (TakenUp(f)' <=> (Exists' /\ run'[j].pc = "reclaim" /\ latest'[f] \in Listed(j)'))
<1>1. \A i \in Jobs : run'[i].pc \in Working \cup {"reclaim"} => i = j
  BY DEF Working
<1> QED BY <1>1 DEF AtWork, TakenUp

\* What is worked on is one file, and not completed; nor is what is taken up.
LEMMA OneAtWork ==
  ASSUME Base, PureInv, NEW f \in Files
  PROVE  /\ AtWork(f) \/ TakenUp(f) => status[latest[f]] # "completed"
         /\ AtWork(f) => \A g \in Files : (AtWork(g) => g = f) /\ ~TakenUp(g)
<1>1. Solo /\ \A j \in Jobs : RunIsPure(j)
  BY DEF PureInv
<1>2. \A g \in Files : file[latest[g]] = g
  BY DEF Base, Rows
<1>3. ASSUME AtWork(f)
      PROVE  /\ status[latest[f]] # "completed"
             /\ \A g \in Files : (AtWork(g) => g = f) /\ ~TakenUp(g)
  <2>1. PICK j \in Jobs : run[j].pc \in Working /\ Current(j) = latest[f]
    BY <1>3 DEF AtWork
  <2>2. run[j].pc # "idle" /\ run[j].pc # "reclaim"
    BY <2>1 DEF Working
  <2>3. status[latest[f]] # "completed"
    BY <1>1, <1>2, <2>1 DEF RunIsPure, CurrentFits
  <2>4. \A g \in Files : (AtWork(g) => latest[g] = latest[f]) /\ ~TakenUp(g)
    BY <1>1, <2>1, <2>2, AtWorkFacts
  <2> QED BY <1>2, <2>3, <2>4
<1>4. ASSUME TakenUp(f) PROVE status[latest[f]] # "completed"
  <2>1. PICK j \in Jobs : run[j].pc = "reclaim" /\ latest[f] \in Listed(j)
    BY <1>4 DEF TakenUp
  <2>2. DOMAIN run[j].left = 1 .. Len(run[j].left)
    BY LenProperties DEF Base, Types, RunRecord
  <2> QED BY <1>1, <2>1, <2>2 DEF RunIsPure, ListFits, Listed
<1> QED BY <1>3, <1>4

\* The step of a run that neither is at work nor takes files up, before and after.
LEMMA RestingStep ==
  ASSUME Base, PureInv, NEW j \in Jobs, RunStep(j),
         run[j].pc \notin Working \cup {"reclaim"} \/ ~Exists,
         run'[j].pc \notin Working \cup {"reclaim"}
  PROVE  \A f \in Files : ~AtWork(f) /\ ~AtWork(f)' /\ ~TakenUp(f) /\ ~TakenUp(f)'
<1>1. run[j].pc # "idle" /\ \A i \in Jobs \ {j} : run'[i].pc = "idle"
  BY OthersAreIdle DEF PureInv
<1>2. Solo
  BY DEF PureInv
<1> QED BY <1>1, <1>2, AtWorkFacts, AtWorkNextFacts

\* FileService counts with a Cardinality of its own.
LEMMA SameCount == \A S : Service!Cardinality(S) = Cardinality(S)
BY DEF Service!Cardinality, Cardinality

LEMMA RunStepServes ==
  ASSUME ~SingleDeck, FileInv, NEW j \in Jobs, RunStep(j)
  PROVE  [Service!Next]_(Service!vars)
<1>1. /\ Base /\ PureInv /\ WaitInv /\ Solo /\ Types /\ Rows /\ run[j] \in RunRecord
      /\ run \in [Jobs -> RunRecord] /\ RunIsPure(j) /\ Unbegun(j)
      /\ \A f \in Files : /\ latest[f] \in Attempts /\ latest[f] \in Created
                         /\ file[latest[f]] = f
  BY DEF FileInv, Base, Types, Rows, PureInv, WaitInv
<1>2. run[j].pc # "idle" /\ \A i \in Jobs \ {j} : run'[i].pc = "idle"
  BY <1>1, OthersAreIdle
<1>3. latest' = latest /\ crashes' = crashes /\ Canceling' = Canceling
  <2>1. latest' = latest /\ crashes' = crashes /\ request' = request
    BY DEF RunStep, counters, Begin, Select, FindOrphans, Reclaim, MissFiles, FailMissing, Resolve,
           Raise, LoopStopped, HaltUpload, EndStopped, SkipFile, LookFile, StartFile,
           ClearDeck, CheckChunk, WriteChunk, CompletePartial, CompleteFile,
           LoseSession, FailFile, ReadFinal, CommitFinal, LoseRows
  <2> QED BY <2>1 DEF Canceling
<1>4. CASE Begin(j) \/ Select(j) \/ MissFiles(j) \/ FailMissing(j) \/ Resolve(j)
           \/ LoopStopped(j) \/ HaltUpload(j) \/ EndStopped(j) \/ ReadFinal(j)
           \/ CommitFinal(j) \/ LoseRows(j)
  <2>1. /\ run[j].pc \notin Working \cup {"reclaim"} \/ ~Exists
        /\ status' = status
    BY <1>4 DEF Begin, Select, MissFiles, FailMissing, Resolve, LoopStopped, HaltUpload,
                EndStopped, ReadFinal, CommitFinal, LoseRows, Working
  <2>2. run'[j].pc \in {"select", "resolve", "missing", "next", "halt", "stopped", "idle",
                        "commit"}
    BY <1>1, <1>4 DEF Begin, Select, MissFiles, FailMissing, Resolve, LoopStopped,
                      HaltUpload, EndStopped, ReadFinal, CommitFinal, LoseRows, RunRecord, NoRun
  <2>3. \A f \in Files : ~AtWork(f) /\ ~AtWork(f)' /\ ~TakenUp(f) /\ ~TakenUp(f)'
    BY <1>1, <2>1, <2>2, RestingStep DEF Working
  <2> QED BY <1>3, <2>1, <2>3, SameLives, NothingHappens
<1>5. CASE FindOrphans(j)
  <2>1. PICK s : s = Ascending(Orphans)
    OBVIOUS
  <2>2. /\ status' = status /\ run[j].pc = "select" /\ Orphans # {}
        /\ run' = [run EXCEPT ![j].pc = "reclaim", ![j].left = s]
    BY <1>5, <2>1 DEF FindOrphans
  <2>3. run'[j].pc = "reclaim" /\ run'[j].left = s
    BY <1>1, <2>2 DEF RunRecord
  <2>4. s \in Seq(Attempts) /\ \A i \in 1 .. Len(s) : s[i] \in Orphans
    BY <2>1, <2>2, ListFacts, WithStatusIsCreated
  <2>5. \A a \in Listed(j)' : status[a] = "processing"
    <3>1. DOMAIN s = 1 .. Len(s)
      BY <2>4, LenProperties
    <3> QED BY <2>3, <2>4, <3>1 DEF Listed, Orphans, WithStatus
  <2>6. \A f \in Files : ~AtWork(f) /\ ~AtWork(f)' /\ ~TakenUp(f)
    BY <1>1, <1>2, <2>2, <2>3, AtWorkFacts, AtWorkNextFacts DEF Working
  <2>7. \A f \in Files : TakenUp(f)' => status[latest[f]] = "processing"
    BY <1>2, <1>3, <2>5, AtWorkNextFacts
  <2>8. \A f \in Files : Life(f)' = Life(f)
    BY <1>3, <2>2, <2>6, <2>7 DEF Life, Open
  <2> QED BY <1>3, <2>8, NothingHappens
<1>12. CASE Reclaim(j)
  <2>1. /\ status' = [a \in Attempts |-> IF a \in Listed(j) THEN "pending" ELSE status[a]]
        /\ run' = [run EXCEPT ![j].pc = "reselect", ![j].left = <<>>]
        /\ run[j].pc = "reclaim" /\ Exists
    BY <1>12 DEF Reclaim
  <2>2. run'[j].pc = "reselect"
    BY <1>1, <2>1 DEF RunRecord
  <2>3. \A f \in Files : ~AtWork(f) /\ ~AtWork(f)' /\ ~TakenUp(f)'
    BY <1>1, <1>2, <2>1, <2>2, AtWorkFacts, AtWorkNextFacts DEF Working
  <2>4. \A f \in Files : TakenUp(f) <=> latest[f] \in Listed(j)
    BY <1>1, <1>2, <2>1, AtWorkFacts
  <2>5. \A f \in Files : status'[latest[f]] = IF TakenUp(f) THEN "pending" ELSE status[latest[f]]
    BY <1>1, <2>1, <2>4
  <2>6. \A f \in Files : Life(f)' = Life(f)
    BY <1>3, <2>3, <2>5 DEF Life, Open
  <2> QED BY <1>3, <2>6, NothingHappens
<1>6. CASE Raise(j)
  <2>1. run[j].pc \notin Working \cup {"reclaim"} /\ run'[j].pc = "idle"
    BY <1>1, <1>6 DEF Raise, Working, NoRun
  <2>2. \A f \in Files : ~AtWork(f) /\ ~AtWork(f)' /\ ~TakenUp(f) /\ ~TakenUp(f)'
    BY <1>1, <2>1, RestingStep DEF Working
  <2>3. PICK F : F = {f \in Files : status[latest[f]] = "processing"}
    OBVIOUS
  <2>4. \A f \in Files : status'[latest[f]] = IF f \in F THEN "failed" ELSE status[latest[f]]
    BY <1>1, <1>6, <2>3 DEF Raise
  <2>5. /\ \A f \in F : Life(f) = "waiting"
        /\ \A f \in Files : Life(f)' = IF f \in F THEN "over" ELSE Life(f)
    BY <1>3, <2>2, <2>3, <2>4 DEF Life, Open
  <2>6. Service!Withdraw(F) /\ F \in SUBSET Files
    BY <1>3, <2>3, <2>5 DEF Service!Withdraw, Canceling
  <2> QED BY <2>6 DEF Service!Next
<1>7. CASE SkipFile(j)
  <2>1. run[j].pc = "next" /\ Advance(j) /\ file' = file
        /\ status' = [status EXCEPT ![Current(j)] = "stopped"]
        /\ (latest[file[Current(j)]] # Current(j) \/ status[Current(j)] = "stopped")
    BY <1>7 DEF SkipFile
  <2>2. run'[j].pc \in {"next", "final"}
    BY <1>1, <2>1, AdvanceFacts DEF Looping, Created
  <2>3. \A f \in Files : ~AtWork(f) /\ ~AtWork(f)' /\ ~TakenUp(f) /\ ~TakenUp(f)'
    BY <1>1, <2>1, <2>2, RestingStep DEF Working
  <2>4. \A f \in Files : status'[latest[f]] = status[latest[f]]
    BY <1>1, <2>1 DEF Types
  <2> QED BY <1>3, <2>3, <2>4, SameLives, NothingHappens
<1>8. CASE LookFile(j)
  <2>1. /\ run[j].pc = "next" /\ Exists /\ bulk' = bulk
        /\ latest[file[Current(j)]] = Current(j) /\ status[Current(j)] # "stopped"
        /\ status' = status
        /\ run' = [run EXCEPT ![j].pc = "start"]
    BY <1>8 DEF LookFile
  <2>2. /\ run'[j].pc = "start" /\ run'[j].left = run[j].left /\ Current(j)' = Current(j)
    BY <1>1, <2>1 DEF RunRecord, Current
  <2>3. /\ Current(j) = run[j].left[1] /\ 1 \in 1 .. Len(run[j].left)
        /\ file[Current(j)] \in Files
    BY <1>1, <2>1, CurrentFacts DEF Looping
  <2>4. status[Current(j)] = "pending"
    BY <1>1, <2>1, <2>3 DEF Unbegun, Looping, Fresh
  <2>5. PICK f \in Files : f = file[Current(j)] /\ latest[f] = Current(j)
    BY <2>1, <2>3
  <2>6. \A g \in Files : latest[g] = Current(j) => g = f
    BY <1>1, <2>5
  <2>7. \A g \in Files : ~AtWork(g) /\ ~TakenUp(g)
    BY <1>1, <1>2, <2>1, AtWorkFacts DEF Working
  <2>8. \A g \in Files : (AtWork(g)' <=> g = f) /\ ~TakenUp(g)'
    BY <1>2, <1>3, <2>1, <2>2, <2>5, <2>6, AtWorkNextFacts DEF Working, Exists
  <2>9. Life(f) = "waiting" /\ \A g \in Files : Life(g) # "working"
    BY <2>4, <2>5, <2>7 DEF Life, Open
  <2>10. \A g \in Files : Life(g)' = IF g = f THEN "working" ELSE Life(g)
    BY <1>3, <2>1, <2>7, <2>8 DEF Life
  <2>11. Service!Begin(f)
    <3>1. Service!UnderWork = {}
      BY <2>9 DEF Service!UnderWork
    <3>2. Service!Cardinality(Service!UnderWork) < Threads
      BY <3>1, SameCount, FS_EmptySet, NumbersAreNat
    <3>3. [h \in Files |-> Life(h)]' = [[h \in Files |-> Life(h)] EXCEPT ![f] = "working"]
      BY <2>10
    <3>4. [h \in Files |-> Life(h)][f] = "waiting"
      BY <2>9
    <3> QED BY <1>3, <3>2, <3>3, <3>4 DEF Service!Begin, Canceling
  <2> QED BY <2>11 DEF Service!Next
<1>9. CASE StartFile(j) \/ ClearDeck(j) \/ CheckChunk(j) \/ WriteChunk(j)
  <2>1. /\ run[j].pc \in Working /\ bulk' = bulk
        /\ status' = status \/ status' = [status EXCEPT ![Current(j)] = "processing"]
    BY <1>9 DEF StartFile, ClearDeck, CheckChunk, WriteChunk, Working
  <2>2. run'[j].pc \in Working /\ run'[j].left = run[j].left
    <3>1. CASE StartFile(j) \/ ClearDeck(j) \/ CheckChunk(j)
      BY <1>1, <3>1 DEF StartFile, ClearDeck, CheckChunk, RunRecord, Working
    <3>2. CASE WriteChunk(j)
      BY <1>1, <3>2, WriteFacts DEF Working
    <3> QED BY <1>9, <3>1, <3>2
  <2>3. /\ run[j].pc # "reclaim" /\ run'[j].pc # "reclaim"
        /\ (Exists' <=> Exists)
        /\ Current(j)' = Current(j)
    BY <2>1, <2>2 DEF Working, Exists, Current
  <2>4. \A f \in Files : /\ (AtWork(f)' <=> AtWork(f))
                        /\ (TakenUp(f)' <=> TakenUp(f))
    BY <1>1, <1>2, <1>3, <2>1, <2>2, <2>3, AtWorkFacts, AtWorkNextFacts
  <2>5. ASSUME NEW f \in Files PROVE Life(f)' = Life(f)
    <3>1. CASE AtWork(f)
      BY <2>4, <3>1 DEF Life
    <3>2. CASE ~AtWork(f)
      <4>1. Exists
        BY <1>9 DEF StartFile, ClearDeck, CheckChunk, WriteChunk
      <4>2. Current(j) # latest[f]
        BY <1>1, <1>2, <2>1, <3>2, <4>1, AtWorkFacts
      <4>3. status'[latest[f]] = status[latest[f]]
        BY <1>1, <2>1, <4>2 DEF Types
      <4> QED BY <1>3, <2>4, <4>3, SameLives
    <3> QED BY <3>1, <3>2
  <2> QED BY <1>3, <2>5, NothingHappens
<1>13. CASE CompleteFile(j) /\ run[j].pc = "ending"
  <2>1. status' = status /\ Advance(j) /\ file' = file
    BY <1>13 DEF CompleteFile
  <2>2. run'[j].pc \in {"next", "final"}
    BY <1>1, <1>13, <2>1, AdvanceFacts DEF Looping, Created
  <2>3. \A f \in Files : ~AtWork(f) /\ ~AtWork(f)' /\ ~TakenUp(f) /\ ~TakenUp(f)'
    BY <1>1, <1>13, <2>2, RestingStep DEF Working
  <2> QED BY <1>3, <2>1, <2>3, SameLives, NothingHappens
<1>10. CASE CompletePartial(j) \/ (CompleteFile(j) /\ run[j].pc = "done") \/ FailFile(j)
  <2>1. PICK s \in {"stopped", "completed", "failed"} :
          status' = [status EXCEPT ![Current(j)] = s]
    BY <1>10 DEF CompletePartial, CompleteFile, FailFile
  <2>2. run[j].pc \in Working /\ Exists /\ file' = file
    BY <1>10 DEF CompletePartial, CompleteFile, FailFile, Working
  <2>3. run'[j].pc \in {"next", "final", "ending"}
    <3>1. CASE CompletePartial(j)
      BY <1>1, <3>1 DEF CompletePartial, RunRecord
    <3>2. CASE CompleteFile(j) \/ FailFile(j)
      <4>1. Advance(j)
        BY <3>2 DEF CompleteFile, FailFile
      <4> QED BY <1>1, <2>2, <4>1, AdvanceFacts DEF Working, Looping, Created
    <3> QED BY <1>10, <3>1, <3>2
  <2>4. \A f \in Files : ~AtWork(f)' /\ ~TakenUp(f)'
    BY <1>2, <2>3, AtWorkNextFacts DEF Working
  <2>5. \A f \in Files : (AtWork(f) <=> Current(j) = latest[f]) /\ ~TakenUp(f)
    BY <1>1, <1>2, <2>2, AtWorkFacts DEF Working
  <2>6. \A f \in Files : Current(j) # latest[f] => Life(f)' = Life(f)
    <3>1. ASSUME NEW f \in Files, Current(j) # latest[f] PROVE Life(f)' = Life(f)
      <4>1. status'[latest[f]] = status[latest[f]]
        BY <1>1, <2>1, <3>1 DEF Types
      <4> QED BY <1>3, <2>4, <2>5, <3>1, <4>1, SameLives
    <3> QED BY <3>1
  <2>7. CASE \A f \in Files : Current(j) # latest[f]
    BY <1>3, <2>6, <2>7, NothingHappens
  <2>8. CASE \E f \in Files : Current(j) = latest[f]
    <3>1. PICK f \in Files : Current(j) = latest[f]
      BY <2>8
    <3>2. \A g \in Files \ {f} : Current(j) # latest[g]
      BY <1>1, <3>1
    <3>3. status'[latest[f]] = s
      BY <1>1, <2>1, <3>1 DEF Types
    <3>4. Life(f) = "working" /\ Life(f)' \in {"done", "over"}
      BY <1>3, <2>4, <2>5, <3>1, <3>3 DEF Life, Open
    <3>5. Service!End(f)
      BY <1>3, <2>6, <3>2, <3>4 DEF Service!End, Canceling
    <3> QED BY <3>5 DEF Service!Next
  <2> QED BY <2>7, <2>8
<1>11. CASE LoseSession(j)
  BY <1>11 DEF LoseSession, NoteInTheWay
<1>14. CompleteFile(j) => run[j].pc \in {"done", "ending"}
  BY DEF CompleteFile
<1> QED
  BY <1>4, <1>5, <1>6, <1>7, <1>8, <1>9, <1>10, <1>11, <1>12, <1>13, <1>14 DEF RunStep

LEMMA AskCancelServes ==
  ASSUME FileInv, request = NoRequest, NEW C \in SUBSET Attempts, ReadCancel(C),
         \A a \in C : status[a] \in Open
  PROVE  [Service!Next]_(Service!vars)
<1>1. /\ latest' = latest /\ status' = status /\ run' = run /\ crashes' = crashes
      /\ bulk' = bulk /\ request'.rows = C
  BY DEF ReadCancel
<1>2. \A f \in Files : Life(f)' = Life(f)
  <2>1. \A f \in Files : /\ (AtWork(f)' <=> AtWork(f))
                        /\ (TakenUp(f)' <=> TakenUp(f))
    BY <1>1 DEF AtWork, TakenUp, Current, Listed, Exists
  <2> QED BY <1>1, <2>1, SameLives
<1>3. PICK F : F = {f \in Files : latest[f] \in C}
  OBVIOUS
<1>4. Canceling = {} /\ Canceling' = F
  BY <1>1, <1>3 DEF Canceling, NoRequest
<1>5. \A f \in F : Life(f) \in {"waiting", "working"}
  BY <1>3 DEF Life
<1>6. Service!AskCancel(F) /\ F \in SUBSET Files
  BY <1>1, <1>2, <1>3, <1>4, <1>5 DEF Service!AskCancel, Canceling
<1> QED BY <1>6 DEF Service!Next

LEMMA LivesAreLives == \A f \in Files : Life(f)' \in Service!Lives
BY DEF Life, Service!Lives

LEMMA CancelServes ==
  ASSUME FileInv, CommitCancel
  PROVE  [Service!Next]_(Service!vars)
<1>1. /\ latest' = latest /\ run' = run /\ crashes' = crashes /\ Exists /\ Exists'
      /\ request' = NoRequest
      /\ status' = [a \in Attempts |-> IF a \in request.rows THEN "stopped" ELSE status[a]]
  BY DEF CommitCancel, FileInv, Base, RequestFits, Exists, counters
<1>2. \A f \in Files : /\ latest[f] \in Attempts
                      /\ (AtWork(f)' <=> AtWork(f))
                      /\ (TakenUp(f)' <=> TakenUp(f))
  BY <1>1 DEF FileInv, Base, Types, AtWork, TakenUp, Current, Listed
<1>3. \A f \in Files : f \notin Canceling => Life(f)' = Life(f)
  BY <1>1, <1>2, SameLives DEF Canceling
<1>4. ASSUME NEW f \in Canceling
      PROVE  Life(f)' = Life(f) \/ (Life(f) # "working" /\ Life(f)' = "over")
  <2>1. f \in Files /\ status'[latest[f]] = "stopped"
    BY <1>1, <1>2 DEF Canceling
  <2>2. CASE AtWork(f) \/ TakenUp(f)
    BY <1>2, <2>1, <2>2 DEF Life
  <2>3. CASE ~AtWork(f) /\ ~TakenUp(f)
    BY <1>1, <1>2, <2>1, <2>3 DEF Life, Open
  <2> QED BY <2>2, <2>3
<1>5. Canceling' = {}
  BY <1>1 DEF Canceling, NoRequest
<1>6. CASE Canceling = {}
  BY <1>1, <1>3, <1>5, <1>6, NothingHappens
<1>7. CASE Canceling # {}
  <2>1. Service!Cancel
    BY <1>1, <1>3, <1>4, <1>5, <1>7, LivesAreLives DEF Service!Cancel, Canceling
  <2> QED BY <2>1 DEF Service!Next
<1> QED BY <1>6, <1>7

LEMMA RetryServes ==
  ASSUME FileInv, NEW F \in SUBSET Files, Retry(F), run' = run, crashes' = crashes,
         Exists, Exists', request.rows = {}, request'.rows = {}
  PROVE  [Service!Next]_(Service!vars)
<1>1. Base /\ Types /\ Rows /\ \A f \in Files : latest[f] \in Created /\ file[latest[f]] = f
  BY DEF FileInv, Base, Rows
<1>2. /\ \A f \in F : /\ latest'[f] \in Added(F) /\ status'[latest'[f]] = "pending"
                     /\ latest'[f] \notin Created
      /\ \A f \in Files \ F : latest'[f] = latest[f]
      /\ latest' \in [Files -> Attempts]
  BY <1>1, RetryFacts
<1>3. \A f \in F : latest'[f] > latest[f]
  <2>1. PICK n \in Nat : Created = 1 .. n
    BY <1>1 DEF Rows
  <2>2. ASSUME NEW f \in F PROVE latest'[f] > latest[f]
    <3>1. latest[f] \in 1 .. n /\ latest'[f] \notin 1 .. n /\ latest'[f] \in 1 .. MaxAttempts
      BY <1>1, <1>2, <2>1 DEF Attempts
    <3> QED BY <3>1, NumbersAreNat
  <2> QED BY <2>2
<1>4. ASSUME NEW f \in F PROVE Life(f)' = "waiting"
  <2>1. \A j \in Jobs : run[j].pc \in Working => Current(j) \in Created
    BY <1>1, CurrentFacts DEF Working, Looping
  <2>2. ~AtWork(f)'
    BY <1>2, <2>1 DEF AtWork, Current
  <2> QED BY <1>2, <2>2 DEF Life, Open
<1>5. ASSUME NEW f \in Files \ F PROVE Life(f)' = Life(f)
  <2>1. latest[f] \in Attempts \ Added(F) /\ latest[f] \notin Superseded(F)
    <3>1. \A g \in F : latest[g] # latest[f]
      BY <1>1, <1>5
    <3> QED BY <1>1, <3>1, RetryFacts DEF Superseded, Created
  <2>2. status'[latest[f]] = status[latest[f]]
    BY <1>1, <2>1, RetryFacts
  <2>3. /\ (AtWork(f)' <=> AtWork(f))
        /\ (TakenUp(f)' <=> TakenUp(f))
    BY <1>2, <1>5 DEF AtWork, TakenUp, Current, Listed
  <2> QED BY <1>2, <1>5, <2>2, <2>3, SameLives
<1>6. Service!Ask(F)
  <2>1. latest' \in [Files -> Nat]
    BY <1>2, NumbersAreNat DEF Attempts
  <2> QED BY <1>2, <1>3, <1>4, <1>5, <2>1 DEF Service!Ask
<1> QED BY <1>6 DEF Service!Next

LEMMA CrashServes ==
  ASSUME FileInv, CrashRestart
  PROVE  [Service!Next]_(Service!vars)
<1>1. /\ Base /\ PureInv
      /\ latest' = latest /\ status' = status /\ crashes' = crashes + 1 /\ request' = request
      /\ \A j \in Jobs : run'[j].pc = "idle"
  BY DEF FileInv, CrashRestart, NoRun
<1>2. \A f \in Files : ~AtWork(f)' /\ ~TakenUp(f)'
  BY <1>1 DEF AtWork, TakenUp, Working
<1>3. ASSUME NEW f \in Files
      PROVE  IF Life(f) \in {"waiting", "working"} THEN Life(f)' \in {"waiting", "over"}
                                                  ELSE Life(f)' = Life(f)
  <2>1. CASE AtWork(f) \/ TakenUp(f)
    <3>1. status[latest[f]] # "completed"
      BY <1>1, <2>1, OneAtWork
    <3> QED BY <1>1, <1>2, <2>1, <3>1 DEF Life
  <2>2. CASE ~AtWork(f) /\ ~TakenUp(f)
    BY <1>1, <1>2, <2>2 DEF Life
  <2> QED BY <2>1, <2>2
<1>4. Service!Die
  BY <1>1, <1>3, LivesAreLives DEF Service!Die
<1> QED BY <1>4 DEF Service!Next

LEMMA PurgeServes ==
  ASSUME FileInv, Purge
  PROVE  [Service!Next]_(Service!vars)
<1>1. /\ Base /\ PureInv /\ Types /\ \A f \in Files : latest[f] \in Created
      /\ latest' = latest /\ status' = status /\ crashes' = crashes
      /\ Canceling' = Canceling /\ Purgeable
  BY DEF FileInv, Base, Rows, Purge, counters, Canceling
<1>2. ~Exists'
  BY <1>1 DEF Purge, Exists, Types
<1>3. \A f \in Files : ~AtWork(f)' /\ ~TakenUp(f)'
  BY <1>2 DEF AtWork, TakenUp
<1>4. \A f \in Files : ~AtWork(f) /\ ~TakenUp(f) => Life(f)' = Life(f)
  BY <1>1, <1>3, SameLives
<1>5. \A f \in Files : status[latest[f]] \notin Open
  BY <1>1 DEF Purgeable, WithStatus, Open
<1>6. CASE \A f \in Files : ~AtWork(f)
  <2>1. PICK F : F = {f \in Files : TakenUp(f)}
    OBVIOUS
  <2>2. \A f \in F : status[latest[f]] # "completed"
    BY <1>1, <2>1, OneAtWork
  <2>3. \A f \in F : Life(f) = "waiting" /\ Life(f)' = "over"
    BY <1>1, <1>3, <1>5, <1>6, <2>1, <2>2 DEF Life
  <2>4. \A f \in Files : f \notin F => Life(f)' = Life(f)
    BY <1>4, <1>6, <2>1
  <2>5. Service!Withdraw(F) /\ F \in SUBSET Files
    BY <1>1, <2>1, <2>3, <2>4 DEF Service!Withdraw, Canceling
  <2> QED BY <2>5 DEF Service!Next
<1>7. CASE \E f \in Files : AtWork(f)
  <2>1. PICK f \in Files : AtWork(f)
    BY <1>7
  <2>2. /\ status[latest[f]] # "completed"
        /\ \A g \in Files : (AtWork(g) => g = f) /\ ~TakenUp(g)
    BY <1>1, <2>1, OneAtWork
  <2>3. Life(f) = "working" /\ Life(f)' = "over"
    BY <1>1, <1>3, <1>5, <2>1, <2>2 DEF Life
  <2>4. \A g \in Files \ {f} : Life(g)' = Life(g)
    BY <1>4, <2>2
  <2>5. Service!End(f)
    BY <1>1, <2>3, <2>4 DEF Service!End, Canceling
  <2> QED BY <2>5 DEF Service!Next
<1> QED BY <1>6, <1>7

LEMMA StepServes ==
  ASSUME Threads = 1, ~SingleDeck
  PROVE  FileInv /\ [Next]_vars => [Service!Next]_(Service!vars)
<1> SUFFICES ASSUME FileInv, [Next]_vars PROVE [Service!Next]_(Service!vars)
  OBVIOUS
<1>1. Base /\ Types /\ PureInv /\ RequestFits
  BY DEF FileInv, Base
<1>2. ASSUME latest' = latest, status' = status, crashes' = crashes, Exists' <=> Exists,
             run' = run, Canceling' = Canceling
      PROVE  [Service!Next]_(Service!vars)
  <2>1. \A f \in Files : /\ (AtWork(f)' <=> AtWork(f))
                        /\ (TakenUp(f)' <=> TakenUp(f))
    BY <1>2 DEF AtWork, TakenUp, Current, Listed
  <2> QED BY <1>2, <2>1, SameLives, NothingHappens
<1>3. CASE MakeNote \/ FinishNote \/ StopJob \/ ResumeFileJob \/ ResumeAllJob \/ UNCHANGED vars
  <2>1. latest' = latest /\ status' = status /\ crashes' = crashes /\ bulk' = bulk /\ run' = run
    BY <1>3 DEF MakeNote, FinishNote, StopJob, ResumeFileJob, ResumeAllJob, vars, counters
  <2>2. request' = request \/ (request.kind # "cancel" /\ request' = NoRequest)
    BY <1>3 DEF MakeNote, FinishNote, StopJob, ResumeFileJob, ResumeAllJob, vars
  <2>3. Canceling' = Canceling
    BY <1>1, <2>1, <2>2 DEF RequestFits, Canceling, NoRequest
  <2> QED BY <1>2, <2>1, <2>3 DEF Exists
<1>4. CASE StopUpload
  <2>1. /\ latest' = latest /\ status' = status /\ crashes' = crashes /\ run' = run /\ Exists
        /\ bulk'.status = "stopped" /\ request = NoRequest /\ request' = HalfDone("stop")
    BY <1>4 DEF StopUpload, MayStop, May
  <2>2. Canceling' = Canceling
    BY <2>1 DEF Canceling, HalfDone, NoRequest
  <2> QED BY <1>2, <2>1, <2>2 DEF Exists
<1>5. CASE Poll
  <2>1. /\ latest' = latest /\ status' = status /\ crashes' = crashes /\ Claimed # {}
        /\ \A j \in Jobs : run'[j] = run[j] \/ run'[j] = [NoRun EXCEPT !.pc = "begin"]
        /\ request' = request
    BY <1>5 DEF Poll, counters
  <2>2. \A j \in Jobs : run[j].pc = "idle"
    BY <1>1, <2>1, ClaimedFacts DEF Running
  <2>3. \A j \in Jobs : run'[j].pc \in {"idle", "begin"}
    BY <2>1, <2>2 DEF NoRun
  <2>4. \A f \in Files : ~AtWork(f) /\ ~AtWork(f)' /\ ~TakenUp(f) /\ ~TakenUp(f)'
    BY <2>2, <2>3 DEF AtWork, TakenUp, Working
  <2>5. Canceling' = Canceling
    BY <2>1 DEF Canceling
  <2> QED BY <2>1, <2>4, <2>5, SameLives, NothingHappens
<1>6. CASE CancelAll
  <2>1. PICK C : C = {a \in LatestRows : status[a] \in Open}
    OBVIOUS
  <2>2. C \in SUBSET Attempts /\ \A a \in C : status[a] \in Open
    BY <1>1, <2>1 DEF LatestRows, Types
  <2>3. ReadCancel(C) /\ request = NoRequest
    BY <1>6, <2>1 DEF CancelAll, MayStop, May
  <2> QED BY <2>2, <2>3, AskCancelServes
<1>7. ASSUME NEW f \in Files, CancelFile(f) PROVE [Service!Next]_(Service!vars)
  <2>1. PICK a \in Created : status[a] \in Open /\ ReadCancel({a})
    BY <1>7 DEF CancelFile
  <2>2. {a} \in SUBSET Attempts /\ request = NoRequest
    BY <1>7, <2>1 DEF Created, CancelFile, MayStop, May
  <2> QED BY <2>1, <2>2, AskCancelServes
<1>8. ASSUME NEW f \in Files, ResumeFile(f) PROVE [Service!Next]_(Service!vars)
  <2>1. /\ {f} \in SUBSET Files /\ Retry({f}) /\ run' = run /\ crashes' = crashes
        /\ Exists /\ Exists'
    BY <1>8, StatusOfIsStatus DEF ResumeFile, May, Exists, counters
  <2>2. request.rows = {} /\ request'.rows = {}
    BY <1>8 DEF ResumeFile, May, NoRequest, HalfDone
  <2> QED BY <2>1, <2>2, RetryServes
<1>9. CASE ResumeAll
  <2>1. /\ Files \in SUBSET Files /\ Retry(Files) /\ run' = run /\ crashes' = crashes
        /\ Exists /\ Exists'
    BY <1>9 DEF ResumeAll, May, Exists, counters
  <2>2. request.rows = {} /\ request'.rows = {}
    BY <1>9 DEF ResumeAll, May, NoRequest, HalfDone
  <2> QED BY <2>1, <2>2, RetryServes
<1>10. CASE CrashRestart
  BY <1>10, CrashServes
<1>11. CASE Purge
  BY <1>11, PurgeServes
<1>12. ASSUME NEW j \in Jobs, RunStep(j) PROVE [Service!Next]_(Service!vars)
  BY <1>12, RunStepServes
<1>13. CASE CommitCancel
  BY <1>13, CancelServes
<1> QED
  BY <1>3, <1>4, <1>5, <1>6, <1>7, <1>8, <1>9, <1>10, <1>11, <1>12, <1>13
     DEF Next, FirstCommit, SecondCommit

LEMMA ServiceInitially == Init => Service!Init
<1> SUFFICES ASSUME Init PROVE Service!Init
  OBVIOUS
<1>1. \A f \in Files : status[latest[f]] = "pending" /\ latest[f] = f
  BY NumbersAreNat DEF Init
<1>2. \A j \in Jobs : run[j].pc = "idle"
  BY DEF Init, NoRun
<1>3. \A f \in Files : ~AtWork(f)
  BY <1>2 DEF AtWork, Working
<1>4. \A f \in Files : Life(f) = "waiting"
  BY <1>1, <1>3 DEF Life, Open
<1>5. latest \in [Files -> Nat]
  BY NumbersAreNat DEF Init, Files
<1>6. {f \in Files : latest[f] \in request.rows} = {}
  BY DEF Init, NoRequest
<1> QED BY <1>4, <1>5, <1>6 DEF Init, Service!Init

\* With one thread, an upload of its own decks keeps what FileService promises:
\* work is begun only on a file that waits, once per attempt asked for and per
\* death of the process, and only a cancel asked for before ends what is done.
THEOREM OneThreadServesFiles ==
  ASSUME Threads = 1, ~SingleDeck
  PROVE  Spec => ImplementsFileService
<1>1. Init => FileInv
  BY InitEstablishesBase, InitIsPure, InitWaits DEF FileInv
<1>2. FileInv /\ [Next]_vars => FileInv'
  BY NextKeepsBase, PureStep, WaitStep DEF FileInv
<1>3. FileInv /\ [Next]_vars => [Service!Next]_(Service!vars)
  BY StepServes
<1>4. Init => Service!Init
  BY ServiceInitially
<1> QED BY <1>1, <1>2, <1>3, <1>4, PTL DEF Spec, ImplementsFileService, Service!Spec

=============================================================================
