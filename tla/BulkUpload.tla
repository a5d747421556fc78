----------------------------- MODULE BulkUpload -----------------------------
(***************************************************************************)
(* One bulk AI upload: its files, the attempts made at each of them, the   *)
(* decks they fill and the jobs that work on them.  The worker's side is   *)
(* process_bulk_ai_upload (app/services/job_worker.py), the user's side is *)
(* stop, resume, cancel and purge (app/api/routers/bulk_ai_upload.py,      *)
(* app/services/purge.py).                                                 *)
(*                                                                         *)
(* A file has one deck and a sequence of attempts (BulkAIUploadFile rows); *)
(* the child row points at the latest one.  A retry marks the latest       *)
(* attempt stopped, wipes the deck and adds an attempt; the worker wipes   *)
(* the deck again and fills it chunk by chunk.                             *)
(*                                                                         *)
(* There is one worker process.  Module JobQueue models how it polls and   *)
(* claims; here a poll claims and starts its jobs in one step.  A step of  *)
(* a run ends at a commit, or at a read whose outcome a later commit       *)
(* writes, so a request lands between any two of them.  A stop and a       *)
(* resume commit twice, a cancel reads and then commits, and the second    *)
(* part is a step of its own; no second request runs in between.           *)
(*                                                                         *)
(* An upload into an existing deck has one file.  When that is completed,  *)
(* a note row is added to it and a job that renders its revision notes.    *)
(***************************************************************************)
EXTENDS Integers, FiniteSets, Sequences

CONSTANTS
  NumFiles,     \* files of the upload
  Chunks,       \* text chunks of a file
  Threads,      \* JOB_WORKER_THREADS
  SingleDeck,   \* is the upload one into an existing deck (bulk.deck_id)?
  Requests,     \* the kinds of requests users make
  MaxAttempts,  \* bound: attempt rows ever created
  MaxJobs,      \* bound: job rows ever created
  MaxStops,     \* bound: stop and cancel requests
  MaxCrashes    \* bound: deaths of the process

RequestKinds ==
  {"stop", "cancelAll", "cancelFile", "resumeFile", "resumeAll", "purge"}

ASSUME ConstantsAssumption ==
  /\ NumFiles \in Nat \ {0} /\ Chunks \in Nat \ {0} /\ Threads \in Nat \ {0}
  /\ SingleDeck \in BOOLEAN /\ (SingleDeck => NumFiles = 1)
  /\ Requests \subseteq RequestKinds
  /\ MaxAttempts \in Nat /\ MaxAttempts >= NumFiles
  /\ MaxJobs \in Nat \ {0} /\ MaxStops \in Nat /\ MaxCrashes \in Nat

Files == 1 .. NumFiles
Attempts == 1 .. MaxAttempts    \* in created_at order
Jobs == 1 .. MaxJobs            \* in created_at order

VARIABLES
  bulk,     \* bulk row: status ("gone": purged) and is_auto_stop
  file,     \* attempt row: its file (child_file_id), 0 if not created
  status,   \* attempt row: status
  latest,   \* child row: latest_attempt_id
  deck,     \* per file: the (attempt, job) pairs whose cards the deck holds
  job,      \* job row: status, processed_items > 0, failed_items > 0
  note,     \* the file's revision note: "making" while a thread works on it
  run,      \* per job: where its run is, and the run's local variables
  request,  \* the request between its two steps: kind; what a cancel read
  stops,    \* stop and cancel requests so far
  crashes   \* deaths of the process so far

counters == <<stops, crashes>>
vars == <<bulk, file, status, latest, deck, job, note, run, request, counters>>

NoRun == [pc |-> "idle", left |-> <<>>, chunk |-> 0, got |-> FALSE,
          final |-> <<>>]

NoRequest == [kind |-> "none", rows |-> {}, status |-> "keep", stop |-> FALSE]

\* The state after enqueue_ai_upload_job: one pending attempt per file, one
\* pending job.
Init ==
  /\ bulk = [status |-> "pending", stop |-> FALSE]
  /\ file = [a \in Attempts |-> IF a \in Files THEN a ELSE 0]
  /\ status = [a \in Attempts |-> IF a \in Files THEN "pending" ELSE "none"]
  /\ latest = [f \in Files |-> f]
  /\ deck = [f \in Files |-> {}]
  /\ job = [j \in Jobs |-> [status |-> IF j = 1 THEN "pending" ELSE "none",
                            ok |-> FALSE, bad |-> FALSE]]
  /\ note = "none"
  /\ run = [j \in Jobs |-> NoRun]
  /\ request = NoRequest
  /\ stops = 0
  /\ crashes = 0

-----------------------------------------------------------------------------
Created == {a \in Attempts : file[a] # 0}
WithStatus(s) == {a \in Created : status[a] = s}
LatestStatuses == {status[latest[f]] : f \in Files}
LatestRows == {latest[f] : f \in Files}
Open == {"pending", "processing"}
Running(j) == run[j].pc # "idle"
Exists == bulk.status # "gone"

\* The cascade by which every handler derives the upload's status from its
\* files' statuses.
StatusOf(statuses) ==
  IF "processing" \in statuses THEN "processing"
  ELSE IF "pending" \in statuses THEN "pending"
  ELSE IF "failed" \in statuses THEN "failed"
  ELSE IF "stopped" \in statuses THEN "stopped"
  ELSE "completed"

Ascending(S) == CHOOSE s \in [1 .. Cardinality(S) -> S] :
                  \A i, k \in 1 .. Cardinality(S) : i < k => s[i] < s[k]

Oldest(S, n) == {j \in S : Cardinality({k \in S : k < j}) < n}

JobsWith(s) == {j \in Jobs : job[j].status = s}

\* The worker's idle threads: a run has one, and so has a note being made.
Free == Threads - Cardinality({j \in Jobs : Running(j)})
                - (IF note = "making" THEN 1 ELSE 0)
Current(j) == Head(run[j].left)
Listed(j) == {run[j].left[i] : i \in DOMAIN run[j].left}

\* The file has a note row that _enqueue_revision_notes_job cannot use.
NoteInTheWay == SingleDeck /\ note \notin {"none", "ready"}

\* Back to the top of the loop over the files, or to the end of it.
Advance(j) ==
  run' = [run EXCEPT ![j].left = Tail(@), ![j].chunk = 0, ![j].got = FALSE,
                     ![j].pc = IF Len(run[j].left) = 1 THEN "final" ELSE "next"]

-----------------------------------------------------------------------------
(***************************************************************************)
(* Faults: plausible mistakes in the code, used by no specification.  Each *)
(* property below is known to fail when one of them takes the place of the *)
(* definition it is named after.                                           *)
(***************************************************************************)
\* Jobs a dead process left running are not claimed again.
FaultyClaimed ==
  {j \in Oldest(JobsWith("pending"), 1) : Free > 0}

\* Failed jobs are claimed like pending ones.
FaultyRetryClaimed ==
  {j \in Oldest(UNION {JobsWith(s) : s \in {"pending", "running", "failed"}}, 1) :
     Free > 0}

\* Processing attempts are not picked up after a restart.
FaultyOrphans == {}

\* The run's list of files is not restricted to pending ones.
FaultyChosen == Created

\* A file that was canceled since the list was read is begun all the same.
FaultyLookFile(j) ==
  /\ run[j].pc = "next"
  /\ Exists /\ ~bulk.stop
  /\ latest[file[Current(j)]] = Current(j)
  /\ run' = [run EXCEPT ![j].pc = "start"]
  /\ UNCHANGED <<bulk, file, status, latest, deck, job, note, request, counters>>

\* The retry has wiped the deck, so the worker does not.
FaultyClearDeck(j) ==
  /\ run[j].pc = "title"
  /\ Exists
  /\ run' = [run EXCEPT ![j].pc = "check"]
  /\ UNCHANGED <<bulk, file, status, latest, deck, job, note, request, counters>>

\* A retry stops its files' first attempts, not their latest ones.
FaultySuperseded(F) == F

-----------------------------------------------------------------------------
(***************************************************************************)
(* The worker.                                                             *)
(***************************************************************************)
\* claim_available_jobs.  Running jobs take the capacity first, those whose run
\* is alive included; _active_jobs drops those.
Claimed ==
  LET active == {j \in Jobs : Running(j)}
      running == Oldest(JobsWith("running"), Free)
      pending == Oldest(JobsWith("pending"), Free - Cardinality(running))
  IN (running \cup pending) \ active

\* The claim and the start of process_job.
Poll ==
  /\ Claimed # {}
  /\ job' = [j \in Jobs |-> IF j \in Claimed
                            THEN [job[j] EXCEPT !.status = "running"]
                            ELSE job[j]]
  /\ run' = [j \in Jobs |-> IF j \in Claimed
                            THEN [NoRun EXCEPT !.pc = "begin"] ELSE run[j]]
  /\ UNCHANGED <<bulk, file, status, latest, deck, note, request, counters>>

\* The first commit of process_bulk_ai_upload.
Begin(j) ==
  /\ run[j].pc = "begin"
  /\ Exists
  /\ bulk' = [bulk EXCEPT !.status = "processing"]
  /\ run' = [run EXCEPT ![j].pc = "select"]
  /\ UNCHANGED <<file, status, latest, deck, job, note, request, counters>>

Chosen == WithStatus("pending")

\* What a dead worker left processing (_reclaim_orphaned_processing_files).
Orphans == WithStatus("processing")

\* The list of files of this run, read once, or once more after a reclaim.
Select(j) ==
  /\ run[j].pc \in {"select", "reselect"}
  /\ Exists
  /\ Chosen # {}
  /\ run' = [run EXCEPT ![j].pc = "resolve", ![j].left = Ascending(Chosen)]
  /\ UNCHANGED <<bulk, file, status, latest, deck, job, note, request, counters>>

\* With no pending attempt, orphans are looked for.
FindOrphans(j) ==
  /\ run[j].pc = "select"
  /\ Exists
  /\ Chosen = {} /\ Orphans # {}
  /\ run' = [run EXCEPT ![j].pc = "reclaim", ![j].left = Ascending(Orphans)]
  /\ UNCHANGED <<bulk, file, status, latest, deck, job, note, request, counters>>

\* The rows read as processing are pending, whatever they are by now.
Reclaim(j) ==
  /\ run[j].pc = "reclaim"
  /\ Exists
  /\ status' = [a \in Attempts |-> IF a \in Listed(j) THEN "pending"
                                                      ELSE status[a]]
  /\ run' = [run EXCEPT ![j].pc = "reselect", ![j].left = <<>>]
  /\ UNCHANGED <<bulk, file, latest, deck, job, note, request, counters>>

\* There is nothing to work on: "Missing queued upload files".
MissFiles(j) ==
  /\ \/ run[j].pc = "select" /\ Orphans = {}
     \/ run[j].pc = "reselect"
  /\ Exists
  /\ Chosen = {}
  /\ run' = [run EXCEPT ![j].pc = "missing"]
  /\ UNCHANGED <<bulk, file, status, latest, deck, job, note, request, counters>>

FailMissing(j) ==
  /\ run[j].pc = "missing"
  /\ Exists
  /\ bulk' = [bulk EXCEPT !.status = "failed"]
  /\ job' = [job EXCEPT ![j].status = "failed"]
  /\ run' = [run EXCEPT ![j] = NoRun]
  /\ UNCHANGED <<file, status, latest, deck, note, request, counters>>

\* The AI credential resolves.
Resolve(j) ==
  /\ run[j].pc = "resolve"
  /\ Exists
  /\ run' = [run EXCEPT ![j].pc = "next"]
  /\ UNCHANGED <<bulk, file, status, latest, deck, job, note, request, counters>>

\* It does not: process_job fails the job, the upload and the latest attempts
\* that are processing.
Raise(j) ==
  /\ run[j].pc = "resolve"
  /\ Exists
  /\ bulk' = [bulk EXCEPT !.status = "failed"]
  /\ job' = [job EXCEPT ![j].status = "failed"]
  /\ status' = [a \in Attempts |->
                  IF status[a] = "processing" /\ latest[file[a]] = a
                  THEN "failed" ELSE status[a]]
  /\ run' = [run EXCEPT ![j] = NoRun]
  /\ UNCHANGED <<file, latest, deck, note, request, counters>>

\* The top of the loop reads is_auto_stop set: the run ends in two commits, of
\* which the first writes the upload's status if it is not the one read.
LoopStopped(j) ==
  /\ run[j].pc = "next"
  /\ Exists /\ bulk.stop
  /\ run' = [run EXCEPT ![j].pc = "halt",
                        ![j].final = <<IF bulk.status = "stopped"
                                       THEN "keep" ELSE "stopped">>]
  /\ UNCHANGED <<bulk, file, status, latest, deck, job, note, request, counters>>

HaltUpload(j) ==
  /\ run[j].pc = "halt"
  /\ Exists
  /\ bulk' = IF run[j].final[1] = "keep"
             THEN bulk ELSE [bulk EXCEPT !.status = run[j].final[1]]
  /\ run' = [run EXCEPT ![j].pc = "stopped", ![j].final = <<>>]
  /\ UNCHANGED <<file, status, latest, deck, job, note, request, counters>>

EndStopped(j) ==
  /\ run[j].pc = "stopped"
  /\ Exists
  /\ job' = [job EXCEPT ![j].status = "failed"]
  /\ run' = [run EXCEPT ![j] = NoRun]
  /\ UNCHANGED <<bulk, file, status, latest, deck, note, request, counters>>

\* The top of the loop: an attempt that was superseded or canceled since the
\* list was read is passed over, and does not stay pending.
SkipFile(j) ==
  /\ run[j].pc = "next"
  /\ Exists /\ ~bulk.stop
  /\ LET a == Current(j)
     IN /\ latest[file[a]] # a \/ status[a] = "stopped"
        /\ status' = [status EXCEPT ![a] = "stopped"]
  /\ job' = [job EXCEPT ![j].bad = TRUE]
  /\ Advance(j)
  /\ UNCHANGED <<bulk, file, latest, deck, note, request, counters>>

\* The top of the loop finds the attempt in order, and the next commit has it
\* processing, whatever it is by then.
LookFile(j) ==
  /\ run[j].pc = "next"
  /\ Exists /\ ~bulk.stop
  /\ LET a == Current(j) IN latest[file[a]] = a /\ status[a] # "stopped"
  /\ run' = [run EXCEPT ![j].pc = "start"]
  /\ UNCHANGED <<bulk, file, status, latest, deck, job, note, request, counters>>

StartFile(j) ==
  /\ run[j].pc = "start"
  /\ Exists
  /\ status' = [status EXCEPT ![Current(j)] = "processing"]
  /\ run' = [run EXCEPT ![j].pc = "title"]
  /\ UNCHANGED <<bulk, file, latest, deck, job, note, request, counters>>

\* The title is there: the deck is wiped for this attempt's cards.  Nothing is
\* looked at between LookFile and here.
ClearDeck(j) ==
  /\ run[j].pc = "title"
  /\ Exists
  /\ deck' = [deck EXCEPT ![file[Current(j)]] = {}]
  /\ run' = [run EXCEPT ![j].pc = "check"]
  /\ UNCHANGED <<bulk, file, status, latest, job, note, request, counters>>

\* The check before each chunk passes and its generation starts.
CheckChunk(j) ==
  /\ run[j].pc = "check"
  /\ Exists
  /\ ~bulk.stop /\ status[Current(j)] # "stopped"
  /\ run' = [run EXCEPT ![j].pc = "write"]
  /\ UNCHANGED <<bulk, file, status, latest, deck, job, note, request, counters>>

\* The chunk's cards are committed; a chunk whose passes all failed has none.
WriteChunk(j) ==
  /\ run[j].pc = "write"
  /\ Exists
  /\ \E cards \in BOOLEAN :
       /\ deck' = IF cards
                  THEN [deck EXCEPT ![file[Current(j)]] =
                          @ \cup {<<Current(j), j>>}]
                  ELSE deck
       /\ run' = [run EXCEPT ![j].chunk = @ + 1, ![j].got = @ \/ cards,
                             ![j].pc = IF run[j].chunk + 1 = Chunks
                                       THEN "done" ELSE "check"]
  /\ UNCHANGED <<bulk, file, status, latest, job, note, request, counters>>

\* A file some of whose passes failed is committed as completed on its own, with
\* the event that says so.
CompletePartial(j) ==
  /\ run[j].pc = "done"
  /\ Exists
  /\ run[j].got
  /\ status' = [status EXCEPT ![Current(j)] = "completed"]
  /\ run' = [run EXCEPT ![j].pc = "ending"]
  /\ UNCHANGED <<bulk, file, latest, deck, job, note, request, counters>>

\* The last commit of a file that has cards.  In an upload into an existing deck
\* it takes in a note row, and a job to make the note, unless one is ready.
CompleteFile(j) ==
  /\ run[j].pc \in {"done", "ending"}
  /\ Exists
  /\ run[j].got
  /\ ~NoteInTheWay
  /\ status' = IF run[j].pc = "done"
               THEN [status EXCEPT ![Current(j)] = "completed"] ELSE status
  /\ note' = IF SingleDeck /\ note = "none" THEN "pending" ELSE note
  /\ job' = [job EXCEPT ![j].ok = TRUE]
  /\ Advance(j)
  /\ UNCHANGED <<bulk, file, latest, deck, request, counters>>

\* With a note row that is not ready the second row breaks the constraint
\* uq_bulk_revision_notes_child_file, and the session is of no use any more: the
\* except clauses of the file and of process_job raise in their turn, and the
\* thread ends with nothing more committed.
LoseSession(j) ==
  /\ run[j].pc \in {"done", "ending"}
  /\ Exists
  /\ run[j].got
  /\ NoteInTheWay
  /\ run' = [run EXCEPT ![j] = NoRun]
  /\ UNCHANGED <<bulk, file, status, latest, deck, job, note, request, counters>>

\* The except clause of the loop's body.  A stop or a cancel seen by the check
\* before a chunk stops the attempt; a source without text, title or deck, a text
\* that yields no chunk (after the deck is wiped), and chunks whose passes yielded
\* no card at all, fail it.  (hard_fail_job is never set: _run_mode and the
\* title's own handler catch the error it waits for.)
FailFile(j) ==
  /\ Exists
  /\ LET canceled == bulk.stop \/ status[Current(j)] = "stopped"
     IN \/ /\ run[j].pc = "check" /\ canceled
           /\ status' = [status EXCEPT ![Current(j)] = "stopped"]
        \/ /\ \/ run[j].pc = "title"
              \/ run[j].pc = "check" /\ run[j].chunk = 0
              \/ run[j].pc = "done" /\ ~run[j].got
           /\ status' = [status EXCEPT ![Current(j)] = "failed"]
  /\ Advance(j)
  /\ job' = [job EXCEPT ![j].bad = TRUE]
  /\ UNCHANGED <<bulk, file, latest, deck, note, request, counters>>

\* The end of the run, read: the statuses of the latest attempts, is_auto_stop
\* and the count of pending rows (_requeue_job_for_late_files).
ReadFinal(j) ==
  /\ run[j].pc = "final"
  /\ Exists
  /\ LET requeue == ~bulk.stop /\ WithStatus("pending") # {}
         upload == IF bulk.stop THEN "stopped"
                   ELSE IF requeue THEN "pending"
                   ELSE StatusOf(LatestStatuses)
         mine == IF bulk.stop THEN "failed"
                 ELSE IF requeue THEN "pending"
                 ELSE IF job[j].bad /\ ~job[j].ok THEN "failed"
                 ELSE "completed"
     IN run' = [run EXCEPT ![j].pc = "commit",
                           ![j].final =
                             <<IF upload = bulk.status THEN "keep" ELSE upload,
                               IF mine = job[j].status THEN "keep" ELSE mine>>]
  /\ UNCHANGED <<bulk, file, status, latest, deck, job, note, request, counters>>

\* The end of the run, written: only the statuses that differ from those read.
CommitFinal(j) ==
  /\ run[j].pc = "commit"
  /\ Exists
  /\ bulk' = IF run[j].final[1] = "keep"
             THEN bulk ELSE [bulk EXCEPT !.status = run[j].final[1]]
  /\ job' = IF run[j].final[2] = "keep"
            THEN job ELSE [job EXCEPT ![j].status = run[j].final[2]]
  /\ run' = [run EXCEPT ![j] = NoRun]
  /\ UNCHANGED <<file, status, latest, deck, note, request, counters>>

\* The rows are gone: the next statement of the run raises and it ends.
LoseRows(j) ==
  /\ Running(j)
  /\ ~Exists
  /\ run' = [run EXCEPT ![j] = NoRun]
  /\ UNCHANGED <<bulk, file, status, latest, deck, job, note, request, counters>>

\* The job of a note row is claimed: process_revision_notes makes the note, or
\* fails to.  Not modelled is where that job stands in created_at order, nor its
\* commit after the note's.
MakeNote ==
  /\ note = "pending"
  /\ Free > 0
  /\ note' = "making"
  /\ UNCHANGED <<bulk, file, status, latest, deck, job, run, request, counters>>

FinishNote ==
  /\ note = "making"
  /\ \E outcome \in {"ready", "failed"} : note' = outcome
  /\ UNCHANGED <<bulk, file, status, latest, deck, job, run, request, counters>>

\* The process dies in the middle of its runs; the container restarts it.
CrashRestart ==
  /\ crashes < MaxCrashes
  /\ crashes' = crashes + 1
  /\ (\E j \in Jobs : Running(j)) \/ note = "making"
  /\ run' = [j \in Jobs |-> NoRun]
  /\ note' = IF note = "making" THEN "pending" ELSE note
  /\ UNCHANGED <<bulk, file, status, latest, deck, job, request, stops>>

RunStep(j) ==
  \/ Begin(j) \/ Select(j) \/ FindOrphans(j) \/ Reclaim(j)
  \/ MissFiles(j) \/ FailMissing(j) \/ Resolve(j) \/ Raise(j)
  \/ LoopStopped(j) \/ HaltUpload(j) \/ EndStopped(j)
  \/ SkipFile(j) \/ LookFile(j) \/ StartFile(j)
  \/ ClearDeck(j) \/ CheckChunk(j) \/ WriteChunk(j)
  \/ CompletePartial(j) \/ CompleteFile(j) \/ LoseSession(j) \/ FailFile(j)
  \/ ReadFinal(j) \/ CommitFinal(j) \/ LoseRows(j)

-----------------------------------------------------------------------------
(***************************************************************************)
(* The users' requests.                                                    *)
(***************************************************************************)
May(kind) == kind \in Requests /\ request = NoRequest /\ Exists
HalfDone(kind) == [NoRequest EXCEPT !.kind = kind]
MayStop(kind) == May(kind) /\ stops < MaxStops /\ stops' = stops + 1

\* stop_bulk_ai_upload: first the upload, then one running job.
StopUpload ==
  /\ MayStop("stop")
  /\ bulk.status \in {"pending", "processing"}
  /\ bulk' = [status |-> "stopped", stop |-> TRUE]
  /\ request' = HalfDone("stop")
  /\ UNCHANGED <<file, status, latest, deck, job, note, run, crashes>>

StopJob ==
  /\ request.kind = "stop"
  /\ request' = NoRequest
  /\ IF JobsWith("running") = {}
     THEN UNCHANGED job
     ELSE \E j \in JobsWith("running") :
            job' = [job EXCEPT ![j].status = "failed"]
  /\ UNCHANGED <<bulk, file, status, latest, deck, note, run, counters>>

\* cancel_bulk_ai_upload: the attempts read as open, and the upload's status and
\* is_auto_stop as they follow from the rows read and these stopped.
ReadCancel(rows) ==
  LET statuses == {IF latest[f] \in rows THEN "stopped" ELSE status[latest[f]] :
                     f \in Files}
      upload == StatusOf(statuses)
  IN /\ request' =
          [kind |-> "cancel", rows |-> rows,
           status |-> IF upload = bulk.status THEN "keep" ELSE upload,
           stop |-> statuses \cap {"pending", "processing", "stopped"} # {}]
     /\ UNCHANGED <<bulk, file, status, latest, deck, job, note, run, crashes>>

\* Of the whole upload: the latest attempts.
CancelAll ==
  /\ MayStop("cancelAll")
  /\ ReadCancel({a \in LatestRows : status[a] \in Open})

\* Of one file: its newest attempt that is pending or processing.
CancelFile(f) ==
  /\ MayStop("cancelFile")
  /\ LET open == {a \in Created : file[a] = f /\ status[a] \in Open}
     IN \E a \in open : (\A b \in open : b <= a) /\ ReadCancel({a})

\* The rows read are stopped, whatever they are by now.
CommitCancel ==
  /\ request.kind = "cancel"
  /\ Exists
  /\ status' = [a \in Attempts |-> IF a \in request.rows THEN "stopped"
                                                         ELSE status[a]]
  /\ bulk' = [status |-> IF request.status = "keep" THEN bulk.status
                                                     ELSE request.status,
              stop |-> request.stop]
  /\ request' = NoRequest
  /\ UNCHANGED <<file, latest, deck, job, note, run, counters>>

\* The attempts a retry of the files F stops (_mark_previous_attempt_superseded).
Superseded(F) == {latest[f] : f \in F}

\* _mark_previous_attempt_superseded and _prepare_fresh_retry_attempt for the
\* files F: their latest attempts are stopped, their decks wiped, and each has
\* a new pending attempt.
Retry(F) ==
  LET n == Cardinality(Created)
      new == [f \in F |-> n + Cardinality({g \in F : g <= f})]
      added == {new[f] : f \in F}
  IN /\ n + Cardinality(F) <= MaxAttempts
     /\ file' = [a \in Attempts |->
                   IF a \in added THEN CHOOSE f \in F : new[f] = a ELSE file[a]]
     /\ status' = [a \in Attempts |-> IF a \in Superseded(F) THEN "stopped"
                                      ELSE IF a \in added THEN "pending"
                                      ELSE status[a]]
     /\ latest' = [f \in Files |-> IF f \in F THEN new[f] ELSE latest[f]]
     /\ deck' = [f \in Files |-> IF f \in F THEN {} ELSE deck[f]]

\* The attempt that a retry of one file or of its deck picks, the newest one,
\* must have failed or look stuck; force takes any.
MayRetry(f, force) ==
  \/ status[latest[f]] \in {"failed", "processing", "stopped"}
  \/ force /\ status[latest[f]] \in {"pending", "completed"}

\* resume_bulk_ai_upload of one file (or of its deck); the upload's status is
\* derived from all attempts ever made.
ResumeFile(f) ==
  /\ May("resumeFile")
  /\ \E force \in BOOLEAN : MayRetry(f, force)
  /\ Retry({f})
  /\ LET statuses == {status'[a] : a \in {b \in Attempts : file'[b] # 0}}
     IN bulk' = [status |-> StatusOf(statuses), stop |-> FALSE]
  /\ request' = HalfDone("resumeFile")
  /\ UNCHANGED <<job, note, run, counters>>

\* Its second commit resets the newest job, whatever its status.
ResumeFileJob ==
  /\ request.kind = "resumeFile"
  /\ request' = NoRequest
  /\ \E j \in Jobs :
       /\ job[j].status # "none"
       /\ \A k \in Jobs : job[k].status # "none" => k <= j
       /\ job' = [job EXCEPT ![j] =
                    [status |-> "pending", ok |-> FALSE, bad |-> FALSE]]
  /\ UNCHANGED <<bulk, file, status, latest, deck, note, run, counters>>

\* resume_bulk_ai_upload of the whole upload, and its second commit: a new job.
ResumeAll ==
  /\ May("resumeAll")
  /\ bulk.status \in {"stopped", "failed", "completed"}
  /\ \E j \in Jobs : job[j].status = "none"
  /\ Retry(Files)
  /\ bulk' = [status |-> "pending", stop |-> FALSE]
  /\ request' = HalfDone("resumeAll")
  /\ UNCHANGED <<job, note, run, counters>>

ResumeAllJob ==
  /\ request.kind = "resumeAll"
  /\ request' = NoRequest
  /\ \E j \in Jobs :
       /\ job[j].status = "none"
       /\ \A k \in Jobs : job[k].status = "none" => j <= k
       /\ job' = [job EXCEPT ![j].status = "pending"]
  /\ UNCHANGED <<bulk, file, status, latest, deck, note, run, counters>>

\* What purge_bulk_upload refuses: pending or processing attempts, active jobs.
Purgeable == /\ WithStatus("pending") \cup WithStatus("processing") = {}
             /\ JobsWith("pending") \cup JobsWith("running") = {}

Purge ==
  /\ May("purge")
  /\ Purgeable
  /\ bulk' = [bulk EXCEPT !.status = "gone"]
  /\ job' = [j \in Jobs |-> [job[j] EXCEPT !.status = "none"]]
  /\ note' = "none"
  /\ UNCHANGED <<file, status, latest, deck, run, request, counters>>

SecondCommit == StopJob \/ CommitCancel \/ ResumeFileJob \/ ResumeAllJob

FirstCommit ==
  \/ StopUpload \/ CancelAll \/ ResumeAll \/ Purge
  \/ \E f \in Files : CancelFile(f) \/ ResumeFile(f)

Next ==
  \/ Poll \/ MakeNote \/ FinishNote \/ CrashRestart
  \/ \E j \in Jobs : RunStep(j)
  \/ FirstCommit \/ SecondCommit

Spec == Init /\ [][Next]_vars

\* The worker polls for ever, a run's every step and the making of a note end
\* (each AI pass has a timeout and a retry limit), and a handler that committed
\* once goes on.
Fairness ==
  /\ WF_vars(Poll) /\ WF_vars(MakeNote) /\ WF_vars(FinishNote)
  /\ \A j \in Jobs : WF_vars(RunStep(j))
  /\ WF_vars(SecondCommit)

FairSpec == Spec /\ Fairness

-----------------------------------------------------------------------------
(***************************************************************************)
(* Properties.                                                             *)
(***************************************************************************)
BulkStatuses ==
  {"pending", "processing", "completed", "failed", "stopped", "gone"}
AttemptStatuses ==
  {"none", "pending", "processing", "completed", "failed", "stopped"}
JobStatuses == {"none", "pending", "running", "completed", "failed"}
Places == {"idle", "begin", "select", "reclaim", "reselect", "missing",
           "resolve", "next", "halt", "stopped", "start", "title", "check",
           "write", "done", "ending", "final", "commit"}

\* Shapes of the rows and of the runs' local variables.
TypeOK ==
  /\ bulk \in [status : BulkStatuses, stop : BOOLEAN]
  /\ file \in [Attempts -> Files \cup {0}]
  /\ status \in [Attempts -> AttemptStatuses]
  /\ latest \in [Files -> Attempts]
  /\ deck \in [Files -> SUBSET (Attempts \X Jobs)]
  /\ job \in [Jobs -> [status : JobStatuses, ok : BOOLEAN, bad : BOOLEAN]]
  /\ \A j \in Jobs :
       /\ run[j].pc \in Places
       /\ run[j].left \in Seq(Attempts)
       /\ run[j].chunk \in 0 .. Chunks
       /\ run[j].got \in BOOLEAN
       /\ run[j].final \in Seq(BulkStatuses \cup JobStatuses \cup {"keep"})
  /\ note \in {"none", "pending", "making", "ready", "failed"}
  /\ request \in [kind : {"none", "stop", "cancel", "resumeFile", "resumeAll"},
                  rows : SUBSET Attempts,
                  status : BulkStatuses \cup {"keep"}, stop : BOOLEAN]
  /\ stops \in 0 .. MaxStops
  /\ crashes \in 0 .. MaxCrashes

\* A completed file's deck holds the cards of its latest attempt, made by one
\* run, and no others: a retry replaces a deck's content and never appends to
\* it (clear_deck_generated_content), whatever was stopped, retried or crashed
\* in between.
CompletedDeckIsPure ==
  \A f \in Files : status[latest[f]] = "completed" =>
    \E j \in Jobs : deck[f] = {<<latest[f], j>>}

\* The run works on the attempt, or is about to: LookFile found it in order.
InHand(j, a) ==
  /\ run[j].pc \in {"start", "title", "check", "write", "done"}
  /\ Current(j) = a

\* An attempt that was superseded is over and stays so: no later run, reclaim or
\* cancel makes it pending or processing again, unless the process dies.  It is
\* open only in the hands of the run that looked at it before the retry came in
\* and has not been told.  (README 3.3 has what follows from that window, and
\* what a death leaves.)
SupersededIsOver ==
  \A a \in Created :
    status[a] \in Open /\ latest[file[a]] # a /\ crashes = 0
      => \E j \in Jobs : InHand(j, a)

\* A completed file stays completed and its deck as it is until that file is
\* retried: no run works on completed files again (the PENDING filter of
\* process_bulk_ai_upload) and no leftover of a superseded attempt gets into the
\* deck.  Only a cancel that read the file before it was completed still marks
\* it stopped.
CompletedFileIsLeftAlone ==
  [][\A f \in Files :
       status[latest[f]] = "completed" /\ latest'[f] = latest[f]
         => /\ deck'[f] = deck[f]
            /\ \/ status'[latest[f]] = "completed"
               \/ /\ status'[latest[f]] = "stopped"
                  /\ request.kind = "cancel" /\ latest[f] \in request.rows]_vars

\* The jobs come to rest: no job is re-queued for late files without end
\* (_requeue_job_for_late_files), nor reclaimed without end, unless a note row is
\* in the way.
NoEndlessRequeue ==
  <>[](\/ NoteInTheWay
       \/ \A j \in Jobs : /\ ~Running(j)
                          /\ job[j].status \notin {"pending", "running"})

\* The attempt has ended, or waits for a retry of its stopped or failed upload.
Over(a) == \/ status[a] \in {"completed", "failed", "stopped"}
           \/ bulk.stop
           \/ bulk.status = "failed" /\ status[a] # "processing"

\* A pending file is worked on, or its upload is stopped or fails.
PendingFileIsProcessed ==
  \A f \in Files :
    status[latest[f]] = "pending"
      ~> (status[latest[f]] # "pending" \/ bulk.stop \/ bulk.status = "failed")

\* Canceling one file stops that file; the others are worked on.
\* (The code does not keep this: README 3.3.)
OtherFilesAreProcessed ==
  \A f \in Files :
    status[latest[f]] = "pending"
      ~> (status[latest[f]] # "pending" \/ bulk.status = "failed")

\* A file that was begun ends, however often the worker dies: what a dead worker
\* had begun is begun again (_reclaim_orphaned_processing_files), unless it is
\* superseded, the upload is stopped or fails, or a note row is in the way.
ProcessingFileEnds ==
  \A a \in Attempts :
    status[a] = "processing"
      ~> (Over(a) \/ a \notin LatestRows \/ NoteInTheWay)

\* A file whose revision note is not ready can be run again, and the rerun ends.
\* (The code does not keep this: README 3.3.)
RerunEnds ==
  \A a \in Attempts : status[a] = "processing" ~> Over(a)

\* A restart does not fail an upload all of whose files are completed: the job
\* it reclaims does not end with "Missing queued upload files".
\* (The code does not keep this: README 3.3.)
FinishedUploadSucceeds ==
  [][LatestStatuses = {"completed"} /\ bulk.status # "failed"
       => bulk'.status # "failed"]_vars

\* An upload that was stopped can be purged once its run has ended.
\* (The code does not keep this: README 3.3.)
StoppedIsPurgeable ==
  bulk.stop ~> (Purgeable \/ ~bulk.stop)
=============================================================================
