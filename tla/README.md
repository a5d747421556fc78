# TLA+ models of edu_viz

`edu_viz` is a spaced-repetition server: a FastAPI application, a PostgreSQL
database and a background worker that turns uploaded PDFs into decks of
flashcards and MCQs with the help of AI providers. This directory holds TLA+
models of the parts of it in which several actors change the same rows, the
TLC configurations that check them on small instances, and proofs, checked by
TLAPS, of what matters most for every instance.

- `PROJECT.json` lists the components, the runs, the faults each property is
  known to catch, the source lines each definition models, the
  hazards and the theorems.
- To check a run: `tlc -config <Run>.cfg <Module>.tla`; to check the proofs:
  `tlapm <Module>Proofs.tla`.

## 1. The system

### 1.1 Who acts

| actor | where | what it does |
|---|---|---|
| web handlers | `app/api/routers/*.py` | one database session per request, run in a thread pool; requests of several users and tabs interleave between any two commits, and between a read and the commit it decides |
| worker process | `app/services/job_worker.py` `run_worker_loop` | polls the `jobs` table, claims jobs, submits them to a pool of `JOB_WORKER_THREADS` threads |
| worker threads | `process_job` | execute one job each, with a session of their own; a file's AI passes run in a further pool, one thread per mode |
| MCQ threads | `app/api/routers/content.py` | daemon threads of the web process |
| AI provider | outside | answers late, with garbage, with nothing, or not at all |
| operator | `docker compose` | restarts containers at any moment |

Nothing but the database is shared between web and worker. No handler takes a
row lock (`FOR UPDATE` occurs nowhere) and sessions do not flush until they
commit, so the unit of interleaving is the commit, and a value read before
another transaction's commit may be acted upon after it. A read and the commit
it decides are two actions wherever something that another actor may commit
between them changes what comes out; section 2 names the pairs that are one
action because nothing does.

### 1.2 Components, their state and what makes them correct

**Job queue** (`job_worker.py`, `models/job.py`). State: the `jobs` rows
(status, `worker_id`, `locked_at`); per process the executor's queue and
`_active_jobs`. Operations: poll, claim, submit, take, start, finish; enqueue,
stop, resume, purge from the web side. Hard: a lease that nobody renews while
a job executes, claims without locks, own live jobs that are claimed again at
every poll, process death. Correct when a job executes at most once at a time,
no pending job is forgotten, no dead one stays running, and the pool's slots
are all accounted for.

**Bulk AI upload** (`job_worker.py` `process_bulk_ai_upload`,
`routers/bulk_ai_upload.py`, `purge.py`). State: the upload row with its
`is_auto_stop` flag, a child row per file, an attempt row per try
(`latest_attempt_id`), a deck per file, the jobs. Operations: the run (select
files, skip, start, wipe the deck, generate chunk by chunk, complete or fail,
finish), stop, cancel (file or upload), resume (file, deck or upload), purge.
Hard: every request interleaves with every step of a run; stop and resume
commit twice; a run's list of files grows stale; restarts. Correct when a
completed deck holds the cards of exactly one attempt, superseded attempts stay
over, completed files are left alone, and no file is left behind pending or
processing.

**Chunk generation** (`_generate_chunk_pack`, `_run_chunk_modes_parallel`,
`_generate_pack_with_retry`). State: attempt counters, the permits of a
process-wide semaphore, the round and dead-round counters, the pass counters on
the file's row. Hard: mixed failures with different retry limits, competition
for permits, lost updates of the row. Correct when every chunk ends, retry
limits hold, and rounds are given up exactly when the provider is down or has
nothing more.

**MCQ generation** (`content.py`). State: a generation row per run, an item row
per card, the MCQs. Operations: start, batch, fall back to single cards, mark
items, complete; generate at once; delete MCQs and flashcards. Hard: two starts
at a time, a run taken for dead by its age, restarts, deletion under a run.
Correct when no card gets MCQs twice, every card is taken up in the end, and
progress never passes the total.

**Folder tree** (`folders.py`, `pages.py`). State: `folders.parent_id`,
`decks.folder_id`. Operations: create, move, delete, file a deck; which folders
the browse page shows to whom. Hard: a check of the tree and the commit that
relies on it are apart; a folder is shown for the sake of decks deep under it.
Correct when the tree has no cycle and browsing from the root finds every deck,
for each user along the folders that user is shown.

**Deck lifecycle, concept maps and revision notes** (`pages.py`, `content.py`,
`purge.py`, `concept_map.py`, `revision_notes.py`). State: the deck's row and its
`is_deleted`; its cards; one concept map per deck with the status and key of its
PDF; one note row per child file with a status and a job; the objects in
storage. Operations: delete (a form's and the API's), purge one deck or selected
ones, upload into a deck or a new one, retry, download (which makes the PDF
inline, in several commits), the run's last steps. Hard: purge beside a run, a
download and an upload that is still being received; rows committed before
objects are deleted; get-or-create races on unique rows. Correct when what is
offered can be downloaded, a map is of the deck's cards, and nothing is left
of a purged deck.

**Deck access** (`access.py`, `deck_accesses.py`, `pages.py`). State: roles and
organisations of users, owner, scope and organisation of decks, grants.
Operations: predicates, the clauses that select the decks of a page, and every
handler that writes one of those columns. Hard: each rule exists as Python and
as SQL; two columns tell a global deck; long sequences of grants, updates and
role changes. Correct when all formulations agree, rights are ordered, and a
grantee cannot hand a deck on.

**Tests, reviews** (`tests.py`, `access.py` `check_test_throttle`, `content.py`,
`review_service.py`, `fsrs/`). State: a schedule row per card, the log of
reviews, tests with their questions, attempts with their answers. Operations:
rate, create, submit, delete cards, regenerate. Hard: two ratings at a time;
cards that go between a handler's read and its commit; cascades. Correct when no
schedule counts what was never reviewed, a test keeps all of its questions, and
a result is final.

**Provider settings** (`ai_provider_config.py`, `ai_auth.py`, `pages.py`).
State: one setting row with a key per provider, a cache of it per process, keys
of users and organisations. Operations: save, reset, test, resolve. Hard: caches
that are stale, or filled with what was read before a save. Correct when a key
only ever goes to its own provider, a switch is complete after the cache's time
to live, and a probe tells the truth.

**NCERT importer** (`scripts/ncert_bulk_import.py`, `scripts/ncert_catalog.py`).
State: the state file and the chapters on disk; uploads and folders in the
application. Operations: a run over the planned books. Hard: it is killed, waits
in vain, loses answers, and is run again. Correct when it ends with everything
imported, repeats nothing without a cause, and reports what is true.

**Others**: AI adapters (in `ChunkPasses`), text extraction, authentication,
imports, pages and analytics, media storage, other scripts: parsing, I/O and
single-row writes. They appear in the models as the environment's choices, or
not at all.

### 1.3 How they interact

```
 importer ──HTTP──┐
 users ──> web handlers ──(rows)──> jobs ──poll──> worker ──> bulk run ──> chunk passes ──> provider
              │                                                  │
              ├── access, folders, decks, settings               ├── decks' cards
              ├── ratings, tests                                 └── concept maps, revision notes
              └── MCQ threads ──> provider
```

A bulk job's life is seen three times. `JobQueue` models how any job is claimed
and executed by any number of processes, with the run itself as one step between
`Start` and `Finish`; `BulkUpload` opens that step for the files of one upload
and, in exchange, has one process and lets a poll claim and start a job in one
step; `DeckLifecycle` takes one file of it, and opens what `BulkUpload` closes:
the deck, its map and its note, beside the requests that delete and purge decks.
`ChunkPasses` opens one step of `BulkUpload` (`WriteChunk`: a chunk ends, with
cards or without), and its `ChunkEnds` is what justifies the weak fairness
`BulkUpload` assumes of that step; the ending of every `RunStep` in turn
justifies `RunFairness` of `JobQueue`. The provider a pass asks, a constant
choice per file in `ChunkPasses`, is what `ProviderConfig` resolves. What a user
sees of the decks, `Seen` in `Folders`, is what `DeckAccess` defines. The
regeneration of a deck that `BulkUpload` and `DeckLifecycle` call wiping is
`Regenerate` in `Study`.

## 2. The modules

Beside the code's own definitions a module holds plausible mistakes in it: in a
section "Faults", or, with a comment "Mutant", right before the definition each
stands for. No specification uses them; each property a run checks is known to
fail when one of them takes the place of that definition (`PROJECT.json`,
"mutants"). Variables and conjuncts called history exist in no code; properties
read them to tell what happened before.

### JobQueue, JobService, JobQueueRefinement, JobQueueProofs

| model | code |
|---|---|
| `status`, `owner`, `lease` | `jobs.status`, `.worker_id`, `.locked_at` against now − `JOB_LEASE_SECONDS` |
| `late` | files were added to the job's upload since its run read them |
| `poll[w]` | local variables of `claim_available_jobs` and of the loop that submits |
| `queue[w]`, `active[w]` | the `ThreadPoolExecutor`'s queue, `_active_jobs` |
| `thr[w][t]` | a pool thread in `process_job` |
| `Poll`, `Claim`, `Submit` | the two SELECTs, the commit, `executor.submit` |
| `Take`, `Start`, `Finish`, `Abort`, `Leave` | `_mark_job_active`; the first commit; the run's last commit; a run without one; the `finally` |
| `Enqueue`, `Resume`, `Stop`, `Purge` | the web handlers' writes of job rows |
| `LeaseExpires`, `CrashRestart` | the clock; process death, after which the process has a new `WORKER_ID` |

Time is abstracted: a fresh lease may expire at any moment, so runs longer than
the lease are covered. `Finish` reads and commits in one step; that a run's
last read and last commit are apart matters only together with the files, and
`BulkUpload` splits it (`ReadFinal`, `CommitFinal`).

`JobService` is what the queue promises: a run begins only on a job that is
owed one and does not execute, and a run's end owes no new one. `JobQueueRefinement`
maps the queue to it (a job is owed when it is pending, running without a
thread, or failed with a submission already handed out) and TLC checks that
every step of the queue is a step of the service. This holds for the defaults,
one process with one thread; a stop followed by a claim that was already
submitted starts a FAILED job again, which the mapping has to count as owed.

### BulkUpload, FileService, BulkUploadRefinement, BulkUploadProofs

| model | code |
|---|---|
| `bulk` | `bulk_ai_uploads.status`, `.is_auto_stop`; "gone" after a purge |
| `file`, `status`, `latest` | attempt rows, their status, the child row's `latest_attempt_id` |
| `deck[f]` | which attempt's cards, made by which job's run, file `f`'s deck holds |
| `job` | status, and whether `processed_items`, `failed_items` are positive |
| `run[j]` | the run's place between two commits, its list of files, the current chunk, whether cards were made, and the final statuses it is about to commit |
| `request` | a stop or resume between its two commits, or a cancel between what it has read and its commit |
| `Select`, `FindOrphans`, `Reclaim`, `MissFiles`, `FailMissing` | the list of files: pending rows are read, or rows still processing, which are put back (`_reclaim_orphaned_processing_files`) whatever they are by then |
| `LookFile`, `StartFile` | the checks at the top of the loop; the commit of `processing`, which looks at nothing again |
| `CompletePartial`, `CompleteFile` | the commit a file with failed passes makes on its own (job_worker.py:1590); the file's last commit |
| `CancelAll`, `CancelFile`, `CommitCancel` | what `cancel_bulk_ai_upload` reads; the UPDATE of the rows it has read as pending or processing, whatever they are by then |
| `note` | the file's row in `bulk_ai_upload_revision_notes`; "making" while a thread executes its job |

Every action ends at one of the run's commits or after the reads that decide the
next one. Assignments are by attribute: SQLAlchemy writes only what differs from
the row as read, so `CommitFinal` keeps a status that the run found already set.
Some reads share a step with their commit, because what may be committed between
the two makes no difference that the commit would not make later: `SkipFile`
stops a row that is superseded or stopped for good; a stop seen by the check
before a chunk (`FailFile`) stays set until a retry, which makes a new row;
`Raise` may write "failed" over what a cancel has just stopped, which is over
either way; `Begin`, `StopUpload` and `StopJob` write without looking; `Retry` and
`Purge` look at rows that only a run could change meanwhile, which comes to the
same as that run having been faster or slower. A poll claims and starts a job in
one step (`JobQueue` has the finer one). One request is under way at a time, and
interleaves freely with the runs; two requests that overlap are left out here.

`SingleDeck` is an upload into an existing deck (`bulk.deck_id`, set only by
`/decks/{id}/ai-import/start`, which refuses ZIP files, so it has one file): its
completion adds a note row and a job (`CompleteFile`, `MakeNote`,
`FinishNote`), or fails on the row that is there (`LoseSession`). The note's job
is no job of `job`: it takes a thread when one is free, wherever it stands among
the others, and ends at the note's last commit.

`FileService` is what an upload promises for its files, each of which waits, is
worked on, and is done or over: work begins on a file that waits, on no more
files at a time than there are threads, and a file comes to wait only when users
ask for an attempt at it or when the process died at work on it. So AI passes are paid for once per attempt and
death, and a canceled file is not begun. What is done is left alone, but for a
cancel that was asked for before (`AskCancel`, `Cancel`): the code's cancel writes
over a completion it has not seen. `BulkUploadRefinement` maps the upload to it: a
file is worked on when a run of an upload that is there has its latest attempt in
hand, which begins with the look at its row (`LookFile`), so that what another
request commits before `StartFile` does comes during the work. A run that was
overtaken by a retry works for nobody, and its end is a stutter. The mapping needs one thread and an upload that makes its
own decks: with two threads a retry has two jobs work on the same files, and with a
note in the way `LoseSession` has a file generated again that nobody asked for
(3.3).

### ChunkPasses, GenerationProofs

| model | code |
|---|---|
| `provider[f]` | the adapter the job of file `f` uses |
| `pass[f][m]` | the request for the title, or the pass of mode `m` in this round: attempts, sleep, outcome, what it read of the row |
| `round`, `dead`, `ended` | `round_index`, `consecutive_failed_rounds`, why the rounds ended |
| `row` | `passes_completed`, `passes_failed` of the file's row |
| `Plain`, `Parsed`, `Said` | what an adapter makes of a reply: a pack, or an exception with a phrase the worker looks for |

A reply is what the five adapters tell apart: a pack with cards, one whose
items are all white space, JSON without usable items, odd or no JSON, an
HTTP status, a time-out. Whether a card is new is not modelled: a round's pack is
not compared with what the chunk has (job_worker.py:667, 805), so a chunk whose
passes only repeat themselves goes on to its last round. What the worker then does depends on the exception's
words: time-outs, transient and overloaded answers and format errors each have a
limit, and one attempt counter is compared with all of them. `inRow` is a
history: how many dead rounds there were in a row.

### McqGeneration, GenerationProofs

| model | code |
|---|---|
| `item[c]` | status of the card's `deck_mcq_generation_items` row |
| `made[c]`, `direct` | MCQ sets of a card, and MCQs that `generate_mcqs_for_deck` has made at once |
| `gen[g]` | `mcq_generations` row: status, age, counters |
| `run[g]` | its daemon thread |
| `start[s]` | a start handler between its transactions |
| `Check`, `AddItems`, `AddGeneration` | `start_generate_mcqs_for_deck` |
| `Load` … `Complete`, `LoseCard`, `GiveUp` | `_generate_mcqs_background` |
| `DeleteMcqs`, `DeleteCard`, `GenerateDirectly` | `bulk_delete_mcqs`, `bulk_delete_flashcards`, `generate_mcqs_for_deck` |

Every transaction is an action, with the reads it is decided on. For
`DeleteMcqs`, whose transaction reads the items before it writes them, this loses
no outcome for any one card: the UPDATE names only items that differ from what was
read, so for each card it is as if a run's commit in between had come after the
deletion or before it. `Slow` says whether a living run may be older
than ten minutes. Deleting one generated MCQ sets every item of the deck back;
`resets` counts that.

### Folders, MCFolders, BrowsingProofs

| model | code |
|---|---|
| `parent`, `home` | `folders.parent_id`, `decks.folder_id` |
| `req[r]` | what the handler of a move or deletion has read |
| `Create`, `MoveDeck` | `create_folder` and the form's, `move_decks`, and the deck's own form |
| `ReadMove`, `CommitMove`, `ReadDelete`, `CommitDelete` | `move_folder`, `delete_folder` up to the commit, and the commit |
| `CanManage`, `CanView`, `Shown`, `MayCreate` | the checks of `folders.py` and the folders `browse_decks` shows |
| `Made`, `Seen`, `OrgOf`, `Rights` | constants: who creates a folder and how, the decks listed to a user, `users.organization_id`, `users.role` |

The code's walk over subfolders is defined by what it collects: `Below(f)` is the
least set that is closed under subfolders. Cascades and `SET NULL` of the
foreign keys are part of `CommitDelete`. The API's deletion and the form's differ
(`Moved`): the one updates the decks in the database, the other the objects of
its session, whose `folder_id` is emptied again when the folder they belong to
is deleted (`Folder.decks` has no cascade). Names are left out. Who may move and
delete is too: a system admin may do all of it, so every tree is reachable.

### DeckAccess, UsersAndDecks, MCDeckAccess, BrowsingProofs

| model | code |
|---|---|
| `role`, `org` | `users.role`, `.organization_id` |
| `deck[d]` | `decks.user_id`, `.access_level`, `.organization_id`, `.is_global`, `.is_deleted` |
| `grant[d][u]` | `deck_accesses.access_level`, "none" without a row |
| `CanAccess`, `CanWrite`, `CanDelete`, `CanSetAccess`, `CanChangeScope`, `CanManageTags` | the predicates of `access.py` |
| `Listed`, `ListedToBrowse`, `ListedBySearch`, `ListedUnder` | `accessible_deck_clause`, `browse_accessible_deck_clause`, what `browse_decks` selects in a folder or search, and under a tab |
| `CreateDeck`, `UpdateDeck`, `SetScope`, `Grant`, `UpdateGrant`, `RevokeGrant`, `EditTags`, `DeleteDeck`, `UpdateUser`, `SignIn` | the handlers of `pages.py`, `deck_accesses.py`, `auth.py` that write those columns |

A request is one step, because each checks and commits once over a few rows it
has just read; nothing here rests on two rows agreeing. The actor of a step is
its parameter, so `GranteesNeverWiden` can speak of who sent the request.

### Study, MCStudy, StudyProofs

| model | code |
|---|---|
| `card`, `schedule`, `reviews` | rows of `cards`, `card_states`, and how many of `reviews` (and how many of them "Again") |
| `test`, `attempt` | rows of `tests` with `test_questions`, `test_attempts` with `test_attempt_answers` |
| `req[r]` | what a handler has read and is about to commit |
| `ReadRate`, `CommitRate` | `ReviewService.rate`; `Rated` is the scheduler's step |
| `Updated` | the UPDATE that names only the columns that differ from what was read |
| `ReadCreate`, `CommitCreate`, `Throttled` | `create_test_from_deck`, `check_test_throttle` |
| `ReadSubmit`, `CommitSubmit` | `submit_test` |
| `ReadDelete`, `CommitDelete` | `bulk_delete_flashcards`, `bulk_delete_mcqs`, `_delete_cards_with_test_dependencies` |
| `Regenerate` | `clear_deck_generated_content` |

`overlapped` and `regenerated` are histories: two of the properties hold only as
long as no two requests were under way together. The scheduler's stability,
difficulty and intervals are floating-point numbers; what is kept is the state
and whether the card is due at once.

### DeckLifecycle, MCDeckLifecycle, DeckLifecycleProofs

| model | code |
|---|---|
| `deck`, `cards` | the deck's row and `is_deleted`; the text its cards were made from |
| `map` | `concept_maps`: status, `source_file_id`, graph, `revision_pdf_status`, whether it has a key |
| `upload[u]` | the rows of an upload with one file: status, job, `deck_id` (target), `created_deck_id` (into), note and its job |
| `stored` | objects under the prefixes of media, PDFs, files and notes |
| `request[r]` | `deck_revision_notes_download` with `ensure_deck_revision_pdf` and `generate_concept_map_revision_pdf` between their commits, or an import of an Anki deck (`anki_import_upload`): the check, the media, the cards |
| `worker` | the worker's thread in `process_bulk_ai_upload` or `process_revision_notes` |
| `purge` | `purge_deck_permanently` or `purge_selected_decks` with `purge_deck`: check, transaction, objects |
| `Delete`, `DeleteApi`, `SendFile`, `QueueFile`, `StartUpload`, `Retry`, `PurgeUpload` | the handlers of `pages.py`, `content.py`, `bulk_ai_upload.py` |

A step ends at a commit, at a write to storage, or before a statement that relies
on an earlier read. `saw` and `seen` are what a session read and acts on later:
the insert of a map another session has inserted breaks it (`LoseSession`), and a
status is only written when it differs from the one read (`SetPdf`). A text is
named by the upload it came from, so that a map, a PDF and cards can be compared.
`CompletePartial` is the commit that a file with failed passes makes before its
note and map, `EnqueueNote` that of the note's job with the file's status, and
`WriteMap` the last. A job that is over says no more of how it ended than that
(`"over"`): failed, when it found no pending file, or completed, which nothing here
reads. `lost` is a history of what a death, a failing storage or an import that is
still to store its media excuses.

### ProviderConfig, MCProviderConfig, ProviderConfigProofs

| model | code |
|---|---|
| `row` | the `ai_provider_settings` row: provider, the keys stored for which providers, or one bare key of an old row |
| `cache[w]` | `_cache` of a process and its age |
| `scope` | keys of a user and of an organisation (`ai_credentials`), AI switched on |
| `admin[a]` | `settings_ai_save` or `settings_ai_reset`: read, commit, `invalidate_cache` |
| `call[c]` | `resolve_configured_ai_credential` and the client's constructor |
| `Hit`, `Miss`, `Fill`, `Unreadable` | `_read_row` with the cache, with a session of its own, its write to the cache, its failure |
| `ProbeKey` | `_settings_ai_api_key` |

A key is named by the provider it was entered for. A model is too: an
administrator stores a model that belongs to the provider, so a call that uses
the model of another provider shows. Only the clients of `Readers` look the
stored model up (DeepSeek's and Opencode's, ai_generation.py:513 and 629); the
others have one written into them, `BuiltIn` (ai_generation.py:142, 171, 218).
`Written` is the UPDATE of the columns that a save changes (`Rekeys` says whether
the keys are one of them), and `gone` that the row a save has read was deleted
meanwhile, upon which its UPDATE finds none and fails. `quiet`, `late` and `calm` are histories of
what has changed while a call was under way.

### NcertImport, MCNcertImport, NcertImportProofs

| model | code |
|---|---|
| `script` | a run of `main`: where it is, the state it holds in memory, what it will exit with |
| `disk`, `file` | chapters in `--workdir`, the state file ("torn" while it is written) |
| `uploads`, `folders` | in the application |
| `Discover`, `ListFolders`, `CreateFolder`, `Fetch`, `Write`, `Zip`, `Post`, `OpenState`, `SaveState`, `WaitEnds`, `Clean` | the loop over the planned books, `ensure_folder`, `download_chapter`, `save_state`, `wait_for_bulk` |
| `TooBig`, `KeepPdfs`, `NoWait` | books whose archive is above `--max-book-mb` when it has every chapter (`Oversize`); `--keep-pdfs`; `--no-wait` |
| `StartFails`, `DiscoverFails`, `FolderFails`, `FetchFails`, `PostFails`, `WaitGivesUp`, `PollFails`, `Killed` | what is caught (the next book), what is not (the run ends: a time-out of an answer, the catalogue, `--parent-path`), and the end of the process |

`Clean` deletes a book's chapters in one step: a run killed between two of them
leaves fewer chapters of a book that is already recorded, which no run reads again.
The application's side is external to the script: an upload ends in some way,
which is what `BulkUploadLiveness` shows, and other users may create and delete
the folder.

## 3. The runs

### 3.1 Properties that hold

| run | what it shows | bounds, and why they are enough |
|---|---|---|
| `JobQueueSafety` | no slot of the pool leaks, and in one process a job executes once at a time | 2 threads, 2 jobs, a queue of 2, 2 requests, 1 crash: the least in which a job can be claimed, submitted and stopped twice while another runs |
| `JobQueueService` | with the default single thread the queue implements `JobService`, executes every pending job and leaves none running | 2 jobs, 3 requests, 2 crashes: a stop, a retry and a purge around one run, and a crash of the run that recovers from a crash |
| `BulkUploadOneThread` | completed decks are pure; superseded attempts are over once no run holds them; completed files are left alone but by a cancel under way; the upload implements `FileService` | 2 files of 2 chunks, 4 attempts, 2 jobs, all requests, 1 stop or cancel, 1 crash: one file under work beside one that is finished, pending or retried, each request between a look and its commit; 1.2 million states |
| `BulkUploadLiveness` | a pending file is begun, a file begun ends, jobs come to rest, all unless a note row is in the way | an upload into a deck: 1 file of 2 chunks with its note, 3 attempts, 3 jobs, 1 stop or cancel, retries of the upload, 1 crash: a stop or a cancel with a retry after it, a retry of what failed, and a crash in any of the three runs. With a second file, or a retry of a single one, 3.3 applies |
| `ChunkPasses` | retry limits hold; only a dead provider is given up; every chunk ends | each of the 5 adapters, a title and 2 modes that compete for 1 permit, the default 3 rounds, the code's own limits, every mixture of replies |
| `McqGeneration` | each card once; progress within the total; unfinished cards are taken up | 3 cards in batches of 2, one generation at a time (a finished row is used again), 2 deletions of MCQs or cards, 1 restart: a full batch beside a rest, a run before and after the restart, a deletion in each |
| `FoldersOneRequest` | the tree is a tree, every deck is found, by each user along the folders shown to that user | 4 folders made by 3 users with the API and the form, 2 decks, one of which only some users are listed: chains of all depths, forks and moves between them |
| `DeckAccess` | the clause with grants is the predicate; a grantee never lets anybody else in | 3 users, 2 organisations, 1 deck (no rule looks at two), every request without a bound |
| `Study` | no count without its review; without overlap the schedule is the reviews', and tests and attempts are whole | a flashcard rated twice, 2 MCQs, 1 test, 1 attempt, 2 requests at a time, 2 ticks: two ratings at a time, a deletion of none, one or all of a test's questions between any read and commit |
| `DeckLifecycle` | what is offered is stored; a map is of the deck's cards; a purged deck leaves nothing | 2 decks, 2 uploads, 1 download or import, a purge, any 4 requests or deaths, 1 death of a process: two uploads and a purge or a deletion beside a download or an import; 4.4 million states |
| `ProviderConfig` | keys stay with their provider; settled calls use what is stored, its model where the client reads it; probes are honest; keys outlive switches | 2 providers, of which one's client reads the stored model, 2 processes, 2 administrators, 1 generation after another, a time to live of 2, 2 changes or failures: two saves that overlap, or a save in the middle of each step of a call; 0.95 million states |
| `NcertImport` | no repeat without a cause; reports are true; everything that is not too big is imported in the end | 3 books of 2 chapters, one of them listed under two subjects and one that is too big with both chapters, 2 failures, 1 kill: a kill of the run that repeats what a failure undid; 0.38 million states |

### 3.2 Bounds, types and deadlock

`MaxQueue = 1` in `JobQueueService` says that a poll finds the executor's queue
empty: the loop sleeps between polls and the pool has an idle thread whenever
capacity is positive. The other bounds only cap counters.

The type invariants of all modules are proved (section 4); those of
`ChunkPasses`, `McqGeneration`, `NcertImport` and `DeckLifecycle` are part of
their runs as well.

Deadlock is checked in `FoldersOneRequest`, `ProviderConfig` and `NcertImport`,
whose actors never stop. The other runs switch it off: with their bounds used up
the jobs are finished and the system may stop.

### 3.3 What does not hold

The modules state further promises, of documents, comments or messages of the
repository or of the kind a user would expect, that the code does not keep in
some situation. TLC finds each with the configuration named; they are why the
runs of 3.1 have the constants they have, and why no run checks these
properties. Paths are relative to the repository (`services/`, `routers/`,
`models/` under `app/`).

| property | configuration | what happens, and what says otherwise |
|---|---|---|
| `MutualExclusion` | `JobQueueSafety` with 2 workers (no symmetry) | the lease runs out under its holder, and a second process executes the same job; models/job.py:41 calls it the "Lock for worker coordination" |
| `IdleThreadServes` | `JobQueue` with `SchedulerSpec`, 1 worker, 2 threads, 2 jobs, `MaxQueue` 1, no requests, no crashes | the second job waits for the first to end: a live job is selected at each poll and takes up the capacity; docker-compose.yml:8 says two threads let two files process concurrently |
| `ImplementsJobService` | `JobQueueService` with 2 threads | a live job claimed again and submitted, then failed by its run, is run again though nobody asked |
| `CompletedDeckIsPure`, `CompletedFileIsLeftAlone` | `BulkUploadOneThread` with 2 threads | stop, then a retry of the upload: two runs fill one deck |
| `ImplementsFileService` | `BulkUploadOneThread` with 2 threads | a cancel and a retry of the upload before its first job is claimed: two jobs have the same list, and a file that one has finished the other begins again |
| `ImplementsFileService` | `BulkUploadOneThread` with 1 file and `SingleDeck` TRUE | a retry finds a note in the way: the session is lost, and the file waits again though nobody asked and nothing died (see `RerunEnds`) |
| `PendingFileIsProcessed` | `BulkUploadLiveness` with `"resumeFile"` among the requests | a retry between the count of pending files and the job's last commit is forgotten (`_requeue_job_for_late_files` counts before it commits) |
| `SupersededIsOver` without `InHand` | `BulkUploadOneThread` | a retry between the look at a file and the commit of `processing` (job_worker.py:1167-1192) is not seen: the superseded row is processing, and its AI passes are paid for; job_worker.py:1172-1176 says a superseded row is marked stopped |
| `SupersededIsOver` without `crashes = 0` | `BulkUploadOneThread` | the process dies at work on such a row: it stays processing as long as other rows are pending, or is put back to pending, and as long as it is open purge refuses the upload |
| `CompletedFileIsLeftAlone` without the cancel | `BulkUploadOneThread` | a cancel that read a file as processing writes "stopped" over its completion (bulk_ai_upload.py:1365-1402, 1412-1447), though it answers to others that "Only pending or running files can be canceled" (bulk_ai_upload.py:1375) |
| `ProcessingFileEnds` without the superseded | `BulkUploadLiveness` | a retry in the window above, and a crash at work on the superseded row: nothing takes it up again, and it never ends |
| `OtherFilesAreProcessed` | `BulkUpload` with `FairSpec`, 2 files of 1 chunk, 1 thread, `SingleDeck` FALSE, requests `{"cancelFile"}`, 2 attempts, 1 job, 1 stop, no crash | canceling one file stops the whole upload; the jobs page (templates/settings/jobs.html:285) offers to cancel that file |
| `ProcessingFileEnds` | the same with no requests, no stops and 1 crash | a crash in one of two files: it stays processing for ever, as orphans are only looked for when no file is pending; job_worker.py:928-932 says a row still processing belongs to a dead worker and is taken up |
| `RerunEnds` | `BulkUpload` with `FairSpec`, 1 file of 1 chunk, 1 thread, `SingleDeck` TRUE, requests `{"resumeFile"}`, 2 attempts, 1 job | a file whose note failed is retried: its completion breaks the unique constraint on notes, no failure can be recorded in the broken session, and the job generates the file again at every poll, for ever; job_worker.py:1955-1957 and models/bulk_revision_notes.py:32-34 say a rerun is safe |
| `FinishedUploadSucceeds` | `BulkUploadLiveness`, this property only | a restart between the last file's commit and the job's: the next run finds no file and fails job and upload with "Missing queued upload files" |
| `StoppedIsPurgeable` | as for `OtherFilesAreProcessed` with requests `{"stop", "purge"}` | a stop leaves files that never began pending, which purge refuses for ever, with the message to stop it and wait |
| `UnfinishedIsTakenUp` without `Stranded` | `McqGeneration` | a restart after a run's last batch: its generation stays in progress with a full counter, is never given up, and every start answers `already_running` |
| `EachCardOnce`, `ProgressWithinTotal` | `McqGeneration` with 2 starters and 2 generations | two starts at a time both find nothing in progress |
| `EachCardOnce` | `McqGeneration` with `Slow` TRUE, 2 cards and 2 generations | a living run older than ten minutes is doubled, and every card left gets MCQs twice; README.md:242 says a rerun processes only what is not completed |
| `OnlyDeletedAreMadeAgain` | `McqGeneration` | deleting one generated MCQ sets all items back, and cards whose MCQs are still there get more (README.md:237, 242) |
| `OnlyDeadProviderIsAbandoned` | `ChunkPasses` with 4 rounds | a productive round does not reset the count of dead ones |
| `ExhaustedChunkStops` | `ChunkPasses` | answers without items are raised as format errors: retried, counted as failures, and followed by another round; job_worker.py:690 says an exhausted chunk stops |
| `PassesAreCounted` | `ChunkPasses` | two passes that end together are counted as one |
| `BusyIsRetried` | `ChunkPasses` | three of the five adapters word a status of 429 or 5xx so that `_is_retryable_transient_error` does not know it (job_worker.py:378-390) |
| `Acyclic` | `FoldersOneRequest` with `Requests = {r1, r2}` | two moves, each checked before the other commits, make a folder its own ancestor, though README.md:384 says such moves are blocked |
| `SubfoldersOpen` | `FoldersOneRequest` | a folder lists subfolders of other people that it does not let the user open |
| `ReviewShowsReadable` | `DeckAccess` | `accessible_deck_clause` lets a user review the cards of any deck with that user's organisation, whatever its scope (access.py:281-283, against README.md:267) |
| `GrantIsHonoured` | `DeckAccess` | an organisation's admin with an explicit grant for another organisation's deck is refused (access.py:136-138, against README.md:281-283) |
| `OrgDeckHasOrganisation` | `DeckAccess` | the access-level request makes a deck "org" without giving it an organisation (deck_accesses.py:289) |
| `OnlySystemAdminsPublish` | `DeckAccess` | an admin who owns a deck makes it global through the access-level request; the deck's form asks for a system admin (pages.py:2862) |
| `DailyLimitHolds` | `Study` with 2 attempts | the throttle is asked when a test is made, and counts what is submitted (README.md:88) |
| `LapsesWithinReps` | `Study` | of two ratings at a time the repetition of one is lost, and its lapse is not |
| `TestsAreWhole` | `Study` | a retried upload deletes the deck's cards and looks for no tests, which keep the questions of nothing (purge.py:86-97) |
| `OldKeyStays` | `ProviderConfig` | the key of an old row goes to whatever provider is saved next with a blank key field, which ai_provider_config.py:152-153 rules out; a probe does not use it so, which is the exception in `ProbesAreHonest` (pages.py:2249) |
| `CallsAreMatched` | `ProviderConfig` | for the cache's time to live a call goes to the new provider with the model of the old one: the one is read from the database, the other from the cache, though ai_provider_config.py:10-11 says they are decided together; with a client that has its own model it does not arise |
| `OneModel` | `ProviderConfig` | with a provider whose client does not look the setting up, every call uses the model written into the client (ai_generation.py:142, 171, 218), however long ago another one was stored; ai_provider_config.py:3 and 13-14 and the docstring of tests/test_single_ai_model.py say that every AI call runs on one provider and one model |
| `OneRepeatPerFault` | `NcertImport` | a kill inside `save_state` leaves a file that cannot be read, and every book is uploaded again |
| `CompletedIsWhole` | `NcertImport` | a chapter that could not be downloaded is left out and the book is recorded as completed (ncert_bulk_import.py:17-18) |
| `OneFolderPerName` | `NcertImport` with `AtRoot` TRUE | two rows without a parent are no duplicates for the unique constraint (models/folder.py:12-27) |
| `RepeatsHaveCauses`, `ReportsAreTrue` | `NcertImport` with `NoWait` TRUE | with `--no-wait` no book is ever recorded as completed, each run uploads all of them again and ends with exit code 0 though nothing is known to be completed |
| `RepeatsHaveCauses` | `NcertImport` with `KeepPdfs` TRUE | a chapter that a kill has left incomplete is kept with the rest, taken as it is by every run (ncert_bulk_import.py:676-696), and fails the upload of its book each time; without `--keep-pdfs` the first upload that ends well deletes it |

Seen by reading, and not by a property:

- The form's deletion of a folder leaves its decks in the root, and moves to the
  parent only decks that have been filed elsewhere since it read them; its comment
  says "Move child decks to parent" (pages.py:1649). The API does what it says.
- A deck's PDF stays ready when its cards are replaced (pages.py:3623), two
  downloads make it at the same time, and a PDF that is saved by a request
  that then dies, or whose deck is purged meanwhile, stays in storage. So do the
  media that an import of an Anki deck stores after a purge has deleted those of
  the deck (anki_import.py:280).
- A job whose upload is gone gets its failure without a commit and is claimed
  at every poll for ever (job_worker.py:1082); an upload for a deck that arrives
  between the check and the transaction of that deck's purge leaves such a job.
- `purge_deck` keeps the objects under `bulk-ai-upload/` and `bulk_uploads/` of
  the uploads it deletes, and neither purge looks at the jobs of notes.
- The running-job check of `purge_deck` looks at the uploads meant for the deck,
  not at an upload of many files that fills it (purge.py:267-271).
- `delete_deck_api` deletes the media of a deck it only marks as deleted, and
  does not set `deleted_at`; a retry wipes a deck that is marked as deleted. No
  handler restores a deck.
- `can_delete_deck` only shows a button; the handlers ask for the right to
  write. The browse page does not use `browse_accessible_deck_clause`.
  `list_favorite_decks` asks for no access. `get_folder_tree` lists all folders.
- `update_deck` lets a writer who is not the owner change a deck's scope and
  gives it the organisation of that writer.
- A single-deck upload started by somebody who does not own the deck fills a new
  deck. A retry by deck picks the newest attempt with that deck, which may be
  one that was superseded (bulk_ai_upload.py:867-880).
- Nothing enqueues jobs of the types `concept_map` and `concept_map_revision`,
  and nothing calls `_run_ai_upload_generation`.

### 3.4 Fairness

- `JobQueue`: the poll loop is an endless loop whose exceptions are caught (weak
  fairness of `WorkerStep`), pool threads take what is queued (`ThreadStep`),
  the clock advances (`LeaseExpires`). `RunFairness` says a run ends: every AI
  pass has a time-out and a retry limit (`ChunkPasses`, `ChunkEnds`).
- `BulkUpload`: the worker polls, each step of a run and the making of a note
  end, a handler that has committed once goes on. Users and crashes are not fair.
- `ChunkPasses`: calls time out, sleeps end. Weak fairness of a pass is enough:
  with one permit a waiting pass is enabled again and again, and as attempts
  are limited the others run out of calls.
- `McqGeneration`: handlers and threads run and ten minutes pass. Strong
  fairness of `Load` says that a user who asks again and again meets a working
  credential in the end; without it no retry could ever succeed.
- `NcertImport`: the operator starts the script again, as its own documentation
  asks after a failure; a run that is not killed goes on; the application ends
  every upload, which is `BulkUploadLiveness`. Failures and kills are not fair,
  and bounded.

The safety-only modules (`Folders`, `DeckAccess`, `Study`, `DeckLifecycle`,
`ProviderConfig`) assume none.

## 4. The proofs

Each proof module EXTENDS the module it is about; `BrowsingProofs` and
`GenerationProofs` are about two modules each. The assumptions are those the
modules state of their constants; TLC evaluates them in every run.

`JobQueueProofs` (any processes, threads, jobs and bounds):

- `TypeCorrect`: `Spec => []TypeOK`, one step per action.
- `PoolCorrect`: `PerProcessExclusion` and `ActiveIsBusy`. Neither is inductive
  alone: the first needs to know that `_active_jobs` holds the job of every
  busy thread, the second that no other thread has the job that `Leave`
  removes. The inductive invariant `PoolInv` is their conjunction with the
  types. The argument is that only `Take`, `Leave` and
  `CrashRestart` change either, and `Take` looks before it adds.
- `OneProcessExclusion`: with a single process the queue satisfies
  `MutualExclusion`, which two processes violate (3.3). It
  follows from `PoolCorrect`: the exclusion comes from the process's own
  bookkeeping, not from worker_id and locked_at.
- `OneThreadServes`: `ImplementsJobService`, step by step, assuming one process,
  one thread and polls that find the pool's queue empty (`OneOfEach`), for any
  number of jobs, requests and crashes. `ServiceInv` adds to `PoolInv` that a job
  is polled, queued or executed and never two of these at once (`Submits`):
  otherwise a run that fails would leave a submission of its own job behind,
  which starts it again unasked. A poll, a submission, the end of `process_job`
  and the clock are stutters; a start is `Begin`; a last commit `End`, which needs
  that a job with late files was pending already (`Serves`); a run that leaves no
  trace and a crash are `Break`; every write of a row, and a claim, changes what
  one job is owed (`OneIsAskedOrWithdrawn`).

`BrowsingProofs`, about `Folders` (any folders, decks and users):

- `FoldersTypeCorrect`, with any number of requests at a time.
- `OneRequestKeepsTree`: when no two move or delete requests are under way
  together, `Acyclic` always holds. The inductive invariant `TreeInv` adds that
  parents exist and that what a request under way was checked for still holds
  (`MoveIsSafe`), which is the part that a second request breaks
  (3.3). Lemmas say that a subtree is closed, that a safe move,
  a creation and a deletion keep the tree.
- `OneRequestFindsDecks`, `OneRequestReachesDecks`: `EveryDeckIsFound` and
  `BrowseReachesDecks` from `TreeInv` and the fact that a deck's folder exists
  (`HomesStep`). In a tree without cycles a set of folders that leaves out a
  deck's folder must leave out one whose parent it holds (`TreeFindsDecks`); a
  folder above a deck listed to a user is shown to that user, so the argument
  stays inside the folders shown (`ShownFindsDecks`).

`BrowsingProofs`, about `DeckAccess` (any users, organisations, decks and grants):

- `TypeCorrect` and `GlobalStaysInSync` together are the inductive invariant,
  one step per handler.
- `BrowseClauseIsPredicate`, `BrowseIsReadable`, `RightsOrdered` follow from the
  types: they compare two formulations over the same rows, so they hold in
  every state of the right types, whatever sequence of requests led there.
- `GranteesDoNotWiden` is an action property: by cases on the request, one that
  makes a deck readable to somebody new was sent by somebody who may share it
  or is no ordinary user (`GranteeRequest`).
- `SystemAdminsStayAmongThemselves`: by cases on the two handlers that write a
  role.

`StudyProofs` (any cards, requests and order of their reads and commits):

- `CountsStayWithinReviews` and `ReviewedStaysScheduled`. A commit writes what
  it computed from a row read earlier, so neither is inductive: the invariant
  `IInv` adds that what a request has read is not ahead of the card's reviews
  (`ReadIsPast`) and that a card that is not there has neither schedule nor
  reviews (`AbsentIsClean`).
- `TypeCorrect` and, from it, `ResultsAreFinal`: the result of an attempt never
  changes and goes only with its test.
- `SerialSchedules`: `SerialScheduleAgrees`. As long as no two requests were
  under way together, what the one under way has read is still what is stored
  (`ReadIsCurrent`), and a rating takes a schedule that agrees with the reviews
  to one that agrees.
- `SerialTests`: `SerialTestsAreWhole`. The cards a request chose for a test, a
  submission or a deletion are still there when it commits, and the tests it
  found to depend on the cards it deletes are all there are
  (`RemoveKeepsWholeTests`).

`ProviderConfigProofs` (any providers, processes, administrators and calls):

- `TypeCorrect` and `KeysAreNotLent` from the inductive invariant `KeysInv`: a
  key found for a call, at each of its steps, is one of its provider or the old
  one (`CallFits`), whatever row the step reads, from the database or a cache.
- `ProbesTellTheTruth` from the types: both sides are functions of the row.
- `SettledSwitches`: `SettledCallsAgree`. A cache entry that no save overtook is
  of the stored row or at least as old as the last change (`OnTime`), so a
  process where the entry has had time to expire knows only the stored row. It is
  proved for any set `Readers` of providers whose client looks the model up. A
  call that is still `calm` runs in such a process, and what it has found out so
  far is what the stored row says (`CalmAgrees`).
- `KeysAreNotLost`: the action property `KeysOutliveSwitches`, by cases on the
  steps that write the row.

`GenerationProofs`, about `ChunkPasses` (any files, modes, permits, limits and replies), all from one
inductive invariant `Inv`:

- `TypeCorrect` and `CallsDoNotWaitForEver`. One attempt counter is compared with
  a limit that depends on the last failure only, so neither bound is inductive:
  `CallFits` adds that a call that goes on has timed out at most as often as it
  was made and has an attempt left under the kind that failed last. That a row's
  counters stay below the number of passes, though passes write over each
  other's counts, is `RowsFit`: what a pass has read of the row is no more than
  the passes that are over.
- `FewRoundsAreGivenUpRightly`: `OnlyDeadProviderIsAbandoned`, assuming
  `Rounds <= MaxDeadRounds + 1`. `DeadAreBefore` says that dead rounds are rounds
  before this one, and came in a row when all of them were dead. With one more
  round two dead ones need not be neighbours (3.3).

`GenerationProofs`, about `McqGeneration` (any cards, batch size, generations, deletions,
restarts):

- `McqTypeCorrect`, with any number of requests and runs at a time. The invariant
  `Base` bounds the sum of what a run has counted and what it has still to count
  (`Sum`), as each counter alone could grow with every card.
- `SoloProgress`, `SoloCardsOnce`, `SoloRuns`: `ProgressWithinTotal`,
  `EachCardOnce` and one run at a time, assuming `OneAtATime`, which is a single
  starter and `~Slow`. The invariant `Solo` adds that a run belongs to the one
  generation in progress and that a card it still has before it was made no more
  often than there were resets (`Unmade`). Without `OneAtATime` all three are
  false (3.3).

`BulkUploadProofs` (any files, chunks, attempts, jobs, threads, requests, stops and
crashes):

- `TypeCorrect`. That the latest attempt of a file is a number a row has
  (`TypeOK`) rests on `Base`: rows are numbered without gaps in the order they
  are made, each file's latest attempt is one of its rows, and a run in the loop
  over its files has a current one (`RunFits`).
- `OnlyLatestIsOpen`: `SupersededIsOver`, assuming `Threads = 1` and not
  `SingleDeck`. A run may write to an attempt that was superseded after the look at
  it, and only then: `OpenInv` says that, until the process dies, every attempt
  that is processing is in the hands of the run, which is the only one (`Solo`), so
  that no reclaim finds one, and that whatever is open is the latest of its file
  or in that run's hands (`InOrder`). A retry makes the row it supersedes over
  before a new one is the latest. It rests on `PureInv`.
- `OneThreadFillsCleanly`, `OneThreadLeavesAlone`: `CompletedDeckIsPure` and
  `CompletedFileIsLeftAlone`, assuming `Threads = 1`, the default of
  `JOB_WORKER_THREADS` (job_worker.py:67). The inductive invariant `PureInv`
  needs, beside one run at a time (`Solo`), that what a run still has in its list
  is not completed and not there twice (`ListFits`), that the file it is at is
  not completed by anybody else (`CurrentFits`), and that the deck it fills has
  cards of no other run as soon as it was cleared (`DeckFits`). What a cancel has
  read is no part of it: the exception of `CompletedFileIsLeftAlone` names the rows
  it may overwrite. docker-compose
  sets two threads; 3.3 shows what they break.
- `OneThreadServesFiles`: `ImplementsFileService`, step by step, assuming
  `Threads = 1` and not `SingleDeck`, both of which 3.3 shows to be needed.
  `FileInv` adds to the invariants above that what a run has on its list and has
  not begun is pending, or was canceled (`WaitInv`), so that what `LookFile` takes
  in hand does wait. `LookFile` is the abstract `Begin`, and `StartFile` a stutter;
  the commits that complete or fail a file are `End`, or stutters when a retry has
  overtaken the run; what a cancel reads is `AskCancel` and its commit `Cancel`;
  `Raise` is `Withdraw`, retries are `Ask`, and `CrashRestart` is `Die`. A purge
  ends the work on a file that was canceled under its run.

`DeckLifecycleProofs` (any decks, uploads, downloads, imports, requests and deaths
of processes), all from one inductive invariant `IInv`:

- `TypeCorrect`.
- `OffersAreStored`: `OfferedIsStored`. A download stores the PDF in one step and
  marks it ready in a later one, so `ReadyIsStored` also speaks of every download
  that is about to: its PDF is stored unless the deck is gone. `NoteIsStored`
  says the same of a note, and that a job of a note has an upload behind it.
- `MapsMatch`: `MapMatchesCards`. After the last card of a file its map is still
  that of an earlier upload; `MapIsDue` says that then the worker is between the
  two, or `lost` records that a run ended there. It needs that cards are those
  of an upload that fills this deck and no other upload fills it meanwhile
  (`CardsFit`), and that nobody takes an upload from the worker (`WorkerFits`).
- `NothingIsLeft`: `PurgedLeavesNothing`. A purge deletes rows and objects in two
  steps and knows of the PDF only what it read of the row (`KeyIsKnown`), and a
  download or an import may store one later (`LateIsLost`); what is left behind is
  one of these (`LeftBehind`). That rows of uploads never come back to a deck that
  is gone is `GoneIsUnused`, with `PurgeFits` for the uploads a purge found beforehand.

`NcertImportProofs` (any catalogue, chapters, failures and kills):

- `TypeCorrect`, with the fact that from the answer of a post to the end of the
  wait the script knows an upload of its book (`ScriptFits`).
- `WhatIsReportedIsTrue`: `ReportsAreTrue`, assuming `~NoWait`. The exit code is
  computed in memory and the state file written before; the invariant `Truth`
  says that the file is what is remembered but between the two steps of a write,
  or that it is torn and nothing is remembered (`Synced`), and that a run without
  a failure has completed every book before the one it is at (`Before`), even
  when the plan names a book twice. With `--no-wait` the exit code is 0 while the
  uploads run.
- `RepeatsAreCaused`: `RepeatsHaveCauses`, assuming `~NoWait` and `~KeepPdfs`, both
  of which 3.3 shows to be needed. The bound is not inductive: a failure is counted
  before the upload it causes. `Need` is the number of uploads of a book that past
  failures have yet to cause: 1 when the book is not known to be completed, 2 when a chapter on disk is torn, as the
  upload made of it may be rejected and so cause one more. `Causes` says that
  uploads made and needed together are at most one and the failures and kills so
  far, and every step keeps it.

Only model-checked: all liveness properties. Liveness under fairness and
ENABLED are beyond the provers that are used here.

## 5. Not modelled

See `PROJECT.json`, "components".

- Text: prompts, extraction, cleaning and chapter detection, the layout of maps
  and PDFs, the parsers of CSV, Anki and MCQ imports and of the NCERT catalogue.
  They are functions on strings without state; where their outcome decides
  something it is a choice of the environment.
- FSRS's stability, difficulty and intervals are floating-point numbers.
- Sessions are signed cookies without a row; the exchange with identity
  providers has no state of its own. Encryption of keys is left out.
- Pages, dashboard and analytics read; a favourite is one row per star that
  nothing else reads. Scripts other than the importer repair a database at rest.
- In the modelled parts: titles, tags' names, counters of cards, job events and
  logs; storage backends (an object is written, deleted, or fails to be); the
  application's size limits. Database failures appear only as `Abort`,
  `Raise` and commits that fail on rows that are gone or in the way.

## 6. Plan

1. `BulkUpload`: counters of cards; retries by deck.
2. The rest of `revision_notes.py` and the chapter detection of
   `textbook_nav.py`, as functions on short sequences of lines.
