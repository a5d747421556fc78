--------------------------- MODULE DeckLifecycle ---------------------------
(***************************************************************************)
(* The life of decks: they are filled by uploads, deleted, and purged, and *)
(* all the while their revision notes are generated and downloaded.        *)
(* Deleting a deck sets a flag; purging it removes its row, all that       *)
(* refers to it and the objects it has in storage (app/services/purge.py). *)
(*                                                                         *)
(* The actors are the requests that take their time: those that download a *)
(* deck's revision notes and make the PDF inline                           *)
(* (ensure_deck_revision_pdf) and those that import an Anki deck           *)
(* (app/services/anki_import.py); the worker's one thread with the uploads *)
(* and note jobs it works on (app/services/job_worker.py); an              *)
(* administrator who purges decks; and users whose requests are one step.  *)
(* A step ends where another actor's commit can come in between: at a      *)
(* commit, at a write to storage, or before a statement that relies on     *)
(* what an earlier one has read.                                           *)
(*                                                                         *)
(* A text stands for what a deck's cards, a map or a PDF are made from: an *)
(* upload's file, or Hand, what users wrote.  An upload is its file for    *)
(* one deck; how the files of one upload are worked off, stopped and       *)
(* superseded is module BulkUpload, how a job is claimed JobQueue.         *)
(***************************************************************************)
EXTENDS Integers

CONSTANTS
  Decks,     \* bound: rows of decks ever created
  Uploads,   \* bound: uploads ever started
  Requests,  \* downloads and imports, each made again and again
  Hand,      \* the text users write
  Nothing,   \* NULL: no deck, no text
  MaxEvents, \* bound: requests that find something to do, and deaths
  MaxCrashes \* bound: deaths of a process

ASSUME ConstantsAssumption ==
  /\ Hand \notin Uploads /\ Nothing \notin Decks \cup Uploads \cup {Hand}
  /\ MaxEvents \in Nat /\ MaxCrashes \in Nat

Texts == Uploads \cup {Hand}

VARIABLES
  deck,     \* deck row: "none" before its creation, "gone" once purged
  cards,    \* the text its cards are made from
  map,      \* its concept_maps row
  upload,   \* the rows of an upload, of its note and of their jobs
  stored,   \* the objects in storage
  request,  \* where a download or an import is, and its local variables
  worker,   \* where the worker's thread is
  purge,    \* the administrator's request
  events,   \* requests and deaths so far
  crashes,  \* deaths of a process so far
  lost      \* history: decks whose PDF was being made, or whose media were
            \* still to be stored, when they were purged, or whose objects
            \* were not deleted; decks whose map was not drawn after they
            \* were filled

rows == <<deck, cards, map, upload>>
vars == <<rows, stored, request, worker, purge, lost, events, crashes>>

NoMap == [status |-> "none", source |-> Nothing, graph |-> Nothing,
          pdf |-> "none", key |-> FALSE]
NoUpload == [file |-> "none", job |-> "none", target |-> Nothing,
             into |-> Nothing, note |-> "none", noteJob |-> "none"]
NoRequest == [pc |-> "idle", deck |-> Nothing, seen |-> "none", text |-> Nothing]
NoWork == [pc |-> "idle", upload |-> Nothing, saw |-> FALSE]
NoPurge == [pc |-> "idle", left |-> {}, deck |-> Nothing, bulks |-> {}, key |-> FALSE]

\* Some decks exist already, with cards and media of their own; some of them
\* are deleted.
Init ==
  /\ deck \in [Decks -> {"none", "live", "deleted"}]
  /\ cards = [d \in Decks |-> IF deck[d] # "none" THEN Hand ELSE Nothing]
  /\ map = [d \in Decks |-> NoMap]
  /\ upload = [u \in Uploads |-> NoUpload]
  /\ stored = [media |-> {d \in Decks : deck[d] # "none"},
               pdf |-> [d \in Decks |-> Nothing],  \* the text it was made from
               file |-> {}, note |-> {}]
  /\ request = [r \in Requests |-> NoRequest]
  /\ worker = NoWork
  /\ purge = NoPurge
  /\ lost = [media |-> {}, pdf |-> {}, map |-> {}]
  /\ events = 0
  /\ crashes = 0

-----------------------------------------------------------------------------
Live(d) == deck[d] = "live"
Exists(d) == d # Nothing /\ deck[d] \in {"live", "deleted"}
HasMap(d) == map[d].status # "none"

\* Uploads whose rows exist, and those with a job that is pending or running.
HasRows(u) == upload[u].file \notin {"none", "sending", "gone"}
Active(u) == upload[u].job \in {"pending", "running"}
Targets(d) == {u \in Uploads : HasRows(u) /\ upload[u].target = d}

\* What a deck's PDF is made from: the file its map came from, else its cards.
SourceText(d) == IF map[d].source # Nothing THEN map[d].source ELSE cards[d]

\* The deck an upload fills when it is meant for d: d itself when its owner
\* sends it and d is live, else a new one.
FilledDecks(d) == {e \in Decks : deck[e] = "none" \/ (e = d /\ Live(d))}
Created(e) == [deck EXCEPT ![e] = "live"]

-----------------------------------------------------------------------------
(* Users' requests. *)

\* delete_deck.
Delete(d) ==
  /\ Live(d)
  /\ deck' = [deck EXCEPT ![d] = "deleted"]
  /\ UNCHANGED <<cards, map, upload, stored, request, worker, purge, lost>>

\* delete_deck_api: the media of its cards are deleted first.
DeleteApi(d) ==
  /\ Live(d)
  /\ stored' = [stored EXCEPT !.media = @ \ {d}]
  /\ deck' = [deck EXCEPT ![d] = "deleted"]
  /\ UNCHANGED <<cards, map, upload, request, worker, purge, lost>>

\* A user adds or edits cards.
EditCards(d) ==
  /\ Live(d)
  /\ cards' = [cards EXCEPT ![d] = Hand]
  /\ UNCHANGED <<deck, map, upload, stored, request, worker, purge, lost>>

\* start_single_deck_ai_upload: the checks, then the file is received ...
SendFile(u, d) ==
  /\ upload[u].file = "none"
  /\ Live(d)
  /\ ~\E v \in Targets(d) : Active(v)
  /\ upload' = [upload EXCEPT ![u] = [@ EXCEPT !.file = "sending", !.target = d]]
  /\ UNCHANGED <<deck, cards, map, stored, request, worker, purge, lost>>

Queued(u, d, e) == [NoUpload EXCEPT !.file = "pending", !.job = "pending",
                                    !.target = d, !.into = e]

\* ... and enqueue_ai_upload_job.  A deck deleted meanwhile is still live in
\* the request's session; one that is gone breaks a foreign key.
QueueFile(u) ==
  LET d == upload[u].target IN
  /\ upload[u].file = "sending"
  /\ \/ /\ ~Exists(d)
        /\ upload' = [upload EXCEPT ![u] = NoUpload]
        /\ UNCHANGED <<deck, stored>>
     \/ \E e \in Decks :
          /\ Exists(d)
          /\ e = d \/ deck[e] = "none"
          /\ upload' = [upload EXCEPT ![u] = Queued(u, d, e)]
          /\ deck' = IF e = d THEN deck ELSE Created(e)
          /\ stored' = [stored EXCEPT !.file = @ \cup {u}]
  /\ UNCHANGED <<cards, map, request, worker, purge, lost>>

\* start_bulk_ai_upload: every file gets a deck of its own.
StartUpload(u, e) ==
  /\ upload[u].file = "none"
  /\ deck[e] = "none"
  /\ deck' = Created(e)
  /\ upload' = [upload EXCEPT ![u] = Queued(u, Nothing, e)]
  /\ stored' = [stored EXCEPT !.file = @ \cup {u}]
  /\ UNCHANGED <<cards, map, request, worker, purge, lost>>

\* resume_bulk_ai_upload: the deck is wiped whatever its state; if it is not
\* a live one of the user's the new attempt gets a new deck.
Retry(u, e) ==
  LET old == upload[u].into IN
  /\ upload[u].file \in {"completed", "failed"} /\ ~Active(u)
  /\ e \in FilledDecks(old)
  /\ upload' = [upload EXCEPT ![u] = [@ EXCEPT !.file = "pending",
                                               !.job = "pending", !.into = e]]
  /\ cards' = [d \in Decks |-> IF d = old THEN Nothing ELSE cards[d]]
  /\ deck' = Created(e)
  /\ UNCHANGED <<map, stored, request, worker, purge, lost>>

-----------------------------------------------------------------------------
(* The rows of uploads that go, and what their going does to others. *)

Dropped(us) ==
  [u \in Uploads |->
     IF u \in us THEN [upload[u] EXCEPT !.file = "gone", !.target = Nothing,
                                        !.into = Nothing, !.note = "none"]
                 ELSE upload[u]]

\* source_file_id is set to NULL with the attempt it refers to.
SourcesKept(us) ==
  [d \in Decks |-> IF map[d].source \in us THEN [map[d] EXCEPT !.source = Nothing]
                                           ELSE map[d]]

\* What purge_bulk_upload asks first.  The job of its note is not among those
\* it asks about, nor among those it deletes.
Purgeable(u) == upload[u].file \in {"completed", "failed"} /\ ~Active(u)

\* purge_bulk_ai_upload; what is not purgeable is refused.
PurgeUpload(u) ==
  /\ Purgeable(u)
  /\ upload' = [Dropped({u}) EXCEPT ![u].job = "none"]
  /\ map' = SourcesKept({u})
  /\ stored' = [stored EXCEPT !.file = @ \ {u}, !.note = @ \ {u}]
  /\ UNCHANGED <<deck, cards, request, worker, purge, lost>>

\* The page lists the deleted decks; the administrator purges one of them
\* (purge_deck_permanently) ...
Listed == {d \in Decks : deck[d] = "deleted"}

AskPurge(d) ==
  /\ purge.pc = "idle" /\ d \in Listed
  /\ purge' = [NoPurge EXCEPT !.pc = "next", !.left = {d}]
  /\ UNCHANGED <<rows, stored, request, worker, lost>>

\* ... or some (purge_selected_decks), which may be gone since the page was
\* made.
AskPurgeSelected(ds) ==
  /\ purge.pc = "idle" /\ ds \cap Listed # {}
  /\ purge' = [NoPurge EXCEPT !.pc = "next", !.left = ds]
  /\ UNCHANGED <<rows, stored, request, worker, lost>>

\* The request goes on to its next deck, or is answered.
Then(ds) == IF ds = {} THEN NoPurge ELSE [NoPurge EXCEPT !.pc = "next", !.left = ds]

\* A deck that is not deleted is skipped, one with an active job refused.
Refused(d) == deck[d] # "deleted" \/ \E u \in Targets(d) : Active(u)

\* purge_deck's checks.
PurgeCheck(d) ==
  /\ purge.pc = "next" /\ d \in purge.left
  /\ purge' = IF Refused(d) THEN Then(purge.left \ {d})
              ELSE [pc |-> "rows", left |-> purge.left \ {d}, deck |-> d,
                    bulks |-> Targets(d), key |-> map[d].key]
  /\ UNCHANGED <<rows, stored, request, worker, lost>>

\* A request is importing media for d.
Importing(r, d) == request[r].deck = d /\ request[r].pc = "store"

\* A request is making the PDF of d.
Making(r, d) ==
  request[r].deck = d /\ request[r].pc \in {"read", "save", "finish"}

\* purge_deck's transaction.  Uploads meant for d that were not there at the
\* check go by the cascade, without their jobs; uploads that only filled it
\* lose their created_deck_id.
PurgeRows ==
  LET d == purge.deck
      gone == Targets(d)
      unfilled == [u \in Uploads |->
                     IF Dropped(gone)[u].into = d
                     THEN [Dropped(gone)[u] EXCEPT !.into = Nothing]
                     ELSE Dropped(gone)[u]]
  IN
  /\ purge.pc = "rows"
  /\ deck' = [deck EXCEPT ![d] = "gone"]
  /\ cards' = [cards EXCEPT ![d] = Nothing]
  /\ map' = [SourcesKept(gone) EXCEPT ![d] = NoMap]
  /\ upload' = [u \in Uploads |->
                  IF u \in purge.bulks THEN [unfilled[u] EXCEPT !.job = "none"]
                                       ELSE unfilled[u]]
  /\ purge' = [purge EXCEPT !.pc = "objects"]
  /\ lost' = IF (\E r \in Requests : Making(r, d))
                \/ (stored.pdf[d] # Nothing /\ ~purge.key)
             THEN [lost EXCEPT !.pdf = @ \cup {d}] ELSE lost
  /\ UNCHANGED <<stored, request, worker>>

\* Mutant: the key of the PDF is read once its row is gone.
FaultyPurgeObjects ==
  LET d == purge.deck IN
  /\ purge.pc = "objects"
  /\ stored' = [stored EXCEPT !.media = @ \ {d}]
  /\ purge' = Then(purge.left)
  /\ UNCHANGED <<rows, lost, request, worker>>

\* Its objects are deleted as far as storage allows.
PurgeObjects ==
  LET d == purge.deck
      late == \E r \in Requests : Importing(r, d)
  IN
  /\ purge.pc = "objects"
  /\ \E media, pdf \in BOOLEAN :
       /\ stored' = [stored EXCEPT
                       !.media = IF media THEN @ \ {d} ELSE @,
                       !.pdf[d] = IF pdf /\ purge.key THEN Nothing ELSE @]
       /\ lost' = [lost EXCEPT !.media = IF media /\ ~late THEN @ ELSE @ \cup {d},
                               !.pdf = IF pdf THEN @ ELSE @ \cup {d}]
  /\ purge' = Then(purge.left)
  /\ UNCHANGED <<rows, request, worker>>

-----------------------------------------------------------------------------
(* A download: deck_revision_notes_download. *)

At(r, pc) == request[r].pc = pc
Go(r, pc) == request' = [request EXCEPT ![r].pc = pc]
Answered(r) == request' = [request EXCEPT ![r] = NoRequest]

\* The row is read: a ready PDF is served, anything else is made, whether or
\* not another request is making it.
Ask(r, d) ==
  /\ At(r, "idle") /\ Live(d)
  /\ ~(map[d].pdf = "ready" /\ map[d].key)
  /\ request' = [request EXCEPT ![r] =
                    [NoRequest EXCEPT !.deck = d, !.seen = map[d].pdf,
                       !.pc = IF HasMap(d) THEN "start" ELSE "create"]]
  /\ UNCHANGED <<rows, stored, worker, purge, lost>>

\* _deck_concept_map: the row another request has inserted meanwhile breaks
\* the unique constraint, a deck that is gone the foreign key.
CreateMap(r) ==
  LET d == request[r].deck IN
  /\ At(r, "create")
  /\ IF Exists(d) /\ ~HasMap(d)
     THEN /\ map' = [map EXCEPT ![d].status = "pending"]
          /\ Go(r, "start")
     ELSE /\ Answered(r)
          /\ UNCHANGED map
  /\ UNCHANGED <<deck, cards, upload, stored, worker, purge, lost>>

\* A commit of the request sets the PDF's status.  A column is only written
\* when it differs from what the session has read; a row that is gone fails
\* the request.
SetPdf(r, status, key) ==
  LET d == request[r].deck IN
  IF HasMap(d)
  THEN map' = [map EXCEPT ![d].pdf = IF request[r].seen = status THEN @ ELSE status,
                          ![d].key = @ \/ key]
  ELSE UNCHANGED map

\* generate_concept_map_revision_pdf, up to its first commit.
StartPdf(r) ==
  /\ At(r, "start")
  /\ SetPdf(r, "processing", FALSE)
  /\ request' = [request EXCEPT ![r] =
                    IF HasMap(@.deck) THEN [@ EXCEPT !.pc = "read", !.seen = "none"]
                    ELSE NoRequest]
  /\ UNCHANGED <<deck, cards, upload, stored, worker, purge, lost>>

\* The text is read.  There may be too little of it, or the PDF may fail.
ReadText(r) ==
  LET d == request[r].deck IN
  /\ At(r, "read") /\ HasMap(d) /\ SourceText(d) # Nothing
  /\ request' = [request EXCEPT ![r] =
                    [@ EXCEPT !.pc = "save", !.seen = map[d].pdf,
                              !.text = SourceText(d)]]
  /\ UNCHANGED <<rows, stored, worker, purge, lost>>

SavePdf(r) ==
  /\ At(r, "save")
  /\ stored' = [stored EXCEPT !.pdf[request[r].deck] = request[r].text]
  /\ request' = [request EXCEPT ![r] = [@ EXCEPT !.pc = "finish", !.text = Nothing]]
  /\ UNCHANGED <<rows, worker, purge, lost>>

\* Mutant: a failure to save the PDF is overlooked.
FaultyFinishPdf(r) ==
  /\ \/ request[r].pc \in {"save", "finish"} /\ SetPdf(r, "ready", TRUE)
     \/ At(r, "read") /\ SetPdf(r, "failed", FALSE)
  /\ Answered(r)
  /\ UNCHANGED <<deck, cards, upload, stored, worker, purge, lost>>

\* The second commit, of a PDF that is ready or has failed.
FinishPdf(r) ==
  /\ \/ At(r, "finish") /\ SetPdf(r, "ready", TRUE)
     \/ request[r].pc \in {"read", "save"} /\ SetPdf(r, "failed", FALSE)
  /\ Answered(r)
  /\ UNCHANGED <<deck, cards, upload, stored, worker, purge, lost>>

-----------------------------------------------------------------------------
(* An import of an Anki deck: anki_import_upload. *)

\* The one check of the deck.
AskImport(r, d) ==
  /\ At(r, "idle") /\ Live(d)
  /\ request' = [request EXCEPT ![r] = [NoRequest EXCEPT !.pc = "store", !.deck = d]]
  /\ UNCHANGED <<rows, stored, worker, purge, lost>>

\* _extract_media: the file may have none, and none may be stored.
StoreMedia(r) ==
  /\ At(r, "store")
  /\ stored' \in {stored, [stored EXCEPT !.media = @ \cup {request[r].deck}]}
  /\ Go(r, "cards")
  /\ UNCHANGED <<rows, worker, purge, lost>>

\* The cards that are new are added, whether the deck has been deleted or not;
\* for a deck that is gone, or when none is new, nothing is.
ImportCards(r) ==
  LET d == request[r].deck IN
  /\ At(r, "cards")
  /\ \/ Exists(d) /\ cards' = [cards EXCEPT ![d] = Hand]
     \/ UNCHANGED cards
  /\ Answered(r)
  /\ UNCHANGED <<deck, map, upload, stored, worker, purge, lost>>

RequestStep(r) ==
  \/ CreateMap(r) \/ StartPdf(r) \/ ReadText(r) \/ SavePdf(r) \/ FinishPdf(r)
  \/ StoreMedia(r) \/ ImportCards(r)

\* The web process is restarted: its requests and the purge are forgotten.
WebDies ==
  /\ request' = [r \in Requests |-> NoRequest]
  /\ purge' = NoPurge
  /\ lost' = IF purge.pc = "objects"
             THEN [lost EXCEPT !.media = @ \cup {purge.deck},
                               !.pdf = @ \cup {purge.deck}]
             ELSE lost
  /\ UNCHANGED <<rows, stored, worker>>

-----------------------------------------------------------------------------
(* The worker's thread. *)

Works(u, pc) == worker.upload = u /\ worker.pc = pc
Work(u, pc) == worker' = [NoWork EXCEPT !.upload = u, !.pc = pc]
Filed(u) == HasRows(u) /\ upload[u].into # Nothing

\* A statement the database refuses leaves the session unusable: the run
\* ends, and its job stays running until it is claimed again.
LoseSession == worker' = NoWork /\ UNCHANGED rows

MapLost(u) == [lost EXCEPT !.map = @ \cup ({upload[u].into} \ {Nothing})]

\* A run of process_bulk_ai_upload begins.  A job whose upload is gone stays
\* as it is, however often it is claimed.
Claim(u) ==
  /\ worker = NoWork /\ Active(u) /\ HasRows(u)
  /\ IF upload[u].file \in {"pending", "processing"}
     THEN /\ upload' = [upload EXCEPT ![u] = [@ EXCEPT !.job = "running",
                                                      !.file = "processing"]]
          /\ Work(u, "clear")
     ELSE /\ upload' = [upload EXCEPT ![u].job = "running"]
          /\ Work(u, "end")
  /\ UNCHANGED <<deck, cards, map, stored, request, purge, lost>>

FileFails(u) ==
  /\ HasRows(u)
  /\ upload' = [upload EXCEPT ![u].file = "failed"]
  /\ Work(u, "end")
  /\ UNCHANGED <<deck, map>>

\* The text is extracted and the deck wiped; without a deck the file fails.
ClearDeck(u) ==
  /\ Works(u, "clear")
  /\ \/ FileFails(u) /\ UNCHANGED cards
     \/ /\ Filed(u)
        /\ cards' = [cards EXCEPT ![upload[u].into] = Nothing]
        /\ Work(u, "fill")
        /\ UNCHANGED <<deck, map, upload>>
     \/ ~HasRows(u) /\ LoseSession
  /\ UNCHANGED <<stored, request, purge, lost>>

Filled(u) == Filed(u) /\ cards' = [cards EXCEPT ![upload[u].into] = u]

\* The generated cards are added chunk by chunk.  A chunk may fail, before or
\* after others were added.
FillDeck(u) ==
  /\ Works(u, "fill")
  /\ \/ FileFails(u) /\ (UNCHANGED cards \/ Filled(u))
     \/ /\ Filled(u)
        /\ Work(u, "note")
        /\ UNCHANGED <<deck, map, upload>>
     \/ ~Filed(u) /\ LoseSession
  /\ UNCHANGED <<stored, request, purge, lost>>

\* A file some of whose passes have failed is completed at once, with the event
\* that says so.
CompletePartial(u) ==
  /\ Works(u, "note") /\ upload[u].file = "processing"
  /\ upload' = [upload EXCEPT ![u].file = "completed"]
  /\ UNCHANGED <<deck, cards, map, stored, worker, request, purge, lost>>

\* _enqueue_revision_notes_job: only for an upload meant for a deck.  A note
\* that is not ready is in the way of a new one.
EnqueueNote(u) ==
  /\ Works(u, "note")
  /\ IF ~HasRows(u) \/ (upload[u].target # Nothing
                         /\ upload[u].note \in {"pending", "processing", "failed"})
     THEN LoseSession /\ lost' = MapLost(u)
     ELSE /\ IF upload[u].target # Nothing /\ upload[u].note = "none"
             THEN upload' = [upload EXCEPT ![u] =
                               [@ EXCEPT !.file = "completed", !.note = "pending",
                                         !.noteJob = "pending"]]
             ELSE UNCHANGED upload
          /\ Work(u, "map")
          /\ UNCHANGED <<deck, cards, map, lost>>
  /\ UNCHANGED <<stored, request, purge>>

\* generate_concept_map: is there a row to overwrite?  Nothing is generated
\* for a file without a deck.
LookForMap(u) ==
  LET d == upload[u].into IN
  /\ Works(u, "map")
  /\ worker' = [worker EXCEPT !.pc = "write", !.saw = d # Nothing /\ HasMap(d)]
  /\ UNCHANGED <<rows, stored, request, purge, lost>>

\* Mutant: a map that fails keeps the graph it had.
FaultyDrawn(m, u, status) ==
  [m EXCEPT !.status = status, !.source = u,
            !.graph = IF status = "ready" THEN u ELSE @]

\* Mutant: a map that fails stays as it was begun.
FaultyDrawnStatus(m, u, status) ==
  [m EXCEPT !.status = IF status = "ready" THEN status ELSE "processing",
            !.source = u, !.graph = IF status = "ready" THEN u ELSE Nothing]

\* The map is overwritten as a whole; the PDF's columns are not touched.
Drawn(m, u, status) ==
  [m EXCEPT !.status = status, !.source = u,
            !.graph = IF status = "ready" THEN u ELSE Nothing]

\* The commit of the map, which is also the one that completes the file.  A
\* row inserted or deleted meanwhile breaks it.
WriteMap(u) ==
  LET d == upload[u].into IN
  /\ Works(u, "write")
  /\ IF Filed(u) /\ worker.saw = HasMap(d)
     THEN /\ \E status \in {"ready", "failed"} :
               map' = [map EXCEPT ![d] = Drawn(@, u, status)]
          /\ upload' = [upload EXCEPT ![u].file = "completed"]
          /\ Work(u, "end")
          /\ UNCHANGED <<deck, cards>>
     ELSE LoseSession
  /\ lost' = IF worker'.pc = "end"
             THEN [lost EXCEPT !.map = @ \ {d}] ELSE MapLost(u)
  /\ UNCHANGED <<stored, request, purge>>

\* Whether the job has completed or failed is told by its counters.
EndJob(u) ==
  /\ Works(u, "end")
  /\ worker' = NoWork
  /\ upload' = IF HasRows(u)
               THEN [upload EXCEPT ![u].job = "over"]
               ELSE upload
  /\ UNCHANGED <<deck, cards, map, stored, request, purge, lost>>

\* process_revision_notes: the job of a note that is gone fails.
ClaimNote(u) ==
  /\ worker = NoWork /\ upload[u].noteJob \in {"pending", "running"}
  /\ IF upload[u].note = "none"
     THEN /\ upload' = [upload EXCEPT ![u].noteJob = "failed"]
          /\ UNCHANGED worker
     ELSE /\ upload' = [upload EXCEPT ![u] = [@ EXCEPT !.noteJob = "running",
                                                      !.note = "processing"]]
          /\ Work(u, "noteRead")
  /\ UNCHANGED <<deck, cards, map, stored, request, purge, lost>>

NoteFails(u, note) ==
  /\ upload' = [upload EXCEPT ![u] = [@ EXCEPT !.note = note, !.noteJob = "failed"]]
  /\ worker' = NoWork

\* generate_revision_notes_for_child reads the text and makes the PDF; that
\* can fail, and it does when the note's rows are gone.
ReadForNote(u) ==
  /\ Works(u, "noteRead")
  /\ \/ upload[u].note = "none" /\ NoteFails(u, "none")
     \/ upload[u].note # "none" /\ NoteFails(u, "failed")
     \/ upload[u].note # "none" /\ Work(u, "noteSave") /\ UNCHANGED upload
  /\ UNCHANGED <<deck, cards, map, stored, request, purge, lost>>

SaveNote(u) ==
  /\ Works(u, "noteSave")
  /\ stored' = [stored EXCEPT !.note = @ \cup {u}]
  /\ Work(u, "noteEnd")
  /\ UNCHANGED <<rows, request, purge, lost>>

EndNote(u) ==
  /\ Works(u, "noteEnd")
  /\ IF upload[u].note = "none" THEN LoseSession
     ELSE /\ upload' = [upload EXCEPT ![u] = [@ EXCEPT !.note = "ready",
                                                      !.noteJob = "completed"]]
          /\ worker' = NoWork
          /\ UNCHANGED <<deck, cards, map>>
  /\ UNCHANGED <<stored, request, purge, lost>>

WorkerStep(u) ==
  \/ ClearDeck(u) \/ FillDeck(u) \/ CompletePartial(u) \/ EnqueueNote(u)
  \/ LookForMap(u) \/ WriteMap(u) \/ EndJob(u)
  \/ ReadForNote(u) \/ SaveNote(u) \/ EndNote(u)

\* The worker process dies: its job stays running and is claimed again.
WorkerDies ==
  /\ worker # NoWork
  /\ worker' = NoWork
  /\ lost' = IF worker.pc \in {"note", "map", "write"} THEN MapLost(worker.upload)
             ELSE lost
  /\ UNCHANGED <<rows, stored, request, purge>>

-----------------------------------------------------------------------------
\* A request arrives.
Arrives ==
  /\ events < MaxEvents /\ events' = events + 1
  /\ UNCHANGED crashes
  /\ \/ \E d \in Decks :
          \/ Delete(d) \/ DeleteApi(d) \/ EditCards(d) \/ AskPurge(d)
          \/ \E r \in Requests : Ask(r, d) \/ AskImport(r, d)
          \/ \E u \in Uploads : SendFile(u, d) \/ StartUpload(u, d) \/ Retry(u, d)
     \/ \E u \in Uploads : PurgeUpload(u)
     \/ \E ds \in SUBSET {d \in Decks : deck[d] \in {"deleted", "gone"}} :
          AskPurgeSelected(ds)

\* A request or the worker goes on.
Proceeds ==
  /\ UNCHANGED <<events, crashes>>
  /\ \/ \E r \in Requests : RequestStep(r)
     \/ \E u \in Uploads : QueueFile(u) \/ Claim(u) \/ ClaimNote(u) \/ WorkerStep(u)
     \/ \E d \in Decks : PurgeCheck(d)
     \/ PurgeRows \/ PurgeObjects

\* A process dies.
Dies ==
  /\ crashes < MaxCrashes /\ crashes' = crashes + 1
  /\ events < MaxEvents /\ events' = events + 1
  /\ WebDies \/ WorkerDies

Next == Arrives \/ Proceeds \/ Dies

Spec == Init /\ [][Next]_vars

-----------------------------------------------------------------------------
(* Properties. *)

TypeOK ==
  /\ deck \in [Decks -> {"none", "live", "deleted", "gone"}]
  /\ cards \in [Decks -> Texts \cup {Nothing}]
  /\ map \in [Decks -> [status : {"none", "pending", "ready", "failed"},
                        source : Uploads \cup {Nothing},
                        graph : Uploads \cup {Nothing},
                        pdf : {"none", "processing", "ready", "failed"},
                        key : BOOLEAN]]
  /\ upload \in [Uploads ->
       [file : {"none", "sending", "pending", "processing", "completed",
                "failed", "gone"},
        job : {"none", "pending", "running", "over"},
        target : Decks \cup {Nothing}, into : Decks \cup {Nothing},
        note : {"none", "pending", "processing", "ready", "failed"},
        noteJob : {"none", "pending", "running", "completed", "failed"}]]
  /\ stored \in [media : SUBSET Decks, pdf : [Decks -> Texts \cup {Nothing}],
                 file : SUBSET Uploads, note : SUBSET Uploads]
  /\ request \in [Requests ->
       [pc : {"idle", "create", "start", "read", "save", "finish", "store", "cards"},
        deck : Decks \cup {Nothing},
        seen : {"none", "processing", "ready", "failed"},
        text : Texts \cup {Nothing}]]
  /\ worker \in [pc : {"idle", "clear", "fill", "note", "map", "write", "end",
                       "noteRead", "noteSave", "noteEnd"},
                 upload : Uploads \cup {Nothing}, saw : BOOLEAN]
  /\ purge \in [pc : {"idle", "next", "rows", "objects"}, left : SUBSET Decks,
                deck : Decks \cup {Nothing}, bulks : SUBSET Uploads, key : BOOLEAN]
  /\ events \in 0 .. MaxEvents /\ crashes \in 0 .. MaxCrashes
  /\ lost \in [media : SUBSET Decks, pdf : SUBSET Decks, map : SUBSET Decks]

\* What the application offers for download is in storage: the PDF of a deck
\* whose row says ready, and the note of an upload, whatever is purged,
\* retried or dies in between.
OfferedIsStored ==
  /\ \A d \in Decks : map[d].pdf = "ready" => map[d].key /\ stored.pdf[d] # Nothing
  /\ \A u \in Uploads : upload[u].note = "ready" => u \in stored.note

\* A deck's map shows what its cards were made from, or nothing: once an
\* upload has completed the deck and none is at work on it, the map is not
\* that of an earlier upload.  The exception is a deck that was filled by a
\* run that ended before its map was drawn.
MapMatchesCards ==
  \A d \in Decks :
    /\ \A u \in Uploads : upload[u].into = d => ~Active(u)
    /\ cards[d] \in Uploads /\ upload[cards[d]].file = "completed"
    => d \in lost.map \/ map[d].graph \in {cards[d], Nothing}

\* Nothing is left of a purged deck: no map, no cards, no upload that is meant
\* for it or fills it, and, once the purge is over, neither its media nor its
\* PDF, unless these were still to be stored at the time or storage failed.
PurgedLeavesNothing ==
  \A d \in Decks :
    deck[d] = "gone" =>
      /\ ~HasMap(d) /\ cards[d] = Nothing
      /\ \A u \in Uploads : HasRows(u) => upload[u].target # d /\ upload[u].into # d
      /\ \/ purge.pc = "objects" /\ purge.deck = d
         \/ /\ d \in stored.media => d \in lost.media
            /\ stored.pdf[d] # Nothing => d \in lost.pdf

=============================================================================
