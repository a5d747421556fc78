------------------------ MODULE DeckLifecycleProofs ------------------------
(***************************************************************************)
(* Proofs about DeckLifecycle, for any decks, uploads, requests and deaths *)
(* of processes: the types, and that what is offered is stored, maps match *)
(* their cards and a purge leaves nothing.                                 *)
(*                                                                         *)
(* They need one inductive invariant (IInv).  It says for each actor what  *)
(* a step it has begun relies on (WorkerFits, PurgeFits, RequestFits),     *)
(* for each object why it may be in storage without a row (KeyIsKnown,     *)
(* LateIsLost, LeftBehind), and for a deck whose run is between its last   *)
(* card and its map that the map is still to come (CardsFit, MapIsDue).    *)
(***************************************************************************)
EXTENDS DeckLifecycle, TLAPS

-----------------------------------------------------------------------------
(* The rows.                                                                 *)

MapRows == [status : {"none", "pending", "ready", "failed"},
            source : Uploads \cup {Nothing}, graph : Uploads \cup {Nothing},
            pdf : {"none", "processing", "ready", "failed"}, key : BOOLEAN]

UploadRows ==
  [file : {"none", "sending", "pending", "processing", "completed", "failed", "gone"},
   job : {"none", "pending", "running", "over"},
   target : Decks \cup {Nothing}, into : Decks \cup {Nothing},
   note : {"none", "pending", "processing", "ready", "failed"},
   noteJob : {"none", "pending", "running", "completed", "failed"}]

RequestRows ==
  [pc : {"idle", "create", "start", "read", "save", "finish", "store", "cards"},
   deck : Decks \cup {Nothing}, seen : {"none", "processing", "ready", "failed"},
   text : Texts \cup {Nothing}]

StoredObjects ==
  [media : SUBSET Decks, pdf : [Decks -> Texts \cup {Nothing}],
   file : SUBSET Uploads, note : SUBSET Uploads]

WorkerPlaces == {"idle", "clear", "fill", "note", "map", "write", "end",
                 "noteRead", "noteSave", "noteEnd"}

WorkerRecord == [pc : WorkerPlaces, upload : Uploads \cup {Nothing}, saw : BOOLEAN]

PurgeRecord ==
  [pc : {"idle", "next", "rows", "objects"}, left : SUBSET Decks,
   deck : Decks \cup {Nothing}, bulks : SUBSET Uploads, key : BOOLEAN]

LostRecord == [media : SUBSET Decks, pdf : SUBSET Decks, map : SUBSET Decks]

Types ==
  /\ deck \in [Decks -> {"none", "live", "deleted", "gone"}]
  /\ cards \in [Decks -> Texts \cup {Nothing}]
  /\ map \in [Decks -> MapRows]
  /\ upload \in [Uploads -> UploadRows]
  /\ stored \in StoredObjects
  /\ request \in [Requests -> RequestRows]
  /\ worker \in WorkerRecord
  /\ purge \in PurgeRecord
  /\ lost \in LostRecord

LEMMA TypesAreTypeOK ==
  TypeOK <=> Types /\ events \in 0 .. MaxEvents /\ crashes \in 0 .. MaxCrashes
BY DEF TypeOK, Types, LostRecord, MapRows, UploadRows, RequestRows, StoredObjects,
       WorkerPlaces,
       WorkerRecord, PurgeRecord

LEMMA NothingIsApart == Nothing \notin Decks /\ Nothing \notin Uploads /\ Hand \notin Uploads
                        /\ Nothing # Hand
BY ConstantsAssumption


-----------------------------------------------------------------------------
(* The inductive invariant.                                                  *)

AtUpload == {"clear", "fill", "note", "map", "write", "end"}

\* The worker's upload has an active job as long as it has rows: no retry and no
\* purge of an upload takes it from the worker.
WorkerFits ==
  LET u == worker.upload IN
  /\ worker.pc # "idle" => u \in Uploads /\ upload[u].file \notin {"none", "sending"}
  /\ worker.pc \in AtUpload /\ HasRows(u) =>
       /\ Active(u)
       /\ worker.pc \in {"clear", "fill"} => upload[u].file = "processing"
       /\ worker.pc \in {"note", "map", "write"} =>
            upload[u].file \in {"processing", "completed"}
       /\ worker.pc = "end" => upload[u].file \in {"completed", "failed"}

\* The uploads purge_deck has found are those meant for its deck, or gone.
PurgeFits ==
  /\ purge.pc \in {"rows", "objects"} => purge.deck \in Decks
  /\ purge.pc = "objects" => deck[purge.deck] = "gone"
  /\ purge.pc = "rows" =>
       \A u \in purge.bulks : IF HasRows(u) THEN upload[u].target = purge.deck
                                            ELSE upload[u].file = "gone"

RequestFits(r) ==
  /\ request[r].pc # "idle" => request[r].deck \in Decks
  /\ request[r].pc = "save" => request[r].text # Nothing

Actors == WorkerFits /\ PurgeFits /\ \A r \in Requests : RequestFits(r)

\* What is gone has no rows that refer to it.
GoneIsUnused ==
  \A d \in Decks :
    deck[d] = "gone" =>
      /\ ~HasMap(d) /\ cards[d] = Nothing
      /\ \A u \in Uploads : HasRows(u) => upload[u].target # d /\ upload[u].into # d

\* Objects of a deck that is gone: what the purge has still to delete, what a
\* request that outlives the deck may save.
LeftBehind(d) ==
  deck[d] = "gone" =>
    \/ purge.pc = "objects" /\ purge.deck = d
    \/ /\ d \in stored.media => d \in lost.media
       /\ stored.pdf[d] # Nothing => d \in lost.pdf

KeyIsKnown ==
  purge.pc = "objects" =>
    purge.key \/ stored.pdf[purge.deck] = Nothing \/ purge.deck \in lost.pdf

LateIsLost ==
  \A r \in Requests, d \in Decks :
    deck[d] = "gone" =>
      /\ Making(r, d) => d \in lost.pdf
      /\ Importing(r, d) => \/ purge.pc = "objects" /\ purge.deck = d
                           \/ d \in lost.media

Objects == KeyIsKnown /\ LateIsLost /\ \A d \in Decks : LeftBehind(d)

\* Maps, PDFs and notes.
ReadyIsStored(d) ==
  /\ map[d].pdf = "ready" => HasMap(d) /\ map[d].key /\ stored.pdf[d] # Nothing
  /\ \A r \in Requests :
       request[r].deck = d /\ request[r].pc = "finish" /\ deck[d] # "gone"
         => stored.pdf[d] # Nothing

NoteIsStored(u) ==
  /\ upload[u].note # "none" => HasRows(u)
  /\ upload[u].noteJob # "none" => upload[u].file \notin {"none", "sending"}
  /\ upload[u].note = "ready" \/ (Works(u, "noteEnd") /\ upload[u].note # "none")
       => u \in stored.note

Offers ==
  /\ \A d \in Decks : ReadyIsStored(d)
  /\ \A u \in Uploads : NoteIsStored(u)

\* Cards are those of an upload that fills this deck, and while the worker fills
\* a deck no other upload does.
CardsFit(d) ==
  /\ cards[d] \in Uploads => upload[cards[d]].file \notin {"none", "sending"}
  /\ cards[d] \in Uploads /\ HasRows(cards[d]) => upload[cards[d]].into = d
  /\ worker.pc \in {"fill", "note", "map", "write"} /\ HasRows(worker.upload)
       /\ upload[worker.upload].into = d => cards[d] \in {worker.upload, Hand, Nothing}

\* A deck an upload has completed shows that upload's map, unless it is still to
\* be drawn or a run ended before it was.
MapIsDue(d) ==
  cards[d] \in Uploads /\ upload[cards[d]].file = "completed" /\ d \notin lost.map
    => \/ map[d].graph \in {cards[d], Nothing}
       \/ worker.upload = cards[d] /\ worker.pc \in {"note", "map", "write"}

Drawing == \A d \in Decks : CardsFit(d) /\ MapIsDue(d)

IInv == Types /\ Actors /\ GoneIsUnused /\ Objects /\ Offers /\ Drawing

-----------------------------------------------------------------------------
(* The properties, from the invariant.                                       *)

LEMMA IInvGivesOffers == IInv => OfferedIsStored
BY DEF IInv, Offers, ReadyIsStored, NoteIsStored, OfferedIsStored

LEMMA IInvGivesNothingLeft == IInv => PurgedLeavesNothing
BY DEF IInv, GoneIsUnused, Objects, LeftBehind, PurgedLeavesNothing

LEMMA IInvGivesMaps == IInv => MapMatchesCards
<1> SUFFICES ASSUME IInv, NEW d \in Decks,
                    \A u \in Uploads : upload[u].into = d => ~Active(u),
                    cards[d] \in Uploads, upload[cards[d]].file = "completed",
                    d \notin lost.map
             PROVE  map[d].graph \in {cards[d], Nothing}
  BY DEF MapMatchesCards
<1>1. CardsFit(d) /\ MapIsDue(d) /\ WorkerFits
  BY DEF IInv, Drawing, Actors
<1>2. HasRows(cards[d])
  BY DEF HasRows
<1>3. upload[cards[d]].into = d /\ ~Active(cards[d])
  BY <1>1, <1>2 DEF CardsFit
<1>4. CASE worker.upload = cards[d] /\ worker.pc \in {"note", "map", "write"}
  BY <1>1, <1>2, <1>3, <1>4 DEF WorkerFits, AtUpload
<1> QED BY <1>1, <1>4 DEF MapIsDue

LEMMA InitEstablishesIInv == Init => IInv
<1> SUFFICES ASSUME Init PROVE IInv
  OBVIOUS
<1> USE DEF Init
<1>1. Types
  <2>1. NoMap \in MapRows /\ NoUpload \in UploadRows /\ NoRequest \in RequestRows
    BY DEF NoMap, NoUpload, NoRequest, MapRows, UploadRows, RequestRows
  <2>2. cards \in [Decks -> Texts \cup {Nothing}]
    BY DEF Texts
  <2>3. stored \in StoredObjects
    BY DEF StoredObjects
  <2>4. NoWork \in WorkerRecord /\ NoPurge \in PurgeRecord
    BY DEF NoWork, NoPurge, WorkerPlaces, WorkerRecord, PurgeRecord
  <2>5. lost \in LostRecord
    BY DEF LostRecord
  <2> QED BY <2>1, <2>2, <2>3, <2>4, <2>5 DEF Types
<1>2. Actors
  BY DEF Actors, WorkerFits, PurgeFits, RequestFits, AtUpload, NoWork, NoPurge, NoRequest
<1>3. GoneIsUnused
  BY DEF GoneIsUnused
<1>4. Objects
  BY DEF Objects, KeyIsKnown, LateIsLost, LeftBehind, NoPurge
<1>5. Offers
  BY DEF Offers, ReadyIsStored, NoteIsStored, NoMap, NoUpload, NoRequest, NoWork, Works
<1>6. Drawing
  BY NothingIsApart DEF Drawing, CardsFit, MapIsDue, NoWork
<1> QED BY <1>1, <1>2, <1>3, <1>4, <1>5, <1>6 DEF IInv

-----------------------------------------------------------------------------
(* What leaves a part of the invariant alone.                                *)

\* A function changed at one place.
LEMMA OneChanges ==
  ASSUME NEW U, NEW S, NEW f \in [U -> S], NEW u \in U, NEW r \in S, NEW g,
         g = [f EXCEPT ![u] = r]
  PROVE  g \in [U -> S] /\ g[u] = r /\ \A v \in U \ {u} : g[v] = f[v]
OBVIOUS

LEMMA ActorsStay ==
  ASSUME Actors, UNCHANGED <<upload, worker, purge, request>>,
         \A d \in Decks : deck[d] = "gone" => deck'[d] = "gone"
  PROVE  Actors'
BY DEF Actors, WorkerFits, PurgeFits, RequestFits, HasRows, Active

LEMMA ObjectsStay ==
  ASSUME Objects, UNCHANGED purge,
         \A d \in Decks : deck'[d] = "gone" <=> deck[d] = "gone",
         lost'.pdf = lost.pdf, lost'.media = lost.media, stored'.pdf = stored.pdf,
         \A d \in Decks : d \in stored'.media => d \in stored.media,
         \A r \in Requests, d \in Decks :
           deck[d] = "gone" => /\ Making(r, d)' => Making(r, d)
                               /\ Importing(r, d)' => Importing(r, d)
  PROVE  Objects'
BY DEF Objects, KeyIsKnown, LateIsLost, LeftBehind

LEMMA OffersStay ==
  ASSUME Offers, UNCHANGED <<map, upload, worker, request>>,
         \A d \in Decks : deck'[d] # "gone" => deck[d] # "gone",
         \A d \in Decks : stored.pdf[d] # Nothing => stored'.pdf[d] # Nothing,
         \A u \in Uploads : u \in stored.note => u \in stored'.note
  PROVE  Offers'
BY DEF Offers, ReadyIsStored, NoteIsStored, HasMap, HasRows, Works

LEMMA DrawingStays ==
  ASSUME Drawing, UNCHANGED <<cards, upload, worker>>,
         \A d \in Decks : map'[d].graph = map[d].graph \/ map'[d].graph = Nothing
                          \/ cards[d] = Nothing,
         \A d \in Decks : d \in lost.map => d \in lost'.map
  PROVE  Drawing'
<1> SUFFICES ASSUME NEW d \in Decks PROVE CardsFit(d)' /\ MapIsDue(d)'
  BY DEF Drawing
<1>1. CardsFit(d) /\ MapIsDue(d)
  BY DEF Drawing
<1>2. CardsFit(d)'
  BY <1>1 DEF CardsFit, HasRows
<1>3. MapIsDue(d)'
  BY <1>1, NothingIsApart DEF MapIsDue
<1> QED BY <1>2, <1>3

\* A step of the worker keeps the decks an upload is meant for and fills, and
\* nothing it does is about a deck that is gone.
KeepsOwners ==
  \A u \in Uploads :
    /\ HasRows(u)' = HasRows(u)
    /\ upload'[u].file = "gone" <=> upload[u].file = "gone"
    /\ upload'[u].target = upload[u].target /\ upload'[u].into = upload[u].into

LEMMA WorkStays ==
  ASSUME IInv, KeepsOwners, UNCHANGED <<deck, request, purge>>,
         lost'.pdf = lost.pdf, lost'.media = lost.media,
         stored'.pdf = stored.pdf, stored'.media = stored.media,
         \A d \in Decks : deck[d] = "gone" => cards'[d] = cards[d] /\ HasMap(d)' = HasMap(d)
  PROVE  /\ WorkerFits' => Actors'
         /\ GoneIsUnused' /\ Objects'
<1>1. PurgeFits'
  <2>1. PurgeFits /\ purge.bulks \subseteq Uploads
    BY DEF IInv, Actors, Types, PurgeRecord
  <2> QED BY <2>1 DEF PurgeFits, KeepsOwners
<1>2. \A r \in Requests : RequestFits(r)'
  BY DEF IInv, Actors, RequestFits
<1>3. GoneIsUnused'
  BY DEF IInv, GoneIsUnused, KeepsOwners
<1>4. Objects'
  BY ObjectsStay DEF IInv, Making, Importing
<1> QED BY <1>1, <1>2, <1>3, <1>4 DEF Actors

-----------------------------------------------------------------------------
(* Users' requests.                                                          *)

LEMMA DeleteKeeps == ASSUME IInv, NEW d \in Decks, Delete(d) \/ DeleteApi(d) PROVE IInv'
<1>1. stored' = stored \/ stored' = [stored EXCEPT !.media = @ \ {d}]
  BY DEF Delete, DeleteApi
<1>2. /\ deck[d] = "live" /\ deck' = [deck EXCEPT ![d] = "deleted"]
      /\ UNCHANGED <<cards, map, upload, request, worker, purge, lost>>
  BY DEF Delete, DeleteApi, Live
<1>3. /\ stored' \in StoredObjects
      /\ stored'.pdf = stored.pdf /\ stored'.note = stored.note
      /\ \A e \in Decks : e \in stored'.media => e \in stored.media
  BY <1>1 DEF IInv, Types, StoredObjects
<1>4. deck' \in [Decks -> {"none", "live", "deleted", "gone"}]
      /\ \A e \in Decks : deck'[e] = "gone" <=> deck[e] = "gone"
  BY <1>2 DEF IInv, Types
<1>5. Types'
  BY <1>2, <1>3, <1>4 DEF IInv, Types
<1>6. Actors'
  BY <1>2, <1>4, ActorsStay DEF IInv
<1>7. GoneIsUnused'
  BY <1>2, <1>4 DEF IInv, GoneIsUnused, HasRows, HasMap
<1>8. Objects'
  BY <1>2, <1>3, <1>4, ObjectsStay DEF IInv, Making, Importing
<1>9. Offers'
  BY <1>2, <1>3, <1>4, OffersStay DEF IInv
<1>10. Drawing'
  BY <1>2, DrawingStays DEF IInv
<1> QED BY <1>5, <1>6, <1>7, <1>8, <1>9, <1>10 DEF IInv

\* Users' cards are added to a deck that is there, by a request that ends
\* or by one that is a single step.
LEMMA HandKeeps ==
  ASSUME IInv, NEW d \in Decks, deck[d] # "gone", cards' = [cards EXCEPT ![d] = Hand],
         UNCHANGED <<deck, map, upload, stored, worker, purge, lost>>,
         request' \in [Requests -> RequestRows],
         \A r \in Requests : request'[r] = request[r] \/ request'[r].pc = "idle"
  PROVE  IInv'
<1>1. Types' /\ \A e \in Decks \ {d} : cards'[e] = cards[e]
  BY DEF IInv, Types, Texts
<1>2. cards'[d] = Hand /\ deck[d] # "gone"
  BY DEF IInv, Types
<1>3. Actors'
  BY DEF IInv, Actors, WorkerFits, PurgeFits, RequestFits, HasRows, Active
<1>4. GoneIsUnused'
  BY <1>1, <1>2 DEF IInv, GoneIsUnused, HasRows, HasMap
<1>5. Objects'
  <2>1. \A r \in Requests, e \in Decks : /\ Making(r, e)' => Making(r, e)
                                         /\ Importing(r, e)' => Importing(r, e)
    BY DEF Making, Importing
  <2>2. /\ UNCHANGED purge /\ deck' = deck /\ lost'.pdf = lost.pdf
        /\ lost'.media = lost.media /\ stored'.pdf = stored.pdf /\ stored' = stored
    OBVIOUS
  <2> QED BY <2>1, <2>2, ObjectsStay DEF IInv
<1>6. Offers'
  <2>1. ASSUME NEW e \in Decks PROVE ReadyIsStored(e)'
    <3>1. ReadyIsStored(e)
      BY DEF IInv, Offers
    <3> QED BY <3>1 DEF ReadyIsStored, HasMap
  <2>2. \A u \in Uploads : NoteIsStored(u)'
    BY DEF IInv, Offers, NoteIsStored, HasRows, Works
  <2> QED BY <2>1, <2>2 DEF Offers
<1>7. ASSUME NEW e \in Decks PROVE CardsFit(e)' /\ MapIsDue(e)'
  <2>1. CardsFit(e) /\ MapIsDue(e)
    BY DEF IInv, Drawing
  <2>2. CardsFit(e)'
    BY <1>1, <1>2, <2>1, NothingIsApart DEF CardsFit, HasRows
  <2>3. MapIsDue(e)'
    BY <1>1, <1>2, <2>1, NothingIsApart DEF MapIsDue
  <2> QED BY <2>2, <2>3
<1> QED BY <1>1, <1>3, <1>4, <1>5, <1>6, <1>7 DEF IInv, Drawing

LEMMA EditCardsKeeps == ASSUME IInv, NEW d \in Decks, EditCards(d) PROVE IInv'
<1>1. request' \in [Requests -> RequestRows]
  BY DEF EditCards, IInv, Types
<1> QED BY <1>1, HandKeeps DEF EditCards, Live

\* An upload that had no rows yet gets none, or gets the rows of a queued one,
\* for a deck that is not gone.
Waiting(u) == upload[u].file \in {"none", "sending"}

NewRow(u) ==
  \/ upload'[u].file \in {"none", "sending"}
  \/ /\ upload'[u].file = "pending"
     /\ \A d \in Decks : deck[d] = "gone" => upload'[u].target # d /\ upload'[u].into # d

LEMMA NewUploadKeeps ==
  ASSUME IInv, NEW u \in Uploads, Waiting(u), NewRow(u),
         upload' \in [Uploads -> UploadRows], upload'[u].note = "none",
         upload'[u].noteJob = "none",
         \A v \in Uploads \ {u} : upload'[v] = upload[v],
         stored' \in StoredObjects, stored'.media = stored.media,
         stored'.pdf = stored.pdf, stored'.note = stored.note,
         deck' \in [Decks -> {"none", "live", "deleted", "gone"}],
         \A d \in Decks : deck'[d] = "gone" <=> deck[d] = "gone",
         UNCHANGED <<cards, map, request, worker, purge, lost>>
  PROVE  IInv'
<1>1. Types'
  BY DEF IInv, Types
<1>2. worker.pc # "idle" => worker.upload # u /\ worker.upload \in Uploads
  BY DEF IInv, Actors, WorkerFits, Waiting
<1>3. Actors'
  <2>1. WorkerFits'
    BY <1>2 DEF IInv, Actors, WorkerFits, HasRows, Active, AtUpload
  <2>2. PurgeFits'
    <3>1. PurgeFits /\ purge.bulks \subseteq Uploads
      BY DEF IInv, Actors, Types, PurgeRecord
    <3>2. purge.pc = "rows" => u \notin purge.bulks
      BY <3>1 DEF PurgeFits, Waiting, HasRows
    <3> QED BY <3>1, <3>2 DEF PurgeFits, HasRows
  <2>3. \A r \in Requests : RequestFits(r)'
    BY DEF IInv, Actors, RequestFits
  <2> QED BY <2>1, <2>2, <2>3 DEF Actors
<1>4. GoneIsUnused'
  BY DEF IInv, GoneIsUnused, HasRows, HasMap, NewRow
<1>5. Objects'
  BY ObjectsStay DEF IInv, Making, Importing
<1>6. Offers'
  <2>1. \A d \in Decks : ReadyIsStored(d)'
    BY DEF IInv, Offers, ReadyIsStored, HasMap
  <2>2. \A v \in Uploads : NoteIsStored(v)'
    BY DEF IInv, Offers, NoteIsStored, HasRows, Works
  <2> QED BY <2>1, <2>2 DEF Offers
<1>7. ASSUME NEW d \in Decks PROVE CardsFit(d)' /\ MapIsDue(d)'
  <2>1. CardsFit(d) /\ MapIsDue(d)
    BY DEF IInv, Drawing
  <2>2. cards[d] # u
    BY <2>1 DEF CardsFit, Waiting
  <2>3. CardsFit(d)'
    BY <1>2, <2>1, <2>2 DEF CardsFit, HasRows
  <2>4. MapIsDue(d)'
    BY <2>1, <2>2 DEF MapIsDue
  <2> QED BY <2>3, <2>4
<1> QED BY <1>1, <1>3, <1>4, <1>5, <1>6, <1>7 DEF IInv, Drawing

LEMMA WaitingHasNoNote ==
  ASSUME IInv, NEW u \in Uploads, Waiting(u)
  PROVE  upload[u] \in UploadRows /\ upload[u].note = "none" /\ upload[u].noteJob = "none"
BY DEF IInv, Types, Offers, NoteIsStored, Waiting, HasRows

LEMMA QueuedFacts ==
  ASSUME NEW u \in Uploads, NEW d \in Decks \cup {Nothing}, NEW e \in Decks
  PROVE  /\ Queued(u, d, e) \in UploadRows
         /\ Queued(u, d, e).file = "pending" /\ Queued(u, d, e).note = "none"
         /\ Queued(u, d, e).noteJob = "none"
         /\ Queued(u, d, e).target = d /\ Queued(u, d, e).into = e
BY DEF Queued, NoUpload, UploadRows

LEMMA SendFileKeeps ==
  ASSUME IInv, NEW u \in Uploads, NEW d \in Decks, SendFile(u, d) PROVE IInv'
<1>1. /\ Waiting(u) /\ UNCHANGED <<deck, cards, map, stored, request, worker, purge, lost>>
      /\ upload' = [upload EXCEPT ![u] = [@ EXCEPT !.file = "sending", !.target = d]]
  BY DEF SendFile, Waiting
<1>2. upload[u] \in UploadRows /\ upload[u].note = "none" /\ upload[u].noteJob = "none"
  BY <1>1, WaitingHasNoNote
<1>3. PICK r : r = [upload[u] EXCEPT !.file = "sending", !.target = d]
  OBVIOUS
<1>4. /\ r \in UploadRows /\ r.file = "sending" /\ r.note = "none" /\ r.noteJob = "none"
  BY <1>2, <1>3 DEF UploadRows
<1>5. /\ upload' \in [Uploads -> UploadRows] /\ upload'[u] = r
      /\ \A v \in Uploads \ {u} : upload'[v] = upload[v]
  BY <1>1, <1>3, <1>4, OneChanges DEF IInv, Types
<1>6. NewRow(u)
  BY <1>4, <1>5 DEF NewRow
<1> QED BY <1>1, <1>4, <1>5, <1>6, NewUploadKeeps DEF IInv, Types

LEMMA QueuedKeeps ==
  ASSUME IInv, NEW u \in Uploads, NEW d \in Decks \cup {Nothing}, NEW e \in Decks,
         Waiting(u), deck[e] # "gone", d # Nothing => deck[d] # "gone",
         upload' = [upload EXCEPT ![u] = Queued(u, d, e)],
         deck' = deck \/ (deck' = Created(e)),
         stored' = [stored EXCEPT !.file = @ \cup {u}],
         UNCHANGED <<cards, map, request, worker, purge, lost>>
  PROVE  IInv'
<1>1. PICK r : r = Queued(u, d, e)
  OBVIOUS
<1>2. /\ r \in UploadRows /\ r.file = "pending" /\ r.note = "none" /\ r.noteJob = "none"
      /\ r.target = d /\ r.into = e
  BY <1>1, QueuedFacts
<1>3. /\ upload' \in [Uploads -> UploadRows] /\ upload'[u] = r
      /\ \A v \in Uploads \ {u} : upload'[v] = upload[v]
  BY <1>1, <1>2, OneChanges DEF IInv, Types
<1>4. NewRow(u)
  BY <1>2, <1>3, NothingIsApart DEF NewRow
<1>5. /\ deck' \in [Decks -> {"none", "live", "deleted", "gone"}]
      /\ \A c \in Decks : deck'[c] = "gone" <=> deck[c] = "gone"
  BY DEF Created, IInv, Types
<1>6. /\ stored' \in StoredObjects /\ stored'.media = stored.media
      /\ stored'.pdf = stored.pdf /\ stored'.note = stored.note
  BY DEF IInv, Types, StoredObjects
<1> QED BY <1>2, <1>3, <1>4, <1>5, <1>6, NewUploadKeeps

LEMMA QueueFileKeeps == ASSUME IInv, NEW u \in Uploads, QueueFile(u) PROVE IInv'
<1>1. PICK d \in Decks \cup {Nothing} : d = upload[u].target
  BY DEF IInv, Types, UploadRows
<1>2. Waiting(u)
  BY DEF QueueFile, Waiting
<1>3. CASE upload' = [upload EXCEPT ![u] = NoUpload] /\ UNCHANGED <<deck, stored>>
  <2>1. PICK r : r = NoUpload
    OBVIOUS
  <2>2. r \in UploadRows /\ r.file = "none" /\ r.note = "none" /\ r.noteJob = "none"
    BY <2>1 DEF NoUpload, UploadRows
  <2>3. /\ upload' \in [Uploads -> UploadRows] /\ upload'[u] = r
        /\ \A v \in Uploads \ {u} : upload'[v] = upload[v]
    BY <1>3, <2>1, <2>2, OneChanges DEF IInv, Types
  <2>4. NewRow(u)
    BY <2>2, <2>3 DEF NewRow
  <2>5. UNCHANGED <<cards, map, request, worker, purge, lost>>
    BY DEF QueueFile
  <2> QED BY <1>2, <1>3, <2>2, <2>3, <2>4, <2>5, NewUploadKeeps DEF IInv, Types
<1>4. CASE \E e \in Decks :
             /\ Exists(d) /\ (e = d \/ deck[e] = "none")
             /\ upload' = [upload EXCEPT ![u] = Queued(u, d, e)]
             /\ deck' = IF e = d THEN deck ELSE Created(e)
             /\ stored' = [stored EXCEPT !.file = @ \cup {u}]
  <2>1. PICK e \in Decks :
             /\ Exists(d) /\ (e = d \/ deck[e] = "none")
             /\ upload' = [upload EXCEPT ![u] = Queued(u, d, e)]
             /\ deck' = IF e = d THEN deck ELSE Created(e)
             /\ stored' = [stored EXCEPT !.file = @ \cup {u}]
    BY <1>4
  <2>2. deck[e] # "gone" /\ deck[d] # "gone"
    BY <2>1 DEF Exists
  <2>3. UNCHANGED <<cards, map, request, worker, purge, lost>>
    BY DEF QueueFile
  <2> QED BY <1>2, <2>1, <2>2, <2>3, QueuedKeeps
<1> QED BY <1>1, <1>3, <1>4 DEF QueueFile

LEMMA StartUploadKeeps ==
  ASSUME IInv, NEW u \in Uploads, NEW e \in Decks, StartUpload(u, e) PROVE IInv'
<1>1. Waiting(u) /\ deck[e] # "gone"
  BY DEF StartUpload, Waiting
<1> QED BY <1>1, QueuedKeeps DEF StartUpload

\* A deck that goes on is filled by another attempt: the cards are wiped.
LEMMA RetryKeeps ==
  ASSUME IInv, NEW u \in Uploads, NEW e \in Decks, Retry(u, e) PROVE IInv'
<1>1. PICK old \in Decks \cup {Nothing} : old = upload[u].into
  BY DEF IInv, Types, UploadRows
<1>2. PICK r : r = [upload[u] EXCEPT !.file = "pending", !.job = "pending", !.into = e]
  OBVIOUS
<1>3. /\ upload[u].file \in {"completed", "failed"} /\ ~Active(u) /\ HasRows(u)
      /\ deck[e] # "gone" /\ deck' = Created(e)
      /\ upload' = [upload EXCEPT ![u] = r]
      /\ UNCHANGED <<map, stored, request, worker, purge, lost>>
  BY <1>1, <1>2 DEF Retry, FilledDecks, Live, HasRows
<1>4. cards' = [d \in Decks |-> IF d = old THEN Nothing ELSE cards[d]]
  BY <1>1 DEF Retry
<1>5. upload \in [Uploads -> UploadRows]
  BY DEF IInv, Types
<1>6. /\ r \in UploadRows /\ r.file = "pending" /\ r.job = "pending" /\ r.into = e
      /\ r.target = upload[u].target /\ r.note = upload[u].note
      /\ r.noteJob = upload[u].noteJob
  BY <1>2, <1>5 DEF UploadRows
<1>7. /\ upload' \in [Uploads -> UploadRows] /\ upload'[u] = r
      /\ \A v \in Uploads \ {u} : upload'[v] = upload[v]
  BY <1>3, <1>5, <1>6, OneChanges
<1>8. /\ deck' \in [Decks -> {"none", "live", "deleted", "gone"}]
      /\ \A c \in Decks : deck'[c] = "gone" <=> deck[c] = "gone"
  BY <1>3 DEF Created, IInv, Types
<1>9. cards' \in [Decks -> Texts \cup {Nothing}]
      /\ \A d \in Decks : cards'[d] = IF d = old THEN Nothing ELSE cards[d]
  BY <1>4 DEF IInv, Types
<1>10. Types'
  BY <1>3, <1>7, <1>8, <1>9 DEF IInv, Types
<1>11. \A v \in Uploads : HasRows(v)' = HasRows(v)
  BY <1>3, <1>6, <1>7 DEF HasRows
<1>12. worker.pc \in AtUpload => worker.upload # u
  BY <1>3 DEF IInv, Actors, WorkerFits
<1>13. Actors'
  <2>1. WorkerFits'
    BY <1>3, <1>6, <1>7, <1>11, <1>12 DEF IInv, Actors, WorkerFits, Active, HasRows, AtUpload
  <2>2. PurgeFits'
    <3>1. PurgeFits /\ purge.bulks \subseteq Uploads
      BY DEF IInv, Actors, Types, PurgeRecord
    <3> QED BY <1>3, <1>6, <1>7, <1>8, <1>11, <3>1 DEF PurgeFits, HasRows
  <2>3. \A d \in Requests : RequestFits(d)'
    BY <1>3 DEF IInv, Actors, RequestFits
  <2> QED BY <2>1, <2>2, <2>3 DEF Actors
<1>14. GoneIsUnused'
  BY <1>3, <1>6, <1>7, <1>8, <1>9, <1>11 DEF IInv, GoneIsUnused, HasMap
<1>15. Objects'
  BY <1>3, <1>8, ObjectsStay DEF IInv, Making, Importing
<1>16. Offers'
  <2>1. \A d \in Decks : ReadyIsStored(d)'
    BY <1>3, <1>8 DEF IInv, Offers, ReadyIsStored, HasMap
  <2>2. ASSUME NEW v \in Uploads PROVE NoteIsStored(v)'
    <3>1. NoteIsStored(v)
      BY DEF IInv, Offers
    <3> QED BY <1>3, <1>6, <1>7, <1>11, <3>1 DEF NoteIsStored, Works
  <2> QED BY <2>1, <2>2 DEF Offers
<1>17. ASSUME NEW d \in Decks PROVE CardsFit(d)' /\ MapIsDue(d)'
  <2>1. CardsFit(d) /\ MapIsDue(d)
    BY DEF IInv, Drawing
  <2>2. cards[d] = u => d = old
    BY <1>1, <1>3, <2>1 DEF CardsFit
  <2>3. cards'[d] # u
    BY <1>9, <2>2, NothingIsApart
  <2>4. CardsFit(d)'
    <3>1. worker.pc # "idle" => worker.upload \in Uploads
      BY DEF IInv, Actors, WorkerFits
    <3>2. cards'[d] = cards[d] \/ cards'[d] = Nothing
      BY <1>9
    <3> QED BY <1>3, <1>7, <1>12, <2>1, <2>3, <3>1, <3>2, NothingIsApart
            DEF CardsFit, AtUpload, HasRows
  <2>5. MapIsDue(d)'
    BY <1>3, <1>7, <1>9, <2>1, <2>3, NothingIsApart DEF MapIsDue
  <2> QED BY <2>4, <2>5
<1> QED BY <1>10, <1>13, <1>14, <1>15, <1>16, <1>17 DEF IInv, Drawing

-----------------------------------------------------------------------------
(* Uploads that are purged, by themselves or with the deck they are for.     *)

LEMMA DroppedFacts ==
  ASSUME upload \in [Uploads -> UploadRows], NEW us \in SUBSET Uploads
  PROVE  /\ Dropped(us) \in [Uploads -> UploadRows]
         /\ \A u \in Uploads \ us : Dropped(us)[u] = upload[u]
         /\ \A u \in us : /\ Dropped(us)[u].file = "gone"
                          /\ Dropped(us)[u].target = Nothing /\ Dropped(us)[u].into = Nothing
                          /\ Dropped(us)[u].note = "none"
                          /\ Dropped(us)[u].noteJob = upload[u].noteJob
<1>1. ASSUME NEW w \in UploadRows, NEW r,
             r = [w EXCEPT !.file = "gone", !.target = Nothing, !.into = Nothing,
                           !.note = "none"]
      PROVE  /\ r \in UploadRows /\ r.file = "gone" /\ r.target = Nothing
             /\ r.into = Nothing /\ r.note = "none" /\ r.noteJob = w.noteJob
  BY <1>1 DEF UploadRows
<1>2. \A u \in Uploads :
        Dropped(us)[u] = IF u \in us
                         THEN [upload[u] EXCEPT !.file = "gone", !.target = Nothing,
                                                !.into = Nothing, !.note = "none"]
                         ELSE upload[u]
  BY DEF Dropped
<1>3. \A u \in Uploads : Dropped(us)[u] \in UploadRows
  BY <1>1, <1>2
<1>4. Dropped(us) \in [Uploads -> UploadRows]
  BY <1>3 DEF Dropped
<1>5. ASSUME NEW u \in us
      PROVE  /\ Dropped(us)[u].file = "gone"
             /\ Dropped(us)[u].target = Nothing /\ Dropped(us)[u].into = Nothing
             /\ Dropped(us)[u].note = "none"
             /\ Dropped(us)[u].noteJob = upload[u].noteJob
  <2>1. upload[u] \in UploadRows
    OBVIOUS
  <2> QED BY <1>1, <1>2, <2>1
<1> QED BY <1>2, <1>4, <1>5

LEMMA SourcesKeptFacts ==
  ASSUME map \in [Decks -> MapRows], NEW us \in SUBSET Uploads
  PROVE  /\ SourcesKept(us) \in [Decks -> MapRows]
         /\ \A d \in Decks : /\ SourcesKept(us)[d].status = map[d].status
                             /\ SourcesKept(us)[d].graph = map[d].graph
                             /\ SourcesKept(us)[d].pdf = map[d].pdf
                             /\ SourcesKept(us)[d].key = map[d].key
<1>1. \A d \in Decks :
        SourcesKept(us)[d] = IF map[d].source \in us
                             THEN [map[d] EXCEPT !.source = Nothing] ELSE map[d]
  BY DEF SourcesKept
<1>2. ASSUME NEW w \in MapRows, NEW r, r = [w EXCEPT !.source = Nothing]
      PROVE  r \in MapRows /\ r.status = w.status /\ r.graph = w.graph
             /\ r.pdf = w.pdf /\ r.key = w.key
  BY <1>2 DEF MapRows
<1>3. \A d \in Decks : SourcesKept(us)[d] \in MapRows
  BY <1>1, <1>2
<1>4. SourcesKept(us) \in [Decks -> MapRows]
  BY <1>3 DEF SourcesKept
<1> QED BY <1>1, <1>2, <1>4

LEMMA PurgeUploadKeeps == ASSUME IInv, NEW u \in Uploads, PurgeUpload(u) PROVE IInv'
<1>1. /\ upload \in [Uploads -> UploadRows] /\ map \in [Decks -> MapRows]
      /\ {u} \in SUBSET Uploads
  BY DEF IInv, Types
<1>2. PICK dropped : dropped = Dropped({u})
  OBVIOUS
<1>3. /\ dropped \in [Uploads -> UploadRows]
      /\ \A v \in Uploads \ {u} : dropped[v] = upload[v]
      /\ dropped[u].file = "gone" /\ dropped[u].target = Nothing
      /\ dropped[u].into = Nothing /\ dropped[u].note = "none"
      /\ dropped[u].noteJob = upload[u].noteJob
  BY <1>1, <1>2, DroppedFacts
<1>4. PICK r : r = [dropped[u] EXCEPT !.job = "none"]
  OBVIOUS
<1>5. /\ r \in UploadRows /\ r.file = "gone" /\ r.target = Nothing /\ r.into = Nothing
      /\ r.note = "none" /\ r.noteJob = upload[u].noteJob
  BY <1>3, <1>4 DEF UploadRows
<1>6. upload' = [dropped EXCEPT ![u] = r]
  BY <1>2, <1>4 DEF PurgeUpload
<1>7. /\ upload' \in [Uploads -> UploadRows] /\ upload'[u] = r
      /\ \A v \in Uploads \ {u} : upload'[v] = upload[v]
  BY <1>3, <1>5, <1>6, OneChanges
<1>8. /\ map' \in [Decks -> MapRows]
      /\ \A d \in Decks : /\ map'[d].status = map[d].status /\ map'[d].graph = map[d].graph
                          /\ map'[d].pdf = map[d].pdf /\ map'[d].key = map[d].key
  BY <1>1, SourcesKeptFacts DEF PurgeUpload
<1>9. /\ stored' \in StoredObjects /\ stored'.media = stored.media
      /\ stored'.pdf = stored.pdf /\ stored'.note = stored.note \ {u}
  BY DEF IInv, Types, StoredObjects, PurgeUpload
<1>10. /\ upload[u].file \in {"completed", "failed"} /\ ~Active(u) /\ HasRows(u)
       /\ UNCHANGED <<deck, cards, request, worker, purge, lost>>
  BY DEF PurgeUpload, Purgeable, HasRows
<1>11. Types'
  BY <1>7, <1>8, <1>9, <1>10 DEF IInv, Types
<1>12. ~HasRows(u)' /\ \A v \in Uploads \ {u} : HasRows(v)' = HasRows(v)
  BY <1>5, <1>7 DEF HasRows
<1>13. Actors'
  <2>1. WorkerFits'
    BY <1>5, <1>7, <1>10 DEF IInv, Actors, WorkerFits, AtUpload, Active, HasRows
  <2>2. PurgeFits'
    <3>1. PurgeFits /\ purge.bulks \subseteq Uploads
      BY DEF IInv, Actors, Types, PurgeRecord
    <3> QED BY <1>5, <1>7, <1>10, <1>12, <3>1 DEF PurgeFits, HasRows
  <2>3. \A d \in Requests : RequestFits(d)'
    BY <1>10 DEF IInv, Actors, RequestFits
  <2> QED BY <2>1, <2>2, <2>3 DEF Actors
<1>14. GoneIsUnused'
  BY <1>7, <1>8, <1>10, <1>12 DEF IInv, GoneIsUnused, HasMap
<1>15. Objects'
  BY <1>9, <1>10, ObjectsStay DEF IInv, Making, Importing
<1>16. Offers'
  <2>1. \A d \in Decks : ReadyIsStored(d)'
    BY <1>8, <1>9, <1>10 DEF IInv, Offers, ReadyIsStored, HasMap
  <2>2. ASSUME NEW v \in Uploads PROVE NoteIsStored(v)'
    <3>1. NoteIsStored(v)
      BY DEF IInv, Offers
    <3> QED BY <1>5, <1>7, <1>9, <1>10, <1>12, <3>1 DEF NoteIsStored, Works
  <2> QED BY <2>1, <2>2 DEF Offers
<1>17. ASSUME NEW d \in Decks PROVE CardsFit(d)' /\ MapIsDue(d)'
  <2>1. CardsFit(d) /\ MapIsDue(d)
    BY DEF IInv, Drawing
  <2>2. CardsFit(d)'
    <3>1. worker.pc # "idle" => worker.upload \in Uploads
      BY DEF IInv, Actors, WorkerFits
    <3> QED BY <1>5, <1>7, <1>10, <2>1, <3>1 DEF CardsFit, HasRows
  <2>3. MapIsDue(d)'
    BY <1>5, <1>7, <1>8, <1>10, <2>1 DEF MapIsDue
  <2> QED BY <2>2, <2>3
<1> QED BY <1>11, <1>13, <1>14, <1>15, <1>16, <1>17 DEF IInv, Drawing

-----------------------------------------------------------------------------
(* The administrator's purge.                                                *)

\* Until it is at its objects a purge is nobody's excuse for what is left.
LEMMA PurgeMoves ==
  ASSUME IInv, purge.pc # "objects", purge' \in PurgeRecord, purge'.pc # "objects",
         PurgeFits', UNCHANGED <<rows, stored, request, worker, lost>>
  PROVE  IInv'
<1> USE DEF rows
<1>1. Types'
  BY DEF IInv, Types
<1>2. Actors'
  BY DEF IInv, Actors, WorkerFits, RequestFits, HasRows, Active
<1>3. GoneIsUnused'
  BY DEF IInv, GoneIsUnused, HasRows, HasMap
<1>4. Objects'
  <2>1. LateIsLost' /\ KeyIsKnown'
    BY DEF IInv, Objects, LateIsLost, KeyIsKnown, Making, Importing
  <2>2. \A d \in Decks : LeftBehind(d)'
    BY DEF IInv, Objects, LeftBehind
  <2> QED BY <2>1, <2>2 DEF Objects
<1>5. Offers'
  BY OffersStay DEF IInv
<1>6. Drawing'
  BY DrawingStays DEF IInv
<1> QED BY <1>1, <1>2, <1>3, <1>4, <1>5, <1>6 DEF IInv

LEMMA ThenFacts ==
  ASSUME NEW ds \in SUBSET Decks
  PROVE  /\ Then(ds) \in PurgeRecord /\ Then(ds).pc \in {"idle", "next"}
BY DEF Then, NoPurge, PurgeRecord

LEMMA AskPurgeKeeps ==
  ASSUME IInv, NEW ds \in SUBSET Decks, purge.pc = "idle",
         purge' = [NoPurge EXCEPT !.pc = "next", !.left = ds],
         UNCHANGED <<rows, stored, request, worker, lost>>
  PROVE  IInv'
<1>1. purge' \in PurgeRecord /\ purge'.pc = "next"
  BY DEF NoPurge, PurgeRecord
<1>2. PurgeFits'
  BY <1>1 DEF PurgeFits
<1> QED BY <1>1, <1>2, PurgeMoves

LEMMA PurgeCheckKeeps == ASSUME IInv, NEW d \in Decks, PurgeCheck(d) PROVE IInv'
<1>1. /\ purge.pc = "next" /\ UNCHANGED <<rows, stored, request, worker, lost>>
      /\ purge \in PurgeRecord /\ purge.left \in SUBSET Decks
      /\ purge.left \ {d} \in SUBSET Decks
  BY DEF PurgeCheck, IInv, Types, PurgeRecord
<1>2. CASE purge' = Then(purge.left \ {d})
  <2>1. purge' \in PurgeRecord /\ purge'.pc \in {"idle", "next"}
    BY <1>1, <1>2, ThenFacts
  <2>2. PurgeFits'
    BY <2>1 DEF PurgeFits
  <2> QED BY <1>1, <2>1, <2>2, PurgeMoves
<1>3. CASE purge' = [pc |-> "rows", left |-> purge.left \ {d}, deck |-> d,
                     bulks |-> Targets(d), key |-> map[d].key]
  <2>1. Targets(d) \in SUBSET Uploads /\ map[d].key \in BOOLEAN
    BY DEF Targets, IInv, Types, MapRows
  <2>2. /\ purge' \in PurgeRecord /\ purge'.pc = "rows" /\ purge'.deck = d
        /\ purge'.bulks = Targets(d)
    BY <1>1, <1>3, <2>1 DEF PurgeRecord
  <2>3. PurgeFits'
    BY <1>1, <2>2 DEF PurgeFits, Targets, HasRows, rows
  <2> QED BY <1>1, <2>2, <2>3, PurgeMoves
<1> QED BY <1>2, <1>3 DEF PurgeCheck

\* Whatever is meant for the deck goes with it, and whatever filled it lets go.
LEMMA PurgeRowsFacts ==
  ASSUME IInv, PurgeRows
  PROVE  /\ purge.pc = "rows" /\ purge.deck \in Decks
         /\ upload' \in [Uploads -> UploadRows]
         /\ \A u \in Uploads :
              /\ HasRows(u)' => /\ HasRows(u) /\ u \notin purge.bulks
                                /\ upload[u].target # purge.deck
                                /\ upload'[u].into = IF upload[u].into = purge.deck
                                                     THEN Nothing ELSE upload[u].into
                                /\ upload'[u].target = upload[u].target
                                /\ upload'[u].job = upload[u].job
                                /\ upload'[u].file = upload[u].file
                                /\ upload'[u].note = upload[u].note
              /\ HasRows(u) /\ ~HasRows(u)' => /\ upload'[u].file = "gone"
                                               /\ upload'[u].note = "none"
              /\ ~HasRows(u) => /\ upload'[u].file = upload[u].file
                                /\ upload'[u].note = upload[u].note
              /\ upload'[u].noteJob = upload[u].noteJob
<1>1. PICK d \in Decks : d = purge.deck
  BY DEF PurgeRows, IInv, Actors, PurgeFits
<1>2. PICK gone : gone = Targets(d)
  OBVIOUS
<1>3. gone \in SUBSET Uploads /\ \A u \in Uploads : u \in gone <=> HasRows(u) /\ upload[u].target = d
  BY <1>2 DEF Targets
<1>4. PICK dropped : dropped = Dropped(gone)
  OBVIOUS
<1>5. /\ dropped \in [Uploads -> UploadRows]
      /\ \A u \in Uploads \ gone : dropped[u] = upload[u]
      /\ \A u \in gone : /\ dropped[u].file = "gone" /\ dropped[u].target = Nothing
                         /\ dropped[u].into = Nothing /\ dropped[u].note = "none"
                         /\ dropped[u].noteJob = upload[u].noteJob
  BY <1>3, <1>4, DroppedFacts DEF IInv, Types
<1>6. PICK unfilled : unfilled = [u \in Uploads |->
                        IF dropped[u].into = d THEN [dropped[u] EXCEPT !.into = Nothing]
                        ELSE dropped[u]]
  OBVIOUS
<1>7. ASSUME NEW u \in Uploads
      PROVE  /\ unfilled[u] \in UploadRows
             /\ unfilled[u].file = dropped[u].file /\ unfilled[u].target = dropped[u].target
             /\ unfilled[u].note = dropped[u].note /\ unfilled[u].job = dropped[u].job
             /\ unfilled[u].noteJob = dropped[u].noteJob
             /\ unfilled[u].into = IF dropped[u].into = d THEN Nothing ELSE dropped[u].into
  BY <1>5, <1>6 DEF UploadRows
<1>8. upload' = [u \in Uploads |-> IF u \in purge.bulks
                                   THEN [unfilled[u] EXCEPT !.job = "none"] ELSE unfilled[u]]
  BY <1>1, <1>2, <1>4, <1>6 DEF PurgeRows
<1>9. ASSUME NEW u \in Uploads
      PROVE  /\ upload'[u] \in UploadRows
             /\ upload'[u].file = unfilled[u].file /\ upload'[u].target = unfilled[u].target
             /\ upload'[u].note = unfilled[u].note /\ upload'[u].into = unfilled[u].into
             /\ upload'[u].noteJob = unfilled[u].noteJob
             /\ u \notin purge.bulks => upload'[u].job = unfilled[u].job
  BY <1>7, <1>8 DEF UploadRows
<1>10. upload' \in [Uploads -> UploadRows]
  <2>1. \A u \in Uploads : upload'[u] \in UploadRows
    BY <1>9
  <2> QED BY <1>8, <2>1
<1>11. \A u \in Uploads : u \in purge.bulks /\ HasRows(u) => u \in gone
  BY <1>1, <1>3 DEF PurgeRows, IInv, Actors, PurgeFits
<1>12. \A u \in Uploads : HasRows(u)' <=> HasRows(u) /\ u \notin gone
  BY <1>3, <1>5, <1>7, <1>9 DEF HasRows
<1>13. purge.pc = "rows"
  BY DEF PurgeRows
<1>14. ASSUME NEW u \in Uploads, HasRows(u)'
       PROVE  /\ HasRows(u) /\ u \notin purge.bulks /\ upload[u].target # d
              /\ upload'[u].into = IF upload[u].into = d THEN Nothing ELSE upload[u].into
              /\ upload'[u].target = upload[u].target /\ upload'[u].job = upload[u].job
              /\ upload'[u].file = upload[u].file /\ upload'[u].note = upload[u].note
  <2>1. HasRows(u) /\ u \notin gone /\ u \notin purge.bulks /\ dropped[u] = upload[u]
    BY <1>5, <1>11, <1>12, <1>14
  <2> QED BY <2>1, <1>3, <1>7, <1>9
<1>15. ASSUME NEW u \in Uploads, ~HasRows(u)'
       PROVE  /\ HasRows(u) => upload'[u].file = "gone" /\ upload'[u].note = "none"
              /\ ~HasRows(u) => /\ upload'[u].file = upload[u].file
                                /\ upload'[u].note = upload[u].note
  BY <1>3, <1>5, <1>7, <1>9, <1>12, <1>15
<1>16. ASSUME NEW u \in Uploads PROVE upload'[u].noteJob = upload[u].noteJob
  BY <1>5, <1>7, <1>9
<1>17. \A u \in Uploads : ~HasRows(u) => ~HasRows(u)'
  BY <1>12
<1> QED BY <1>1, <1>10, <1>13, <1>14, <1>15, <1>16, <1>17

LEMMA PurgeRowsKeeps == ASSUME IInv, PurgeRows PROVE IInv'
<1>1. PICK d \in Decks : d = purge.deck
  BY PurgeRowsFacts
<1>2. /\ purge.pc = "rows" /\ upload' \in [Uploads -> UploadRows]
      /\ \A u \in Uploads :
           /\ HasRows(u)' => /\ HasRows(u) /\ upload[u].target # d
                             /\ upload'[u].into = IF upload[u].into = d
                                                  THEN Nothing ELSE upload[u].into
                             /\ upload'[u].target = upload[u].target
                             /\ upload'[u].job = upload[u].job
                             /\ upload'[u].file = upload[u].file
                             /\ upload'[u].note = upload[u].note
           /\ HasRows(u) /\ ~HasRows(u)' => /\ upload'[u].file = "gone"
                                            /\ upload'[u].note = "none"
           /\ ~HasRows(u) => /\ upload'[u].file = upload[u].file
                             /\ upload'[u].note = upload[u].note
           /\ upload'[u].noteJob = upload[u].noteJob
  BY <1>1, PurgeRowsFacts
<1>3. /\ deck' = [deck EXCEPT ![d] = "gone"] /\ cards' = [cards EXCEPT ![d] = Nothing]
      /\ UNCHANGED <<stored, request, worker>>
  BY <1>1 DEF PurgeRows
<1>4. /\ deck' \in [Decks -> {"none", "live", "deleted", "gone"}] /\ deck'[d] = "gone"
      /\ \A e \in Decks \ {d} : deck'[e] = deck[e]
      /\ cards' \in [Decks -> Texts \cup {Nothing}] /\ cards'[d] = Nothing
      /\ \A e \in Decks \ {d} : cards'[e] = cards[e]
  BY <1>3 DEF IInv, Types
<1>5. /\ map' \in [Decks -> MapRows]
      /\ map'[d].status = "none" /\ map'[d].pdf = "none"
      /\ \A e \in Decks \ {d} : /\ map'[e].status = map[e].status
                                /\ map'[e].graph = map[e].graph
                                /\ map'[e].pdf = map[e].pdf /\ map'[e].key = map[e].key
  <2>1. PICK gone : gone = Targets(d)
    OBVIOUS
  <2>2. gone \in SUBSET Uploads /\ map \in [Decks -> MapRows]
    BY <2>1 DEF Targets, IInv, Types
  <2>3. PICK kept : kept = SourcesKept(gone)
    OBVIOUS
  <2>4. /\ kept \in [Decks -> MapRows]
        /\ \A e \in Decks : /\ kept[e].status = map[e].status
                            /\ kept[e].graph = map[e].graph
                            /\ kept[e].pdf = map[e].pdf /\ kept[e].key = map[e].key
    BY <2>2, <2>3, SourcesKeptFacts
  <2>5. map' = [kept EXCEPT ![d] = NoMap]
    BY <1>1, <2>1, <2>3 DEF PurgeRows
  <2>6. NoMap \in MapRows /\ NoMap.status = "none" /\ NoMap.pdf = "none"
    BY DEF NoMap, MapRows
  <2>7. map' \in [Decks -> MapRows] /\ map'[d] = NoMap
        /\ \A e \in Decks \ {d} : map'[e] = kept[e]
    BY <2>4, <2>5, <2>6
  <2> QED BY <2>4, <2>6, <2>7
<1>6. /\ purge' \in PurgeRecord /\ purge'.pc = "objects" /\ purge'.deck = d
      /\ purge'.key = purge.key
  BY <1>1 DEF PurgeRows, IInv, Types, PurgeRecord
<1>7. /\ lost' \in LostRecord /\ lost'.map = lost.map /\ lost'.media = lost.media
      /\ \A e \in Decks : e \in lost.pdf => e \in lost'.pdf
      /\ (\E r \in Requests : Making(r, d)) => d \in lost'.pdf
      /\ stored.pdf[d] # Nothing /\ ~purge.key => d \in lost'.pdf
  <2>1. lost' = IF (\E r \in Requests : Making(r, d))
                   \/ (stored.pdf[d] # Nothing /\ ~purge.key)
                THEN [lost EXCEPT !.pdf = @ \cup {d}] ELSE lost
    BY <1>1 DEF PurgeRows
  <2> QED BY <2>1 DEF IInv, Types, LostRecord
<1>8. Types'
  BY <1>2, <1>3, <1>4, <1>5, <1>6, <1>7 DEF IInv, Types
<1>9. worker.pc # "idle" => worker.upload \in Uploads
  BY DEF IInv, Actors, WorkerFits
<1>10. Actors'
  <2>1. WorkerFits'
    <3>1. \A u \in Uploads : upload[u].file \notin {"none", "sending"}
                               => upload'[u].file \notin {"none", "sending"}
      BY <1>2
    <3>2. \A u \in Uploads : HasRows(u)' /\ Active(u) => Active(u)'
      BY <1>2 DEF Active
    <3>3. worker' = worker
      BY <1>3
    <3>4. CASE worker.pc \in AtUpload /\ HasRows(worker.upload)'
      <4>1. worker.upload \in Uploads
        BY <1>9, <3>4 DEF AtUpload
      <4>2. PICK u \in Uploads : u = worker.upload
        BY <4>1
      <4>3. HasRows(u)' /\ HasRows(u) /\ upload'[u].file = upload[u].file
        BY <1>2, <3>3, <3>4, <4>2 DEF HasRows
      <4>4. Active(u) /\ Active(u)'
        BY <3>2, <3>4, <4>2, <4>3 DEF IInv, Actors, WorkerFits
      <4> QED BY <3>1, <3>3, <4>2, <4>3, <4>4, <3>4 DEF IInv, Actors, WorkerFits, Active, HasRows
    <3>5. CASE ~(worker.pc \in AtUpload /\ HasRows(worker.upload)')
      BY <3>1, <3>3, <3>5 DEF IInv, Actors, WorkerFits, HasRows
    <3> QED BY <3>4, <3>5
  <2>2. PurgeFits'
    BY <1>1, <1>4, <1>6 DEF PurgeFits
  <2>3. \A r \in Requests : RequestFits(r)'
    BY <1>3 DEF IInv, Actors, RequestFits
  <2> QED BY <2>1, <2>2, <2>3 DEF Actors
<1>11. GoneIsUnused'
  <2> SUFFICES ASSUME NEW e \in Decks, deck'[e] = "gone"
               PROVE  /\ ~HasMap(e)' /\ cards'[e] = Nothing
                      /\ \A u \in Uploads : HasRows(u)' =>
                           upload'[u].target # e /\ upload'[u].into # e
    BY DEF GoneIsUnused
  <2>1. CASE e = d
    BY <1>2, <1>4, <1>5, <2>1, NothingIsApart DEF HasMap
  <2>2. CASE e # d
    <3>1. /\ ~HasMap(e) /\ cards[e] = Nothing
          /\ \A u \in Uploads : HasRows(u) => upload[u].target # e /\ upload[u].into # e
      BY <1>4, <2>2 DEF IInv, GoneIsUnused
    <3> QED BY <1>2, <1>4, <1>5, <2>2, <3>1, NothingIsApart DEF HasMap
  <2> QED BY <2>1, <2>2
<1>12. Objects'
  <2>1. KeyIsKnown'
    BY <1>3, <1>6, <1>7 DEF KeyIsKnown
  <2>2. LateIsLost'
    <3>1. \A r \in Requests, e \in Decks : Making(r, e)' = Making(r, e)
                                          /\ Importing(r, e)' = Importing(r, e)
      BY <1>3 DEF Making, Importing
    <3>2. \A r \in Requests : Making(r, d) => d \in lost'.pdf
      BY <1>7
    <3>3. \A r \in Requests, e \in Decks \ {d} :
            deck'[e] = "gone" => /\ Making(r, e) => e \in lost'.pdf
                                 /\ Importing(r, e) => e \in lost'.media
      BY <1>1, <1>4, <1>7 DEF IInv, Objects, LateIsLost
    <3> QED BY <1>6, <3>1, <3>2, <3>3 DEF LateIsLost
  <2>3. \A e \in Decks : LeftBehind(e)'
    BY <1>2, <1>3, <1>4, <1>6, <1>7 DEF IInv, Objects, LeftBehind
  <2> QED BY <2>1, <2>2, <2>3 DEF Objects
<1>13. Offers'
  <2>1. ASSUME NEW e \in Decks PROVE ReadyIsStored(e)'
    <3>1. ReadyIsStored(e)
      BY DEF IInv, Offers
    <3>2. CASE e = d
      BY <1>4, <1>5, <3>2 DEF ReadyIsStored
    <3>3. CASE e # d
      BY <1>3, <1>4, <1>5, <3>1, <3>3 DEF ReadyIsStored, HasMap
    <3> QED BY <3>2, <3>3
  <2>2. ASSUME NEW u \in Uploads PROVE NoteIsStored(u)'
    <3>1. NoteIsStored(u)
      BY DEF IInv, Offers
    <3>2. CASE HasRows(u)'
      <4>1. /\ HasRows(u) /\ upload'[u].note = upload[u].note
            /\ upload'[u].file = upload[u].file /\ upload'[u].noteJob = upload[u].noteJob
        BY <1>2, <3>2
      <4> QED BY <1>3, <3>1, <3>2, <4>1 DEF NoteIsStored, Works
    <3>3. CASE ~HasRows(u)'
      <4>1. /\ upload'[u].note = "none" /\ upload'[u].noteJob = upload[u].noteJob
            /\ upload'[u].file = upload[u].file \/ upload'[u].file = "gone"
        BY <1>2, <3>1, <3>3 DEF NoteIsStored
      <4> QED BY <3>1, <4>1 DEF NoteIsStored
    <3> QED BY <3>2, <3>3
  <2> QED BY <2>1, <2>2 DEF Offers
<1>14. ASSUME NEW e \in Decks PROVE CardsFit(e)' /\ MapIsDue(e)'
  <2>1. CardsFit(e) /\ MapIsDue(e)
    BY DEF IInv, Drawing
  <2>2. CASE e = d
    BY <1>4, <2>2, NothingIsApart DEF CardsFit, MapIsDue
  <2>3. CASE e # d
    <3>1. cards'[e] = cards[e] /\ map'[e].graph = map[e].graph /\ worker' = worker
          /\ lost'.map = lost.map
      BY <1>3, <1>4, <1>5, <1>7, <2>3
    <3>2. \A u \in Uploads : /\ upload[u].file \notin {"none", "sending"}
                                  => upload'[u].file \notin {"none", "sending"}
                             /\ upload'[u].file = "completed" => upload[u].file = "completed"
      BY <1>2
    <3>3. \A u \in Uploads :
            HasRows(u)' => HasRows(u) /\ (upload[u].into = e <=> upload'[u].into = e)
      BY <1>2, <2>3, NothingIsApart
    <3>4. ASSUME cards'[e] \in Uploads PROVE upload'[cards'[e]].file \notin {"none", "sending"}
      BY <2>1, <3>1, <3>2, <3>4 DEF CardsFit
    <3>5. ASSUME NEW u \in Uploads, cards'[e] = u, HasRows(u)' PROVE upload'[u].into = e
      BY <2>1, <3>1, <3>3, <3>5 DEF CardsFit
    <3>6. ASSUME NEW u \in Uploads, worker.upload = u, HasRows(u)', upload'[u].into = e,
                 worker.pc \in {"fill", "note", "map", "write"}
          PROVE  cards'[e] \in {u, Hand, Nothing}
      BY <2>1, <3>1, <3>3, <3>6 DEF CardsFit
    <3>7. CardsFit(e)'
      BY <1>9, <3>1, <3>4, <3>5, <3>6 DEF CardsFit, HasRows
    <3>8. MapIsDue(e)'
      BY <2>1, <3>1, <3>2 DEF MapIsDue
    <3> QED BY <3>7, <3>8
  <2> QED BY <2>2, <2>3
<1> QED BY <1>8, <1>10, <1>11, <1>12, <1>13, <1>14 DEF IInv, Drawing

LEMMA PurgeObjectsKeeps == ASSUME IInv, PurgeObjects PROVE IInv'
<1>1. PICK d \in Decks : d = purge.deck
  BY DEF PurgeObjects, IInv, Actors, PurgeFits
<1>2. /\ purge.pc = "objects" /\ deck[d] = "gone" /\ purge' = Then(purge.left)
      /\ UNCHANGED <<deck, cards, map, upload, request, worker>>
  BY <1>1 DEF PurgeObjects, rows, IInv, Actors, PurgeFits
<1>3. purge' \in PurgeRecord /\ purge'.pc \in {"idle", "next"}
  <2>1. purge.left \in SUBSET Decks
    BY DEF IInv, Types, PurgeRecord
  <2> QED BY <1>2, <2>1, ThenFacts
<1>4. /\ stored' \in StoredObjects /\ stored'.note = stored.note
      /\ stored'.media \subseteq stored.media
      /\ \A e \in Decks : stored'.pdf[e] # stored.pdf[e] => e = d /\ stored'.pdf[e] = Nothing
      /\ lost' \in LostRecord /\ lost'.map = lost.map
      /\ \A e \in Decks : /\ e \in lost.pdf => e \in lost'.pdf
                          /\ e \in lost.media => e \in lost'.media
      /\ stored'.pdf[d] # Nothing => d \in lost'.pdf
      /\ d \in stored'.media => d \in lost'.media
      /\ \A r \in Requests : Importing(r, d) => d \in lost'.media
  <2>1. PICK m, p \in BOOLEAN :
          /\ stored' = [stored EXCEPT !.media = IF m THEN @ \ {d} ELSE @,
                                      !.pdf[d] = IF p /\ purge.key THEN Nothing ELSE @]
          /\ lost' = [lost EXCEPT
                        !.media = IF m /\ ~(\E r \in Requests : Importing(r, d))
                                  THEN @ ELSE @ \cup {d},
                        !.pdf = IF p THEN @ ELSE @ \cup {d}]
    BY <1>1 DEF PurgeObjects
  <2>2. PICK text \in Texts \cup {Nothing} :
          text = IF p /\ purge.key THEN Nothing ELSE stored.pdf[d]
    BY DEF IInv, Types, StoredObjects
  <2>3. PICK pdf : pdf = [stored.pdf EXCEPT ![d] = text]
    OBVIOUS
  <2>4. pdf \in [Decks -> Texts \cup {Nothing}] /\ pdf[d] = text
        /\ \A e \in Decks \ {d} : pdf[e] = stored.pdf[e]
    BY <2>2, <2>3 DEF IInv, Types, StoredObjects
  <2>5. PICK media \in SUBSET Decks :
          media = IF m THEN stored.media \ {d} ELSE stored.media
    BY DEF IInv, Types, StoredObjects
  <2>6. stored' = [stored EXCEPT !.media = media, !.pdf = pdf]
    BY <2>1, <2>2, <2>3, <2>5
  <2>7. /\ stored' \in StoredObjects /\ stored'.media = media
        /\ stored'.pdf = pdf /\ stored'.note = stored.note
    BY <2>4, <2>5, <2>6 DEF IInv, Types, StoredObjects
  <2>8. /\ lost' \in LostRecord /\ lost'.map = lost.map
        /\ \A e \in Decks : /\ e \in lost.pdf => e \in lost'.pdf
                            /\ e \in lost.media => e \in lost'.media
        /\ p \/ d \in lost'.pdf
        /\ (m /\ ~(\E r \in Requests : Importing(r, d))) \/ d \in lost'.media
    BY <2>1 DEF IInv, Types, LostRecord
  <2>9. text # Nothing => d \in lost'.pdf
    BY <1>1, <1>2, <2>2, <2>8 DEF IInv, Objects, KeyIsKnown
  <2> QED BY <2>2, <2>4, <2>5, <2>7, <2>8, <2>9
<1>5. Types'
  BY <1>2, <1>3, <1>4 DEF IInv, Types
<1>6. Actors'
  <2>1. WorkerFits' /\ \A r \in Requests : RequestFits(r)'
    BY <1>2 DEF IInv, Actors, WorkerFits, RequestFits, HasRows, Active
  <2>2. PurgeFits'
    BY <1>3 DEF PurgeFits
  <2> QED BY <2>1, <2>2 DEF Actors
<1>7. GoneIsUnused'
  BY <1>2 DEF IInv, GoneIsUnused, HasRows, HasMap
<1>8. Objects'
  <2>1. KeyIsKnown'
    BY <1>3 DEF KeyIsKnown
  <2>2. LateIsLost'
    BY <1>1, <1>2, <1>4 DEF IInv, Objects, LateIsLost, Making, Importing
  <2>3. \A e \in Decks : LeftBehind(e)'
    BY <1>1, <1>2, <1>4 DEF IInv, Objects, LeftBehind
  <2> QED BY <2>1, <2>2, <2>3 DEF Objects
<1>9. Offers'
  <2>1. ASSUME NEW e \in Decks PROVE ReadyIsStored(e)'
    <3>1. ReadyIsStored(e) /\ ~HasMap(d)
      BY <1>2 DEF IInv, Offers, GoneIsUnused
    <3> QED BY <1>2, <1>4, <3>1 DEF ReadyIsStored, HasMap
  <2>2. \A u \in Uploads : NoteIsStored(u)'
    BY <1>2, <1>4 DEF IInv, Offers, NoteIsStored, HasRows, Works
  <2> QED BY <2>1, <2>2 DEF Offers
<1>10. Drawing'
  BY <1>2, <1>4, DrawingStays DEF IInv
<1> QED BY <1>5, <1>6, <1>7, <1>8, <1>9, <1>10 DEF IInv

\* What the purge had still to delete stays.
LEMMA WebDiesKeeps == ASSUME IInv, WebDies PROVE IInv'
<1>1. /\ UNCHANGED <<deck, cards, map, upload, stored, worker>>
      /\ purge' = NoPurge /\ request' = [r \in Requests |-> NoRequest]
  BY DEF WebDies, rows
<1>2. /\ lost' \in LostRecord /\ lost'.map = lost.map
      /\ \A d \in Decks : /\ d \in lost.pdf => d \in lost'.pdf
                          /\ d \in lost.media => d \in lost'.media
      /\ purge.pc = "objects" => purge.deck \in lost'.pdf /\ purge.deck \in lost'.media
  <2>1. purge.pc = "objects" => purge.deck \in Decks
    BY DEF IInv, Actors, PurgeFits
  <2> QED BY <2>1 DEF WebDies, IInv, Types, LostRecord
<1>3. NoPurge \in PurgeRecord /\ NoPurge.pc = "idle"
      /\ NoRequest \in RequestRows /\ NoRequest.pc = "idle"
  BY DEF NoPurge, NoRequest, PurgeRecord, RequestRows
<1>4. Types' /\ \A r \in Requests : request'[r].pc = "idle"
  BY <1>1, <1>2, <1>3 DEF IInv, Types
<1>5. Actors'
  BY <1>1, <1>3, <1>4 DEF IInv, Actors, WorkerFits, PurgeFits, RequestFits, HasRows, Active
<1>6. GoneIsUnused'
  BY <1>1 DEF IInv, GoneIsUnused, HasRows, HasMap
<1>7. Objects'
  <2>1. KeyIsKnown' /\ LateIsLost'
    BY <1>1, <1>3, <1>4 DEF KeyIsKnown, LateIsLost, Making, Importing
  <2>2. \A d \in Decks : LeftBehind(d)'
    BY <1>1, <1>2 DEF IInv, Objects, LeftBehind
  <2> QED BY <2>1, <2>2 DEF Objects
<1>8. Offers'
  BY <1>1, <1>4 DEF IInv, Offers, ReadyIsStored, NoteIsStored, HasMap, HasRows, Works
<1>9. Drawing'
  BY <1>1, <1>2, DrawingStays DEF IInv
<1> QED BY <1>4, <1>5, <1>6, <1>7, <1>8, <1>9 DEF IInv

-----------------------------------------------------------------------------
(* A download.                                                               *)

\* Only request r changes, and to what fits.
LEMMA RequestChanges ==
  ASSUME IInv, NEW r \in Requests, NEW w \in RequestRows,
         request' = [request EXCEPT ![r] = w],
         w.pc # "idle" => w.deck \in Decks, w.pc = "save" => w.text # Nothing
  PROVE  /\ request' \in [Requests -> RequestRows] /\ request'[r] = w
         /\ \A q \in Requests \ {r} : request'[q] = request[q]
         /\ \A q \in Requests : RequestFits(q)'
<1>1. /\ request' \in [Requests -> RequestRows] /\ request'[r] = w
      /\ \A q \in Requests \ {r} : request'[q] = request[q]
  BY DEF IInv, Types
<1>2. ASSUME NEW q \in Requests PROVE RequestFits(q)'
  <2>1. RequestFits(q)
    BY DEF IInv, Actors
  <2> QED BY <1>1, <2>1 DEF RequestFits
<1> QED BY <1>1, <1>2

\* A step of a download that leaves storage alone, and gives a map at most a
\* status, where the deck is there, and a PDF that is in storage.
LEMMA RequestKeeps ==
  ASSUME IInv, NEW r \in Requests,
         request' \in [Requests -> RequestRows],
         \A q \in Requests \ {r} : request'[q] = request[q],
         \A q \in Requests : RequestFits(q)',
         map' \in [Decks -> MapRows],
         UNCHANGED <<deck, cards, upload, stored, worker, purge, lost>>,
         \A d \in Decks : /\ Making(r, d)' => Making(r, d) \/ deck[d] # "gone"
                          /\ Importing(r, d)' => deck[d] # "gone",
         \A d \in Decks : /\ map'[d].graph = map[d].graph
                          /\ deck[d] = "gone" => map'[d].status = map[d].status
                          /\ HasMap(d) => HasMap(d)'
                          /\ map'[d].pdf = "ready" =>
                               HasMap(d)' /\ map'[d].key /\ stored.pdf[d] # Nothing,
         request'[r].pc = "finish" =>
           request'[r].deck = request[r].deck /\ request[r].pc = "finish"
  PROVE  IInv'
<1>1. Types'
  BY DEF IInv, Types
<1>2. Actors'
  BY DEF IInv, Actors, WorkerFits, PurgeFits, HasRows, Active
<1>3. GoneIsUnused'
  BY DEF IInv, GoneIsUnused, HasRows, HasMap
<1>4. Objects'
  <2>1. KeyIsKnown' /\ \A d \in Decks : LeftBehind(d)'
    BY DEF IInv, Objects, KeyIsKnown, LeftBehind
  <2>2. LateIsLost'
    <3>1. \A q \in Requests, d \in Decks :
            /\ Making(q, d)' => Making(q, d) \/ deck[d] # "gone"
            /\ Importing(q, d)' => Importing(q, d) \/ deck[d] # "gone"
      BY DEF Making, Importing
    <3> QED BY <3>1 DEF IInv, Objects, LateIsLost
  <2> QED BY <2>1, <2>2 DEF Objects
<1>5. Offers'
  <2>1. ASSUME NEW d \in Decks PROVE ReadyIsStored(d)'
    <3>1. ReadyIsStored(d)
      BY DEF IInv, Offers
    <3>2. \A q \in Requests : request'[q].deck = d /\ request'[q].pc = "finish"
            => request[q].deck = d /\ request[q].pc = "finish"
      OBVIOUS
    <3> QED BY <3>1, <3>2 DEF ReadyIsStored
  <2>2. \A u \in Uploads : NoteIsStored(u)'
    BY DEF IInv, Offers, NoteIsStored, HasRows, Works
  <2> QED BY <2>1, <2>2 DEF Offers
<1>6. Drawing'
  BY DrawingStays DEF IInv
<1> QED BY <1>1, <1>2, <1>3, <1>4, <1>5, <1>6 DEF IInv

LEMMA AnsweredFacts ==
  ASSUME IInv, NEW r \in Requests, Answered(r)
  PROVE  /\ request' \in [Requests -> RequestRows] /\ request'[r] = NoRequest
         /\ \A q \in Requests \ {r} : request'[q] = request[q]
         /\ \A q \in Requests : RequestFits(q)'
         /\ \A d \in Decks : ~Making(r, d)' /\ ~Importing(r, d)'
         /\ request'[r].pc = "idle"
<1>1. NoRequest \in RequestRows /\ NoRequest.pc = "idle"
  BY DEF NoRequest, RequestRows
<1>2. PICK w : w = NoRequest
  OBVIOUS
<1>3. request' = [request EXCEPT ![r] = w]
  BY <1>2 DEF Answered
<1>4. /\ request' \in [Requests -> RequestRows] /\ request'[r] = w
      /\ \A q \in Requests \ {r} : request'[q] = request[q]
      /\ \A q \in Requests : RequestFits(q)'
  BY <1>1, <1>2, <1>3, RequestChanges
<1> QED BY <1>1, <1>2, <1>4 DEF Making, Importing

LEMMA MapsAreTyped ==
  IInv => map \in [Decks -> MapRows] /\ request \in [Requests -> RequestRows]
          /\ \A d \in Decks : map[d].pdf = "ready" =>
               HasMap(d) /\ map[d].key /\ stored.pdf[d] # Nothing
BY DEF IInv, Types, Offers, ReadyIsStored

LEMMA AskKeeps ==
  ASSUME IInv, NEW r \in Requests, NEW d \in Decks, Ask(r, d) PROVE IInv'
<1>0. PICK s : s = map[d].pdf
  OBVIOUS
<1>1. PICK p \in {"start", "create"} : /\ p = (IF HasMap(d) THEN "start" ELSE "create")
                                       /\ s = map[d].pdf
  BY <1>0
<1>2. PICK w : w = [NoRequest EXCEPT !.deck = d, !.seen = s, !.pc = p]
  OBVIOUS
<1>3. w \in RequestRows /\ w.pc = p /\ w.deck = d
  <2>1. s \in {"none", "processing", "ready", "failed"}
    BY <1>1 DEF IInv, Types, MapRows
  <2> QED BY <1>1, <1>2, <2>1 DEF NoRequest, RequestRows
<1>4. request' = [request EXCEPT ![r] = w]
  BY <1>1, <1>2 DEF Ask
<1>5. /\ request' \in [Requests -> RequestRows] /\ request'[r] = w
      /\ \A q \in Requests \ {r} : request'[q] = request[q]
      /\ \A q \in Requests : RequestFits(q)'
  BY <1>1, <1>3, <1>4, RequestChanges
<1>6. UNCHANGED <<deck, cards, map, upload, stored, worker, purge, lost>>
  BY DEF Ask, rows
<1>7. \A e \in Decks : /\ Making(r, e)' => Making(r, e) \/ deck[e] # "gone"
                       /\ ~Importing(r, e)'
  BY <1>1, <1>3, <1>5 DEF Making, Importing
<1>8. \A e \in Decks : HasMap(e)' = HasMap(e)
  BY <1>6 DEF HasMap
<1> QED BY <1>1, <1>3, <1>5, <1>6, <1>7, <1>8, RequestKeeps, MapsAreTyped

LEMMA CreateMapKeeps == ASSUME IInv, NEW r \in Requests, CreateMap(r) PROVE IInv'
<1>1. PICK d \in Decks : d = request[r].deck /\ RequestFits(r)
  BY DEF CreateMap, At, IInv, Actors, RequestFits
<1>2. UNCHANGED <<deck, cards, upload, stored, worker, purge, lost>>
  BY DEF CreateMap
<1>3. CASE Answered(r) /\ map' = map
  <2>1. \A e \in Decks : HasMap(e)' = HasMap(e)
    BY <1>3 DEF HasMap
  <2> QED BY <1>2, <1>3, <2>1, AnsweredFacts, RequestKeeps, MapsAreTyped
<1>4. CASE Exists(d) /\ ~HasMap(d) /\ map' = [map EXCEPT ![d].status = "pending"]
           /\ Go(r, "start")
  <2>1. PICK w : w = [request[r] EXCEPT !.pc = "start"]
    OBVIOUS
  <2>2. w \in RequestRows /\ w.pc = "start" /\ w.deck = d
    BY <1>1, <2>1 DEF IInv, Types, RequestRows
  <2>3. request' = [request EXCEPT ![r] = w]
    BY <1>4, <2>1 DEF Go
  <2>4. /\ request' \in [Requests -> RequestRows] /\ request'[r] = w
        /\ \A q \in Requests \ {r} : request'[q] = request[q]
        /\ \A q \in Requests : RequestFits(q)'
    BY <2>2, <2>3, RequestChanges
  <2>5. /\ map' \in [Decks -> MapRows] /\ map'[d].status = "pending"
        /\ map'[d].graph = map[d].graph /\ map'[d].pdf = map[d].pdf
        /\ map'[d].key = map[d].key
        /\ \A e \in Decks \ {d} : map'[e] = map[e]
    BY <1>4 DEF IInv, Types, MapRows
  <2>6. deck[d] # "gone"
    BY <1>4 DEF Exists
  <2>7. \A e \in Decks : HasMap(e) => HasMap(e)'
    BY <2>5 DEF HasMap
  <2>8. \A e \in Decks : ~Making(r, e)' /\ ~Importing(r, e)'
    BY <2>2, <2>4 DEF Making, Importing
  <2> QED BY <1>2, <2>2, <2>4, <2>5, <2>6, <2>7, <2>8, RequestKeeps, MapsAreTyped
<1> QED BY <1>1, <1>3, <1>4 DEF CreateMap

\* What SetPdf does to the rows; it says "ready" only of what is in storage.
LEMMA SetPdfFacts ==
  ASSUME IInv, NEW r \in Requests, NEW d \in Decks, d = request[r].deck,
         NEW status \in {"processing", "ready", "failed"}, NEW key \in BOOLEAN,
         SetPdf(r, status, key),
         status = "ready" => key = TRUE /\ (deck[d] # "gone" => stored.pdf[d] # Nothing)
  PROVE  /\ map' \in [Decks -> MapRows]
         /\ \A e \in Decks : /\ map'[e].graph = map[e].graph
                             /\ map'[e].status = map[e].status
                             /\ HasMap(e)' = HasMap(e)
                             /\ map'[e].pdf = "ready" =>
                                  HasMap(e)' /\ map'[e].key /\ stored.pdf[e] # Nothing
<1>1. CASE ~HasMap(d)
  <2>1. map' = map
    BY <1>1 DEF SetPdf
  <2>2. \A e \in Decks : HasMap(e)' = HasMap(e)
    BY <2>1 DEF HasMap
  <2> QED BY <2>1, <2>2, MapsAreTyped
<1>2. CASE HasMap(d)
  <2>1. PICK p \in {"none", "processing", "ready", "failed"}, k \in BOOLEAN :
          /\ p = IF request[r].seen = status THEN map[d].pdf ELSE status
          /\ k = (map[d].key \/ key)
    BY DEF IInv, Types, MapRows
  <2>2. map' = [map EXCEPT ![d].pdf = p, ![d].key = k]
    BY <1>2, <2>1 DEF SetPdf
  <2>3. /\ map' \in [Decks -> MapRows] /\ map'[d].status = map[d].status
        /\ map'[d].graph = map[d].graph /\ map'[d].pdf = p /\ map'[d].key = k
        /\ \A e \in Decks \ {d} : map'[e] = map[e]
    <3>1. map \in [Decks -> MapRows]
      BY DEF IInv, Types
    <3>2. PICK w : w = [map[d] EXCEPT !.pdf = p]
      OBVIOUS
    <3>3. /\ w \in MapRows /\ w.status = map[d].status /\ w.graph = map[d].graph
          /\ w.pdf = p /\ w.key = map[d].key
      BY <2>1, <3>1, <3>2 DEF MapRows
    <3>4. PICK v : v = [w EXCEPT !.key = k]
      OBVIOUS
    <3>5. /\ v \in MapRows /\ v.status = map[d].status /\ v.graph = map[d].graph
          /\ v.pdf = p /\ v.key = k
      BY <2>1, <3>3, <3>4 DEF MapRows
    <3>6. map' = [map EXCEPT ![d] = v]
      BY <2>2, <3>1, <3>2, <3>4
    <3> QED BY <3>1, <3>5, <3>6
  <2>4. \A e \in Decks : HasMap(e)' = HasMap(e)
    BY <2>3 DEF HasMap
  <2>5. deck[d] # "gone"
    BY <1>2 DEF IInv, GoneIsUnused
  <2>6. p = "ready" => k = TRUE /\ stored.pdf[d] # Nothing
    <3>1. map[d].pdf = "ready" => map[d].key = TRUE /\ stored.pdf[d] # Nothing
      <4>1. map[d].key \in BOOLEAN
        BY DEF IInv, Types, MapRows
      <4> QED BY <4>1, MapsAreTyped
    <3>2. CASE p = map[d].pdf
      BY <2>1, <3>1, <3>2
    <3>3. CASE p = status
      BY <2>1, <2>5, <3>3
    <3> QED BY <2>1, <3>2, <3>3
  <2>7. ASSUME NEW e \in Decks, map'[e].pdf = "ready"
        PROVE  HasMap(e)' /\ map'[e].key /\ stored.pdf[e] # Nothing
    <3>1. CASE e = d
      BY <1>2, <2>3, <2>4, <2>6, <2>7, <3>1
    <3>2. CASE e # d
      BY <2>3, <2>4, <2>7, <3>2, MapsAreTyped
    <3> QED BY <3>1, <3>2
  <2> QED BY <2>3, <2>4, <2>7
<1> QED BY <1>1, <1>2

LEMMA StartPdfKeeps == ASSUME IInv, NEW r \in Requests, StartPdf(r) PROVE IInv'
<1>1. PICK d \in Decks : d = request[r].deck
  BY DEF StartPdf, At, IInv, Actors, RequestFits
<1>2. UNCHANGED <<deck, cards, upload, stored, worker, purge, lost>>
  BY DEF StartPdf
<1>3. SetPdf(r, "processing", FALSE)
  BY DEF StartPdf
<1>4. /\ map' \in [Decks -> MapRows]
      /\ \A e \in Decks : /\ map'[e].graph = map[e].graph
                          /\ map'[e].status = map[e].status
                          /\ HasMap(e)' = HasMap(e)
                          /\ map'[e].pdf = "ready" =>
                               HasMap(e)' /\ map'[e].key /\ stored.pdf[e] # Nothing
  BY <1>1, <1>3, SetPdfFacts
<1>5. PICK w : w = IF HasMap(d) THEN [request[r] EXCEPT !.pc = "read", !.seen = "none"]
                                ELSE NoRequest
  OBVIOUS
<1>6. /\ w \in RequestRows /\ w.pc \in {"idle", "read"}
      /\ w.pc = "read" => w.deck = d /\ HasMap(d)
  <2>1. request[r] \in RequestRows
    BY DEF IInv, Types
  <2> QED BY <1>1, <1>5, <2>1 DEF RequestRows, NoRequest
<1>7. request' = [request EXCEPT ![r] = w]
  BY <1>1, <1>5 DEF StartPdf
<1>8. /\ request' \in [Requests -> RequestRows] /\ request'[r] = w
      /\ \A q \in Requests \ {r} : request'[q] = request[q]
      /\ \A q \in Requests : RequestFits(q)'
  BY <1>6, <1>7, RequestChanges
<1>9. \A e \in Decks : /\ Making(r, e)' => Making(r, e) \/ deck[e] # "gone"
                       /\ ~Importing(r, e)'
  BY <1>6, <1>8 DEF Making, Importing, IInv, GoneIsUnused
<1> QED BY <1>2, <1>4, <1>6, <1>8, <1>9, RequestKeeps

LEMMA ReadTextKeeps == ASSUME IInv, NEW r \in Requests, ReadText(r) PROVE IInv'
<1>1. PICK d \in Decks : d = request[r].deck
  BY DEF ReadText, At, IInv, Actors, RequestFits
<1>2. UNCHANGED <<deck, cards, map, upload, stored, worker, purge, lost>>
  BY DEF ReadText, rows
<1>3. PICK text \in Texts, s \in {"none", "processing", "ready", "failed"} :
        text = SourceText(d) /\ s = map[d].pdf
  <2>1. SourceText(d) \in Texts
    BY <1>1 DEF ReadText, SourceText, IInv, Types, MapRows, Texts
  <2> QED BY <2>1 DEF IInv, Types, MapRows
<1>4. PICK w : w = [request[r] EXCEPT !.pc = "save", !.seen = s, !.text = text]
  OBVIOUS
<1>5. w \in RequestRows /\ w.pc = "save" /\ w.deck = d /\ w.text = text
  <2>1. request[r] \in RequestRows
    BY DEF IInv, Types
  <2> QED BY <1>1, <1>3, <1>4, <2>1 DEF RequestRows
<1>6. request' = [request EXCEPT ![r] = w] /\ request[r].pc = "read"
  BY <1>1, <1>3, <1>4 DEF ReadText, At
<1>7. text # Nothing
  BY <1>3, NothingIsApart DEF Texts
<1>8. /\ request' \in [Requests -> RequestRows] /\ request'[r] = w
      /\ \A q \in Requests \ {r} : request'[q] = request[q]
      /\ \A q \in Requests : RequestFits(q)'
  BY <1>5, <1>6, <1>7, RequestChanges
<1>9. \A e \in Decks : (Making(r, e)' => Making(r, e)) /\ ~Importing(r, e)'
  BY <1>1, <1>5, <1>6, <1>8 DEF Making, Importing
<1>10. \A e \in Decks : HasMap(e)' = HasMap(e)
  BY <1>2 DEF HasMap
<1> QED BY <1>2, <1>5, <1>8, <1>9, <1>10, RequestKeeps, MapsAreTyped

LEMMA FinishPdfKeeps == ASSUME IInv, NEW r \in Requests, FinishPdf(r) PROVE IInv'
<1>1. PICK d \in Decks : d = request[r].deck
  BY DEF FinishPdf, At, IInv, Actors, RequestFits
<1>2. Answered(r) /\ UNCHANGED <<deck, cards, upload, stored, worker, purge, lost>>
  BY DEF FinishPdf
<1>3. /\ map' \in [Decks -> MapRows]
      /\ \A e \in Decks : /\ map'[e].graph = map[e].graph
                          /\ map'[e].status = map[e].status
                          /\ HasMap(e)' = HasMap(e)
                          /\ map'[e].pdf = "ready" =>
                               HasMap(e)' /\ map'[e].key /\ stored.pdf[e] # Nothing
  <2>1. CASE At(r, "finish") /\ SetPdf(r, "ready", TRUE)
    <3>1. deck[d] # "gone" => stored.pdf[d] # Nothing
      BY <1>1, <2>1 DEF At, IInv, Offers, ReadyIsStored
    <3> QED BY <1>1, <2>1, <3>1, SetPdfFacts
  <2>2. CASE SetPdf(r, "failed", FALSE)
    BY <1>1, <2>2, SetPdfFacts
  <2> QED BY <2>1, <2>2 DEF FinishPdf
<1> QED BY <1>2, <1>3, AnsweredFacts, RequestKeeps

\* A late PDF is put where it is known to be lost.
LEMMA SavePdfKeeps == ASSUME IInv, NEW r \in Requests, SavePdf(r) PROVE IInv'
<1>1. PICK d \in Decks, text \in Texts : d = request[r].deck /\ text = request[r].text
  <2>1. RequestFits(r) /\ request[r].pc = "save" /\ request[r].text \in Texts \cup {Nothing}
    BY DEF SavePdf, At, IInv, Actors, Types, RequestRows
  <2> QED BY <2>1 DEF RequestFits
<1>2. text # Nothing /\ request[r].pc = "save"
  BY NothingIsApart DEF Texts, SavePdf, At
<1>3. UNCHANGED <<deck, cards, map, upload, worker, purge, lost>>
  BY DEF SavePdf, rows
<1>4. /\ stored' \in StoredObjects /\ stored'.media = stored.media
      /\ stored'.note = stored.note /\ stored'.pdf[d] = text
      /\ \A e \in Decks \ {d} : stored'.pdf[e] = stored.pdf[e]
  <2>1. stored' = [stored EXCEPT !.pdf[d] = text]
    BY <1>1 DEF SavePdf
  <2>2. PICK pdf : pdf = [stored.pdf EXCEPT ![d] = text]
    OBVIOUS
  <2>3. pdf \in [Decks -> Texts \cup {Nothing}] /\ pdf[d] = text
        /\ \A e \in Decks \ {d} : pdf[e] = stored.pdf[e]
    BY <2>2 DEF IInv, Types, StoredObjects
  <2>4. stored' = [stored EXCEPT !.pdf = pdf]
    BY <2>1, <2>2
  <2> QED BY <2>3, <2>4 DEF IInv, Types, StoredObjects
<1>5. PICK w : w = [request[r] EXCEPT !.pc = "finish", !.text = Nothing]
  OBVIOUS
<1>6. w \in RequestRows /\ w.pc = "finish" /\ w.deck = d
  <2>1. request[r] \in RequestRows
    BY DEF IInv, Types
  <2> QED BY <1>1, <1>5, <2>1 DEF RequestRows
<1>7. request' = [request EXCEPT ![r] = w]
  BY <1>5 DEF SavePdf
<1>8. /\ request' \in [Requests -> RequestRows] /\ request'[r] = w
      /\ \A q \in Requests \ {r} : request'[q] = request[q]
      /\ \A q \in Requests : RequestFits(q)'
  BY <1>6, <1>7, RequestChanges
<1>9. \A q \in Requests, e \in Decks : /\ Making(q, e)' => Making(q, e)
                                       /\ Importing(q, e)' => Importing(q, e)
  BY <1>1, <1>2, <1>6, <1>8 DEF Making, Importing
<1>10. deck[d] = "gone" => d \in lost.pdf
  BY <1>1, <1>2 DEF IInv, Objects, LateIsLost, Making
<1>11. Types'
  BY <1>3, <1>4, <1>8 DEF IInv, Types
<1>12. Actors'
  BY <1>3, <1>8 DEF IInv, Actors, WorkerFits, PurgeFits, HasRows, Active
<1>13. GoneIsUnused'
  BY <1>3 DEF IInv, GoneIsUnused, HasRows, HasMap
<1>14. Objects'
  <2>1. KeyIsKnown'
    BY <1>3, <1>4, <1>10 DEF IInv, Objects, KeyIsKnown, Actors, PurgeFits
  <2>2. LateIsLost'
    <3> SUFFICES ASSUME NEW q \in Requests, NEW e \in Decks, deck'[e] = "gone"
                 PROVE  /\ Making(q, e)' => e \in lost'.pdf
                        /\ Importing(q, e)' => \/ purge'.pc = "objects" /\ purge'.deck = e
                                              \/ e \in lost'.media
      BY DEF LateIsLost
    <3>1. /\ Making(q, e) => e \in lost.pdf
          /\ Importing(q, e) => \/ purge.pc = "objects" /\ purge.deck = e
                                \/ e \in lost.media
      BY <1>3 DEF IInv, Objects, LateIsLost
    <3> QED BY <1>3, <1>9, <3>1
  <2>3. \A e \in Decks : LeftBehind(e)'
    BY <1>3, <1>4, <1>10 DEF IInv, Objects, LeftBehind
  <2> QED BY <2>1, <2>2, <2>3 DEF Objects
<1>15. Offers'
  <2>1. ASSUME NEW e \in Decks PROVE ReadyIsStored(e)'
    <3>1. ReadyIsStored(e)
      BY DEF IInv, Offers
    <3>2. CASE e = d
      BY <1>2, <1>3, <1>4, <3>1, <3>2 DEF ReadyIsStored, HasMap
    <3>3. CASE e # d
      BY <1>3, <1>4, <1>6, <1>8, <3>1, <3>3 DEF ReadyIsStored, HasMap
    <3> QED BY <3>2, <3>3
  <2>2. \A u \in Uploads : NoteIsStored(u)'
    BY <1>3, <1>4 DEF IInv, Offers, NoteIsStored, HasRows, Works
  <2> QED BY <2>1, <2>2 DEF Offers
<1>16. Drawing'
  BY <1>3, DrawingStays DEF IInv
<1> QED BY <1>11, <1>12, <1>13, <1>14, <1>15, <1>16 DEF IInv

-----------------------------------------------------------------------------
(* An import.                                                                *)

LEMMA AskImportKeeps ==
  ASSUME IInv, NEW r \in Requests, NEW d \in Decks, AskImport(r, d) PROVE IInv'
<1>1. PICK w : w = [NoRequest EXCEPT !.pc = "store", !.deck = d]
  OBVIOUS
<1>2. w \in RequestRows /\ w.pc = "store" /\ w.deck = d
  BY <1>1 DEF NoRequest, RequestRows
<1>3. request' = [request EXCEPT ![r] = w] /\ deck[d] # "gone"
  BY <1>1 DEF AskImport, Live
<1>4. /\ request' \in [Requests -> RequestRows] /\ request'[r] = w
      /\ \A q \in Requests \ {r} : request'[q] = request[q]
      /\ \A q \in Requests : RequestFits(q)'
  BY <1>2, <1>3, RequestChanges
<1>5. UNCHANGED <<deck, cards, map, upload, stored, worker, purge, lost>>
  BY DEF AskImport, rows
<1>6. \A e \in Decks : ~Making(r, e)' /\ (Importing(r, e)' => deck[e] # "gone")
  BY <1>2, <1>3, <1>4 DEF Making, Importing
<1>7. \A e \in Decks : HasMap(e)' = HasMap(e)
  BY <1>5 DEF HasMap
<1> QED BY <1>2, <1>4, <1>5, <1>6, <1>7, RequestKeeps, MapsAreTyped

\* Media that come late are those of a deck that is known to keep them.
LEMMA StoreMediaKeeps == ASSUME IInv, NEW r \in Requests, StoreMedia(r) PROVE IInv'
<1>1. PICK d \in Decks : d = request[r].deck
  BY DEF StoreMedia, At, IInv, Actors, RequestFits
<1>2. /\ Importing(r, d) /\ request[r].pc = "store"
      /\ UNCHANGED <<deck, cards, map, upload, worker, purge, lost>>
  BY <1>1 DEF StoreMedia, At, Importing, rows
<1>3. PICK media \in SUBSET Decks :
        /\ media = stored.media \/ media = stored.media \cup {d}
        /\ stored' = [stored EXCEPT !.media = media]
  <2>1. stored \in StoredObjects
    BY DEF IInv, Types
  <2>2. stored = [stored EXCEPT !.media = stored.media] /\ stored.media \in SUBSET Decks
    BY <2>1 DEF StoredObjects
  <2> QED BY <1>1, <2>2 DEF StoreMedia
<1>4. /\ stored' \in StoredObjects /\ stored'.media = media
      /\ stored'.pdf = stored.pdf /\ stored'.note = stored.note
  BY <1>3 DEF IInv, Types, StoredObjects
<1>5. PICK w : w = [request[r] EXCEPT !.pc = "cards"]
  OBVIOUS
<1>6. w \in RequestRows /\ w.pc = "cards" /\ w.deck = d
  BY <1>1, <1>5 DEF IInv, Types, RequestRows
<1>7. request' = [request EXCEPT ![r] = w]
  BY <1>5 DEF StoreMedia, Go
<1>8. /\ request' \in [Requests -> RequestRows] /\ request'[r] = w
      /\ \A q \in Requests \ {r} : request'[q] = request[q]
      /\ \A q \in Requests : RequestFits(q)'
  BY <1>6, <1>7, RequestChanges
<1>9. \A q \in Requests, e \in Decks : /\ Making(q, e)' => Making(q, e)
                                       /\ Importing(q, e)' => Importing(q, e)
  BY <1>6, <1>8 DEF Making, Importing
<1>10. deck[d] = "gone" => \/ purge.pc = "objects" /\ purge.deck = d
                           \/ d \in lost.media
  BY <1>2 DEF IInv, Objects, LateIsLost
<1>11. Types'
  BY <1>2, <1>4, <1>8 DEF IInv, Types
<1>12. Actors'
  BY <1>2, <1>8 DEF IInv, Actors, WorkerFits, PurgeFits, HasRows, Active
<1>13. GoneIsUnused'
  BY <1>2 DEF IInv, GoneIsUnused, HasRows, HasMap
<1>14. Objects'
  <2>1. KeyIsKnown'
    BY <1>2, <1>4 DEF IInv, Objects, KeyIsKnown
  <2>2. LateIsLost'
    <3> SUFFICES ASSUME NEW q \in Requests, NEW e \in Decks, deck'[e] = "gone"
                 PROVE  /\ Making(q, e)' => e \in lost'.pdf
                        /\ Importing(q, e)' => \/ purge'.pc = "objects" /\ purge'.deck = e
                                              \/ e \in lost'.media
      BY DEF LateIsLost
    <3>1. /\ Making(q, e) => e \in lost.pdf
          /\ Importing(q, e) => \/ purge.pc = "objects" /\ purge.deck = e
                                \/ e \in lost.media
      BY <1>2 DEF IInv, Objects, LateIsLost
    <3> QED BY <1>2, <1>9, <3>1
  <2>3. \A e \in Decks : LeftBehind(e)'
    BY <1>2, <1>3, <1>4, <1>10 DEF IInv, Objects, LeftBehind
  <2> QED BY <2>1, <2>2, <2>3 DEF Objects
<1>15. Offers'
  <2>1. ASSUME NEW e \in Decks PROVE ReadyIsStored(e)'
    <3>1. ReadyIsStored(e)
      BY DEF IInv, Offers
    <3> QED BY <1>2, <1>4, <1>6, <1>8, <3>1 DEF ReadyIsStored, HasMap
  <2>2. \A u \in Uploads : NoteIsStored(u)'
    BY <1>2, <1>4 DEF IInv, Offers, NoteIsStored, HasRows, Works
  <2> QED BY <2>1, <2>2 DEF Offers
<1>16. Drawing'
  BY <1>2, DrawingStays DEF IInv
<1> QED BY <1>11, <1>12, <1>13, <1>14, <1>15, <1>16 DEF IInv

LEMMA ImportCardsKeeps == ASSUME IInv, NEW r \in Requests, ImportCards(r) PROVE IInv'
<1>1. PICK d \in Decks : d = request[r].deck
  BY DEF ImportCards, At, IInv, Actors, RequestFits
<1>2. Answered(r) /\ UNCHANGED <<deck, map, upload, stored, worker, purge, lost>>
  BY DEF ImportCards
<1>3. /\ request' \in [Requests -> RequestRows] /\ request'[r].pc = "idle"
      /\ \A q \in Requests \ {r} : request'[q] = request[q]
  BY <1>2, AnsweredFacts
<1>4. CASE Exists(d) /\ cards' = [cards EXCEPT ![d] = Hand]
  <2>1. deck[d] # "gone"
    BY <1>4 DEF Exists
  <2> QED BY <1>2, <1>3, <1>4, <2>1, HandKeeps
<1>5. CASE cards' = cards
  <2>1. \A e \in Decks : HasMap(e)' = HasMap(e)
    BY <1>2 DEF HasMap
  <2> QED BY <1>2, <1>5, <2>1, AnsweredFacts, RequestKeeps, MapsAreTyped
<1> QED BY <1>1, <1>4, <1>5 DEF ImportCards

-----------------------------------------------------------------------------
(* The worker.                                                               *)

\* What a step of the worker that works on u makes of its row.
RowBecomes(u, r) == upload' = [upload EXCEPT ![u] = r]

LEMMA RowBecomesFacts ==
  ASSUME IInv, NEW u \in Uploads, NEW r \in UploadRows, RowBecomes(u, r)
  PROVE  /\ upload' \in [Uploads -> UploadRows] /\ upload'[u] = r
         /\ \A v \in Uploads \ {u} : upload'[v] = upload[v]
BY OneChanges DEF RowBecomes, IInv, Types

LEMMA WorkFacts ==
  ASSUME NEW u \in Uploads, NEW p \in WorkerPlaces, Work(u, p) \/ worker' = NoWork
  PROVE  /\ worker' \in WorkerRecord
         /\ Work(u, p) => worker'.upload = u /\ worker'.pc = p
         /\ worker' = NoWork => worker'.pc = "idle"
<1>1. CASE Work(u, p)
  <2>1. PICK w : w = [NoWork EXCEPT !.upload = u, !.pc = p]
    OBVIOUS
  <2>2. w \in WorkerRecord /\ w.upload = u /\ w.pc = p
    BY <2>1 DEF NoWork, WorkerRecord
  <2>3. worker' = w
    BY <1>1, <2>1 DEF Work
  <2> QED BY <2>2, <2>3 DEF NoWork
<1>2. CASE worker' = NoWork /\ ~Work(u, p)
  BY <1>2 DEF NoWork, WorkerRecord, WorkerPlaces
<1> QED BY <1>1, <1>2

\* The worker is done with its upload, or never had one.
LEMMA IdleKeeps ==
  ASSUME IInv, UNCHANGED <<rows, stored, request, purge>>, worker' = NoWork,
         lost' \in LostRecord, lost'.pdf = lost.pdf, lost'.media = lost.media,
         \A d \in Decks : d \in lost.map => d \in lost'.map,
         worker.pc \in {"note", "map", "write"} =>
           \A d \in Decks : upload[worker.upload].into = d => d \in lost'.map
  PROVE  IInv'
<1> USE DEF rows
<1>1. worker' \in WorkerRecord /\ worker'.pc = "idle"
  BY DEF NoWork, WorkerRecord, WorkerPlaces
<1>2. Types'
  BY <1>1 DEF IInv, Types
<1>3. WorkerFits'
  BY <1>1 DEF WorkerFits, AtUpload
<1>4. KeepsOwners
  BY DEF KeepsOwners, HasRows
<1>5. \A d \in Decks : HasMap(d)' = HasMap(d)
  BY DEF HasMap
<1>6. Actors' /\ GoneIsUnused' /\ Objects'
  BY <1>3, <1>4, <1>5, WorkStays
<1>7. Offers'
  BY <1>1 DEF IInv, Offers, ReadyIsStored, NoteIsStored, HasMap, HasRows, Works
<1>8. ASSUME NEW d \in Decks PROVE CardsFit(d)' /\ MapIsDue(d)'
  <2>1. CardsFit(d) /\ MapIsDue(d)
    BY DEF IInv, Drawing
  <2>2. CardsFit(d)'
    BY <1>1, <2>1 DEF CardsFit, HasRows
  <2>3. MapIsDue(d)'
    <3>1. CASE cards[d] \in Uploads /\ upload[cards[d]].file = "completed"
      <4>1. upload[cards[d]].into = d
        BY <2>1, <3>1 DEF CardsFit, HasRows
      <4> QED BY <2>1, <3>1, <4>1 DEF MapIsDue
    <3>2. CASE ~(cards[d] \in Uploads /\ upload[cards[d]].file = "completed")
      BY <3>2 DEF MapIsDue
    <3> QED BY <3>1, <3>2
  <2> QED BY <2>2, <2>3
<1> QED BY <1>2, <1>6, <1>7, <1>8 DEF IInv, Drawing

LEMMA MapLostFacts ==
  ASSUME IInv, NEW u \in Uploads, lost' = MapLost(u)
  PROVE  /\ lost' \in LostRecord /\ lost'.pdf = lost.pdf
         /\ lost'.media = lost.media
         /\ \A d \in Decks : d \in lost.map => d \in lost'.map
         /\ \A d \in Decks : upload[u].into = d => d \in lost'.map
<1>1. PICK ds \in SUBSET Decks : ds = {upload[u].into} \ {Nothing}
  BY DEF IInv, Types, UploadRows
<1>2. lost' = [lost EXCEPT !.map = @ \cup ds]
  BY <1>1 DEF MapLost
<1> QED BY <1>1, <1>2, NothingIsApart DEF IInv, Types, LostRecord

LEMMA WorkerDiesKeeps == ASSUME IInv, WorkerDies PROVE IInv'
<1>1. CASE worker.pc \in {"note", "map", "write"}
  <2>1. PICK u \in Uploads : u = worker.upload
    BY <1>1 DEF IInv, Actors, WorkerFits
  <2>2. lost' = MapLost(u)
    BY <1>1, <2>1 DEF WorkerDies
  <2> QED BY <2>1, <2>2, MapLostFacts, IdleKeeps DEF WorkerDies
<1>2. CASE worker.pc \notin {"note", "map", "write"}
  <2>1. lost' = lost
    BY <1>2 DEF WorkerDies
  <2> QED BY <1>2, <2>1, IdleKeeps DEF WorkerDies, IInv, Types
<1> QED BY <1>1, <1>2

\* The same row, but for its statuses.
SameOwner(u, r) ==
  /\ r.target = upload[u].target /\ r.into = upload[u].into
  /\ r.file \in {"none", "sending", "gone"} \/ upload[u].file \in {"none", "sending", "gone"}
       => r.file = upload[u].file

\* A step of the worker's that works on u or takes it up.
LEMMA WorkerKeeps ==
  ASSUME IInv, NEW u \in Uploads, NEW r \in UploadRows,
         upload' \in [Uploads -> UploadRows], upload'[u] = r,
         \A v \in Uploads \ {u} : upload'[v] = upload[v],
         SameOwner(u, r),
         worker.pc = "idle" \/ worker.upload = u,
         worker' \in WorkerRecord, worker'.pc # "idle" => worker'.upload = u,
         WorkerFits',
         UNCHANGED <<deck, request, purge>>,
         stored' \in StoredObjects, stored'.pdf = stored.pdf, stored'.media = stored.media,
         stored.note \subseteq stored'.note, NoteIsStored(u)',
         lost' \in LostRecord, lost'.pdf = lost.pdf, lost'.media = lost.media,
         map' \in [Decks -> MapRows],
         \A d \in Decks : map'[d] = map[d] \/ (/\ upload[u].into = d /\ HasRows(u)
                                               /\ map'[d].pdf = map[d].pdf
                                               /\ map'[d].key = map[d].key /\ HasMap(d)'),
         cards' \in [Decks -> Texts \cup {Nothing}],
         \A d \in Decks : cards'[d] = cards[d] \/ (/\ upload[u].into = d /\ HasRows(u)
                                                   /\ cards'[d] \in {u, Nothing}),
         HasRows(u) /\ worker'.pc \in {"fill", "note", "map", "write"} =>
           \A d \in Decks : upload[u].into = d => cards'[d] \in {u, Hand, Nothing},
         \A d \in Decks :
           cards'[d] \in Uploads /\ cards'[d] # u =>
             map'[d].graph = map[d].graph /\ (d \in lost'.map <=> d \in lost.map),
         \A d \in Decks :
           cards'[d] = u /\ r.file = "completed" /\ d \notin lost'.map =>
             map'[d].graph \in {u, Nothing} \/ worker'.pc \in {"note", "map", "write"}
  PROVE  IInv'
<1>1. Types'
  BY DEF IInv, Types
<1>2. KeepsOwners
  BY DEF KeepsOwners, SameOwner, HasRows
<1>3. ASSUME NEW d \in Decks, deck[d] = "gone"
      PROVE  cards'[d] = cards[d] /\ HasMap(d)' = HasMap(d)
  <2>1. ~(upload[u].into = d /\ HasRows(u))
    BY <1>3 DEF IInv, GoneIsUnused
  <2>2. cards'[d] = cards[d] /\ map'[d] = map[d]
    BY <2>1
  <2> QED BY <2>2 DEF HasMap
<1>4. Actors' /\ GoneIsUnused' /\ Objects'
  BY <1>2, <1>3, WorkStays
<1>5. Offers'
  <2>1. ASSUME NEW d \in Decks PROVE ReadyIsStored(d)'
    <3>1. ReadyIsStored(d)
      BY DEF IInv, Offers
    <3>2. map'[d].pdf = map[d].pdf /\ map'[d].key = map[d].key
      OBVIOUS
    <3>3. HasMap(d) => HasMap(d)'
      BY DEF HasMap
    <3> QED BY <3>1, <3>2, <3>3 DEF ReadyIsStored
  <2>2. ASSUME NEW v \in Uploads PROVE NoteIsStored(v)'
    <3>1. NoteIsStored(v)
      BY DEF IInv, Offers
    <3> QED BY <3>1 DEF NoteIsStored, HasRows, Works
  <2> QED BY <2>1, <2>2 DEF Offers
<1>6. ASSUME NEW d \in Decks PROVE CardsFit(d)' /\ MapIsDue(d)'
  <2>1. CardsFit(d) /\ MapIsDue(d)
    BY DEF IInv, Drawing
  <2>2. cards'[d] \in Uploads => upload'[cards'[d]].file \notin {"none", "sending"}
    BY <2>1, NothingIsApart DEF CardsFit, SameOwner, HasRows
  <2>3. ASSUME cards'[d] \in Uploads, upload'[cards'[d]].file \notin {"none", "sending", "gone"}
        PROVE  upload'[cards'[d]].into = d
    BY <2>1, <2>3, NothingIsApart DEF CardsFit, SameOwner, HasRows
  <2>4. CardsFit(d)'
    BY <2>2, <2>3, <1>2 DEF CardsFit, HasRows, SameOwner
  <2>5. MapIsDue(d)'
    <3>1. CASE cards'[d] \in Uploads /\ cards'[d] # u
      <4>1. cards'[d] = cards[d] /\ upload'[cards[d]] = upload[cards[d]]
        BY <3>1, NothingIsApart
      <4> QED BY <2>1, <3>1, <4>1 DEF MapIsDue
    <3>2. CASE cards'[d] = u
      BY <3>2 DEF MapIsDue
    <3>3. CASE cards'[d] \notin Uploads
      BY <3>3 DEF MapIsDue
    <3> QED BY <3>1, <3>2, <3>3
  <2> QED BY <2>4, <2>5
<1> QED BY <1>1, <1>4, <1>5, <1>6 DEF IInv, Drawing

\* Most steps only change statuses and where the worker is: a file that becomes
\* completed is one whose map is still to come.
LEMMA StatusesKeep ==
  ASSUME IInv, NEW u \in Uploads, NEW r \in UploadRows, upload' = [upload EXCEPT ![u] = r],
         SameOwner(u, r),
         worker.pc = "idle" \/ worker.upload = u,
         worker' \in WorkerRecord, worker'.pc # "idle" => worker'.upload = u,
         WorkerFits', NoteIsStored(u)',
         UNCHANGED <<deck, cards, map, stored, request, purge, lost>>,
         worker'.pc \in {"fill", "note", "map", "write"} =>
           worker.upload = u /\ worker.pc \in {"fill", "note", "map", "write"},
         worker.pc \in {"note", "map", "write"} => worker'.pc \in {"note", "map", "write"},
         r.file = "completed" => \/ upload[u].file = "completed"
                                 \/ worker'.pc \in {"note", "map", "write"}
  PROVE  IInv'
<1>1. /\ upload' \in [Uploads -> UploadRows] /\ upload'[u] = r
      /\ \A v \in Uploads \ {u} : upload'[v] = upload[v]
  BY RowBecomesFacts DEF RowBecomes
<1>2. HasRows(u) /\ worker'.pc \in {"fill", "note", "map", "write"} =>
        \A d \in Decks : upload[u].into = d => cards'[d] \in {u, Hand, Nothing}
  BY DEF IInv, Drawing, CardsFit
<1>3. ASSUME NEW d \in Decks, cards'[d] = u, r.file = "completed", d \notin lost'.map
      PROVE  map'[d].graph \in {u, Nothing} \/ worker'.pc \in {"note", "map", "write"}
  BY <1>3 DEF IInv, Drawing, MapIsDue
<1> QED BY <1>1, <1>2, <1>3, WorkerKeeps DEF IInv, Types

\* The worker works on u, whose job is active if it has rows.
LEMMA WorksFacts ==
  ASSUME IInv, NEW u \in Uploads, NEW p \in AtUpload, Works(u, p)
  PROVE  /\ worker.upload = u /\ worker.pc = p
         /\ upload[u].file \notin {"none", "sending"}
         /\ HasRows(u) =>
              /\ Active(u)
              /\ p \in {"clear", "fill"} => upload[u].file = "processing"
              /\ p \in {"note", "map", "write"} => upload[u].file \in {"processing", "completed"}
              /\ p = "end" => upload[u].file \in {"completed", "failed"}
BY DEF Works, IInv, Actors, WorkerFits, AtUpload

LEMMA WorkerWaits ==
  ASSUME IInv, worker = NoWork
  PROVE  worker.pc = "idle"
BY DEF NoWork

LEMMA LoseSessionKeeps ==
  ASSUME IInv, LoseSession, worker.pc \notin {"note", "map", "write"},
         UNCHANGED <<stored, request, purge, lost>>
  PROVE  IInv'
BY IdleKeeps DEF LoseSession, IInv, Types

LEMMA ClaimKeeps == ASSUME IInv, NEW u \in Uploads, Claim(u) PROVE IInv'
<1>1. /\ worker.pc = "idle" /\ Active(u) /\ HasRows(u)
      /\ upload[u] \in UploadRows /\ NoteIsStored(u)
      /\ UNCHANGED <<deck, cards, map, stored, request, purge, lost>>
  BY WorkerWaits DEF Claim, IInv, Types, Offers
<1>2. PICK r : r = IF upload[u].file \in {"pending", "processing"}
                   THEN [upload[u] EXCEPT !.job = "running", !.file = "processing"]
                   ELSE [upload[u] EXCEPT !.job = "running"]
  OBVIOUS
<1>3. /\ r \in UploadRows /\ r.job = "running"
      /\ r.file = IF upload[u].file \in {"pending", "processing"} THEN "processing"
                                                                  ELSE upload[u].file
      /\ r.target = upload[u].target /\ r.into = upload[u].into
      /\ r.note = upload[u].note /\ r.noteJob = upload[u].noteJob
  BY <1>1, <1>2 DEF UploadRows
<1>4. upload' = [upload EXCEPT ![u] = r]
  BY <1>2 DEF Claim
<1>5. PICK p \in {"clear", "end"} :
        p = (IF upload[u].file \in {"pending", "processing"} THEN "clear" ELSE "end")
        /\ Work(u, p)
  BY DEF Claim
<1>6. worker' \in WorkerRecord /\ worker'.upload = u /\ worker'.pc = p
  BY <1>5, WorkFacts DEF WorkerPlaces
<1>7. SameOwner(u, r)
  BY <1>1, <1>3 DEF SameOwner, HasRows
<1>8. upload'[u] = r
  BY <1>3, <1>4, RowBecomesFacts DEF RowBecomes
<1>9. WorkerFits'
  BY <1>1, <1>3, <1>5, <1>6, <1>8 DEF WorkerFits, AtUpload, HasRows, Active, UploadRows
<1>10. NoteIsStored(u)'
  BY <1>1, <1>3, <1>6, <1>8, <1>5 DEF NoteIsStored, HasRows, Works
<1> QED BY <1>1, <1>3, <1>4, <1>5, <1>6, <1>7, <1>9, <1>10, StatusesKeep

\* A file that failed.
LEMMA FileFailsFacts ==
  ASSUME IInv, NEW u \in Uploads, worker.upload = u, worker.pc \in {"clear", "fill"},
         HasRows(u), FileFails(u), stored' = stored
  PROVE  \E r \in UploadRows :
           /\ RowBecomes(u, r) /\ r.file = "failed" /\ SameOwner(u, r)
           /\ worker' \in WorkerRecord /\ worker'.upload = u /\ worker'.pc = "end"
           /\ WorkerFits' /\ NoteIsStored(u)' /\ UNCHANGED <<deck, map>>
<1>1. upload[u] \in UploadRows /\ NoteIsStored(u) /\ Active(u)
  BY DEF IInv, Types, Offers, Actors, WorkerFits, AtUpload
<1>2. PICK r : r = [upload[u] EXCEPT !.file = "failed"]
  OBVIOUS
<1>3. /\ r \in UploadRows /\ r.file = "failed" /\ r.job = upload[u].job
      /\ r.target = upload[u].target /\ r.into = upload[u].into
      /\ r.note = upload[u].note /\ r.noteJob = upload[u].noteJob
  BY <1>1, <1>2 DEF UploadRows
<1>4. RowBecomes(u, r)
  BY <1>2 DEF FileFails, RowBecomes
<1>5. upload'[u] = r
  BY <1>3, <1>4, RowBecomesFacts
<1>6. worker' \in WorkerRecord /\ worker'.upload = u /\ worker'.pc = "end"
  BY WorkFacts DEF FileFails, WorkerPlaces
<1>7. SameOwner(u, r)
  BY <1>3 DEF SameOwner, HasRows
<1>8. WorkerFits'
  BY <1>1, <1>3, <1>5, <1>6 DEF WorkerFits, AtUpload, Active
<1>9. NoteIsStored(u)'
  BY <1>1, <1>3, <1>5, <1>6 DEF NoteIsStored, HasRows, Works
<1> QED BY <1>3, <1>4, <1>6, <1>7, <1>8, <1>9 DEF FileFails

\* The worker goes on with the rows as they are.
LEMMA GoesOnFacts ==
  ASSUME IInv, NEW u \in Uploads, NEW p \in {"fill", "note", "write"},
         worker.upload = u, worker.pc \in AtUpload,
         p \in {"fill", "note"} => worker.pc \in {"clear", "fill"},
         p = "write" => worker.pc = "map",
         worker' \in WorkerRecord, worker'.upload = u, worker'.pc = p,
         upload' = upload, stored' = stored
  PROVE  /\ RowBecomes(u, upload[u]) /\ upload[u] \in UploadRows /\ SameOwner(u, upload[u])
         /\ WorkerFits' /\ NoteIsStored(u)'
<1>1. RowBecomes(u, upload[u]) /\ upload[u] \in UploadRows
  BY DEF RowBecomes, IInv, Types
<1>2. WorkerFits'
  BY DEF IInv, Actors, WorkerFits, AtUpload, HasRows, Active
<1>3. NoteIsStored(u)'
  BY DEF IInv, Offers, NoteIsStored, HasRows, Works
<1> QED BY <1>1, <1>2, <1>3 DEF SameOwner

LEMMA ClearDeckKeeps == ASSUME IInv, NEW u \in Uploads, ClearDeck(u) PROVE IInv'
<1>1. /\ worker.upload = u /\ worker.pc = "clear"
      /\ HasRows(u) => upload[u].file = "processing"
      /\ UNCHANGED <<stored, request, purge, lost>>
  BY WorksFacts DEF ClearDeck, AtUpload
<1>2. CASE FileFails(u) /\ cards' = cards
  <2>1. HasRows(u)
    BY <1>2 DEF FileFails
  <2>2. PICK r \in UploadRows :
           /\ RowBecomes(u, r) /\ r.file = "failed" /\ SameOwner(u, r)
           /\ worker' \in WorkerRecord /\ worker'.upload = u /\ worker'.pc = "end"
           /\ WorkerFits' /\ NoteIsStored(u)' /\ UNCHANGED <<deck, map>>
    BY <1>1, <1>2, <2>1, FileFailsFacts
  <2> QED BY <1>1, <1>2, <2>2, StatusesKeep DEF RowBecomes
<1>3. CASE Filed(u) /\ cards' = [cards EXCEPT ![upload[u].into] = Nothing]
           /\ Work(u, "fill") /\ UNCHANGED <<deck, map, upload>>
  <2>1. PICK d \in Decks : d = upload[u].into
    BY <1>3 DEF Filed, IInv, Types, UploadRows
  <2>2. /\ cards' \in [Decks -> Texts \cup {Nothing}] /\ cards'[d] = Nothing
        /\ \A e \in Decks \ {d} : cards'[e] = cards[e]
    BY <1>3, <2>1 DEF IInv, Types
  <2>3. worker' \in WorkerRecord /\ worker'.upload = u /\ worker'.pc = "fill"
    BY <1>3, WorkFacts DEF WorkerPlaces
  <2>4. /\ RowBecomes(u, upload[u]) /\ upload[u] \in UploadRows /\ SameOwner(u, upload[u])
        /\ WorkerFits' /\ NoteIsStored(u)'
    BY <1>1, <1>3, <2>3, GoesOnFacts DEF AtUpload
  <2>5. upload[u].file = "processing"
    BY <1>1, <1>3 DEF Filed
  <2> QED BY <1>1, <1>3, <2>1, <2>2, <2>3, <2>4, <2>5, WorkerKeeps, NothingIsApart
          DEF Filed, IInv, Types
<1>4. CASE LoseSession
  BY <1>1, <1>4, LoseSessionKeeps
<1> QED BY <1>2, <1>3, <1>4 DEF ClearDeck

LEMMA FilledFacts ==
  ASSUME IInv, NEW u \in Uploads, Filled(u)
  PROVE  /\ HasRows(u) /\ cards' \in [Decks -> Texts \cup {Nothing}]
         /\ \A d \in Decks : cards'[d] = IF upload[u].into = d THEN u ELSE cards[d]
<1>1. PICK d \in Decks : d = upload[u].into
  BY DEF Filled, Filed, IInv, Types, UploadRows
<1> QED BY <1>1 DEF Filled, Filed, Texts, IInv, Types

LEMMA FillDeckKeeps == ASSUME IInv, NEW u \in Uploads, FillDeck(u) PROVE IInv'
<1>1. /\ worker.upload = u /\ worker.pc = "fill"
      /\ HasRows(u) => upload[u].file = "processing"
      /\ UNCHANGED <<stored, request, purge, lost>>
  BY WorksFacts DEF FillDeck, AtUpload
<1>2. CASE FileFails(u) /\ (cards' = cards \/ Filled(u))
  <2>1. HasRows(u)
    BY <1>2 DEF FileFails
  <2>2. PICK r \in UploadRows :
           /\ RowBecomes(u, r) /\ r.file = "failed" /\ SameOwner(u, r)
           /\ worker' \in WorkerRecord /\ worker'.upload = u /\ worker'.pc = "end"
           /\ WorkerFits' /\ NoteIsStored(u)' /\ UNCHANGED <<deck, map>>
    BY <1>1, <1>2, <2>1, FileFailsFacts
  <2>3. CASE cards' = cards
    BY <1>1, <2>2, <2>3, StatusesKeep DEF RowBecomes
  <2>4. CASE Filled(u)
    <3>1. /\ upload' \in [Uploads -> UploadRows] /\ upload'[u] = r
          /\ \A v \in Uploads \ {u} : upload'[v] = upload[v]
      BY <2>2, RowBecomesFacts
    <3>2. /\ HasRows(u) /\ cards' \in [Decks -> Texts \cup {Nothing}]
          /\ \A d \in Decks : cards'[d] = IF upload[u].into = d THEN u ELSE cards[d]
      BY <2>4, FilledFacts
    <3> QED BY <1>1, <2>2, <3>1, <3>2, WorkerKeeps DEF IInv, Types
  <2> QED BY <1>2, <2>3, <2>4
<1>3. CASE Filled(u) /\ Work(u, "note") /\ UNCHANGED <<deck, map, upload>>
  <2>1. worker' \in WorkerRecord /\ worker'.upload = u /\ worker'.pc = "note"
    BY <1>3, WorkFacts DEF WorkerPlaces
  <2>2. /\ RowBecomes(u, upload[u]) /\ upload[u] \in UploadRows /\ SameOwner(u, upload[u])
        /\ WorkerFits' /\ NoteIsStored(u)'
    BY <1>1, <1>3, <2>1, GoesOnFacts DEF AtUpload
  <2>3. /\ HasRows(u) /\ cards' \in [Decks -> Texts \cup {Nothing}]
        /\ \A d \in Decks : cards'[d] = IF upload[u].into = d THEN u ELSE cards[d]
    BY <1>3, FilledFacts
  <2>4. upload[u].file = "processing"
    BY <1>1, <2>3
  <2> QED BY <1>1, <1>3, <2>1, <2>2, <2>3, <2>4, WorkerKeeps DEF IInv, Types
<1>4. CASE LoseSession
  BY <1>1, <1>4, LoseSessionKeeps
<1> QED BY <1>2, <1>3, <1>4 DEF FillDeck

LEMMA CompletePartialKeeps == ASSUME IInv, NEW u \in Uploads, CompletePartial(u) PROVE IInv'
<1>1. /\ worker.upload = u /\ worker.pc = "note" /\ HasRows(u) /\ Active(u)
      /\ UNCHANGED <<deck, cards, map, stored, worker, request, purge, lost>>
  BY WorksFacts DEF CompletePartial, AtUpload, HasRows
<1>2. upload[u] \in UploadRows /\ NoteIsStored(u) /\ worker \in WorkerRecord
  BY DEF IInv, Types, Offers
<1>3. PICK r : r = [upload[u] EXCEPT !.file = "completed"]
  OBVIOUS
<1>4. /\ r \in UploadRows /\ r.file = "completed" /\ r.job = upload[u].job
      /\ r.target = upload[u].target /\ r.into = upload[u].into
      /\ r.note = upload[u].note /\ r.noteJob = upload[u].noteJob
  BY <1>2, <1>3 DEF UploadRows
<1>5. upload' = [upload EXCEPT ![u] = r]
  BY <1>3 DEF CompletePartial
<1>6. upload'[u] = r
  BY <1>4, <1>5, RowBecomesFacts DEF RowBecomes
<1>7. SameOwner(u, r)
  BY <1>1, <1>4 DEF SameOwner, HasRows
<1>8. WorkerFits'
  BY <1>1, <1>4, <1>6 DEF WorkerFits, AtUpload, Active, HasRows
<1>9. NoteIsStored(u)'
  BY <1>1, <1>2, <1>4, <1>6 DEF NoteIsStored, HasRows, Works
<1> QED BY <1>1, <1>2, <1>4, <1>5, <1>7, <1>8, <1>9, StatusesKeep

LEMMA EnqueueNoteKeeps == ASSUME IInv, NEW u \in Uploads, EnqueueNote(u) PROVE IInv'
<1>1. /\ worker.upload = u /\ worker.pc = "note"
      /\ HasRows(u) => Active(u) /\ upload[u].file \in {"processing", "completed"}
      /\ UNCHANGED <<stored, request, purge>>
  BY WorksFacts DEF EnqueueNote, AtUpload
<1>2. upload[u] \in UploadRows /\ NoteIsStored(u)
  BY DEF IInv, Types, Offers
<1>3. CASE LoseSession /\ lost' = MapLost(u)
  BY <1>1, <1>3, MapLostFacts, IdleKeeps DEF LoseSession
<1>4. CASE HasRows(u) /\ Work(u, "map") /\ UNCHANGED <<deck, cards, map, lost>>
           /\ upload' = [upload EXCEPT ![u] =
                           [@ EXCEPT !.file = "completed", !.note = "pending",
                                     !.noteJob = "pending"]]
           /\ upload[u].note = "none"
  <2>1. PICK r : r = [upload[u] EXCEPT !.file = "completed", !.note = "pending",
                                       !.noteJob = "pending"]
    OBVIOUS
  <2>2. /\ r \in UploadRows /\ r.file = "completed" /\ r.note = "pending"
        /\ r.noteJob = "pending" /\ r.job = upload[u].job
        /\ r.target = upload[u].target /\ r.into = upload[u].into
    BY <1>2, <2>1 DEF UploadRows
  <2>3. RowBecomes(u, r)
    BY <1>4, <2>1 DEF RowBecomes
  <2>4. upload'[u] = r
    BY <2>2, <2>3, RowBecomesFacts
  <2>5. worker' \in WorkerRecord /\ worker'.upload = u /\ worker'.pc = "map"
    BY <1>4, WorkFacts DEF WorkerPlaces
  <2>6. SameOwner(u, r)
    BY <1>4, <2>2 DEF SameOwner, HasRows
  <2>7. WorkerFits'
    BY <1>1, <1>4, <2>2, <2>4, <2>5 DEF WorkerFits, AtUpload, Active
  <2>8. NoteIsStored(u)'
    BY <2>2, <2>4, <2>5 DEF NoteIsStored, HasRows, Works
  <2> QED BY <1>1, <1>4, <2>2, <2>3, <2>5, <2>6, <2>7, <2>8, StatusesKeep DEF RowBecomes
<1>5. CASE HasRows(u) /\ Work(u, "map") /\ UNCHANGED <<deck, cards, map, upload, lost>>
  <2>1. worker' \in WorkerRecord /\ worker'.upload = u /\ worker'.pc = "map"
    BY <1>5, WorkFacts DEF WorkerPlaces
  <2>2. upload' = [upload EXCEPT ![u] = upload[u]] /\ SameOwner(u, upload[u])
    BY <1>5 DEF IInv, Types, SameOwner
  <2>3. WorkerFits'
    BY <1>1, <1>5, <2>1 DEF WorkerFits, AtUpload, Active, HasRows
  <2>4. NoteIsStored(u)'
    BY <1>1, <1>2, <1>5, <2>1 DEF NoteIsStored, HasRows, Works
  <2> QED BY <1>1, <1>2, <1>5, <2>1, <2>2, <2>3, <2>4, StatusesKeep
<1> QED BY <1>3, <1>4, <1>5 DEF EnqueueNote

LEMMA LookForMapKeeps == ASSUME IInv, NEW u \in Uploads, LookForMap(u) PROVE IInv'
<1>1. /\ worker.upload = u /\ worker.pc = "map"
      /\ UNCHANGED <<deck, cards, map, upload, stored, request, purge, lost>>
  BY WorksFacts DEF LookForMap, AtUpload, rows
<1>2. PICK saw \in BOOLEAN :
        saw = (upload[u].into # Nothing /\ HasMap(upload[u].into))
  OBVIOUS
<1>3. worker' = [worker EXCEPT !.pc = "write", !.saw = saw]
  BY <1>2 DEF LookForMap
<1>4. worker' \in WorkerRecord /\ worker'.upload = u /\ worker'.pc = "write"
  BY <1>1, <1>3 DEF IInv, Types, WorkerRecord, WorkerPlaces
<1>5. /\ RowBecomes(u, upload[u]) /\ upload[u] \in UploadRows /\ SameOwner(u, upload[u])
      /\ WorkerFits' /\ NoteIsStored(u)'
  BY <1>1, <1>4, GoesOnFacts DEF AtUpload
<1> QED BY <1>1, <1>4, <1>5, StatusesKeep DEF RowBecomes

\* The map is that of the cards, or shows nothing; a deck whose map another
\* request or a purge has come before is among those that lost theirs.
LEMMA WriteMapKeeps == ASSUME IInv, NEW u \in Uploads, WriteMap(u) PROVE IInv'
<1>1. /\ worker.upload = u /\ worker.pc = "write"
      /\ HasRows(u) => Active(u) /\ upload[u].file \in {"processing", "completed"}
      /\ UNCHANGED <<stored, request, purge>>
  BY WorksFacts DEF WriteMap, AtUpload
<1>2. upload[u] \in UploadRows /\ NoteIsStored(u)
  BY DEF IInv, Types, Offers
<1>3. CASE LoseSession
  <2>1. worker'.pc # "end"
    BY <1>3 DEF LoseSession, NoWork
  <2>2. lost' = MapLost(u)
    BY <2>1 DEF WriteMap
  <2> QED BY <1>1, <1>3, <2>2, MapLostFacts, IdleKeeps DEF LoseSession
<1>4. CASE /\ Filed(u) /\ Work(u, "end") /\ UNCHANGED <<deck, cards>>
           /\ \E status \in {"ready", "failed"} :
                map' = [map EXCEPT ![upload[u].into] = Drawn(@, u, status)]
           /\ upload' = [upload EXCEPT ![u].file = "completed"]
  <2>1. PICK d \in Decks : d = upload[u].into
    BY <1>4 DEF Filed, IInv, Types, UploadRows
  <2>2. HasRows(u)
    BY <1>4 DEF Filed
  <2>3. PICK status \in {"ready", "failed"} : map' = [map EXCEPT ![d] = Drawn(@, u, status)]
    BY <1>4, <2>1
  <2>4. PICK m : m = Drawn(map[d], u, status)
    OBVIOUS
  <2>5. /\ m \in MapRows /\ m.status = status /\ m.graph \in {u, Nothing}
        /\ m.pdf = map[d].pdf /\ m.key = map[d].key
    <3>1. PICK g \in {u, Nothing} : g = IF status = "ready" THEN u ELSE Nothing
      OBVIOUS
    <3>2. m = [map[d] EXCEPT !.status = status, !.source = u, !.graph = g]
      BY <2>4, <3>1 DEF Drawn
    <3>3. map[d] \in MapRows
      BY DEF IInv, Types
    <3> QED BY <3>1, <3>2, <3>3 DEF MapRows
  <2>6. map' \in [Decks -> MapRows] /\ map'[d] = m /\ \A e \in Decks \ {d} : map'[e] = map[e]
    BY <2>3, <2>4, <2>5 DEF IInv, Types
  <2>7. PICK r : r = [upload[u] EXCEPT !.file = "completed"]
    OBVIOUS
  <2>8. /\ r \in UploadRows /\ r.file = "completed" /\ r.job = upload[u].job
        /\ r.target = upload[u].target /\ r.into = upload[u].into
        /\ r.note = upload[u].note /\ r.noteJob = upload[u].noteJob
    BY <1>2, <2>7 DEF UploadRows
  <2>9. /\ upload' \in [Uploads -> UploadRows] /\ upload'[u] = r
        /\ \A v \in Uploads \ {u} : upload'[v] = upload[v]
    BY <1>4, <2>7, <2>8, RowBecomesFacts DEF RowBecomes
  <2>10. worker' \in WorkerRecord /\ worker'.upload = u /\ worker'.pc = "end"
    BY <1>4, WorkFacts DEF WorkerPlaces
  <2>11. SameOwner(u, r)
    BY <2>2, <2>8 DEF SameOwner, HasRows
  <2>12. WorkerFits'
    BY <1>1, <2>2, <2>8, <2>9, <2>10 DEF WorkerFits, AtUpload, Active
  <2>13. NoteIsStored(u)'
    BY <1>1, <1>2, <2>2, <2>8, <2>9, <2>10 DEF NoteIsStored, HasRows, Works
  <2>14. /\ lost' \in LostRecord /\ lost'.pdf = lost.pdf
         /\ lost'.media = lost.media
         /\ lost'.map = lost.map \ {d}
    BY <2>1, <2>10 DEF WriteMap, IInv, Types, LostRecord
  <2>15. HasMap(d)'
    BY <2>5, <2>6 DEF HasMap
  <2>16. cards[d] \in {u, Hand, Nothing}
    BY <1>1, <2>1, <2>2 DEF IInv, Drawing, CardsFit
  <2>17. ASSUME NEW e \in Decks, cards[e] = u PROVE e = d
    BY <2>1, <2>2, <2>17 DEF IInv, Drawing, CardsFit
  <2>18. \A e \in Decks : cards'[e] \in Uploads /\ cards'[e] # u =>
           map'[e].graph = map[e].graph /\ (e \in lost'.map <=> e \in lost.map)
    BY <1>4, <2>6, <2>14, <2>16, NothingIsApart
  <2>19. \A e \in Decks : cards'[e] = u => map'[e].graph \in {u, Nothing}
    BY <1>4, <2>5, <2>6, <2>17
  <2>20. \A e \in Decks :
           map'[e] = map[e] \/ (/\ upload[u].into = e /\ HasRows(u)
                                /\ map'[e].pdf = map[e].pdf
                                /\ map'[e].key = map[e].key /\ HasMap(e)')
    BY <2>1, <2>2, <2>5, <2>6, <2>15
  <2>21. /\ UNCHANGED <<deck, request, purge, stored>> /\ worker.upload = u
         /\ stored' \in StoredObjects /\ cards' \in [Decks -> Texts \cup {Nothing}]
         /\ \A e \in Decks : cards'[e] = cards[e]
         /\ worker'.pc \notin {"fill", "note", "map", "write"}
    BY <1>1, <1>4, <2>10 DEF IInv, Types
  <2> QED BY <2>6, <2>8, <2>9, <2>10, <2>11, <2>12, <2>13, <2>14, <2>18, <2>19,
             <2>20, <2>21, WorkerKeeps
<1> QED BY <1>3, <1>4 DEF WriteMap

LEMMA EndJobKeeps == ASSUME IInv, NEW u \in Uploads, EndJob(u) PROVE IInv'
<1>1. /\ worker.upload = u /\ worker.pc = "end"
      /\ HasRows(u) => upload[u].file \in {"completed", "failed"}
      /\ UNCHANGED <<deck, cards, map, stored, request, purge, lost>> /\ worker' = NoWork
  BY WorksFacts DEF EndJob, AtUpload
<1>2. upload[u] \in UploadRows /\ NoteIsStored(u)
  BY DEF IInv, Types, Offers
<1>3. worker' \in WorkerRecord /\ worker'.pc = "idle"
  BY <1>1 DEF NoWork, WorkerRecord, WorkerPlaces
<1>4. WorkerFits'
  BY <1>3 DEF WorkerFits, AtUpload
<1>5. PICK r : r = IF HasRows(u) THEN [upload[u] EXCEPT !.job = "over"] ELSE upload[u]
  OBVIOUS
<1>6. /\ r \in UploadRows /\ r.file = upload[u].file
      /\ r.target = upload[u].target /\ r.into = upload[u].into
      /\ r.note = upload[u].note /\ r.noteJob = upload[u].noteJob
  BY <1>1, <1>2, <1>5 DEF UploadRows
<1>7. upload' = [upload EXCEPT ![u] = r]
  BY <1>1, <1>5 DEF EndJob, IInv, Types
<1>8. SameOwner(u, r)
  BY <1>6 DEF SameOwner
<1>9. upload'[u] = r
  BY <1>6, <1>7, RowBecomesFacts DEF RowBecomes
<1>10. NoteIsStored(u)'
  BY <1>1, <1>2, <1>3, <1>6, <1>9 DEF NoteIsStored, HasRows, Works
<1> QED BY <1>1, <1>3, <1>4, <1>6, <1>7, <1>8, <1>10, StatusesKeep

\* A step on the note of u: its statuses change, and the worker goes on with the
\* note or is done.
LEMMA NoteKeeps ==
  ASSUME IInv, NEW u \in Uploads,
         NEW n \in {"none", "pending", "processing", "ready", "failed"},
         NEW j \in {"running", "completed", "failed"}, NEW r,
         r = [upload[u] EXCEPT !.note = n, !.noteJob = j]
           \/ (r = [upload[u] EXCEPT !.noteJob = j] /\ n = upload[u].note),
         upload' = [upload EXCEPT ![u] = r], n # "none" => HasRows(u),
         upload[u].file \notin {"none", "sending"},
         n = "ready" => u \in stored.note,
         worker.pc = "idle" \/ (worker.upload = u /\ worker.pc \notin {"note", "map", "write"}),
         worker' = NoWork \/ Work(u, "noteRead") \/ Work(u, "noteSave"),
         UNCHANGED <<deck, cards, map, stored, request, purge, lost>>
  PROVE  IInv'
<1>1. /\ r \in UploadRows /\ r.note = n /\ r.noteJob = j /\ r.file = upload[u].file
      /\ r.target = upload[u].target /\ r.into = upload[u].into
  <2>1. upload[u] \in UploadRows
    BY DEF IInv, Types
  <2> QED BY <2>1 DEF UploadRows
<1>2. SameOwner(u, r)
  BY <1>1 DEF SameOwner
<1>3. /\ worker' \in WorkerRecord /\ worker'.pc \in {"idle", "noteRead", "noteSave"}
      /\ worker'.pc # "idle" => worker'.upload = u
  BY WorkFacts DEF WorkerPlaces
<1>4. upload'[u] = r
  BY <1>1, RowBecomesFacts DEF RowBecomes
<1>5. WorkerFits'
  BY <1>1, <1>3, <1>4 DEF WorkerFits, AtUpload
<1>6. NoteIsStored(u)'
  BY <1>1, <1>3, <1>4 DEF NoteIsStored, HasRows, Works
<1> QED BY <1>1, <1>2, <1>3, <1>5, <1>6, StatusesKeep

LEMMA ClaimNoteKeeps == ASSUME IInv, NEW u \in Uploads, ClaimNote(u) PROVE IInv'
<1>1. /\ worker.pc = "idle" /\ NoteIsStored(u) /\ upload[u].noteJob # "none"
      /\ UNCHANGED <<deck, cards, map, stored, request, purge, lost>>
  BY WorkerWaits DEF ClaimNote, IInv, Offers
<1>2. upload[u].file \notin {"none", "sending"}
  BY <1>1 DEF NoteIsStored
<1>3. CASE upload[u].note = "none" /\ upload' = [upload EXCEPT ![u].noteJob = "failed"]
           /\ worker' = worker
  <2>1. PICK r : r = [upload[u] EXCEPT !.noteJob = "failed"]
    OBVIOUS
  <2>2. upload' = [upload EXCEPT ![u] = r]
    BY <1>3, <2>1
  <2>3. worker' = NoWork
    BY <1>3 DEF ClaimNote
  <2> QED BY <1>1, <1>2, <1>3, <2>1, <2>2, <2>3, NoteKeeps
<1>4. CASE upload[u].note # "none" /\ Work(u, "noteRead")
           /\ upload' = [upload EXCEPT ![u] = [@ EXCEPT !.noteJob = "running",
                                                        !.note = "processing"]]
  <2>1. PICK r : r = [upload[u] EXCEPT !.noteJob = "running", !.note = "processing"]
    OBVIOUS
  <2>2. upload' = [upload EXCEPT ![u] = r]
    BY <1>4, <2>1
  <2>3. upload[u] \in UploadRows
    BY DEF IInv, Types
  <2>4. r = [upload[u] EXCEPT !.note = "processing", !.noteJob = "running"]
    BY <2>1, <2>3 DEF UploadRows
  <2>5. HasRows(u)
    BY <1>1, <1>4 DEF NoteIsStored
  <2> QED BY <1>1, <1>2, <1>4, <2>2, <2>4, <2>5, NoteKeeps
<1> QED BY <1>3, <1>4 DEF ClaimNote

LEMMA NoteWorksFacts ==
  ASSUME IInv, NEW u \in Uploads, NEW p \in {"noteRead", "noteSave", "noteEnd"}, Works(u, p)
  PROVE  /\ worker.upload = u /\ worker.pc = p /\ upload[u].file \notin {"none", "sending"}
         /\ NoteIsStored(u) /\ upload[u] \in UploadRows
BY DEF Works, IInv, Actors, WorkerFits, Offers, Types

LEMMA ReadForNoteKeeps == ASSUME IInv, NEW u \in Uploads, ReadForNote(u) PROVE IInv'
<1>1. /\ worker.upload = u /\ worker.pc = "noteRead" /\ upload[u] \in UploadRows
      /\ upload[u].file \notin {"none", "sending"} /\ NoteIsStored(u)
      /\ UNCHANGED <<deck, cards, map, stored, request, purge, lost>>
  BY NoteWorksFacts DEF ReadForNote
<1>2. ASSUME NEW n \in {"none", "failed"}, NoteFails(u, n), n # "none" => upload[u].note # "none"
      PROVE  IInv'
  <2>1. PICK r : r = [upload[u] EXCEPT !.note = n, !.noteJob = "failed"]
    OBVIOUS
  <2>2. upload' = [upload EXCEPT ![u] = r] /\ worker' = NoWork
    BY <1>2, <2>1 DEF NoteFails
  <2>3. n # "none" => HasRows(u)
    BY <1>1, <1>2 DEF NoteIsStored
  <2> QED BY <1>1, <2>1, <2>2, <2>3, NoteKeeps
<1>3. CASE Work(u, "noteSave") /\ upload' = upload
  <2>1. upload' = [upload EXCEPT ![u] = upload[u]] /\ SameOwner(u, upload[u])
    BY <1>3 DEF IInv, Types, SameOwner
  <2>2. worker' \in WorkerRecord /\ worker'.pc = "noteSave" /\ worker'.upload = u
    BY <1>3, WorkFacts DEF WorkerPlaces
  <2>3. WorkerFits'
    BY <1>1, <1>3, <2>2 DEF WorkerFits, AtUpload
  <2>4. NoteIsStored(u)'
    BY <1>1, <1>3, <2>2 DEF NoteIsStored, HasRows, Works
  <2> QED BY <1>1, <2>1, <2>2, <2>3, <2>4, StatusesKeep
<1> QED BY <1>2, <1>3 DEF ReadForNote

LEMMA SaveNoteKeeps == ASSUME IInv, NEW u \in Uploads, SaveNote(u) PROVE IInv'
<1>1. /\ worker.upload = u /\ worker.pc = "noteSave" /\ upload[u] \in UploadRows
      /\ upload[u].file \notin {"none", "sending"} /\ NoteIsStored(u)
      /\ UNCHANGED <<deck, cards, map, upload, request, purge, lost>>
  BY NoteWorksFacts DEF SaveNote, rows
<1>2. /\ stored' \in StoredObjects /\ stored'.pdf = stored.pdf
      /\ stored'.media = stored.media /\ stored'.note = stored.note \cup {u}
  BY DEF SaveNote, IInv, Types, StoredObjects
<1>3. worker' \in WorkerRecord /\ worker'.pc = "noteEnd" /\ worker'.upload = u
  BY WorkFacts DEF SaveNote, WorkerPlaces
<1>4. WorkerFits'
  BY <1>1, <1>3 DEF WorkerFits, AtUpload
<1>5. NoteIsStored(u)'
  BY <1>1, <1>2 DEF NoteIsStored, HasRows
<1>6. SameOwner(u, upload[u]) /\ upload \in [Uploads -> UploadRows]
  BY DEF SameOwner, IInv, Types
<1>7. ASSUME NEW d \in Decks, cards'[d] = u, upload[u].file = "completed", d \notin lost'.map
      PROVE  map'[d].graph \in {u, Nothing}
  BY <1>1, <1>7 DEF IInv, Drawing, MapIsDue
<1> QED BY <1>1, <1>2, <1>3, <1>4, <1>5, <1>6, <1>7, WorkerKeeps DEF IInv, Types

LEMMA EndNoteKeeps == ASSUME IInv, NEW u \in Uploads, EndNote(u) PROVE IInv'
<1>1. /\ worker.upload = u /\ worker.pc = "noteEnd" /\ upload[u] \in UploadRows
      /\ upload[u].file \notin {"none", "sending"} /\ NoteIsStored(u)
      /\ UNCHANGED <<stored, request, purge, lost>>
  BY NoteWorksFacts DEF EndNote
<1>2. CASE LoseSession
  BY <1>1, <1>2, LoseSessionKeeps
<1>3. CASE upload[u].note # "none" /\ worker' = NoWork /\ UNCHANGED <<deck, cards, map>>
           /\ upload' = [upload EXCEPT ![u] = [@ EXCEPT !.note = "ready",
                                                        !.noteJob = "completed"]]
  <2>1. PICK r : r = [upload[u] EXCEPT !.note = "ready", !.noteJob = "completed"]
    OBVIOUS
  <2>2. upload' = [upload EXCEPT ![u] = r]
    BY <1>3, <2>1
  <2>3. HasRows(u) /\ u \in stored.note
    BY <1>1, <1>3 DEF NoteIsStored, Works
  <2> QED BY <1>1, <1>3, <2>1, <2>2, <2>3, NoteKeeps
<1> QED BY <1>2, <1>3 DEF EndNote

-----------------------------------------------------------------------------
(* The theorems.                                                             *)

LEMMA StutterKeeps == ASSUME IInv, UNCHANGED vars PROVE IInv'
<1>1. UNCHANGED <<deck, cards, map, upload, stored, request, worker, purge, lost>>
  BY DEF vars, rows
<1>2. Types'
  BY <1>1 DEF IInv, Types
<1>3. Actors' /\ Offers' /\ Drawing'
  BY <1>1, ActorsStay, OffersStay, DrawingStays DEF IInv
<1>4. GoneIsUnused'
  BY <1>1 DEF IInv, GoneIsUnused, HasMap, HasRows
<1>5. Objects'
  BY <1>1, ObjectsStay DEF IInv, Making, Importing
<1> QED BY <1>2, <1>3, <1>4, <1>5 DEF IInv

LEMMA ArrivesKeeps == ASSUME IInv, Arrives PROVE IInv'
<1>1. ASSUME NEW d \in Decks, Delete(d) \/ DeleteApi(d) PROVE IInv'
  BY <1>1, DeleteKeeps
<1>2. ASSUME NEW d \in Decks, EditCards(d) PROVE IInv'
  BY <1>2, EditCardsKeeps
<1>3. ASSUME NEW d \in Decks, AskPurge(d) PROVE IInv'
  <2>1. {d} \in SUBSET Decks
    OBVIOUS
  <2> QED BY <1>3, <2>1, AskPurgeKeeps DEF AskPurge
<1>4. ASSUME NEW d \in Decks, NEW r \in Requests, Ask(r, d) \/ AskImport(r, d) PROVE IInv'
  BY <1>4, AskKeeps, AskImportKeeps
<1>5. ASSUME NEW d \in Decks, NEW u \in Uploads,
             SendFile(u, d) \/ StartUpload(u, d) \/ Retry(u, d)
      PROVE  IInv'
  BY <1>5, SendFileKeeps, StartUploadKeeps, RetryKeeps
<1>6. ASSUME NEW u \in Uploads, PurgeUpload(u) PROVE IInv'
  BY <1>6, PurgeUploadKeeps
<1>7. ASSUME NEW ds \in SUBSET {d \in Decks : deck[d] \in {"deleted", "gone"}},
             AskPurgeSelected(ds)
      PROVE  IInv'
  <2>1. ds \in SUBSET Decks
    OBVIOUS
  <2> QED BY <1>7, <2>1, AskPurgeKeeps DEF AskPurgeSelected
<1> QED BY <1>1, <1>2, <1>3, <1>4, <1>5, <1>6, <1>7 DEF Arrives

LEMMA ProceedsKeeps == ASSUME IInv, Proceeds PROVE IInv'
<1>1. ASSUME NEW r \in Requests, RequestStep(r) PROVE IInv'
  BY <1>1, CreateMapKeeps, StartPdfKeeps, ReadTextKeeps, SavePdfKeeps, FinishPdfKeeps,
     StoreMediaKeeps, ImportCardsKeeps
     DEF RequestStep
<1>2. ASSUME NEW u \in Uploads, QueueFile(u) \/ Claim(u) \/ ClaimNote(u) PROVE IInv'
  BY <1>2, QueueFileKeeps, ClaimKeeps, ClaimNoteKeeps
<1>3. ASSUME NEW u \in Uploads, WorkerStep(u) PROVE IInv'
  BY <1>3, ClearDeckKeeps, FillDeckKeeps, CompletePartialKeeps,
     EnqueueNoteKeeps, LookForMapKeeps, WriteMapKeeps,
     EndJobKeeps, ReadForNoteKeeps, SaveNoteKeeps, EndNoteKeeps DEF WorkerStep
<1>4. ASSUME NEW d \in Decks, PurgeCheck(d) PROVE IInv'
  BY <1>4, PurgeCheckKeeps
<1> QED BY <1>1, <1>2, <1>3, <1>4, PurgeRowsKeeps, PurgeObjectsKeeps DEF Proceeds

LEMMA IInvIsInductive == IInv /\ [Next]_vars => IInv'
<1>1. ASSUME IInv, Dies PROVE IInv'
  BY <1>1, WebDiesKeeps, WorkerDiesKeeps DEF Dies
<1> QED BY <1>1, ArrivesKeeps, ProceedsKeeps, StutterKeeps DEF Next

LEMMA IInvHolds == Spec => []IInv
<1> QED BY InitEstablishesIInv, IInvIsInductive, PTL DEF Spec

Counters == events \in 0 .. MaxEvents /\ crashes \in 0 .. MaxCrashes

\* Every row, object and variable has its type.
THEOREM TypeCorrect == Spec => []TypeOK
<1>1. Init => Counters
  BY ConstantsAssumption DEF Init, Counters
<1>2. ASSUME Counters, [Next]_vars PROVE Counters'
  <2>1. events \in Nat /\ crashes \in Nat /\ MaxEvents \in Nat /\ MaxCrashes \in Nat
    BY <1>2, ConstantsAssumption DEF Counters
  <2>2. CASE Arrives
    BY <1>2, <2>1, <2>2 DEF Counters, Arrives
  <2>3. CASE Proceeds
    BY <1>2, <2>1, <2>3 DEF Counters, Proceeds
  <2>4. CASE Dies
    BY <1>2, <2>1, <2>4 DEF Counters, Dies
  <2>5. CASE UNCHANGED vars
    BY <1>2, <2>5 DEF Counters, vars
  <2> QED BY <1>2, <2>2, <2>3, <2>4, <2>5 DEF Next
<1>3. IInv /\ Counters => TypeOK
  BY TypesAreTypeOK DEF IInv, Counters
<1> QED BY <1>1, <1>2, <1>3, IInvHolds, PTL DEF Spec

\* The application offers no PDF and no note that is not in storage, however
\* many requests make the PDF of a deck at once and whatever is purged, retried
\* or dies in between.
THEOREM OffersAreStored == Spec => []OfferedIsStored
<1> QED BY IInvHolds, IInvGivesOffers, PTL

\* A completed deck's map is not that of an earlier upload, unless a run ended
\* before the map was drawn.
THEOREM MapsMatch == Spec => []MapMatchesCards
<1> QED BY IInvHolds, IInvGivesMaps, PTL

\* A purged deck leaves no row behind, and no object but one that was being made
\* at the time or that storage did not delete.
THEOREM NothingIsLeft == Spec => []PurgedLeavesNothing
<1> QED BY IInvHolds, IInvGivesNothingLeft, PTL
=============================================================================
