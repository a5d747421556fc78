------------------------- MODULE NcertImportProofs -------------------------
(***************************************************************************)
(* Proofs about NcertImport: for any catalogue, any number of runs,        *)
(* crashes, lost answers and failed uploads, with other users who create   *)
(* and delete folders meanwhile, what the state file and the exit code say *)
(* is true, and a book is uploaded again only because something went wrong.*)
(***************************************************************************)
EXTENDS NcertImport, TLAPS, SequenceTheorems, FiniteSetTheorems

Pcs == {"idle", "book", "list", "create", "fetch", "write", "post", "note",
        "noting", "wait", "record", "recording", "clean"}

ScriptRecord ==
  [pc : Pcs, at : 0 .. Len(Plan), chapter : 1 .. NumChapters + 1, home : BOOLEAN,
   bulk : Nat, failed : BOOLEAN, memory : [Books -> Statuses],
   exit : {"none", "ok", "failed", "aborted"}]

UploadRecord == [book : Books, files : [Chapters -> Contents],
                 status : {"running", "failed", "completed"}]

\* What the script knows, as TypeOK wants it.  From the answer of a post to the
\* end of the wait it knows an upload of its book.
ScriptFits(s, ups) ==
  /\ s \in ScriptRecord
  /\ s.pc # "idle" => s.at \in 1 .. Len(Plan)
  /\ s.pc = "write" => s.chapter \in Chapters
  /\ s.bulk <= Len(ups)
  /\ s.pc \in {"note", "noting", "wait"} =>
       s.bulk \in DOMAIN ups /\ ups[s.bulk].book = Plan[s.at]

DiskOK == disk \in [Books -> [Chapters -> Contents]]
FileOK == file \in [Books -> Statuses] \cup {Torn}
UploadsOK == uploads \in Seq(UploadRecord)
CountsOK == folders \in 0 .. 2 /\ failures \in 0 .. MaxFailures /\ crashes \in 0 .. MaxCrashes

Base == ScriptFits(script, uploads) /\ DiskOK /\ FileOK /\ UploadsOK /\ CountsOK

LEMMA ConstantsFit ==
  /\ Plan \in Seq(Books) /\ Len(Plan) \in Nat \ {0} /\ DOMAIN Plan = 1 .. Len(Plan)
  /\ \A i \in 1 .. Len(Plan) : Plan[i] \in Books
  /\ \A b \in Books : \E i \in 1 .. Len(Plan) : Plan[i] = b
  /\ NumChapters \in Nat \ {0} /\ MaxFailures \in Nat /\ MaxCrashes \in Nat
<1>1. /\ Plan \in Seq(Books) /\ Plan # <<>> /\ {Plan[i] : i \in DOMAIN Plan} = Books
      /\ NumChapters \in Nat \ {0} /\ MaxFailures \in Nat /\ MaxCrashes \in Nat
  BY ConstantsAssumption
<1>2. Len(Plan) \in Nat \ {0} /\ DOMAIN Plan = 1 .. Len(Plan)
  BY <1>1
<1>3. \A b \in Books : b \in {Plan[i] : i \in DOMAIN Plan}
  BY <1>1
<1> QED BY <1>1, <1>2, <1>3

\* A torn file is none that was written.
LEMMA TornIsOther == Torn \notin [Books -> Statuses] /\ NoState \in [Books -> Statuses]
<1>1. PICK b \in Books : TRUE
  BY ConstantsFit
<1>2. \A f \in [Books -> Statuses] : f[b] # "torn"
  BY DEF Statuses
<1>3. Torn[b] = "torn"
  BY DEF Torn
<1> QED BY <1>2, <1>3 DEF NoState, Statuses

LEMMA BaseGivesTypes == Base => TypeOK
<1> SUFFICES ASSUME Base PROVE TypeOK
  OBVIOUS
<1>1. script \in ScriptRecord /\ script.bulk \in 0 .. Len(uploads)
  BY DEF Base, ScriptFits, ScriptRecord, UploadsOK
<1>2. \A i \in DOMAIN uploads : uploads[i] \in UploadRecord
  BY DEF Base, UploadsOK
<1>3. script \in [pc : Pcs, at : 0 .. Len(Plan), chapter : 1 .. NumChapters + 1,
                  home : BOOLEAN, bulk : 0 .. Len(uploads), failed : BOOLEAN,
                  memory : [Books -> Statuses], exit : {"none", "ok", "failed", "aborted"}]
  BY <1>1 DEF ScriptRecord
<1>4. ~At("idle") => script.at # 0
  BY DEF Base, ScriptFits, At
<1> QED BY <1>2, <1>3, <1>4
        DEF Base, TypeOK, Pcs, UploadRecord, DiskOK, FileOK, UploadsOK, CountsOK

LEMMA OverFits ==
  ASSUME NEW exit \in {"none", "ok", "failed", "aborted"}
  PROVE  Over(exit) \in ScriptRecord /\ \A ups \in Seq(UploadRecord) : ScriptFits(Over(exit), ups)
BY ConstantsFit, TornIsOther DEF Over, ScriptFits, ScriptRecord, Pcs

\* On to the next book, or to the end.
LEMMA NextBookFits ==
  ASSUME NEW s \in ScriptRecord, s.at \in 1 .. Len(Plan)
  PROVE  /\ NextBook(s) \in ScriptRecord
         /\ \A ups \in Seq(UploadRecord) : ScriptFits(NextBook(s), ups)
         /\ \/ /\ s.at < Len(Plan) /\ NextBook(s).pc = "book" /\ NextBook(s).at = s.at + 1
               /\ NextBook(s).failed = s.failed /\ NextBook(s).memory = s.memory
               /\ NextBook(s).exit = s.exit
            \/ s.at = Len(Plan) /\ s.failed /\ NextBook(s) = Over("failed")
            \/ s.at = Len(Plan) /\ ~s.failed /\ NextBook(s) = Over("ok")
<1>1. CASE s.at < Len(Plan)
  <2>1. NextBook(s) = [s EXCEPT !.pc = "book", !.at = @ + 1, !.chapter = 1, !.home = FALSE,
                                !.bulk = 0]
    BY <1>1 DEF NextBook
  <2>2. s.at + 1 \in 1 .. Len(Plan) /\ 1 \in 1 .. NumChapters + 1
    BY <1>1, ConstantsFit
  <2> HIDE DEF NextBook
  <2>3. /\ NextBook(s) \in ScriptRecord
        /\ NextBook(s).pc = "book" /\ NextBook(s).at = s.at + 1 /\ NextBook(s).bulk = 0
        /\ NextBook(s).failed = s.failed /\ NextBook(s).memory = s.memory
        /\ NextBook(s).exit = s.exit
    <3>1. /\ s.at + 1 \in 0 .. Len(Plan) /\ 0 \in Nat /\ FALSE \in BOOLEAN /\ "book" \in Pcs
      BY <2>2 DEF Pcs
    <3>2. NextBook(s) \in ScriptRecord
      BY <2>1, <2>2, <3>1 DEF ScriptRecord
    <3>3. /\ NextBook(s).pc = "book" /\ NextBook(s).at = s.at + 1 /\ NextBook(s).bulk = 0
          /\ NextBook(s).failed = s.failed /\ NextBook(s).memory = s.memory
          /\ NextBook(s).exit = s.exit
      BY <2>1 DEF ScriptRecord
    <3> QED BY <3>2, <3>3
  <2>4. \A ups \in Seq(UploadRecord) : ScriptFits(NextBook(s), ups)
    BY <2>2, <2>3 DEF ScriptFits
  <2> QED BY <1>1, <2>3, <2>4
<1>2. CASE ~(s.at < Len(Plan))
  <2>1. s.at = Len(Plan)
    BY <1>2, ConstantsFit
  <2>2. NextBook(s) = Over(IF s.failed THEN "failed" ELSE "ok")
    BY <1>2 DEF NextBook
  <2>3. /\ s.failed => NextBook(s) = Over("failed")
        /\ ~s.failed => NextBook(s) = Over("ok")
    BY <2>2
  <2>4. s.failed \/ ~s.failed
    OBVIOUS
  <2> QED BY <2>1, <2>3, <2>4, OverFits
<1> QED BY <1>1, <1>2

-----------------------------------------------------------------------------
(* The steps of the script. *)

\* The script goes on with the same book and the same upload.
LEMMA GoesOn ==
  ASSUME Base, script.pc # "idle", NEW x, x \in ScriptRecord,
         x.at = script.at, x.bulk = script.bulk, x.pc = "write" => x.chapter \in Chapters,
         x.pc \in {"note", "noting", "wait"} => script.pc \in {"note", "noting", "wait"}
  PROVE  ScriptFits(x, uploads)
BY DEF Base, ScriptFits

LEMMA ScriptTypes ==
  ASSUME Base, script.pc # "idle"
  PROVE  /\ script \in ScriptRecord /\ script.at \in 1 .. Len(Plan) /\ Book \in Books
         /\ [script EXCEPT !.failed = TRUE] \in ScriptRecord
         /\ [script EXCEPT !.failed = TRUE].at = script.at
         /\ ScriptFits(Missed, uploads) /\ ScriptFits(NextBook(script), uploads)
<1>1. script \in ScriptRecord /\ script.at \in 1 .. Len(Plan) /\ uploads \in Seq(UploadRecord)
  BY DEF Base, ScriptFits, UploadsOK
<1>2. [script EXCEPT !.failed = TRUE] \in ScriptRecord
      /\ [script EXCEPT !.failed = TRUE].at = script.at
  BY <1>1 DEF ScriptRecord
<1>3. Book \in Books
  BY <1>1, ConstantsFit DEF Book
<1> QED BY <1>1, <1>2, <1>3, NextBookFits DEF Missed

\* A step of the script alone.
LEMMA GoFits ==
  ASSUME Base, script.pc # "idle", NEW pc \in Pcs \ {"write", "note", "noting", "wait"}
  PROVE  ScriptFits([script EXCEPT !.pc = pc], uploads)
<1> DEFINE x == [script EXCEPT !.pc = pc]
<1>1. x \in ScriptRecord /\ x.at = script.at /\ x.bulk = script.bulk /\ x.pc = pc
  BY ScriptTypes DEF ScriptRecord
<1> HIDE DEF x
<1>2. ScriptFits(x, uploads)
  BY <1>1, GoesOn
<1> QED BY <1>2 DEF x

LEMMA StartKeepsBase ==
  ASSUME Base, Start
  PROVE  ScriptFits(script', uploads')
<1>1. Loaded \in [Books -> Statuses]
  BY TornIsOther DEF Base, FileOK, Loaded
<1>2. Over("none") \in ScriptRecord /\ Over("none").bulk = 0
  BY OverFits DEF Over
<1>3. /\ script' \in ScriptRecord /\ script'.at = 1 /\ script'.pc = "book"
      /\ script'.bulk = 0
  <2>1. script' = [Over("none") EXCEPT !.pc = "book", !.at = 1, !.memory = Loaded]
    BY DEF Start
  <2>2. 1 \in 0 .. Len(Plan) /\ "book" \in Pcs
    BY ConstantsFit DEF Pcs
  <2> HIDE DEF Over
  <2> QED BY <1>1, <1>2, <2>1, <2>2 DEF ScriptRecord
<1>4. uploads' = uploads /\ uploads \in Seq(UploadRecord)
  BY DEF Start, Base, UploadsOK
<1> QED BY <1>3, <1>4, ConstantsFit DEF ScriptFits

LEMMA DiscoverKeepsBase ==
  ASSUME Base, Discover
  PROVE  ScriptFits(script', uploads')
<1>1. script.pc = "book" /\ uploads' = uploads
  BY DEF Discover, At
<1>2. CASE Skipped
  BY <1>1, <1>2, ScriptTypes DEF Discover
<1>3. CASE ~Skipped
  BY <1>1, <1>3, GoFits DEF Discover, Go, Pcs
<1> QED BY <1>2, <1>3

LEMMA FoldersKeepBase ==
  ASSUME Base, ListFolders \/ CreateFolder
  PROVE  ScriptFits(script', uploads') /\ folders' \in 0 .. 2
<1>1. script.pc # "idle" /\ uploads' = uploads
  BY DEF ListFolders, CreateFolder, At
<1>2. /\ script' \in ScriptRecord /\ script'.at = script.at /\ script'.bulk = script.bulk
      /\ script'.pc \in {"fetch", "create"}
  BY <1>1, ScriptTypes DEF ListFolders, CreateFolder, ScriptRecord, Pcs
<1>3. ScriptFits(script', uploads)
  BY <1>1, <1>2, GoesOn
<1>4. folders' \in 0 .. 2
  BY DEF ListFolders, CreateFolder, CanAddFolder, Base, CountsOK
<1> QED BY <1>1, <1>3, <1>4

LEMMA FetchKeepsBase ==
  ASSUME Base, Fetch \/ Write \/ FetchFails
  PROVE  ScriptFits(script', uploads') /\ DiskOK'
<1>1. script.pc # "idle" /\ uploads' = uploads /\ script.chapter \in Chapters
  BY DEF Fetch, Write, FetchFails, At, Base, ScriptFits
<1>2. script.chapter + 1 \in 1 .. NumChapters + 1
  BY <1>1, ConstantsFit DEF Chapters
<1>3. /\ script' \in ScriptRecord /\ script'.at = script.at /\ script'.bulk = script.bulk
      /\ script'.pc \in {"fetch", "write"}
      /\ script'.pc = "write" => script'.chapter \in Chapters
  BY <1>1, <1>2, ScriptTypes DEF Fetch, Write, FetchFails, At, Go, ScriptRecord, Pcs
<1>4. ScriptFits(script', uploads)
  BY <1>1, <1>3, GoesOn
<1>5. Book \in Books
  BY <1>1, ScriptTypes
<1>6. DiskOK'
  <2> HIDE DEF Book
  <2> QED BY <1>1, <1>5 DEF Fetch, Write, FetchFails, Base, DiskOK, Contents
<1> QED BY <1>1, <1>4, <1>6

LEMMA ZipKeepsBase ==
  ASSUME Base, Zip
  PROVE  ScriptFits(script', uploads')
<1>1. script.pc = "fetch" /\ uploads' = uploads
  BY DEF Zip, At
<1>2. CASE Empty \/ Oversize
  BY <1>1, <1>2, ScriptTypes DEF Zip
<1>3. CASE ~(Empty \/ Oversize)
  BY <1>1, <1>3, GoFits DEF Zip, Go, Pcs
<1> QED BY <1>2, <1>3

\* An upload is added, and what the script knows of uploads stays true.
LEMMA AcceptedIsUpload ==
  ASSUME Base, script.pc # "idle", Accepted
  PROVE  /\ UploadsOK' /\ Len(uploads') = Len(uploads) + 1
         /\ uploads'[Len(uploads) + 1].book = Book
         /\ uploads'[Len(uploads) + 1].status = "running"
         /\ \A i \in DOMAIN uploads : i \in DOMAIN uploads' /\ uploads'[i] = uploads[i]
<1> DEFINE u == [book |-> Book, files |-> Archive, status |-> "running"]
<1>1. u \in UploadRecord
  BY ScriptTypes DEF UploadRecord, Archive, Base, DiskOK
<1>2. uploads \in Seq(UploadRecord) /\ uploads' = Append(uploads, u)
  BY DEF Accepted, Base, UploadsOK
<1>3. u.book = Book /\ u.status = "running"
  OBVIOUS
<1> HIDE DEF u
<1> QED BY <1>1, <1>2, <1>3 DEF UploadsOK

LEMMA PostKeepsBase ==
  ASSUME Base, Post \/ PostFails
  PROVE  ScriptFits(script', uploads') /\ UploadsOK'
<1>1. script.pc = "post" /\ uploads \in Seq(UploadRecord)
  BY DEF Post, PostFails, At, Base, UploadsOK
<1>2. CASE PostFails
  <2>1. UploadsOK'
    BY <1>1, <1>2, AcceptedIsUpload DEF PostFails, Base, UploadsOK
  <2>2. script' = Missed \/ script' = Over("aborted")
    BY <1>2 DEF PostFails, GivenUp
  <2>3. \A ups \in Seq(UploadRecord) : ScriptFits(Missed, ups)
    BY <1>1, ScriptTypes, NextBookFits DEF Missed
  <2> QED BY <2>1, <2>2, <2>3, OverFits DEF UploadsOK
<1>3. CASE Post /\ ~script.home
  BY <1>1, <1>3, ScriptTypes DEF Post, Base, UploadsOK
<1>4. CASE Post /\ script.home
  <2>1. Accepted /\ script' = [script EXCEPT !.pc = "note", !.bulk = Len(uploads) + 1,
                                             !.memory[Book] = "uploaded"]
    BY <1>4 DEF Post
  <2>2. /\ UploadsOK' /\ Len(uploads') = Len(uploads) + 1
        /\ uploads'[Len(uploads) + 1].book = Book
    BY <1>1, <2>1, AcceptedIsUpload
  <2>3. Len(uploads) + 1 \in Nat /\ Len(uploads) + 1 \in DOMAIN uploads'
    BY <1>1, <2>2 DEF UploadsOK
  <2>4. /\ script' \in ScriptRecord /\ script'.pc = "note" /\ script'.at = script.at
        /\ script'.bulk = Len(uploads) + 1
    BY <1>1, <2>1, <2>3, ScriptTypes DEF ScriptRecord, Pcs, Statuses
  <2>5. script.at \in 1 .. Len(Plan)
    BY <1>1, ScriptTypes
  <2> QED BY <2>2, <2>3, <2>4, <2>5 DEF ScriptFits, Book
<1> QED BY <1>2, <1>3, <1>4

LEMMA StateKeepsBase ==
  ASSUME Base, OpenState \/ SaveState
  PROVE  ScriptFits(script', uploads') /\ FileOK'
<1>1. script.pc \in {"note", "record", "noting", "recording"} /\ uploads' = uploads
  BY DEF OpenState, SaveState
<1>2. /\ script' \in ScriptRecord /\ script'.at = script.at /\ script'.bulk = script.bulk
      /\ script'.pc \in {"noting", "recording", "wait", "clean"}
      /\ script'.pc \in {"noting", "wait"} => script.pc \in {"note", "noting"}
  BY <1>1, ScriptTypes DEF OpenState, SaveState, At, Go, ScriptRecord, Pcs
<1>3. ScriptFits(script', uploads)
  BY <1>1, <1>2, GoesOn
<1>4. FileOK'
  BY <1>1, ScriptTypes DEF OpenState, SaveState, FileOK, ScriptRecord, Torn
<1> QED BY <1>1, <1>3, <1>4

LEMMA OutcomeKeepsBase ==
  ASSUME Base, WaitEnds \/ WaitGivesUp
  PROVE  /\ ScriptFits(script', uploads')
         /\ script.pc = "wait" /\ script.bulk \in DOMAIN uploads
         /\ uploads[script.bulk].book = Book
         /\ Outcome(uploads[script.bulk].status)
         /\ uploads[script.bulk].status \in Statuses
<1>1. script.pc = "wait" /\ Outcome(uploads[script.bulk].status)
  BY DEF WaitEnds, WaitGivesUp, At
<1>2. script.bulk \in DOMAIN uploads /\ uploads[script.bulk].book = Book
  BY <1>1 DEF Base, ScriptFits, Book
<1>3. uploads[script.bulk].status \in Statuses
  <2>1. uploads[script.bulk] \in UploadRecord
    BY <1>2 DEF Base, UploadsOK
  <2> QED BY <2>1 DEF UploadRecord, Statuses
<1> DEFINE status == uploads[script.bulk].status
<1> HIDE DEF status
<1>4. /\ script' \in ScriptRecord /\ script'.at = script.at /\ script'.bulk = script.bulk
      /\ script'.pc = "record"
  <2>1. status \in Statuses /\ Outcome(status)
    BY <1>1, <1>3 DEF status
  <2>2. Book \in Books /\ script \in ScriptRecord
    BY <1>1, ScriptTypes
  <2>3. [script.memory EXCEPT ![Book] = status] \in [Books -> Statuses]
    BY <2>1, <2>2 DEF ScriptRecord
  <2>4. (script.failed \/ status # "completed") \in BOOLEAN
    OBVIOUS
  <2>5. script' = [script EXCEPT !.pc = "record",
                                 !.memory = [script.memory EXCEPT ![Book] = status],
                                 !.failed = script.failed \/ status # "completed"]
    BY <2>1, <2>2 DEF Outcome, ScriptRecord
  <2> QED BY <2>2, <2>3, <2>4, <2>5 DEF ScriptRecord, Pcs
<1>5. ScriptFits(script', uploads)
  BY <1>1, <1>4, GoesOn
<1> QED BY <1>1, <1>2, <1>3, <1>5 DEF Outcome

LEMMA CleanKeepsBase ==
  ASSUME Base, Clean
  PROVE  ScriptFits(script', uploads') /\ DiskOK'
<1>1. script.pc = "clean" /\ uploads' = uploads
  BY DEF Clean, At
<1>2. ScriptFits(script', uploads')
  BY <1>1, ScriptTypes DEF Clean
<1>3. DiskOK'
  BY DEF Clean, Base, DiskOK, Contents
<1> QED BY <1>2, <1>3

\* Uploads end and go on being the uploads they were.
LEMMA UploadEndsFits ==
  ASSUME Base, NEW i \in DOMAIN uploads, NEW status \in {"failed", "completed"},
         UploadEnds(i, status)
  PROVE  /\ UploadsOK' /\ ScriptFits(script', uploads')
         /\ DOMAIN uploads' = DOMAIN uploads
         /\ \A j \in DOMAIN uploads : /\ uploads'[j].book = uploads[j].book
                                      /\ uploads[j].status # "running" => uploads'[j] = uploads[j]
         /\ UNCHANGED <<script, disk, file, folders>>
<1>1. /\ uploads[i].status = "running" /\ uploads' = [uploads EXCEPT ![i].status = status]
      /\ UNCHANGED <<script, disk, file, folders>>
  BY DEF UploadEnds
<1>2. uploads \in Seq(UploadRecord) /\ \A j \in DOMAIN uploads : uploads[j] \in UploadRecord
  BY DEF Base, UploadsOK
<1>3. [uploads[i] EXCEPT !.status = status] \in UploadRecord
      /\ [uploads[i] EXCEPT !.status = status].book = uploads[i].book
  BY <1>2 DEF UploadRecord
<1>4. /\ uploads' \in Seq(UploadRecord) /\ Len(uploads') = Len(uploads)
      /\ DOMAIN uploads' = DOMAIN uploads
  BY <1>1, <1>2, <1>3
<1>5. \A j \in DOMAIN uploads : /\ uploads'[j].book = uploads[j].book
                                /\ uploads[j].status # "running" => uploads'[j] = uploads[j]
  BY <1>1, <1>2, <1>3
<1>6. ScriptFits(script', uploads')
  BY <1>1, <1>4, <1>5 DEF Base, ScriptFits
<1> QED BY <1>1, <1>4, <1>5, <1>6 DEF UploadsOK

\* A folder that could not be ensured leaves a run that has given up.
LEMMA FolderFailsFits ==
  ASSUME Base, FolderFails
  PROVE  ScriptFits(script', uploads') /\ folders' \in 0 .. 2
<1>1. script.pc # "idle" /\ uploads' = uploads
  BY DEF FolderFails, At
<1>2. ScriptFits(script', uploads)
  BY <1>1, ScriptTypes, OverFits DEF FolderFails, GivenUp, Base, UploadsOK
<1>3. folders' \in 0 .. 2
  BY DEF FolderFails, CanAddFolder, Base, CountsOK
<1> QED BY <1>1, <1>2, <1>3

LEMMA OtherDeletesFits ==
  ASSUME Base, OtherDeletes
  PROVE  /\ ScriptFits(script', uploads') /\ folders' \in 0 .. 2
         /\ script'.pc = script.pc /\ script'.at = script.at
         /\ script'.memory = script.memory /\ script'.failed = script.failed
         /\ script'.exit = script.exit
<1>1. PICK home \in BOOLEAN : script' = [script EXCEPT !.home = home]
  BY DEF OtherDeletes
<1>2. script \in ScriptRecord /\ uploads' = uploads
  BY DEF Base, ScriptFits, OtherDeletes
<1>3. /\ script' \in ScriptRecord
      /\ script'.pc = script.pc /\ script'.at = script.at /\ script'.bulk = script.bulk
      /\ script'.memory = script.memory /\ script'.failed = script.failed
      /\ script'.exit = script.exit /\ script'.chapter = script.chapter
  BY <1>1, <1>2 DEF ScriptRecord
<1>4. ScriptFits(script', uploads')
  BY <1>2, <1>3 DEF Base, ScriptFits
<1>5. folders' \in 0 .. 2
  BY DEF OtherDeletes, Base, CountsOK
<1> QED BY <1>3, <1>4, <1>5

\* The steps by what they may change.
ScriptOnly ==
  \/ Start \/ Discover \/ Zip \/ WaitEnds \/ WaitGivesUp
  \/ StartFails \/ DiscoverFails \/ PollFails
DiskSteps == Fetch \/ Write \/ FetchFails \/ Clean
UploadSteps == Completes \/ Rejects \/ UploadFails
FolderSteps == ListFolders \/ CreateFolder \/ FolderFails \/ OtherCreates \/ OtherDeletes

LEMMA NextIsAStep ==
  ASSUME Next
  PROVE  \/ ScriptOnly \/ DiskSteps \/ Post \/ PostFails \/ OpenState \/ SaveState
         \/ UploadSteps \/ FolderSteps \/ Killed
BY DEF Next, Step, Failure, ScriptOnly, DiskSteps, UploadSteps, FolderSteps

LEMMA CountsStep ==
  ASSUME CountsOK, Next
  PROVE  failures' \in 0 .. MaxFailures /\ crashes' \in 0 .. MaxCrashes
BY ConstantsFit DEF Next, CountsOK, Works, Fails, Killed

LEMMA ScriptOnlyFits ==
  ASSUME Base, ScriptOnly
  PROVE  ScriptFits(script', uploads') /\ UNCHANGED <<disk, file, uploads, folders>>
<1>1. UNCHANGED <<disk, file, uploads, folders>>
  BY DEF ScriptOnly, Start, Discover, Zip, WaitEnds, WaitGivesUp, Outcome, StartFails,
         DiscoverFails, PollFails
<1>2. CASE DiscoverFails
  BY <1>1, <1>2, ScriptTypes DEF DiscoverFails, At
<1>3. CASE StartFails \/ PollFails
  BY <1>1, <1>3, OverFits DEF StartFails, PollFails, Base, UploadsOK
<1>4. CASE Start \/ Discover \/ Zip \/ WaitEnds \/ WaitGivesUp
  BY <1>1, <1>4, StartKeepsBase, DiscoverKeepsBase, ZipKeepsBase, OutcomeKeepsBase
<1> QED BY <1>1, <1>2, <1>3, <1>4 DEF ScriptOnly

LEMMA NextKeepsBase == Base /\ [Next]_vars => Base'
<1> SUFFICES ASSUME Base, [Next]_vars PROVE Base'
  OBVIOUS
<1>1. CASE UNCHANGED vars
  BY <1>1 DEF vars, Base, ScriptFits, DiskOK, FileOK, UploadsOK, CountsOK
<1> DEFINE Parts == /\ ScriptFits(script', uploads') /\ DiskOK' /\ FileOK' /\ UploadsOK'
                    /\ folders' \in 0 .. 2
<1>2. ASSUME Next PROVE Parts
  <2>1. CASE ScriptOnly
    BY <2>1, ScriptOnlyFits DEF Base, DiskOK, FileOK, UploadsOK, CountsOK
  <2>2. CASE DiskSteps
    <3>1. UNCHANGED <<file, uploads, folders>>
      BY <2>2 DEF DiskSteps, Fetch, Write, FetchFails, Clean
    <3> QED BY <2>2, <3>1, FetchKeepsBase, CleanKeepsBase
            DEF DiskSteps, Base, FileOK, UploadsOK, CountsOK
  <2>3. CASE Post \/ PostFails
    <3>1. UNCHANGED <<disk, file, folders>>
      BY <2>3 DEF Post, PostFails
    <3> QED BY <2>3, <3>1, PostKeepsBase DEF Base, DiskOK, FileOK, CountsOK
  <2>4. CASE OpenState \/ SaveState
    <3>1. UNCHANGED <<disk, uploads, folders>>
      BY <2>4 DEF OpenState, SaveState
    <3> QED BY <2>4, <3>1, StateKeepsBase DEF Base, DiskOK, UploadsOK, CountsOK
  <2>5. CASE UploadSteps
    <3>1. PICK i \in DOMAIN uploads, status \in {"failed", "completed"} : UploadEnds(i, status)
      BY <2>5 DEF UploadSteps, Completes, Rejects, UploadFails
    <3> QED BY <3>1, UploadEndsFits DEF Base, DiskOK, FileOK, CountsOK
  <2>6. CASE FolderSteps
    <3>1. UNCHANGED <<disk, file, uploads>>
      BY <2>6 DEF FolderSteps, ListFolders, CreateFolder, FolderFails, OtherCreates, OtherDeletes
    <3>2. CASE OtherCreates
      BY <3>1, <3>2 DEF OtherCreates, CanAddFolder, Base, DiskOK, FileOK, UploadsOK, CountsOK
    <3> QED BY <2>6, <3>1, <3>2, FoldersKeepBase, FolderFailsFits, OtherDeletesFits
            DEF FolderSteps, Base, DiskOK, FileOK, UploadsOK
  <2>7. CASE Killed
    <3>1. UNCHANGED <<disk, file, uploads, folders>> /\ script' = Over("aborted")
      BY <2>7 DEF Killed
    <3> QED BY <3>1, OverFits DEF Base, DiskOK, FileOK, UploadsOK, CountsOK
  <2> QED BY <1>2, <2>1, <2>2, <2>3, <2>4, <2>5, <2>6, <2>7, NextIsAStep
<1>3. ASSUME Next PROVE CountsOK'
  BY <1>2, <1>3, CountsStep DEF Base, CountsOK
<1>4. ASSUME Next PROVE Base'
  BY <1>2, <1>3, <1>4 DEF Base, ScriptFits
<1> QED BY <1>1, <1>4

LEMMA InitEstablishesBase == Init => Base
<1> SUFFICES ASSUME Init PROVE Base
  OBVIOUS
<1>1. uploads \in Seq(UploadRecord)
  BY DEF Init
<1>2. ScriptFits(script, uploads)
  BY <1>1, OverFits DEF Init
<1>3. DiskOK /\ FileOK /\ UploadsOK
  BY <1>1, TornIsOther DEF Init, DiskOK, FileOK, UploadsOK, Contents
<1>4. CountsOK
  BY ConstantsFit DEF Init, CountsOK
<1> QED BY <1>2, <1>3, <1>4 DEF Base

LEMMA BaseHolds == Spec => []Base
BY InitEstablishesBase, NextKeepsBase, PTL DEF Spec

\* The script's variables, its state file and what it has on disk are what the
\* later runs expect, whenever a run was killed.
THEOREM TypeCorrect == Spec => []TypeOK
BY BaseHolds, BaseGivesTypes, PTL

-----------------------------------------------------------------------------
(* What the script says is true, when it waits for its uploads. *)

\* A completed upload of the book.
Done(b, ups) == \E i \in DOMAIN ups : ups[i].book = b /\ ups[i].status = "completed"

TrueOf(f, ups) == \A b \in Books : f[b] = "completed" => Done(b, ups)

\* What is remembered is what was last written.
Synced(s, f) == f = s.memory \/ (f = Torn /\ s.memory = NoState)

Before(s) == s.failed \/ \A i \in 1 .. s.at - 1 : s.memory[Plan[i]] = "completed"

Open == {"list", "create", "fetch", "write", "post", "note", "noting", "wait"}
Closed == {"record", "recording", "clean"}
Writing == {"note", "noting", "record", "recording"}

\* The run underway has completed every book before the one it is at, unless
\* something failed, and what it remembers is in the file.
Underway(s, f) ==
  s.pc # "idle" =>
    /\ s.exit = "none"
    /\ Before(s)
    /\ s.pc \in Open => s.memory[Plan[s.at]] # "completed"
    /\ s.pc \in Closed => s.failed \/ s.memory[Plan[s.at]] = "completed"
    /\ s.pc \notin Writing => Synced(s, f)

Honest(s, f, ups) ==
  /\ Underway(s, f)
  /\ s.exit = "ok" => f # Torn /\ \A b \in Books : f[b] = "completed"
  /\ TrueOf(s.memory, ups)
  /\ f # Torn => TrueOf(f, ups)

Truth == Base /\ Honest(script, file, uploads)

LEMMA TruthGivesReports == Truth => ReportsAreTrue
BY DEF Truth, Honest, TrueOf, Done, ReportsAreTrue, UploadsOf

\* Nothing is known of a run that is not the one that has ended well.
LEMMA OverIsHonest ==
  ASSUME NEW exit \in {"none", "failed", "aborted"}, NEW f, NEW ups, f # Torn => TrueOf(f, ups)
  PROVE  Honest(Over(exit), f, ups)
BY DEF Over, Honest, Underway, TrueOf, NoState

\* A script that has the book behind it.
Behind(s) ==
  /\ s \in ScriptRecord /\ s.at \in 1 .. Len(Plan) /\ s.exit = "none"
  /\ s.failed \/ \A i \in 1 .. s.at : s.memory[Plan[i]] = "completed"

LEMMA NextBookIsHonest ==
  ASSUME NEW s, NEW f, NEW ups, Behind(s), Synced(s, f),
         TrueOf(s.memory, ups), f # Torn => TrueOf(f, ups)
  PROVE  Honest(NextBook(s), f, ups)
<1>1. CASE /\ s.at < Len(Plan) /\ NextBook(s).pc = "book" /\ NextBook(s).at = s.at + 1
           /\ NextBook(s).failed = s.failed /\ NextBook(s).memory = s.memory
           /\ NextBook(s).exit = s.exit
  <2> HIDE DEF NextBook
  <2>1. Before(NextBook(s))
    <3>1. s.at \in Nat /\ 1 .. (s.at + 1) - 1 = 1 .. s.at
      BY ConstantsFit DEF Behind
    <3> QED BY <1>1, <3>1 DEF Before, Behind
  <2>2. Underway(NextBook(s), f)
    BY <1>1, <2>1 DEF Underway, Open, Closed, Behind, Synced
  <2> QED BY <1>1, <2>2 DEF Honest, Behind
<1>2. CASE s.failed /\ NextBook(s) = Over("failed")
  BY <1>2, OverIsHonest
<1>3. CASE s.at = Len(Plan) /\ ~s.failed /\ NextBook(s) = Over("ok")
  <2>1. \A b \in Books : s.memory[b] = "completed"
    BY <1>3, ConstantsFit DEF Behind
  <2>2. f = s.memory /\ f # Torn
    <3>1. PICK b \in Books : TRUE
      BY ConstantsFit
    <3>2. s.memory # NoState
      BY <2>1, <3>1 DEF NoState
    <3>3. f = s.memory
      BY <3>2 DEF Synced
    <3> QED BY <3>3, TornIsOther DEF Behind, ScriptRecord
  <2> QED BY <1>3, <2>1, <2>2 DEF Over, Honest, Underway, TrueOf, NoState
<1> QED BY <1>1, <1>2, <1>3, NextBookFits DEF Behind

LEMMA MissedIsHonest ==
  ASSUME Truth, script.pc \notin {"idle"} \cup Writing, NEW ups,
         \A b \in Books : Done(b, uploads) => Done(b, ups)
  PROVE  Honest(Missed, file, ups)
<1> DEFINE s == [script EXCEPT !.failed = TRUE]
<1>1. script \in ScriptRecord /\ script.at \in 1 .. Len(Plan)
  BY ScriptTypes DEF Truth
<1>2. script.exit = "none" /\ Synced(script, file)
  BY DEF Truth, Honest, Underway
<1>3. /\ s \in ScriptRecord /\ s.at = script.at /\ s.exit = script.exit /\ s.failed
      /\ s.memory = script.memory
  BY <1>1 DEF ScriptRecord
<1>4. TrueOf(script.memory, ups) /\ (file # Torn => TrueOf(file, ups))
  BY DEF Truth, Honest, TrueOf
<1> HIDE DEF s
<1>5. Behind(s) /\ Synced(s, file)
  BY <1>1, <1>2, <1>3 DEF Behind, Synced
<1>6. Honest(NextBook(s), file, ups)
  BY <1>3, <1>4, <1>5, NextBookIsHonest
<1> QED BY <1>6 DEF Missed, s

\* The script goes on with the book.
LEMMA GoesOnHonestly ==
  ASSUME Truth, script.pc # "idle", NEW x, x.at = script.at, x.memory = script.memory,
         x.failed = script.failed, x.exit = script.exit, x.pc # "idle",
         x.pc \in Open => script.memory[Book] # "completed",
         x.pc \in Closed => script.pc \in Closed,
         x.pc \notin Writing => script.pc \notin Writing
  PROVE  Honest(x, file, uploads)
BY DEF Truth, Honest, Underway, Before, Synced, Book

LEMMA UploadsGrow ==
  ASSUME Truth, UNCHANGED <<file, script>>, \A b \in Books : Done(b, uploads) => Done(b, uploads')
  PROVE  Honest(script', file', uploads')
BY DEF Truth, Honest, TrueOf

LEMMA AcceptedGrows ==
  ASSUME Base, script.pc # "idle", Accepted \/ UNCHANGED uploads
  PROVE  \A b \in Books : Done(b, uploads) => Done(b, uploads')
BY AcceptedIsUpload DEF Done

-----------------------------------------------------------------------------
LEMMA StartIsHonest ==
  ASSUME Truth, Start
  PROVE  Honest(script', file', uploads')
<1>1. file' = file /\ uploads' = uploads
  BY DEF Start
<1>2. /\ script'.pc = "book" /\ script'.at = 1 /\ script'.memory = Loaded
      /\ script'.exit = "none" /\ ~script'.failed
  BY DEF Start, Over
<1>3. Underway(script', file)
  BY <1>2 DEF Underway, Before, Open, Closed, Synced, Loaded
<1>4. TrueOf(Loaded, uploads)
  BY DEF Truth, Honest, TrueOf, Loaded, NoState
<1> QED BY <1>1, <1>2, <1>3, <1>4 DEF Truth, Honest

LEMMA DiscoverIsHonest ==
  ASSUME Truth, Discover
  PROVE  Honest(script', file', uploads')
<1>1. script.pc = "book" /\ file' = file /\ uploads' = uploads
  BY DEF Discover, At
<1>2. script \in ScriptRecord /\ script.at \in 1 .. Len(Plan)
  BY <1>1, ScriptTypes DEF Truth
<1>3. CASE Skipped
  <2>1. script' = NextBook(script)
    BY <1>3 DEF Discover
  <2>2. /\ script.exit = "none" /\ Before(script) /\ Synced(script, file)
        /\ TrueOf(script.memory, uploads) /\ (file # Torn => TrueOf(file, uploads))
    BY <1>1 DEF Truth, Honest, Underway, Writing
  <2>3. \A i \in 1 .. script.at : i \in 1 .. script.at - 1 \/ i = script.at
    BY <1>2, ConstantsFit
  <2>4. Behind(script)
    BY <1>2, <1>3, <2>2, <2>3 DEF Behind, Before, Skipped, Book
  <2> QED BY <1>1, <2>1, <2>2, <2>4, NextBookIsHonest
<1>4. CASE ~Skipped
  <2>1. /\ script'.pc = "list" /\ script'.at = script.at /\ script'.memory = script.memory
        /\ script'.failed = script.failed /\ script'.exit = script.exit
    BY <1>2, <1>4 DEF Discover, Go, ScriptRecord
  <2>2. Honest(script', file, uploads)
    BY <1>1, <1>4, <2>1, GoesOnHonestly DEF Skipped, Open, Closed, Writing
  <2> QED BY <1>1, <2>2
<1> QED BY <1>3, <1>4

LEMMA FoldersAreHonest ==
  ASSUME Truth, ListFolders \/ CreateFolder \/ Fetch \/ Write \/ FetchFails
  PROVE  Honest(script', file', uploads')
<1>1. /\ script.pc \in {"list", "create", "fetch", "write"} /\ file' = file
      /\ uploads' = uploads
  BY DEF ListFolders, CreateFolder, Fetch, Write, FetchFails, At
<1>2. script \in ScriptRecord
  BY <1>1, ScriptTypes DEF Truth
<1>3. /\ script'.pc \in {"create", "fetch", "write"} /\ script'.at = script.at
      /\ script'.memory = script.memory
      /\ script'.failed = script.failed /\ script'.exit = script.exit
  BY <1>1, <1>2 DEF ListFolders, CreateFolder, Fetch, Write, FetchFails, At, Go, ScriptRecord
<1>4. script.memory[Book] # "completed"
  BY <1>1 DEF Truth, Honest, Underway, Open, Book
<1>5. Honest(script', file, uploads)
  BY <1>1, <1>3, <1>4, GoesOnHonestly DEF Closed, Writing
<1> QED BY <1>1, <1>5

LEMMA ZipIsHonest ==
  ASSUME Truth, Zip
  PROVE  Honest(script', file', uploads')
<1>1. script.pc = "fetch" /\ file' = file /\ uploads' = uploads
  BY DEF Zip, At
<1>2. script \in ScriptRecord
  BY <1>1, ScriptTypes DEF Truth
<1>3. CASE Empty \/ Oversize
  BY <1>1, <1>3, MissedIsHonest DEF Zip, Writing
<1>4. CASE ~(Empty \/ Oversize)
  <2>1. /\ script'.pc = "post" /\ script'.at = script.at /\ script'.memory = script.memory
        /\ script'.failed = script.failed /\ script'.exit = script.exit
    BY <1>2, <1>4 DEF Zip, Go, ScriptRecord
  <2>2. script.memory[Book] # "completed"
    BY <1>1 DEF Truth, Honest, Underway, Open, Book
  <2>3. Honest(script', file, uploads)
    BY <1>1, <2>1, <2>2, GoesOnHonestly DEF Closed, Writing
  <2> QED BY <1>1, <2>3
<1> QED BY <1>3, <1>4

\* The book's entry changes, and that of no other: those before it are others.
LEMMA EntryChanges ==
  ASSUME Truth, script.pc \in Open, NEW x, NEW status, status \in Statuses,
         x.at = script.at, x.memory = [script.memory EXCEPT ![Book] = status],
         x.exit = script.exit, x.failed \/ (x.failed = script.failed),
         x.pc \in {"note", "record"},
         x.pc = "note" => status # "completed",
         x.pc = "record" => x.failed \/ status = "completed",
         NEW ups, \A b \in Books : Done(b, uploads) => Done(b, ups),
         status = "completed" => Done(Book, ups)
  PROVE  Honest(x, file, ups)
<1>1. /\ script.pc # "idle" /\ Book \in Books /\ script \in ScriptRecord
      /\ script.at \in 1 .. Len(Plan)
  BY ScriptTypes DEF Truth, Open
<1>2. /\ script.exit = "none" /\ Before(script) /\ script.memory[Book] # "completed"
      /\ TrueOf(script.memory, uploads) /\ (file # Torn => TrueOf(file, uploads))
  BY <1>1 DEF Truth, Honest, Underway, Book
<1>3. script.memory \in [Books -> Statuses]
  BY <1>1 DEF ScriptRecord
<1>4. /\ x.memory[Book] = status
      /\ \A b \in Books : b # Book => x.memory[b] = script.memory[b]
  BY <1>1, <1>3
<1>5. Before(x)
  <2>1. \A i \in 1 .. script.at - 1 : Plan[i] \in Books
    BY <1>1, ConstantsFit
  <2> QED BY <1>2, <1>4, <2>1 DEF Before
<1>6. Underway(x, file)
  BY <1>2, <1>4, <1>5 DEF Underway, Book, Open, Closed, Writing
<1>7. TrueOf(x.memory, ups)
  BY <1>2, <1>4 DEF TrueOf
<1>8. file # Torn => TrueOf(file, ups)
  BY <1>2 DEF TrueOf
<1> QED BY <1>2, <1>6, <1>7, <1>8 DEF Honest

LEMMA PostIsHonest ==
  ASSUME Truth, Post \/ PostFails
  PROVE  Honest(script', file', uploads')
<1>1. script.pc = "post" /\ file' = file
  BY DEF Post, PostFails, At
<1>2. script \in ScriptRecord /\ Book \in Books
  BY <1>1, ScriptTypes DEF Truth
<1>3. \A b \in Books : Done(b, uploads) => Done(b, uploads')
  BY <1>1, AcceptedGrows DEF Post, PostFails, Truth
<1>4. Honest(Missed, file, uploads')
  BY <1>1, <1>3, MissedIsHonest DEF Writing
<1>5. Honest(Over("aborted"), file, uploads')
  BY <1>3, OverIsHonest DEF Truth, Honest, TrueOf
<1>6. CASE Post /\ script.home
  <2>1. script' = [script EXCEPT !.pc = "note", !.bulk = Len(uploads) + 1,
                                 !.memory[Book] = "uploaded"]
    BY <1>6 DEF Post
  <2>2. /\ script'.at = script.at /\ script'.exit = script.exit /\ script'.pc = "note"
        /\ script'.failed = script.failed
        /\ script'.memory = [script.memory EXCEPT ![Book] = "uploaded"]
    BY <1>2, <2>1 DEF ScriptRecord
  <2>3. Honest(script', file, uploads')
    BY <1>1, <1>3, <2>2, EntryChanges DEF Open, Statuses
  <2> QED BY <1>1, <2>3
<1>7. CASE Post /\ ~script.home
  BY <1>1, <1>4, <1>7 DEF Post
<1>8. CASE PostFails
  BY <1>1, <1>4, <1>5, <1>8 DEF PostFails, GivenUp
<1> QED BY <1>6, <1>7, <1>8

LEMMA OutcomeIsHonest ==
  ASSUME Truth, WaitEnds \/ WaitGivesUp
  PROVE  Honest(script', file', uploads')
<1> DEFINE status == uploads[script.bulk].status
<1>1. /\ script.pc = "wait" /\ script.bulk \in DOMAIN uploads
      /\ uploads[script.bulk].book = Book /\ Outcome(status) /\ status \in Statuses
  BY OutcomeKeepsBase DEF Truth
<1>2. script \in ScriptRecord /\ Book \in Books /\ file' = file /\ uploads' = uploads
  BY <1>1, ScriptTypes DEF Truth, Outcome
<1>3. status = "completed" => Done(Book, uploads)
  BY <1>1 DEF Done
<1> HIDE DEF status
<1>4. script' = [script EXCEPT !.pc = "record",
                               !.memory = [script.memory EXCEPT ![Book] = status],
                               !.failed = script.failed \/ status # "completed"]
  BY <1>1, <1>2 DEF Outcome, ScriptRecord
<1>5. /\ script'.at = script.at /\ script'.exit = script.exit /\ script'.pc = "record"
      /\ script'.failed = (script.failed \/ status # "completed")
      /\ script'.memory = [script.memory EXCEPT ![Book] = status]
  BY <1>2, <1>4 DEF ScriptRecord
<1>6. /\ script'.failed \/ status = "completed"
      /\ script'.failed \/ (script'.failed = script.failed)
  <2>1. script.failed \in BOOLEAN
    BY <1>2 DEF ScriptRecord
  <2> QED BY <1>5, <2>1
<1>7. Honest(script', file, uploads)
  BY <1>1, <1>3, <1>5, <1>6, EntryChanges DEF Open
<1> QED BY <1>2, <1>7

\* Only here the script must have waited: what is saved before the chapters are
\* deleted is the outcome.
LEMMA StateIsHonest ==
  ASSUME ~NoWait, Truth, OpenState \/ SaveState
  PROVE  Honest(script', file', uploads')
<1>1. script.pc \in {"note", "record", "noting", "recording"} /\ uploads' = uploads
  BY DEF OpenState, SaveState
<1>2. script \in ScriptRecord
  BY <1>1, ScriptTypes DEF Truth
<1>3. /\ script'.at = script.at /\ script'.exit = script.exit
      /\ script'.memory = script.memory /\ script'.failed = script.failed
  BY <1>1, <1>2 DEF OpenState, SaveState, Go, ScriptRecord
<1>4. /\ script.exit = "none" /\ Before(script) /\ TrueOf(script.memory, uploads)
      /\ script.pc \in {"note", "noting"} => script.memory[Plan[script.at]] # "completed"
      /\ script.pc \in {"record", "recording"} =>
           script.failed \/ script.memory[Plan[script.at]] = "completed"
  BY <1>1 DEF Truth, Honest, Underway, Open, Closed
<1>5. CASE OpenState
  <2>1. file' = Torn /\ script'.pc = IF script.pc = "note" THEN "noting" ELSE "recording"
    BY <1>2, <1>5 DEF OpenState, At, Go, ScriptRecord
  <2>2. script.pc \in {"note", "record"}
    BY <1>5 DEF OpenState
  <2>3. Underway(script', file')
    BY <1>3, <1>4, <2>1, <2>2 DEF Underway, Before, Open, Closed, Writing
  <2> QED BY <1>1, <1>3, <1>4, <2>1, <2>3 DEF Honest
<1>6. CASE SaveState
  <2>1. file' = script.memory /\ script'.pc = IF script.pc = "noting" THEN "wait" ELSE "clean"
    BY <1>2, <1>6 DEF SaveState, At, Go, ScriptRecord
  <2>2. script.pc \in {"noting", "recording"}
    BY <1>6 DEF SaveState
  <2>3. Underway(script', file')
    BY <1>3, <1>4, <2>1, <2>2 DEF Underway, Before, Open, Closed, Synced
  <2> QED BY <1>1, <1>3, <1>4, <2>1, <2>3 DEF Honest
<1> QED BY <1>5, <1>6

LEMMA CleanIsHonest ==
  ASSUME Truth, Clean
  PROVE  Honest(script', file', uploads')
<1>1. script.pc = "clean" /\ file' = file /\ uploads' = uploads /\ script' = NextBook(script)
  BY DEF Clean, At
<1>2. script \in ScriptRecord /\ script.at \in 1 .. Len(Plan)
  BY <1>1, ScriptTypes DEF Truth
<1>3. /\ script.exit = "none" /\ Before(script) /\ Synced(script, file)
      /\ script.failed \/ script.memory[Plan[script.at]] = "completed"
      /\ TrueOf(script.memory, uploads) /\ (file # Torn => TrueOf(file, uploads))
  BY <1>1 DEF Truth, Honest, Underway, Closed, Writing
<1>4. \A i \in 1 .. script.at : i \in 1 .. script.at - 1 \/ i = script.at
  BY <1>2, ConstantsFit
<1>5. Behind(script)
  BY <1>2, <1>3, <1>4 DEF Behind, Before
<1> QED BY <1>1, <1>3, <1>5, NextBookIsHonest

LEMMA UploadEndIsHonest ==
  ASSUME Truth, UploadSteps
  PROVE  Honest(script', file', uploads')
<1>1. PICK i \in DOMAIN uploads, status \in {"failed", "completed"} : UploadEnds(i, status)
  BY DEF UploadSteps, Completes, Rejects, UploadFails
<1>2. /\ DOMAIN uploads' = DOMAIN uploads /\ UNCHANGED <<script, file>>
      /\ \A j \in DOMAIN uploads : uploads[j].status # "running" => uploads'[j] = uploads[j]
  BY <1>1, UploadEndsFits DEF Truth
<1>3. \A b \in Books : Done(b, uploads) => Done(b, uploads')
  BY <1>2 DEF Done
<1> QED BY <1>2, <1>3, UploadsGrow

LEMMA OtherDeleteIsHonest ==
  ASSUME Truth, OtherDeletes
  PROVE  Honest(script', file', uploads')
<1>1. /\ script'.pc = script.pc /\ script'.at = script.at /\ script'.memory = script.memory
      /\ script'.failed = script.failed /\ script'.exit = script.exit
      /\ file' = file /\ uploads' = uploads
  BY OtherDeletesFits DEF Truth, OtherDeletes
<1> QED BY <1>1 DEF Truth, Honest, Underway, Before, Synced

LEMMA NextKeepsTruth ==
  ASSUME ~NoWait
  PROVE  Truth /\ [Next]_vars => Truth'
<1> SUFFICES ASSUME Truth, [Next]_vars PROVE Truth'
  OBVIOUS
<1>1. Base'
  BY NextKeepsBase DEF Truth
<1>2. CASE UNCHANGED vars
  BY <1>1, <1>2 DEF vars, Truth
<1>3. ASSUME Next PROVE Honest(script', file', uploads')
  <2>1. CASE ScriptOnly
    <3>1. UNCHANGED <<file, uploads>>
      BY <2>1, ScriptOnlyFits DEF Truth
    <3>2. CASE DiscoverFails
      BY <3>1, <3>2, MissedIsHonest DEF DiscoverFails, Writing, At
    <3>3. CASE StartFails \/ PollFails
      BY <3>1, <3>3, OverIsHonest DEF StartFails, PollFails, Truth, Honest
    <3> QED BY <2>1, <3>2, <3>3, StartIsHonest, DiscoverIsHonest, ZipIsHonest, OutcomeIsHonest
            DEF ScriptOnly
  <2>2. CASE DiskSteps
    BY <2>2, FoldersAreHonest, CleanIsHonest DEF DiskSteps
  <2>3. CASE FolderSteps
    <3>1. CASE OtherCreates
      BY <3>1, UploadsGrow DEF OtherCreates
    <3>2. CASE FolderFails
      BY <3>2, MissedIsHonest, OverIsHonest
      DEF FolderFails, GivenUp, Writing, Truth, Honest
    <3> QED BY <2>3, <3>1, <3>2, FoldersAreHonest, OtherDeleteIsHonest DEF FolderSteps
  <2>4. CASE Killed
    <3>1. script' = Over("aborted") /\ file' = file /\ uploads' = uploads
      BY <2>4 DEF Killed
    <3> QED BY <3>1, OverIsHonest DEF Truth, Honest
  <2> QED BY <1>3, <2>1, <2>2, <2>3, <2>4, PostIsHonest, StateIsHonest, UploadEndIsHonest,
             NextIsAStep
<1> QED BY <1>1, <1>2, <1>3 DEF Truth

LEMMA InitEstablishesTruth == Init => Truth
<1> SUFFICES ASSUME Init PROVE Truth
  OBVIOUS
<1>1. Base
  BY InitEstablishesBase
<1>2. TrueOf(file, uploads)
  BY DEF Init, TrueOf, NoState
<1> QED BY <1>1, <1>2, OverIsHonest DEF Init, Truth

\* A book the state file calls completed has a completed upload, and exit code 0
\* means that every book is, whichever runs were killed, whichever answers were
\* lost and however often the catalogue names a book.  The script must wait for
\* its uploads: with --no-wait a run ends with 0 while they are still running.
THEOREM WhatIsReportedIsTrue ==
  ASSUME ~NoWait
  PROVE  Spec => []ReportsAreTrue
<1>1. Truth /\ [Next]_vars => Truth'
  BY NextKeepsTruth
<1> QED BY <1>1, InitEstablishesTruth, TruthGivesReports, PTL DEF Spec

-----------------------------------------------------------------------------
(* Every further upload of a book has a cause.  What has gone wrong is spent *)
(* on uploads; Need is what must be left of it for a book, because the book  *)
(* will be uploaded again without anything else going wrong (1), or because  *)
(* that upload may then be rejected, for a chapter that is not whole (2).    *)

TornLeft(b) ==
  \E c \in Chapters : /\ disk[b][c] = "torn"
                      /\ ~(script.pc = "write" /\ b = Book /\ c = script.chapter)

\* What the run knows of the books, or the next run will know.
Known == IF script.pc = "idle" THEN Loaded ELSE script.memory

Awaited == {"note", "noting", "wait"}

\* This run has uploaded the book.
Posted(b) == script.pc \in Awaited \cup Closed /\ b = Book

\* Its upload is, or may still be, none that counts.
LooseEnd ==
  IF script.pc \in Awaited
  THEN LET u == uploads[script.bulk]
       IN u.status = "failed" \/ (u.status = "running" /\ HasTorn(u))
  ELSE script.memory[Book] # "completed"

Need(b) ==
  IF Posted(b) THEN IF TornLeft(b) \/ LooseEnd THEN 1 ELSE 0
  ELSE IF TornLeft(b) THEN 2 ELSE IF Known[b] # "completed" THEN 1 ELSE 0

Count(b) == Cardinality(UploadsOf(b))

Causes == \A b \in Books : Count(b) + Need(b) <= 1 + failures + crashes

LEMMA SameCount ==
  ASSUME NEW b, \/ uploads' = uploads
                \/ /\ DOMAIN uploads' = DOMAIN uploads
                   /\ \A i \in DOMAIN uploads : uploads'[i].book = uploads[i].book
  PROVE  Count(b)' = Count(b)
<1>1. UploadsOf(b)' = UploadsOf(b)
  BY DEF UploadsOf
<1> QED BY <1>1 DEF Count

LEMMA CountIsNat ==
  ASSUME Base, NEW b
  PROVE  IsFiniteSet(UploadsOf(b)) /\ Count(b) \in Nat
<1>1. Len(uploads) \in Nat /\ UploadsOf(b) \subseteq 1 .. Len(uploads)
  BY DEF Base, UploadsOK, UploadsOf
<1>2. IsFiniteSet(1 .. Len(uploads))
  BY <1>1, FS_Interval
<1>3. IsFiniteSet(UploadsOf(b))
  BY <1>1, <1>2, FS_Subset
<1> QED BY <1>3, FS_CardinalityType DEF Count

LEMMA CountGrows ==
  ASSUME Base, script.pc # "idle", Accepted, NEW b
  PROVE  Count(b)' = IF b = Book THEN Count(b) + 1 ELSE Count(b)
<1> DEFINE n == Len(uploads) + 1
<1>1. /\ UploadsOK' /\ Len(uploads') = n /\ uploads'[n].book = Book
      /\ \A i \in DOMAIN uploads : i \in DOMAIN uploads' /\ uploads'[i] = uploads[i]
  BY AcceptedIsUpload
<1>2. DOMAIN uploads' = DOMAIN uploads \cup {n} /\ n \notin DOMAIN uploads
  BY <1>1 DEF Base, UploadsOK
<1>3. UploadsOf(b)' = IF b = Book THEN UploadsOf(b) \cup {n} ELSE UploadsOf(b)
  BY <1>1, <1>2 DEF UploadsOf
<1>4. n \notin UploadsOf(b)
  BY <1>2 DEF UploadsOf
<1>5. Cardinality(UploadsOf(b) \cup {n}) = Cardinality(UploadsOf(b)) + 1
  BY <1>4, CountIsNat, FS_AddElement
<1> QED BY <1>3, <1>5 DEF Count

LEMMA NeedRange == ASSUME NEW b PROVE Need(b) \in 0 .. 2
BY DEF Need

LEMMA NeedStays ==
  ASSUME NEW b \in Books, Posted(b)' <=> Posted(b), TornLeft(b)' => TornLeft(b),
         Posted(b) => (LooseEnd' => LooseEnd),
         ~Posted(b) => (Known'[b] # "completed" => Known[b] # "completed")
  PROVE  Need(b)' <= Need(b)
BY DEF Need

LEMMA TornStays ==
  ASSUME NEW b, disk' = disk, script.pc # "write"
  PROVE  TornLeft(b)' => TornLeft(b)
BY DEF TornLeft

\* Before the upload and between the runs.
LEMMA UnpostedStep ==
  ASSUME script.pc \notin Awaited \cup Closed, script'.pc \notin Awaited \cup Closed,
         disk' = disk, script.pc # "write", Known' = Known, NEW b \in Books
  PROVE  Need(b)' <= Need(b)
<1>1. ~Posted(b) /\ ~Posted(b)'
  BY DEF Posted
<1> QED BY <1>1, TornStays, NeedStays

\* A failure needs no more than it pays for: what a run that is killed leaves
\* torn is of a book it had to upload anyway.
LEMMA FaultPays ==
  ASSUME Truth, disk' = disk, NEW b \in Books
  PROVE  Need(b)' <= Need(b) + 1
<1>1. ASSUME TornLeft(b)', ~TornLeft(b)
      PROVE  Need(b) = 1
  <2>1. script.pc = "write" /\ b = Book
    BY <1>1 DEF TornLeft
  <2>2. script.memory[Book] # "completed"
    BY <2>1 DEF Truth, Honest, Underway, Open, Book
  <2> QED BY <1>1, <2>1, <2>2 DEF Need, Known, Posted, Awaited, Closed
<1>2. Need(b) \in 0 .. 2 /\ (TornLeft(b) => Need(b) >= 1)
  BY DEF Need
<1>3. Need(b)' \in 0 .. 2 /\ (Need(b)' = 2 => TornLeft(b)')
  BY DEF Need
<1> QED BY <1>1, <1>2, <1>3

\* On to the next book: nothing is forgotten.
LEMMA KnownNext ==
  ASSUME Truth, script.pc \notin {"idle"} \cup Writing, NEW s, s \in ScriptRecord,
         s.at = script.at, s.memory = script.memory, script' = NextBook(s), file' = file
  PROVE  script'.pc \in {"idle", "book"} /\ Known' = script.memory
<1>1. script \in ScriptRecord /\ script.at \in 1 .. Len(Plan)
  BY ScriptTypes DEF Truth
<1>2. Loaded = script.memory
  <2>1. Synced(script, file)
    BY DEF Truth, Honest, Underway
  <2> QED BY <1>1, <2>1, TornIsOther DEF Synced, Loaded, ScriptRecord
<1>3. \/ script'.pc = "book" /\ script'.memory = s.memory
      \/ script'.pc = "idle"
  BY <1>1, NextBookFits DEF Over
<1> QED BY <1>2, <1>3 DEF Known, Loaded

LEMMA MissedKnown ==
  ASSUME Truth, script.pc \notin {"idle"} \cup Writing, script' = Missed, file' = file
  PROVE  script'.pc \in {"idle", "book"} /\ Known' = script.memory
<1> DEFINE s == [script EXCEPT !.failed = TRUE]
<1>1. s \in ScriptRecord /\ s.at = script.at /\ s.memory = script.memory
  BY ScriptTypes DEF Truth, ScriptRecord
<1> HIDE DEF s
<1> QED BY <1>1, KnownNext DEF Missed, s

-----------------------------------------------------------------------------
LEMMA EarlyNeeds ==
  ASSUME Truth, Start \/ Discover \/ Zip \/ ListFolders \/ CreateFolder, NEW b \in Books
  PROVE  Need(b)' <= Need(b)
<1> USE DEF Awaited, Closed
<1>1. /\ disk' = disk /\ file' = file
      /\ script.pc \in {"idle", "book", "fetch", "list", "create"}
  BY DEF Start, Discover, Zip, ListFolders, CreateFolder, At
<1>2. CASE Start
  <2>1. script'.pc = "book" /\ script'.memory = Loaded /\ script.pc = "idle"
    BY <1>2 DEF Start, Over, At
  <2> QED BY <1>1, <2>1, UnpostedStep DEF Known
<1>3. CASE script.pc # "idle" /\ (script' = Missed \/ script' = NextBook(script))
  <2>1. script'.pc \in {"idle", "book"} /\ Known' = Known
    BY <1>1, <1>3, ScriptTypes, MissedKnown, KnownNext DEF Truth, Known, Writing
  <2> QED BY <1>1, <2>1, UnpostedStep
<1>4. CASE ListFolders \/ CreateFolder \/ \E pc \in {"list", "post"} : Go(pc) /\ script.pc # "idle"
  <2>1. script \in ScriptRecord /\ script.pc # "idle"
    BY <1>4, ScriptTypes DEF Truth, ListFolders, CreateFolder, At
  <2>2. script'.pc \in {"list", "create", "fetch", "post"} /\ script'.memory = script.memory
    BY <1>4, <2>1 DEF ListFolders, CreateFolder, Go, ScriptRecord
  <2> QED BY <1>1, <2>1, <2>2, UnpostedStep DEF Known
<1>5. Discover => script.pc # "idle" /\ (script' = NextBook(script) \/ Go("list"))
  BY DEF Discover, At
<1>6. Zip => script.pc # "idle" /\ (script' = Missed \/ Go("post"))
  BY DEF Zip, At
<1> QED BY <1>2, <1>3, <1>4, <1>5, <1>6

LEMMA FetchNeeds ==
  ASSUME Truth, Fetch \/ Write, NEW b \in Books
  PROVE  Need(b)' <= Need(b)
<1>1. /\ script \in ScriptRecord /\ script.pc \in {"fetch", "write"}
      /\ script.chapter \in Chapters /\ Book \in Books
      /\ disk \in [Books -> [Chapters -> Contents]]
  BY ScriptTypes DEF Truth, Fetch, Write, At, Base, ScriptFits, DiskOK
<1>2. /\ script'.pc \in {"fetch", "write"} /\ script'.memory = script.memory
      /\ script'.at = script.at
  BY <1>1 DEF Fetch, Write, At, Go, ScriptRecord
<1>3. TornLeft(b)' => TornLeft(b)
  <2>1. CASE Fetch /\ disk' = disk
    BY <1>1, <2>1, TornStays DEF Fetch, At
  <2>2. CASE Fetch /\ disk' # disk
    <3>1. /\ script.pc = "fetch" /\ disk' = [disk EXCEPT ![Book][script.chapter] = "torn"]
          /\ script' = [script EXCEPT !.pc = "write"]
      BY <2>2 DEF Fetch, At, Go
    <3>2. script'.pc = "write" /\ script'.chapter = script.chapter
      BY <1>1, <3>1 DEF ScriptRecord
    <3> QED BY <1>1, <1>2, <3>1, <3>2 DEF TornLeft, Book
  <2>3. CASE Write
    <3>1. disk' = [disk EXCEPT ![Book][script.chapter] = "whole"]
      BY <2>3 DEF Write
    <3> QED BY <1>1, <1>2, <3>1 DEF TornLeft, Book
  <2> QED BY <2>1, <2>2, <2>3
<1>4. ~Posted(b) /\ ~Posted(b)' /\ Known' = Known
  BY <1>1, <1>2 DEF Posted, Known, Awaited, Closed
<1> QED BY <1>3, <1>4, NeedStays

\* After the upload.
LEMMA PostedStep ==
  ASSUME script.pc \in Awaited \cup Closed, script'.pc \in Awaited \cup Closed,
         script'.at = script.at, disk' = disk, LooseEnd' => LooseEnd,
         \A b \in Books : b # Book => script'.memory[b] = script.memory[b], NEW b \in Books
  PROVE  Need(b)' <= Need(b)
<1>1. Book' = Book
  BY DEF Book
<1>2. Posted(b)' <=> Posted(b)
  BY <1>1 DEF Posted
<1>3. ~Posted(b) => Known'[b] = Known[b]
  BY DEF Posted, Known, Awaited, Closed
<1>4. TornLeft(b)' => TornLeft(b)
  BY TornStays DEF Awaited, Closed
<1> QED BY <1>2, <1>3, <1>4, NeedStays

LEMMA StateNeeds ==
  ASSUME ~NoWait, Truth, OpenState \/ SaveState, NEW b \in Books
  PROVE  Need(b)' <= Need(b)
<1>1. script.pc \in Writing /\ disk' = disk /\ uploads' = uploads
  BY DEF OpenState, SaveState, Writing
<1>2. /\ script'.pc \in {"noting", "recording", "wait", "clean"}
      /\ script'.pc \in {"noting", "wait"} <=> script.pc \in {"note", "noting"}
      /\ script'.at = script.at /\ script'.memory = script.memory /\ script'.bulk = script.bulk
  BY <1>1, ScriptTypes DEF Truth, OpenState, SaveState, At, Go, ScriptRecord, Writing
<1>3. LooseEnd' => LooseEnd
  BY <1>1, <1>2 DEF LooseEnd, Awaited, Writing, Book, HasTorn
<1> QED BY <1>1, <1>2, <1>3, PostedStep DEF Awaited, Closed, Writing

LEMMA OutcomeNeeds ==
  ASSUME Truth, WaitEnds, NEW b \in Books
  PROVE  Need(b)' <= Need(b)
<1> DEFINE status == uploads[script.bulk].status
<1>1. /\ script.pc = "wait" /\ status \in {"failed", "completed"} /\ Outcome(status)
      /\ script \in ScriptRecord /\ Book \in Books
  <2>1. script.pc = "wait" /\ status # "running" /\ Outcome(status)
    BY DEF WaitEnds, At
  <2>2. uploads[script.bulk] \in UploadRecord
    BY <2>1 DEF Truth, Base, ScriptFits, UploadsOK
  <2> QED BY <2>1, <2>2, ScriptTypes DEF Truth, UploadRecord
<1> HIDE DEF status
<1>2. /\ script'.pc = "record" /\ script'.at = script.at /\ script'.memory[Book] = status
      /\ \A d \in Books : d # Book => script'.memory[d] = script.memory[d]
      /\ disk' = disk
  BY <1>1 DEF Outcome, ScriptRecord
<1>3. LooseEnd' => LooseEnd
  BY <1>1, <1>2 DEF LooseEnd, Awaited, Book, status
<1> QED BY <1>1, <1>2, <1>3, PostedStep DEF Awaited, Closed

LEMMA UploadEndNeeds ==
  ASSUME Truth, Completes \/ Rejects, NEW b \in Books
  PROVE  Need(b)' <= Need(b) /\ Count(b)' = Count(b)
<1>1. PICK i \in DOMAIN uploads, status \in {"failed", "completed"} :
        UploadEnds(i, status) /\ (status = "failed" => HasTorn(uploads[i]))
  BY DEF Completes, Rejects
<1>2. /\ UNCHANGED <<script, disk, file>> /\ DOMAIN uploads' = DOMAIN uploads
      /\ \A j \in DOMAIN uploads : uploads'[j].book = uploads[j].book
  BY <1>1, UploadEndsFits DEF Truth
<1>3. Count(b)' = Count(b)
  BY <1>2, SameCount
<1>4. \A j \in DOMAIN uploads : uploads'[j] = uploads[j] \/ (j = i /\ uploads[i].status = "running")
  BY <1>1, <1>2 DEF UploadEnds
<1>5. uploads'[i].status = status
  <2>1. uploads[i] \in UploadRecord
    BY DEF Truth, Base, UploadsOK
  <2>2. uploads'[i] = [uploads[i] EXCEPT !.status = status]
    BY <1>1 DEF UploadEnds
  <2> QED BY <2>1, <2>2 DEF UploadRecord
<1>6. ASSUME script.pc \in Awaited, LooseEnd' PROVE LooseEnd
  <2>1. script.bulk \in DOMAIN uploads
    BY <1>6 DEF Truth, Base, ScriptFits, Awaited
  <2>2. CASE uploads'[script.bulk] = uploads[script.bulk]
    BY <1>2, <1>6, <2>2 DEF LooseEnd, HasTorn
  <2>3. CASE script.bulk = i /\ uploads[i].status = "running"
    BY <1>1, <1>2, <1>5, <1>6, <2>3 DEF LooseEnd
  <2> QED BY <1>4, <2>1, <2>2, <2>3
<1>7. LooseEnd' => LooseEnd
  BY <1>2, <1>6 DEF LooseEnd, Book
<1>8. (Posted(b)' <=> Posted(b)) /\ (TornLeft(b)' => TornLeft(b)) /\ Known' = Known
  BY <1>2 DEF Posted, TornLeft, Known, Loaded, Book
<1> QED BY <1>3, <1>7, <1>8, NeedStays

LEMMA CleanNeeds ==
  ASSUME ~KeepPdfs, Truth, Clean, NEW b \in Books
  PROVE  Need(b)' <= Need(b)
<1>1. /\ script.pc = "clean" /\ script' = NextBook(script) /\ file' = file
      /\ disk' = [disk EXCEPT ![Book] = [c \in Chapters |-> "absent"]]
  BY DEF Clean, At
<1>2. script'.pc \in {"idle", "book"} /\ Known' = script.memory /\ Book \in Books
  BY <1>1, ScriptTypes, KnownNext DEF Truth, Writing
<1>3. ~Posted(b)'
  BY <1>2 DEF Posted, Awaited, Closed
<1>4. CASE b = Book
  <2>1. ~TornLeft(b)'
    BY <1>1, <1>2, <1>4 DEF TornLeft, Truth, Base, DiskOK
  <2>2. Posted(b) /\ (Known'[b] # "completed" => LooseEnd)
    BY <1>1, <1>2, <1>4 DEF Posted, LooseEnd, Closed, Awaited
  <2> QED BY <1>3, <2>1, <2>2 DEF Need
<1>5. CASE b # Book
  <2>1. ~Posted(b) /\ Known'[b] = Known[b]
    BY <1>1, <1>2, <1>5 DEF Posted, Known
  <2>2. TornLeft(b)' => TornLeft(b)
    BY <1>1, <1>2, <1>5 DEF TornLeft, Truth, Base, DiskOK
  <2> QED BY <1>3, <2>1, <2>2, NeedStays
<1> QED BY <1>4, <1>5

LEMMA PostNeeds ==
  ASSUME Truth, Post, NEW b \in Books
  PROVE  Count(b)' + Need(b)' <= Count(b) + Need(b)
<1> USE DEF Awaited, Closed
<1>1. script.pc = "post" /\ disk' = disk /\ file' = file
  BY DEF Post, At
<1>2. /\ Count(b) \in Nat /\ Need(b) \in 0 .. 2 /\ Need(b)' \in 0 .. 2
      /\ script \in ScriptRecord /\ Book \in Books
  BY <1>1, CountIsNat, NeedRange, ScriptTypes DEF Truth, Need
<1>3. CASE ~script.home
  <2>1. script' = Missed /\ uploads' = uploads
    BY <1>3 DEF Post
  <2>2. script'.pc \in {"idle", "book"} /\ Known' = Known
    BY <1>1, <2>1, MissedKnown DEF Known, Writing
  <2>3. Need(b)' <= Need(b)
    BY <1>1, <2>2, UnpostedStep
  <2>4. Count(b)' = Count(b)
    BY <2>1, SameCount
  <2> QED BY <1>2, <2>3, <2>4
<1>4. CASE script.home
  <2>1. /\ Accepted
        /\ script' = [script EXCEPT !.pc = "note", !.bulk = Len(uploads) + 1,
                                    !.memory[Book] = "uploaded"]
    BY <1>4 DEF Post
  <2>2. /\ script'.pc = "note" /\ script'.at = script.at /\ script'.bulk = Len(uploads) + 1
        /\ \A d \in Books : d # Book => script'.memory[d] = script.memory[d]
    BY <1>2, <2>1 DEF ScriptRecord
  <2>3. Count(b)' = IF b = Book THEN Count(b) + 1 ELSE Count(b)
    BY <1>1, <2>1, CountGrows DEF Truth
  <2>4. CASE b = Book
    <3> DEFINE u == uploads'[Len(uploads) + 1]
    <3>1. u.status = "running" /\ u.files = disk[Book]
      BY <2>1 DEF Accepted, Archive, Truth, Base, UploadsOK
    <3>2. LooseEnd' => HasTorn(u)
      BY <2>2, <3>1 DEF LooseEnd, HasTorn
    <3>3. HasTorn(u) => TornLeft(b)
      BY <1>1, <2>4, <3>1 DEF HasTorn, TornLeft
    <3>4. Posted(b)' /\ ~Posted(b)
      BY <1>1, <2>2, <2>4 DEF Posted, Book
    <3>5. TornLeft(b)' => TornLeft(b)
      BY <1>1, TornStays
    <3>6. Known[b] # "completed"
      BY <1>1, <2>4 DEF Known, Truth, Honest, Underway, Open, Book
    <3>7. Need(b)' + 1 <= Need(b)
      BY <3>2, <3>3, <3>4, <3>5, <3>6 DEF Need
    <3> QED BY <1>2, <2>3, <2>4, <3>7
  <2>5. CASE b # Book
    <3>1. ~Posted(b) /\ ~Posted(b)' /\ Known'[b] = Known[b]
      BY <1>1, <2>2, <2>5 DEF Posted, Known, Book
    <3>2. Need(b)' <= Need(b)
      BY <1>1, <3>1, TornStays, NeedStays
    <3> QED BY <1>2, <2>3, <2>5, <3>2
  <2> QED BY <2>4, <2>5
<1> QED BY <1>3, <1>4

\* A lost answer may have been an upload, which is paid for by the failure.
LEMMA PostFailsNeeds ==
  ASSUME Truth, PostFails, NEW b \in Books
  PROVE  Count(b)' + Need(b)' <= Count(b) + Need(b) + 1
<1> USE DEF Awaited, Closed
<1>1. script.pc = "post" /\ disk' = disk /\ file' = file
  BY DEF PostFails, At
<1>2. /\ Count(b) \in Nat /\ Need(b) \in 0 .. 2 /\ Need(b)' \in 0 .. 2
  BY CountIsNat, NeedRange DEF Truth, Need
<1>3. Need(b)' <= Need(b) + 1
  BY <1>1, FaultPays
<1>4. CASE b # Book \/ uploads' = uploads
  <2>1. Count(b)' = Count(b)
    BY <1>1, <1>4, CountGrows, SameCount DEF PostFails, Truth
  <2> QED BY <1>2, <1>3, <2>1
<1>5. CASE b = Book /\ Accepted
  <2>1. Count(b)' = Count(b) + 1
    BY <1>1, <1>5, CountGrows DEF Truth
  <2>2. script'.pc \in {"idle", "book"}
    BY <1>1, MissedKnown DEF PostFails, GivenUp, Over, Writing
  <2>3. ~Posted(b) /\ ~Posted(b)' /\ Known[b] # "completed"
    BY <1>1, <1>5, <2>2 DEF Posted, Known, Truth, Honest, Underway, Open, Book
  <2>4. TornLeft(b)' => TornLeft(b)
    BY <1>1, TornStays
  <2>5. Need(b)' <= Need(b)
    BY <2>3, <2>4 DEF Need
  <2> QED BY <1>2, <2>1, <2>5
<1> QED BY <1>4, <1>5 DEF PostFails, GivenUp

\* The failures that upload nothing.
LEMMA FailureNeeds ==
  ASSUME Truth, Killed \/ (Failure /\ ~PostFails), NEW b \in Books
  PROVE  Count(b)' = Count(b) /\ Need(b)' <= Need(b) + 1
<1>1. disk' = disk
  BY DEF Killed, Failure, StartFails, DiscoverFails, FolderFails, FetchFails, WaitGivesUp, Outcome, PollFails, UploadFails,
         UploadEnds, OtherCreates, OtherDeletes
<1>2. \/ uploads' = uploads
      \/ /\ DOMAIN uploads' = DOMAIN uploads
         /\ \A i \in DOMAIN uploads : uploads'[i].book = uploads[i].book
  <2>1. CASE UploadFails
    BY <2>1, UploadEndsFits DEF UploadFails, Truth
  <2> QED BY <2>1 DEF Killed, Failure, StartFails, DiscoverFails, FolderFails, FetchFails, WaitGivesUp, Outcome, PollFails,
             OtherCreates, OtherDeletes
<1> QED BY <1>1, <1>2, SameCount, FaultPays

LEMMA NextKeepsCauses ==
  ASSUME ~NoWait, ~KeepPdfs
  PROVE  Truth /\ Causes /\ [Next]_vars => Causes'
<1> SUFFICES ASSUME Truth, Causes, [Next]_vars, NEW b \in Books
             PROVE  Count(b)' + Need(b)' <= 1 + failures' + crashes'
  BY DEF Causes
<1>1. /\ Count(b) \in Nat /\ Need(b) \in 0 .. 2 /\ Need(b)' \in 0 .. 2
      /\ failures \in Nat /\ crashes \in Nat
      /\ Count(b) + Need(b) <= 1 + failures + crashes
  BY CountIsNat, NeedRange DEF Truth, Causes, Base, CountsOK, Need
<1>2. CASE UNCHANGED vars
  <2>1. Count(b)' = Count(b) /\ Need(b)' = Need(b)
    BY <1>2, SameCount
    DEF vars, Need, Posted, TornLeft, LooseEnd, Known, Loaded, Book, HasTorn
  <2> QED BY <1>1, <1>2, <2>1 DEF vars
<1>3. CASE Killed \/ (Failure /\ Fails /\ UNCHANGED crashes)
  <2>1. \/ failures' = failures + 1 /\ crashes' = crashes
        \/ failures' = failures /\ crashes' = crashes + 1
    BY <1>3 DEF Killed, Fails
  <2>2. Count(b)' + Need(b)' <= Count(b) + Need(b) + 1
    BY <1>1, <1>3, FailureNeeds, PostFailsNeeds
  <2>3. Count(b)' \in Nat
    BY <1>3, <1>1, FailureNeeds, SameCount, CountGrows DEF PostFails, Truth, At
  <2> QED BY <1>1, <2>1, <2>2, <2>3
<1>4. CASE (Start \/ Step \/ Completes \/ Rejects) /\ Works /\ UNCHANGED crashes
  <2>1. failures' = failures /\ crashes' = crashes
    BY <1>4 DEF Works
  <2>2. Count(b)' + Need(b)' <= Count(b) + Need(b) /\ Count(b)' \in Nat
    <3>1. CASE Post
      BY <1>1, <3>1, PostNeeds, SameCount, CountGrows DEF Post, Truth, At
    <3>2. CASE Completes \/ Rejects
      BY <1>1, <3>2, UploadEndNeeds
    <3>3. CASE Start \/ (Step /\ ~Post)
      <4>1. uploads' = uploads
        BY <3>3 DEF Start, Step, Discover, ListFolders, CreateFolder, Fetch, Write, Zip,
                    OpenState, SaveState, WaitEnds, Outcome, Clean
      <4>2. Need(b)' <= Need(b)
        BY <3>3, EarlyNeeds, FetchNeeds, StateNeeds, OutcomeNeeds, CleanNeeds DEF Step
      <4> QED BY <1>1, <4>1, <4>2, SameCount
    <3> QED BY <1>4, <3>1, <3>2, <3>3
  <2> QED BY <1>1, <2>1, <2>2
<1> QED BY <1>2, <1>3, <1>4 DEF Next

\* For any catalogue, runs and faults, every further upload of a book is due to
\* a failure or a crash of its own, if the script waits for its uploads and
\* deletes what it has uploaded.
THEOREM RepeatsAreCaused ==
  ASSUME ~NoWait, ~KeepPdfs
  PROVE  Spec => []RepeatsHaveCauses
<1>1. Init => Causes
  <2> SUFFICES ASSUME Init, NEW b \in Books PROVE Count(b) + Need(b) <= 1 + failures + crashes
    BY DEF Causes
  <2>1. UploadsOf(b) = {}
    BY DEF Init, UploadsOf
  <2>2. Count(b) = 0
    BY <2>1, FS_EmptySet DEF Count
  <2>3. ~TornLeft(b) /\ ~Posted(b)
    BY DEF Init, TornLeft, Posted, Over, Awaited, Closed
  <2>4. Need(b) \in 0 .. 1
    BY <2>3 DEF Need
  <2> QED BY <2>2, <2>4 DEF Init
<1>2. Truth /\ Causes => RepeatsHaveCauses
  <2> SUFFICES ASSUME Truth, Causes, NEW b \in Books
               PROVE  Count(b) <= 1 + failures + crashes
    BY DEF RepeatsHaveCauses, Count
  <2> QED BY CountIsNat, NeedRange DEF Causes, Truth, Base, CountsOK
<1>3. Truth /\ [Next]_vars => Truth'
  BY NextKeepsTruth
<1>4. Truth /\ Causes /\ [Next]_vars => Causes'
  BY NextKeepsCauses
<1> QED BY <1>1, <1>2, <1>3, <1>4, InitEstablishesTruth, PTL DEF Spec

=============================================================================
