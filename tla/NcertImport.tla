----------------------------- MODULE NcertImport -----------------------------
(***************************************************************************)
(* The importer of NCERT books, scripts/ncert_bulk_import.py with          *)
(* scripts/ncert_catalog.py: a script outside the application that takes   *)
(* one book after the other, finds its chapters, ensures its folder,       *)
(* downloads the chapters, sends them as one archive to                    *)
(* /api/v1/bulk-ai-upload/start, waits for the upload to end and records   *)
(* the outcome in a state file.  The operator starts it again until        *)
(* everything is imported, with the same options; what it remembers from   *)
(* run to run is the state file and the chapters already on disk, so both  *)
(* are in --workdir.                                                       *)
(*                                                                         *)
(* A step is a request, the creation or the completion of a file.  The     *)
(* folder of a book is one of several levels that are ensured alike; the   *)
(* application's side is BulkUpload, here an upload that ends in some way. *)
(***************************************************************************)
EXTENDS Naturals, Sequences, FiniteSets

CONSTANTS
  Books,
  Plan,         \* plan_books: the selected books in the catalogue's order, without
                \* which the script ends at once
  NumChapters,  \* of every book
  AtRoot,       \* the folder is a root folder: --parent-path is empty
  TooBig,       \* the books whose archive is over --max-book-mb once it is complete
  NoWait,       \* --no-wait
  KeepPdfs,     \* --keep-pdfs
  MaxFailures,  \* bound: requests that fail, waits in vain, uploads that fail
  MaxCrashes    \* bound: runs that are killed

ASSUME ConstantsAssumption ==
  /\ Plan \in Seq(Books) /\ {Plan[i] : i \in DOMAIN Plan} = Books /\ Plan # <<>>
  /\ NumChapters \in Nat \ {0}
  /\ TooBig \subseteq Books
  /\ AtRoot \in BOOLEAN /\ NoWait \in BOOLEAN /\ KeepPdfs \in BOOLEAN
  /\ MaxFailures \in Nat /\ MaxCrashes \in Nat

VARIABLES
  script,    \* the run: where it is and what it knows
  disk,      \* per book and chapter: the file in the working directory
  file,      \* the state file
  uploads,   \* in the application, in the order they came
  folders,   \* how many folders of the name it wants the application has
  failures,  \* how many so far
  crashes    \* how many so far

vars == <<script, disk, file, uploads, folders, failures, crashes>>

Chapters == 1 .. NumChapters
Contents == {"absent", "torn", "whole"}
Statuses == {"none", "uploaded", "running", "failed", "completed"}

\* A state file that json.loads rejects.
Torn == [b \in Books |-> "torn"]
NoState == [b \in Books |-> "none"]

\* home: the folder that was found or created is still there.
Over(exit) == [pc |-> "idle", at |-> 0, chapter |-> 1, home |-> FALSE, bulk |-> 0,
               failed |-> FALSE, memory |-> NoState, exit |-> exit]

Init ==
  /\ script = Over("none")
  /\ disk = [b \in Books |-> [c \in Chapters |-> "absent"]]
  /\ file = NoState
  /\ uploads = <<>>
  /\ folders = 0
  /\ failures = 0
  /\ crashes = 0

-----------------------------------------------------------------------------
Book == Plan[script.at]

\* load_state: what cannot be read is forgotten.
Loaded == IF file = Torn THEN NoState ELSE file

\* Mutant: one book too many.
FaultyNextBook(s) ==
  IF s.at <= Len(Plan)
  THEN [s EXCEPT !.pc = "book", !.at = @ + 1, !.chapter = 1, !.home = FALSE, !.bulk = 0]
  ELSE Over(IF s.failed THEN "failed" ELSE "ok")

\* On to the next book of the plan, or to the end of the run.
NextBook(s) ==
  IF s.at < Len(Plan)
  THEN [s EXCEPT !.pc = "book", !.at = @ + 1, !.chapter = 1, !.home = FALSE, !.bulk = 0]
  ELSE Over(IF s.failed THEN "failed" ELSE "ok")

\* The book is given up for this run.
Missed == NextBook([script EXCEPT !.failed = TRUE])

At(pc) == script.pc = pc
Go(pc) == script' = [script EXCEPT !.pc = pc]

Fails == failures < MaxFailures /\ failures' = failures + 1
Works == UNCHANGED failures

\* A folder of the name can be added: the unique constraint does not see two
\* rows without a parent as siblings.
CanAddFolder == folders = 0 \/ (AtRoot /\ folders < 2)

-----------------------------------------------------------------------------
Start ==
  /\ At("idle")
  /\ script' = [Over("none") EXCEPT !.pc = "book", !.at = 1, !.memory = Loaded]
  /\ UNCHANGED <<disk, file, uploads, folders>>

\* Mutant: a book that was uploaded once is not looked at again.
HastySkipped == script.memory[Book] # "none"

\* Already imported.
Skipped == script.memory[Book] = "completed"

\* discover_chapters, then the look at the state.
Discover ==
  /\ At("book")
  /\ IF Skipped THEN script' = NextBook(script) ELSE Go("list")
  /\ UNCHANGED <<disk, file, uploads, folders>>

\* ensure_folder: the folders there are are listed ...
ListFolders ==
  /\ At("list")
  /\ script' = IF folders > 0 THEN [script EXCEPT !.pc = "fetch", !.home = TRUE]
               ELSE [script EXCEPT !.pc = "create"]
  /\ UNCHANGED <<disk, file, uploads, folders>>

\* ... one that is missing is created, and when that is refused because
\* somebody else has just done it, theirs is used.
CreateFolder ==
  /\ At("create")
  /\ folders' = IF CanAddFolder THEN folders + 1 ELSE folders
  /\ script' = [script EXCEPT !.pc = "fetch", !.home = TRUE]
  /\ UNCHANGED <<disk, file, uploads>>

\* A chapter whose file exists is taken as it is; for another one the file is
\* created, fetch_pdf having seen to it that it is the PDF ...
Fetch ==
  /\ At("fetch") /\ script.chapter \in Chapters
  /\ IF disk[Book][script.chapter] # "absent"
     THEN /\ script' = [script EXCEPT !.chapter = @ + 1]
          /\ UNCHANGED disk
     ELSE /\ disk' = [disk EXCEPT ![Book][script.chapter] = "torn"]
          /\ Go("write")
  /\ UNCHANGED <<file, uploads, folders>>

\* ... and then written.
Write ==
  /\ At("write")
  /\ disk' = [disk EXCEPT ![Book][script.chapter] = "whole"]
  /\ script' = [script EXCEPT !.pc = "fetch", !.chapter = @ + 1]
  /\ UNCHANGED <<file, uploads, folders>>

Archive == disk[Book]
Empty == \A c \in Chapters : Archive[c] = "absent"
Oversize == Book \in TooBig /\ \A c \in Chapters : Archive[c] = "whole"

\* The archive of the chapters at hand.  Without any, or when it has become too
\* big, the book is given up and its chapters are left on disk.
Zip ==
  /\ At("fetch") /\ script.chapter \notin Chapters
  /\ IF Empty \/ Oversize THEN script' = Missed ELSE Go("post")
  /\ UNCHANGED <<disk, file, uploads, folders>>

Accepted == uploads' = Append(uploads, [book |-> Book, files |-> Archive, status |-> "running"])

\* The upload, which the application refuses when the folder is gone.
Post ==
  /\ At("post")
  /\ IF ~script.home
     THEN /\ script' = Missed
          /\ UNCHANGED uploads
     ELSE /\ Accepted
          /\ script' = [script EXCEPT !.pc = "note", !.bulk = Len(uploads) + 1,
                                      !.memory[Book] = "uploaded"]
  /\ UNCHANGED <<disk, file, folders>>

\* save_state empties the file ...
OpenState ==
  /\ script.pc \in {"note", "record"}
  /\ file' = Torn
  /\ Go(IF At("note") THEN "noting" ELSE "recording")
  /\ UNCHANGED <<disk, uploads, folders>>

\* ... and writes it.
SaveState ==
  /\ script.pc \in {"noting", "recording"}
  /\ file' = script.memory
  /\ Go(IF At("noting") /\ ~NoWait THEN "wait" ELSE "clean")
  /\ UNCHANGED <<disk, uploads, folders>>

\* Mutant: that the upload is complete is not remembered.
FaultyOutcome(status) ==
  /\ script' = [script EXCEPT !.pc = "record",
                              !.memory[Book] = IF status = "completed" THEN @ ELSE status,
                              !.failed = @ \/ status # "completed"]
  /\ UNCHANGED <<disk, file, uploads, folders>>

\* Mutant: an upload that has not ended counts as done.
EagerOutcome(status) ==
  /\ script' = [script EXCEPT !.pc = "record",
                              !.memory[Book] = IF status = "failed" THEN status ELSE "completed",
                              !.failed = @ \/ status = "failed"]
  /\ UNCHANGED <<disk, file, uploads, folders>>

\* What the wait has come to.
Outcome(status) ==
  /\ script' = [script EXCEPT !.pc = "record",
                              !.memory[Book] = status,
                              !.failed = @ \/ status # "completed"]
  /\ UNCHANGED <<disk, file, uploads, folders>>

\* wait_for_bulk sees that the upload has ended ...
WaitEnds ==
  /\ At("wait") /\ uploads[script.bulk].status # "running"
  /\ Outcome(uploads[script.bulk].status)

\* ... or gives up after max_wait.
WaitGivesUp ==
  /\ At("wait") /\ uploads[script.bulk].status = "running"
  /\ Outcome("running")

\* The chapters are deleted, and with them the book's directory, in which there
\* is nothing else: a probe that fails is no missing chapter (pdf_exists), so
\* every run has found the same ones.
Clean ==
  /\ At("clean")
  /\ disk' = IF KeepPdfs THEN disk ELSE [disk EXCEPT ![Book] = [c \in Chapters |-> "absent"]]
  /\ script' = NextBook(script)
  /\ UNCHANGED <<file, uploads, folders>>

-----------------------------------------------------------------------------
(* What goes wrong. *)

\* The catalogue cannot be read, or the folders of --parent-path cannot be
\* ensured: the run ends before its first book.
StartFails ==
  /\ At("idle")
  /\ script' = Over("aborted")
  /\ UNCHANGED <<disk, file, uploads, folders>>

\* The chapters cannot be found out, whatever the reason: the next book.
DiscoverFails ==
  /\ At("book")
  /\ script' = Missed
  /\ UNCHANGED <<disk, file, uploads, folders>>

\* A request that does not come through.  An error response is a ScriptError,
\* and the book is given up; a timeout of the answer is not, and ends the run.
GivenUp == script' \in {Missed, Over("aborted")}

\* The folder cannot be ensured, or it is created and the answer is lost.
FolderFails ==
  /\ script.pc \in {"list", "create"}
  /\ GivenUp
  /\ folders' = folders \/ (At("create") /\ CanAddFolder /\ folders' = folders + 1)
  /\ UNCHANGED <<disk, file, uploads>>

\* download_chapter: three attempts, or a chapter that is not there.
FetchFails ==
  /\ At("fetch") /\ script.chapter \in Chapters
  /\ disk[Book][script.chapter] = "absent"
  /\ script' = [script EXCEPT !.chapter = @ + 1]
  /\ UNCHANGED <<disk, file, uploads, folders>>

\* The application refuses the upload, or takes it and its answer is lost.
PostFails ==
  /\ At("post")
  /\ Accepted \/ UNCHANGED uploads
  /\ GivenUp
  /\ UNCHANGED <<disk, file, folders>>

\* One answer while waiting is not what it should be: nothing catches that.
PollFails ==
  /\ At("wait")
  /\ script' = Over("aborted")
  /\ UNCHANGED <<disk, file, uploads, folders>>

\* The run is killed.
Killed ==
  /\ ~At("idle")
  /\ crashes < MaxCrashes /\ crashes' = crashes + 1
  /\ script' = Over("aborted")
  /\ UNCHANGED <<disk, file, uploads, folders, failures>>

-----------------------------------------------------------------------------
(* The application and its other users. *)

\* An upload with a file that is not whole may come to either end.
UploadEnds(i, status) ==
  /\ uploads[i].status = "running"
  /\ uploads' = [uploads EXCEPT ![i].status = status]
  /\ UNCHANGED <<script, disk, file, folders>>

Completes == \E i \in DOMAIN uploads : UploadEnds(i, "completed")

HasTorn(u) == \E c \in Chapters : u.files[c] = "torn"

Rejects == \E i \in DOMAIN uploads : HasTorn(uploads[i]) /\ UploadEnds(i, "failed")

UploadFails == \E i \in DOMAIN uploads : UploadEnds(i, "failed")

\* Somebody else who has listed the folders before creates one ...
OtherCreates ==
  /\ CanAddFolder
  /\ folders' = folders + 1
  /\ UNCHANGED <<script, disk, file, uploads>>

\* ... or deletes one.
OtherDeletes ==
  /\ folders > 0
  /\ folders' = folders - 1
  /\ \E home \in BOOLEAN :
       /\ home => script.home /\ folders > 1
       /\ script' = [script EXCEPT !.home = home]
  /\ UNCHANGED <<disk, file, uploads>>

-----------------------------------------------------------------------------
Step ==
  \/ Discover \/ ListFolders \/ CreateFolder \/ Fetch \/ Write \/ Zip \/ Post
  \/ OpenState \/ SaveState \/ WaitEnds \/ Clean

Failure ==
  \/ StartFails \/ DiscoverFails \/ FolderFails \/ FetchFails \/ PostFails
  \/ WaitGivesUp \/ PollFails \/ UploadFails \/ OtherCreates \/ OtherDeletes

Next ==
  \/ (Start \/ Step \/ Completes \/ Rejects) /\ Works /\ UNCHANGED crashes
  \/ Failure /\ Fails /\ UNCHANGED crashes
  \/ Killed

\* The operator starts the script again, it goes on while it is not killed, and
\* the application ends every upload.
Fairness ==
  /\ WF_vars(Start /\ Works /\ UNCHANGED crashes)
  /\ WF_vars(Step /\ Works /\ UNCHANGED crashes)
  /\ WF_vars((Completes \/ Rejects) /\ Works /\ UNCHANGED crashes)

Spec == Init /\ [][Next]_vars /\ Fairness

-----------------------------------------------------------------------------
(* Properties. *)

UploadsOf(b) == {i \in DOMAIN uploads : uploads[i].book = b}

TypeOK ==
  /\ script \in [pc : {"idle", "book", "list", "create", "fetch", "write", "post", "note",
                       "noting", "wait", "record", "recording", "clean"},
                 at : 0 .. Len(Plan), chapter : 1 .. NumChapters + 1, home : BOOLEAN,
                 bulk : 0 .. Len(uploads), failed : BOOLEAN,
                 memory : [Books -> Statuses],
                 exit : {"none", "ok", "failed", "aborted"}]
  /\ ~At("idle") => script.at # 0
  /\ disk \in [Books -> [Chapters -> Contents]]
  /\ file \in [Books -> Statuses] \cup {Torn}
  /\ \A i \in DOMAIN uploads :
       uploads[i] \in [book : Books, files : [Chapters -> Contents],
                       status : {"running", "failed", "completed"}]
  /\ folders \in 0 .. 2
  /\ failures \in 0 .. MaxFailures
  /\ crashes \in 0 .. MaxCrashes

\* A book is uploaded again only because something went wrong: for every
\* further upload of a book there was a failure or a crash, however often the
\* script is run and however often the plan names the book.
RepeatsHaveCauses ==
  \A b \in Books : Cardinality(UploadsOf(b)) <= 1 + failures + crashes

\* What the script leaves behind is true: a book the state file calls completed
\* has an upload that is, and a run that ended with exit code 0 has left every
\* book of the plan completed, whichever runs were killed or gave up before.
ReportsAreTrue ==
  /\ file # Torn =>
       \A b \in Books : file[b] = "completed" =>
         \E i \in UploadsOf(b) : uploads[i].status = "completed"
  /\ script.exit = "ok" => file # Torn /\ \A b \in Books : file[b] = "completed"

\* Every book that the script does not refuse for its size is imported in the
\* end, whatever fails on the way and however often the run is given up.
EverythingIsImported ==
  <>[](file # Torn /\ \A b \in Books \ TooBig : file[b] = "completed")

\* A folder is found again and not created twice, whoever else creates it.  It
\* does not hold for root folders.
OneFolderPerName == folders <= 1

\* A crash makes at most one book be uploaded again.  It does not hold: a crash
\* inside save_state makes the script forget every book.
OneRepeatPerFault ==
  Len(uploads) <= Cardinality(Books \ TooBig) + failures + crashes

\* A completed book has all its chapters ("download every chapter PDF",
\* ncert_bulk_import.py:17).  It does not hold: a chapter that could not be
\* downloaded is left out, and the book is completed without it.
CompletedIsWhole ==
  file # Torn =>
    \A b \in Books : file[b] = "completed" =>
      \E i \in UploadsOf(b) : \A c \in Chapters : uploads[i].files[c] = "whole"

=============================================================================
