------------------------ MODULE BulkUploadRefinement ------------------------
(***************************************************************************)
(* BulkUpload implements FileService: one thread, the default of           *)
(* JOB_WORKER_THREADS, and an upload that makes its own decks.  (With more *)
(* threads two jobs may have the same files; in an upload into an existing *)
(* deck LoseSession has a file worked on again that nobody asked for.)     *)
(***************************************************************************)
EXTENDS BulkUpload

Working == {"start", "title", "check", "write", "done"}

\* A run of an upload that is there has taken the file's latest attempt in hand.
\* Work begins with the look at the row (LookFile): what is committed to the row
\* between that and the commit of StartFile comes during the work.
AtWork(f) ==
  /\ Exists
  /\ \E j \in Jobs : run[j].pc \in Working /\ Current(j) = latest[f]

\* A reclaim has read the attempt as processing and is about to put it back.
TakenUp(f) ==
  /\ Exists
  /\ \E j \in Jobs : run[j].pc = "reclaim" /\ latest[f] \in Listed(j)

Life(f) ==
  IF AtWork(f) THEN "working"
  ELSE IF TakenUp(f) \/ status[latest[f]] \in Open THEN "waiting"
  ELSE IF status[latest[f]] = "completed" THEN "done" ELSE "over"

Service == INSTANCE FileService
             WITH life <- [f \in Files |-> Life(f)], asked <- latest,
                  canceling <- {f \in Files : latest[f] \in request.rows},
                  faults <- crashes

\* A file is worked on once for the upload, once for each retry and once more
\* for each death of the process; a file that was canceled is not begun, work
\* begun before a retry does not complete its file, and a file that is done is
\* over only by a cancel that was asked for before (process_bulk_ai_upload,
\* _reclaim_orphaned_processing_files, the cancel and retry handlers).
ImplementsFileService == Service!Spec
=============================================================================
