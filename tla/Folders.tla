------------------------------ MODULE Folders ------------------------------
(***************************************************************************)
(* The folder tree of app/api/routers/folders.py (and the form handlers of *)
(* pages.py that do the same): folders hold folders and decks, Root is a   *)
(* parent_id or folder_id that IS NULL.                                    *)
(*                                                                         *)
(* The handlers run in a thread pool, each with a session of its own, and  *)
(* take no row lock: what a handler reads to decide (ReadMove, ReadDelete) *)
(* and the transaction that acts on it (CommitMove, CommitDelete) are two  *)
(* steps.  Creating a folder and moving decks read nothing the database    *)
(* does not check again with its foreign keys, and are one step.           *)
(* Names are left out, and so is who moves and deletes: a system admin may *)
(* do all of it.  Whose a folder is, what a user sees of the decks (the    *)
(* rules of DeckAccess) and so which folders a user is shown are not.      *)
(***************************************************************************)
EXTENDS FiniteSets, UsersAndDecks

CONSTANTS
  Folders,   \* folder ids
  Root,      \* parent_id or folder_id IS NULL
  None,      \* no row
  Requests,  \* the move and delete requests that may be under way at a time
  OrgOf,     \* users.organization_id
  Rights,    \* users.role: "user", "admin" or "system_admin"
  Made,      \* per folder: who creates it, and whether with the form
  Seen       \* per user: the decks the browse page lists

ASSUME ConstantsAssumption == Root \notin Folders /\ None \notin Folders /\ Root # None

ASSUME UsersAssumption ==
  /\ Made \in [Folders -> [by : Users, form : BOOLEAN]]
  /\ Rights \in [Users -> {"user", "admin", "system_admin"}]
  /\ Seen \in [Users -> SUBSET Decks]
  /\ DOMAIN OrgOf = Users

VARIABLES
  parent,  \* folder row: parent_id, None when there is no row
  home,    \* deck row: folder_id
  req      \* per request: what its handler read and is about to do

foldersVars == <<parent, home, req>>

NoRequest == [op |-> "none"]
Moving == [op : {"move"}, folder : Folders, to : Folders \cup {Root}]
Deleting == [op : {"delete"}, folder : Folders, was : Folders \cup {Root},
             form : BOOLEAN, held : SUBSET Decks]

Existing == {f \in Folders : parent[f] # None}
Places == Existing \cup {Root}

-----------------------------------------------------------------------------
(***************************************************************************)
(* Faults: plausible mistakes in the code, used by no specification.  Each *)
(* property below is known to fail when one of them takes the place of the *)
(* definition it is named after.                                           *)
(***************************************************************************)
\* Only the direct subfolders are looked at before a move.
FaultyBelow(f) == {g \in Existing : parent[g] = f}

\* The decks of the folders under a deleted one keep their folder_id.
FaultyHomes(f, was, moved) ==
  [d \in Decks |-> IF d \in moved THEN was ELSE IF home[d] = f THEN Root ELSE home[d]]

\* Only the decks of the folder itself let a user see it.
FaultyDecksUnder(f) == {d \in Decks : home[d] = f}

-----------------------------------------------------------------------------
\* The folders under f: those in every set that holds f's subfolders and the
\* subfolders of its members.
Closed(S) == \A g \in Existing : parent[g] \in S => g \in S
Below(f) ==
  {g \in Existing : \A S \in SUBSET Existing :
     Closed(S) /\ (\A c \in Existing : parent[c] = f => c \in S) => g \in S}
Subtree(f) == {f} \cup Below(f)

FoldersInit ==
  /\ parent = [f \in Folders |-> None]
  /\ home = [d \in Decks |-> Root]
  /\ req = [r \in Requests |-> NoRequest]

-----------------------------------------------------------------------------
\* The form leaves the folder's organization_id empty.
FolderOrg(f) == IF Made[f].form THEN NoOrg ELSE OrgOf[Made[f].by]

SameOrgAsFolder(u, f) == OrgOf[u] # NoOrg /\ FolderOrg(f) = OrgOf[u]

OwnsFolder(u, f) == Made[f].by = u

CanManage(u, f) ==
  Rights[u] = "system_admin" \/ OwnsFolder(u, f) \/ (Rights[u] = "admin" /\ SameOrgAsFolder(u, f))

CanView(u, f) == Rights[u] = "system_admin" \/ OwnsFolder(u, f) \/ SameOrgAsFolder(u, f)

\* The decks that are listed for a folder with its subfolders.
DecksUnder(f) == {d \in Decks : home[d] \in Subtree(f)}

\* The browse page also shows a folder for the sake of a deck somewhere in it.
Shown(u, f) == CanView(u, f) \/ DecksUnder(f) \cap Seen[u] # {}

\* The form takes only the user's own folders as parents, the API those the
\* user manages, and is not for ordinary users.
MayCreate(f, p) ==
  LET u == Made[f].by
  IN IF Made[f].form THEN p # Root => OwnsFolder(u, p)
     ELSE Rights[u] # "user" /\ (p # Root => CanManage(u, p))

-----------------------------------------------------------------------------
Create(f, p) ==
  /\ f \notin Existing
  /\ p \in Places
  /\ MayCreate(f, p)
  /\ parent' = [parent EXCEPT ![f] = p]
  /\ UNCHANGED <<home, req>>

MoveDeck(d, p) ==
  /\ p \in Places
  /\ home' = [home EXCEPT ![d] = p]
  /\ UNCHANGED <<parent, req>>

\* move_folder up to its commit.  Collecting the folders under one that is
\* under itself does not return; a parent_id that stays what it was is not
\* written.
ReadMove(r, f, p) ==
  /\ req[r] = NoRequest
  /\ f \in Existing
  /\ p \in Places
  /\ p # parent[f]
  /\ p # Root => f \notin Below(f) /\ p \notin Subtree(f)
  /\ req' = [req EXCEPT ![r] = [op |-> "move", folder |-> f, to |-> p]]
  /\ UNCHANGED <<parent, home>>

\* The commit fails when the folder or its new parent is gone by now.
CommitMove(r) ==
  /\ req[r].op = "move"
  /\ LET f == req[r].folder
         p == req[r].to
     IN parent' = IF f \in Existing /\ p \in Places
                    THEN [parent EXCEPT ![f] = p]
                    ELSE parent
  /\ req' = [req EXCEPT ![r] = NoRequest]
  /\ UNCHANGED home

\* delete_folder up to its commit.  The form reads the decks it will move.
ReadDelete(r, f, form) ==
  /\ req[r] = NoRequest
  /\ f \in Existing
  /\ req' = [req EXCEPT ![r] =
       [op |-> "delete", folder |-> f, was |-> parent[f], form |-> form,
        held |-> IF form THEN {d \in Decks : home[d] = f} ELSE {}]]
  /\ UNCHANGED <<parent, home>>

\* The decks a deletion writes to the folder's parent.  The API updates those
\* that are in the folder.  The form's session does so too, but deleting the
\* folder empties the folder_id of every deck that is in it or under it, and
\* what is left are decks that have been moved away since they were read.
Moved(r) ==
  IF req[r].form
    THEN {d \in req[r].held : home[d] \notin Subtree(req[r].folder)}
    ELSE {d \in Decks : home[d] = req[r].folder}

\* The commit fails when a deck would get a folder_id that is gone by now or,
\* with the form, that goes with this folder.
Doable(r) ==
  Moved(r) # {} =>
    /\ req[r].was \in Places
    /\ req[r].form => req[r].was \notin Subtree(req[r].folder)

\* Where a delete leaves the decks: those it moves in the parent as it was
\* read, the others that are in the folder and those under it in the root.
Homes(f, was, moved) ==
  [d \in Decks |->
     IF d \in moved /\ was \notin Subtree(f) THEN was
     ELSE IF home[d] \in Subtree(f) THEN Root
     ELSE home[d]]

\* The subfolders go with the folder.
CommitDelete(r) ==
  /\ req[r].op = "delete"
  /\ LET f == req[r].folder
     IN IF Doable(r)
          THEN /\ parent' = [g \in Folders |-> IF g \in Subtree(f) THEN None ELSE parent[g]]
               /\ home' = Homes(f, req[r].was, Moved(r))
          ELSE UNCHANGED <<parent, home>>
  /\ req' = [req EXCEPT ![r] = NoRequest]

FoldersNext ==
  \/ \E f \in Folders, p \in Folders \cup {Root} : Create(f, p)
  \/ \E d \in Decks, p \in Folders \cup {Root} : MoveDeck(d, p)
  \/ \E r \in Requests :
       \/ \E f \in Folders, p \in Folders \cup {Root} : ReadMove(r, f, p)
       \/ CommitMove(r)
       \/ \E f \in Folders, form \in BOOLEAN : ReadDelete(r, f, form)
       \/ CommitDelete(r)

FoldersSpec == FoldersInit /\ [][FoldersNext]_foldersVars

-----------------------------------------------------------------------------
(***************************************************************************)
(* Properties.                                                             *)
(***************************************************************************)
\* Every row holds values of its columns.
FoldersTypeOK ==
  /\ parent \in [Folders -> Folders \cup {Root, None}]
  /\ home \in [Decks -> Folders \cup {Root}]
  /\ req \in [Requests -> {NoRequest} \cup Moving \cup Deleting]

\* No folder is inside itself: of any folders at least one has its parent
\* elsewhere.  The breadcrumb walk (_get_folder_tree_path) and the recursive
\* walks of move_folder and get_folder_tree end because of this, and no move
\* whose check read the tree before another move may break it.
Acyclic == \A S \in SUBSET Existing : S # {} => \E f \in S : parent[f] \notin S

\* Browsing from the root finds every deck: the folder it names is there, and
\* a set of folders that holds the top ones and the subfolders of its members
\* holds it, whatever was moved and deleted since the deck was filed.
EveryDeckIsFound ==
  \A d \in Decks : home[d] # Root =>
    \A S \in SUBSET Existing :
      Closed(S) /\ (\A c \in Existing : parent[c] = Root => c \in S) => home[d] \in S

\* A user finds every deck the browse page may list by following only the
\* folders the page shows this user, from the top: other people's folders on
\* the way to a shared deck are shown because of it, however deep it is.
BrowseReachesDecks ==
  \A u \in Users :
    LET shown == {c \in Existing : Shown(u, c)}
    IN \A S \in SUBSET Existing :
         (\A c \in shown : parent[c] \in S \cup {Root} => c \in S)
         => \A d \in Seen[u] : home[d] \in S \cup {Root}

\* A folder that is listed among the subfolders of one a user may open can be
\* opened too.  It does not hold (README 3.3).
SubfoldersOpen ==
  \A u \in Users, f \in Existing :
    parent[f] \in Existing /\ CanView(u, parent[f]) => CanView(u, f)

=============================================================================
