--------------------------- MODULE BrowsingProofs ---------------------------
(***************************************************************************)
(* Proofs about what users see and may do: DeckAccess, the rules for decks,*)
(* and Folders, the tree the decks are found in.                           *)
(*                                                                         *)
(* DeckAccess, for any users, organisations and decks.  The inductive      *)
(* invariant is type correctness with GlobalInSync; what the pages list    *)
(* follows from the types alone, because clause and predicate are two      *)
(* formulations of one rule.                                               *)
(*                                                                         *)
(* Folders: the type invariant of any number of concurrent requests, and,  *)
(* when move and delete requests come one at a time, that the tree has no  *)
(* cycle and that every deck is found in it, by each user along the        *)
(* folders shown to that user.                                             *)
(***************************************************************************)
EXTENDS DeckAccess, Folders, TLAPS

(* DeckAccess *)

\* The row a request leaves in a deck's place is a deck row.
LEMMA ChosenOrgType ==
    ASSUME TypeOK, NEW a \in Users, NEW scope \in Scopes
    PROVE  ChosenOrg(a, scope) \in Orgs \cup {NoOrg}
  BY DEF TypeOK, ChosenOrg

LEMMA TagOrganizationType ==
    ASSUME TypeOK, NEW a \in Users, NEW d \in Decks
    PROVE  TagOrganization(a, d) \in Orgs \cup {NoOrg}
  BY DeckAccessAssumption DEF TypeOK, TagOrganization, DeckRow

IInv == TypeOK /\ GlobalInSync

LEMMA InitIInv == Init => IInv
  BY DeckAccessAssumption
  DEF Init, IInv, TypeOK, GlobalInSync, DeckRow, Roles, Scopes, Levels

\* Every request keeps the types and writes both columns of the scope.
LEMMA RequestKeepsIInv ==
    ASSUME IInv, NEW a \in Users, RequestOf(a)
    PROVE  IInv'
  <1> USE DEF IInv
  <1>1. ASSUME NEW d \in Decks, NEW s \in Scopes, CreateDeck(a, d, s)
        PROVE  IInv'
    <2>1. deck' \in [Decks -> DeckRow]
      BY <1>1, ChosenOrgType DEF CreateDeck, TypeOK, DeckRow
    <2>2. GlobalInSync'
      BY <1>1 DEF CreateDeck, TypeOK, DeckRow, GlobalInSync
    <2>3. QED
      BY <1>1, <2>1, <2>2 DEF CreateDeck, TypeOK
  <1>2. ASSUME NEW d \in Decks, NEW s \in Scopes, UpdateDeck(a, d, s)
        PROVE  IInv'
    <2> DEFINE row == [deck[d] EXCEPT !.scope = s, !.org = ChosenOrg(a, s),
                                      !.isGlobal = (s = "global")]
    <2>a. row \in DeckRow
      BY ChosenOrgType DEF TypeOK, DeckRow
    <2>b. deck' = [deck EXCEPT ![d] = row]
      BY <1>2 DEF UpdateDeck, TypeOK, DeckRow
    <2>1. deck' \in [Decks -> DeckRow]
      BY <2>a, <2>b DEF TypeOK
    <2>2. GlobalInSync'
      BY <1>2 DEF UpdateDeck, TypeOK, DeckRow, GlobalInSync
    <2>3. QED
      BY <1>2, <2>1, <2>2 DEF UpdateDeck, TypeOK
  <1>3. ASSUME NEW D \in SUBSET Decks, NEW s \in Scopes, SetScope(a, D, s)
        PROVE  IInv'
    <2>1. deck' \in [Decks -> DeckRow]
      BY <1>3 DEF SetScope, TypeOK, DeckRow
    <2>2. GlobalInSync'
      BY <1>3 DEF SetScope, TypeOK, DeckRow, GlobalInSync
    <2>3. QED
      BY <1>3, <2>1, <2>2 DEF SetScope, TypeOK
  <1>4. ASSUME NEW d \in Decks, NEW u \in Users, NEW l \in Levels,
               Grant(a, d, u, l) \/ UpdateGrant(a, d, u, l)
        PROVE  IInv'
    BY <1>4 DEF Grant, UpdateGrant, TypeOK, GlobalInSync
  <1>5. ASSUME NEW d \in Decks, NEW u \in Users, RevokeGrant(a, d, u)
        PROVE  IInv'
    BY <1>5 DEF RevokeGrant, TypeOK, GlobalInSync, Levels
  <1>6. ASSUME NEW d \in Decks, EditTags(a, d)
        PROVE  IInv'
    <2>1. deck' \in [Decks -> DeckRow]
      BY <1>6, TagOrganizationType DEF EditTags, TypeOK, DeckRow
    <2>2. GlobalInSync'
      BY <1>6 DEF EditTags, TypeOK, DeckRow, GlobalInSync
    <2>3. org' \in [Users -> Orgs \cup {NoOrg}]
      BY <1>6, DeckAccessAssumption DEF EditTags, TypeOK
    <2>4. QED
      BY <1>6, <2>1, <2>2, <2>3 DEF EditTags, TypeOK
  <1>7. ASSUME NEW d \in Decks, DeleteDeck(a, d)
        PROVE  IInv'
    <2>1. deck' \in [Decks -> DeckRow]
      BY <1>7 DEF DeleteDeck, TypeOK, DeckRow
    <2>2. GlobalInSync'
      BY <1>7 DEF DeleteDeck, TypeOK, DeckRow, GlobalInSync
    <2>3. QED
      BY <1>7, <2>1, <2>2 DEF DeleteDeck, TypeOK
  <1>8. ASSUME NEW u \in Users, NEW r \in Roles, NEW o \in Orgs \cup {NoOrg},
               UpdateUser(a, u, r, o)
        PROVE  IInv'
    BY <1>8 DEF UpdateUser, TypeOK, GlobalInSync
  <1>9. ASSUME SignIn(a)
        PROVE  IInv'
    BY <1>9 DEF SignIn, TypeOK, GlobalInSync, Roles
  <1>10. QED
    BY <1>1, <1>2, <1>3, <1>4, <1>5, <1>6, <1>7, <1>8, <1>9 DEF RequestOf

LEMMA StepKeepsIInv == IInv /\ [Next]_vars => IInv'
  <1>1. ASSUME IInv, NEW a \in Users, RequestOf(a)
        PROVE  IInv'
    BY <1>1, RequestKeepsIInv
  <1>2. ASSUME IInv, UNCHANGED vars
        PROVE  IInv'
    BY <1>2 DEF vars, IInv, TypeOK, GlobalInSync
  <1>3. QED
    BY <1>1, <1>2 DEF Next

LEMMA AlwaysIInv == Spec => []IInv
  BY InitIInv, StepKeepsIInv, PTL DEF Spec

\* Type correctness, for any number of users, organisations and decks.
THEOREM TypeCorrect == Spec => []TypeOK
  <1>1. IInv => TypeOK
    BY DEF IInv
  <1>2. QED
    BY <1>1, AlwaysIInv, PTL

\* The two columns that tell a global deck agree after every request.
THEOREM GlobalStaysInSync == Spec => []GlobalInSync
  <1>1. IInv => GlobalInSync
    BY DEF IInv
  <1>2. QED
    BY <1>1, AlwaysIInv, PTL

\* The rank of a stored level is positive exactly for a row that grants.
LEMMA GrantRanks ==
    ASSUME TypeOK, NEW u \in Users, NEW d \in Decks
    PROVE  /\ HasGrant(u, d, "read") <=> grant[d][u] # "none"
           /\ HasGrant(u, d, "delete") => HasGrant(u, d, "write")
           /\ HasGrant(u, d, "write") => HasGrant(u, d, "read")
  BY DEF TypeOK, HasGrant, Rank, Levels

\* The SQL clause with grants and can_access_deck are the same relation
\* between users and decks, in every reachable state.
THEOREM BrowseClauseIsPredicate == Spec => []BrowseClauseAgrees
  <1>1. TypeOK => BrowseClauseAgrees
    BY GrantRanks DEF BrowseClauseAgrees, ListedToBrowse, CanAccess
  <1>2. QED
    BY <1>1, TypeCorrect, PTL

\* Whatever the browse page lists, under every tab, may be opened.
THEOREM BrowseIsReadable == Spec => []BrowseShowsReadable
  <1>1. TypeOK => BrowseShowsReadable
    <2> SUFFICES ASSUME TypeOK, NEW u \in Users
                 PROVE  /\ \A d \in ListedBySearch(u) : CanAccess(u, d)
                        /\ \A tab \in TabsOf(u) : \A d \in ListedUnder(u, tab) : CanAccess(u, d)
      BY DEF BrowseShowsReadable
    <2>1. \A d \in ListedBySearch(u) : CanAccess(u, d)
      BY DEF ListedBySearch, CanAccess
    <2>2. ASSUME NEW tab \in TabsOf(u), NEW d \in ListedUnder(u, tab)
          PROVE  CanAccess(u, d)
      <3>1. CASE IsSystemAdmin(u)
        BY <2>2, <3>1 DEF ListedUnder, Listed, CanAccess
      <3>2. CASE ~IsSystemAdmin(u)
        <4>1. tab \in {"global", "org", "user"}
          BY <3>2, <2>2 DEF TabsOf
        <4>2. d \in Listed(u) /\ IsActive(d) /\ d \in Decks
          BY <2>2 DEF ListedUnder, Listed
        <4>3. CASE tab = "global"
          BY <4>2, <4>3, <2>2 DEF ListedUnder, CanAccess
        <4>4. CASE tab = "user"
          BY <4>2, <4>4, <2>2 DEF ListedUnder, CanAccess
        <4>5. CASE tab = "org"
          BY <4>2, <4>5, <2>2, <3>2 DEF ListedUnder, Listed, CanAccess, SameOrg
        <4>6. QED
          BY <4>1, <4>3, <4>4, <4>5
      <3>3. QED
        BY <3>1, <3>2
    <2>3. QED
      BY <2>1, <2>2
  <1>2. QED
    BY <1>1, TypeCorrect, PTL

\* Deleting and sharing imply writing, and writing implies reading.
THEOREM RightsOrdered == Spec => []RightsAreOrdered
  <1>1. TypeOK => RightsAreOrdered
    <2> SUFFICES ASSUME TypeOK, NEW u \in Users, NEW d \in Decks
                 PROVE  /\ CanDelete(u, d) => CanWrite(u, d)
                        /\ IsActive(d) /\ CanSetAccess(u, d) => CanWrite(u, d)
                        /\ CanWrite(u, d) => CanAccess(u, d)
      BY DEF RightsAreOrdered
    <2>1. CanDelete(u, d) => CanWrite(u, d)
      BY GrantRanks DEF CanDelete, CanWrite, CanChange
    <2>2. IsActive(d) /\ CanSetAccess(u, d) => CanWrite(u, d)
      BY DEF CanSetAccess, CanWrite, CanChange
    <2>3. CanWrite(u, d) => CanAccess(u, d)
      BY GrantRanks DEF CanWrite, CanChange, CanAccess, OrgAdminDecides
    <2>4. QED
      BY <2>1, <2>2, <2>3
  <1>2. QED
    BY <1>1, TypeCorrect, PTL

\* The request of an ordinary user who may not share d, case by case: it is
\* refused, is about another deck, or can only make d personal or deleted.
LEMMA GranteeRequest ==
    ASSUME TypeOK, NEW a \in Users, NEW d \in Decks, RequestOf(a),
           UNCHANGED <<role, org>>, role[a] = "user", ~CanSetAccess(a, d),
           NEW u \in Users, CanAccess(u, d)'
    PROVE  CanAccess(u, d)
  <1>1. /\ ~IsSystemAdmin(a)
        /\ ~IsOrgAdmin(a)
        /\ ~CanManageDecks(a)
        /\ ~Owns(a, d)
    BY DEF IsSystemAdmin, IsOrgAdmin, CanManageDecks, CanSetAccess
  <1>2. ASSUME deck'[d] = deck[d], grant'[d] = grant[d]
        PROVE  CanAccess(u, d)
    BY <1>2 DEF CanAccess, IsActive, IsSystemAdmin, Owns, HasGrant, SameOrg
  <1>3. ASSUME NEW e \in Decks, NEW s \in Scopes, UpdateDeck(a, e, s)
        PROVE  CanAccess(u, d)
    <2>1. CASE e # d
      BY <2>1, <1>2, <1>3 DEF UpdateDeck, TypeOK, DeckRow
    <2>2. CASE e = d
      <3>1. s = "user"
        BY <1>1, <1>3 DEF UpdateDeck, MayChooseScope, Scopes
      <3>2. deck'[d].scope = "user" /\ deck'[d].owner = deck[d].owner /\ grant' = grant
        BY <1>3, <2>2, <3>1 DEF UpdateDeck, TypeOK, DeckRow
      <3>3. IsActive(d)
        BY <1>3, <2>2 DEF UpdateDeck, CanWrite, CanChange
      <3>4. QED
        BY <3>2, <3>3 DEF CanAccess, IsSystemAdmin, Owns, HasGrant
    <2>3. QED
      BY <2>1, <2>2
  <1>4. ASSUME NEW D \in SUBSET Decks, NEW s \in Scopes, SetScope(a, D, s)
        PROVE  CanAccess(u, d)
    <2>1. d \notin D
      BY <1>1, <1>4 DEF SetScope, CanChangeScope
    <2>2. QED
      BY <2>1, <1>2, <1>4 DEF SetScope
  <1>5. ASSUME NEW e \in Decks, NEW v \in Users,
               \/ \E l \in Levels : Grant(a, e, v, l) \/ UpdateGrant(a, e, v, l)
               \/ RevokeGrant(a, e, v)
        PROVE  CanAccess(u, d)
    <2>1. e # d
      BY <1>5 DEF Grant, UpdateGrant, RevokeGrant
    <2>2. deck' = deck /\ grant'[d] = grant[d]
      BY <2>1, <1>5 DEF Grant, UpdateGrant, RevokeGrant, TypeOK
    <2>3. QED
      BY <2>2, <1>2
  <1>6. ASSUME NEW e \in Decks, DeleteDeck(a, e)
        PROVE  CanAccess(u, d)
    <2>1. CASE e = d
      BY <2>1, <1>6 DEF DeleteDeck, TypeOK, DeckRow, CanAccess, IsActive
    <2>2. CASE e # d
      BY <2>2, <1>2, <1>6 DEF DeleteDeck, TypeOK
    <2>3. QED
      BY <2>1, <2>2
  <1>7. ASSUME NEW e \in Decks, NEW s \in Scopes, CreateDeck(a, e, s)
        PROVE  FALSE
    BY <1>1, <1>7 DEF CreateDeck
  <1>8. ASSUME NEW e \in Decks, EditTags(a, e)
        PROVE  FALSE
    BY <1>1, <1>8 DEF EditTags, CanManageTags
  <1>9. ASSUME NEW v \in Users, NEW r \in Roles, NEW o \in Orgs \cup {NoOrg},
               UpdateUser(a, v, r, o)
        PROVE  FALSE
    BY <1>1, <1>9 DEF UpdateUser
  <1>10. ASSUME SignIn(a)
         PROVE  FALSE
    BY <1>10 DEF SignIn, TypeOK
  <1>11. QED
    BY <1>3, <1>4, <1>5, <1>6, <1>7, <1>8, <1>9, <1>10 DEF RequestOf

\* A user's grants never let that user open the deck to somebody else.
THEOREM GranteesDoNotWiden == Spec => GranteesNeverWiden
  <1> DEFINE Kept ==
        \A d \in Decks :
          UNCHANGED <<role, org>> /\ (\E u \in Users : ~CanAccess(u, d) /\ CanAccess(u, d)')
          => \A a \in Users : role[a] = "user" /\ ~CanSetAccess(a, d) => ~RequestOf(a)
  <1>1. TypeOK => Kept
    BY GranteeRequest
  <1>2. TypeOK /\ [Next]_vars => [Kept]_vars
    BY <1>1
  <1>3. QED
    BY <1>2, TypeCorrect, PTL DEF Spec, GranteesNeverWiden

\* A user who is no system admin becomes one only by signing in with the
\* bootstrap email or while there is a system admin.
THEOREM SystemAdminsStayAmongThemselves == Spec => SystemAdminsMakeSystemAdmins
  <1> DEFINE Kept ==
        \A u \in Users : ~IsSystemAdmin(u) /\ IsSystemAdmin(u)' =>
          u = Bootstrap \/ \E a \in Users : IsSystemAdmin(a)
  <1>1. ASSUME TypeOK, NEW a \in Users, RequestOf(a)
        PROVE  Kept
    <2>1. ASSUME NEW u \in Users, NEW r \in Roles, NEW o \in Orgs \cup {NoOrg},
                 UpdateUser(a, u, r, o)
          PROVE  Kept
      <3>1. CASE IsSystemAdmin(a)
        BY <3>1
      <3>2. CASE ~IsSystemAdmin(a)
        <4>1. r # "system_admin"
          BY <2>1, <3>2 DEF UpdateUser, RoleOptions
        <4>2. QED
          BY <2>1, <4>1 DEF UpdateUser, IsSystemAdmin, TypeOK
      <3>3. QED
        BY <3>1, <3>2
    <2>2. CASE SignIn(a)
      BY <2>2 DEF SignIn, IsSystemAdmin, TypeOK
    <2>3. UNCHANGED role => Kept
      BY DEF IsSystemAdmin
    <2>4. QED
      BY <1>1, <2>1, <2>2, <2>3
      DEF RequestOf, CreateDeck, UpdateDeck, SetScope, Grant, UpdateGrant, RevokeGrant,
          EditTags, DeleteDeck
  <1>2. TypeOK /\ [Next]_vars => [Kept]_vars
    BY <1>1 DEF Next
  <1>3. QED
    BY <1>2, TypeCorrect, PTL DEF Spec, SystemAdminsMakeSystemAdmins

-----------------------------------------------------------------------------
-----------------------------------------------------------------------------
(* Folders *)

\* Every parent_id names a row: the foreign key of folders.parent_id.
ParentsExist == \A f \in Existing : parent[f] \in Places

Move(f, p) == [op |-> "move", folder |-> f, to |-> p]

\* What a move under way was checked for still holds when it commits.  It is
\* the part of the induction that a second request would break.
MoveIsSafe ==
  \A r \in Requests, f \in Folders, p \in Folders \cup {Root} :
    req[r] = Move(f, p) => f \in Existing /\ p \in Places /\ p \notin Subtree(f)

TreeInv == FoldersTypeOK /\ ParentsExist /\ Acyclic /\ MoveIsSafe

-----------------------------------------------------------------------------
\* A step of any request keeps the shapes of rows and requests.
LEMMA TypeStep ==
  ASSUME FoldersTypeOK, [FoldersNext]_foldersVars
  PROVE  FoldersTypeOK'
<1> USE ConstantsAssumption
<1> USE DEF FoldersTypeOK, Existing, Places, Moving, Deleting, NoRequest
<1>1. ASSUME NEW f \in Folders, NEW p \in Folders \cup {Root}, Create(f, p)
      PROVE FoldersTypeOK'
  BY <1>1 DEF Create
<1>2. ASSUME NEW d \in Decks, NEW p \in Folders \cup {Root}, MoveDeck(d, p)
      PROVE FoldersTypeOK'
  BY <1>2 DEF MoveDeck
<1>3. ASSUME NEW r \in Requests, NEW f \in Folders, NEW p \in Folders \cup {Root},
             ReadMove(r, f, p)
      PROVE FoldersTypeOK'
  BY <1>3 DEF ReadMove
<1>4. ASSUME NEW r \in Requests, CommitMove(r)
      PROVE FoldersTypeOK'
  <2>1. req[r] \in Moving
    BY <1>4 DEF CommitMove
  <2>2. parent' \in [Folders -> Folders \cup {Root, None}]
    BY <1>4, <2>1 DEF CommitMove
  <2> QED
    BY <1>4, <2>2 DEF CommitMove
<1>5. ASSUME NEW r \in Requests, NEW f \in Folders, NEW form \in BOOLEAN,
             ReadDelete(r, f, form)
      PROVE FoldersTypeOK'
  <2>1. parent[f] \in Folders \cup {Root}
    BY <1>5 DEF ReadDelete
  <2>2. req'[r] \in Deleting
    BY <1>5, <2>1 DEF ReadDelete
  <2> QED
    BY <1>5, <2>2 DEF ReadDelete
<1>6. ASSUME NEW r \in Requests, CommitDelete(r)
      PROVE FoldersTypeOK'
  <2>1. req[r] \in Deleting
    BY <1>6 DEF CommitDelete
  <2>2. parent' \in [Folders -> Folders \cup {Root, None}]
    BY <1>6 DEF CommitDelete
  <2>3. Homes(req[r].folder, req[r].was, Moved(r)) \in [Decks -> Folders \cup {Root}]
    BY <2>1 DEF Homes
  <2> QED
    BY <1>6, <2>2, <2>3 DEF CommitDelete
<1>7. CASE UNCHANGED foldersVars
  BY <1>7 DEF foldersVars
<1> QED
  BY <1>1, <1>2, <1>3, <1>4, <1>5, <1>6, <1>7 DEF FoldersNext

\* Every reachable state is well typed, with any number of requests at a time.
THEOREM FoldersTypeCorrect == FoldersSpec => []FoldersTypeOK
<1>1. FoldersInit => FoldersTypeOK
  BY ConstantsAssumption DEF FoldersInit, FoldersTypeOK
<1>2. FoldersTypeOK /\ [FoldersNext]_foldersVars => FoldersTypeOK'
  BY TypeStep
<1> QED
  BY <1>1, <1>2, PTL DEF FoldersSpec

-----------------------------------------------------------------------------
\* A subfolder of a folder of the subtree is in the subtree.
LEMMA SubtreeIsClosed ==
  ASSUME NEW f, NEW g \in Existing, parent[g] \in Subtree(f)
  PROVE  g \in Subtree(f)
<1>1. CASE parent[g] = f
  BY <1>1 DEF Subtree, Below
<1>2. CASE parent[g] \in Below(f)
  BY <1>2 DEF Subtree, Below, Closed
<1> QED
  BY <1>1, <1>2 DEF Subtree

\* Moving folder f of a tree to a place that is not under it leaves a tree.
LEMMA MoveKeepsTree ==
  ASSUME FoldersTypeOK, ParentsExist, Acyclic,
         NEW f \in Existing, NEW p \in Places, p \notin Subtree(f),
         parent' = [parent EXCEPT ![f] = p]
  PROVE  ParentsExist' /\ Acyclic'
<1> USE ConstantsAssumption
<1>1. Existing' = Existing
  BY DEF Existing, Places, FoldersTypeOK
<1>2. ParentsExist'
  BY <1>1 DEF ParentsExist, Existing, Places, FoldersTypeOK
<1>3. ASSUME NEW S \in SUBSET Existing, S # {}, \A g \in S : parent'[g] \in S
      PROVE FALSE
  <2>1. CASE f \notin S
    <3>1. \A g \in S : parent'[g] = parent[g]
      BY <2>1 DEF Existing, FoldersTypeOK
    <3> QED
      BY <1>3, <3>1 DEF Acyclic
  <2>2. CASE f \in S
    <3> DEFINE R == S \ Subtree(f)
    <3>1. p \in R
      BY <1>3, <2>2 DEF Existing, FoldersTypeOK
    <3>2. ASSUME NEW g \in R PROVE parent[g] \in R
      <4>1. g # f
        BY DEF Subtree
      <4>2. parent[g] \in S
        BY <1>3, <4>1 DEF Existing, FoldersTypeOK
      <4> QED
        BY <4>2, SubtreeIsClosed
    <3> QED
      BY <3>1, <3>2 DEF Acyclic
  <2> QED
    BY <2>1, <2>2
<1> QED
  BY <1>1, <1>2, <1>3 DEF Acyclic

\* A new folder without subfolders puts no folder into another's subtree.
LEMMA CreateKeepsSubtrees ==
  ASSUME FoldersTypeOK, ParentsExist, NEW f \in Folders, NEW p, Create(f, p),
         NEW g \in Folders, NEW t \in Existing, t \notin Subtree(g)
  PROVE  t \notin Subtree(g)'
<1> USE ConstantsAssumption
<1>1. Existing' = Existing \cup {f}
  BY DEF Create, Existing, Places, FoldersTypeOK
<1>2. \A h \in Existing : parent'[h] = parent[h]
  BY DEF Create, Existing, FoldersTypeOK
<1>3. PICK S \in SUBSET Existing :
        /\ Closed(S)
        /\ \A c \in Existing : parent[c] = g => c \in S
        /\ t \notin S
  BY DEF Subtree, Below
<1> DEFINE T == S \cup {f}
<1>4. T \in SUBSET Existing' /\ t \notin T
  BY <1>1, <1>3 DEF Create
<1>5. Closed(T)'
  <2> SUFFICES ASSUME NEW h \in Existing', parent'[h] \in T PROVE h \in T
    BY DEF Closed
  <2>1. CASE h = f
    BY <2>1
  <2>2. CASE h # f
    <3>1. h \in Existing /\ parent'[h] = parent[h]
      BY <1>1, <1>2, <2>2
    <3>2. parent[h] # f
      BY <3>1 DEF ParentsExist, Places, Create
    <3> QED
      BY <1>3, <3>1, <3>2 DEF Closed
  <2> QED
    BY <2>1, <2>2
<1>6. \A c \in Existing' : parent'[c] = g => c \in T
  BY <1>1, <1>2, <1>3
<1>7. t \notin Below(g)'
  BY <1>4, <1>5, <1>6 DEF Below
<1> QED
  BY <1>7 DEF Subtree

\* A new folder without subfolders keeps the tree a tree.
LEMMA CreateKeepsTree ==
  ASSUME FoldersTypeOK, ParentsExist, Acyclic, NEW f \in Folders, NEW p, Create(f, p)
  PROVE  ParentsExist' /\ Acyclic'
<1> USE ConstantsAssumption
<1>1. Existing' = Existing \cup {f} /\ f \notin Existing
  BY DEF Create, Existing, Places, FoldersTypeOK
<1>2. parent'[f] = p /\ \A h \in Existing : parent'[h] = parent[h]
  BY DEF Create, Existing, FoldersTypeOK
<1>3. ParentsExist'
  BY <1>1, <1>2 DEF ParentsExist, Places, Create
<1>4. ASSUME NEW S \in SUBSET Existing', S # {}
      PROVE \E g \in S : parent'[g] \notin S
  <2>1. CASE S = {f}
    BY <1>1, <1>2, <2>1 DEF Create, Places
  <2>2. CASE S # {f}
    <3>1. S \ {f} \in SUBSET Existing /\ S \ {f} # {}
      BY <1>1, <1>4, <2>2
    <3>2. PICK g \in S \ {f} : parent[g] \notin S \ {f}
      BY <3>1 DEF Acyclic
    <3>3. parent[g] # f
      BY <1>1, <3>1 DEF ParentsExist, Places
    <3> QED
      BY <1>2, <3>1, <3>2, <3>3
  <2> QED
    BY <2>1, <2>2
<1>5. Acyclic'
  BY <1>4 DEF Acyclic
<1> QED
  BY <1>3, <1>5

\* Deleting a folder with everything under it leaves a tree.
LEMMA DeleteKeepsTree ==
  ASSUME FoldersTypeOK, ParentsExist, Acyclic, NEW f \in Folders,
         parent' = [g \in Folders |-> IF g \in Subtree(f) THEN None ELSE parent[g]]
  PROVE  ParentsExist' /\ Acyclic'
<1> USE ConstantsAssumption
<1>1. Existing' = Existing \ Subtree(f)
  BY DEF Existing, FoldersTypeOK
<1>2. \A g \in Existing' : parent'[g] = parent[g]
  BY <1>1 DEF Existing
<1>3. ParentsExist'
  BY <1>1, <1>2, SubtreeIsClosed DEF ParentsExist, Places
<1>4. Acyclic'
  BY <1>1, <1>2 DEF Acyclic
<1> QED
  BY <1>3, <1>4

-----------------------------------------------------------------------------
\* Requests that come one at a time keep the tree: what a move was checked for
\* still holds at its commit, and so no commit closes a cycle.
LEMMA TreeInvariant ==
  ASSUME \A r, s \in Requests : r = s
  PROVE  FoldersSpec => []TreeInv
<1> USE ConstantsAssumption
<1>1. FoldersInit => TreeInv
  BY DEF FoldersInit, TreeInv, FoldersTypeOK, ParentsExist, Acyclic, MoveIsSafe, Existing, NoRequest, Move
<1>2. TreeInv /\ [FoldersNext]_foldersVars => TreeInv'
  <2> SUFFICES ASSUME TreeInv, [FoldersNext]_foldersVars PROVE TreeInv'
    OBVIOUS
  <2> USE DEF TreeInv
  <2>0. FoldersTypeOK'
    BY TypeStep
  <2>1. ASSUME NEW f \in Folders, NEW p \in Folders \cup {Root}, Create(f, p)
        PROVE TreeInv'
    <3>1. ParentsExist' /\ Acyclic'
      BY <2>1, CreateKeepsTree
    <3>2. req' = req /\ Existing \subseteq Existing' /\ Root \notin Existing'
      BY <2>1 DEF Create, Existing, Places, FoldersTypeOK
    <3>3. ASSUME NEW r \in Requests, NEW g \in Folders, NEW t \in Folders \cup {Root},
                 req'[r] = Move(g, t)
          PROVE g \in Existing' /\ t \in Places' /\ t \notin Subtree(g)'
      <4>1. g \in Existing /\ t \in Places /\ t \notin Subtree(g)
        BY <3>2, <3>3 DEF MoveIsSafe
      <4>2. CASE t = Root
        BY <3>2, <4>1, <4>2 DEF Places, Subtree, Below
      <4>3. CASE t \in Existing
        <5>1. t \notin Subtree(g)'
          BY <2>1, <4>1, <4>3, CreateKeepsSubtrees
        <5> QED
          BY <3>2, <4>1, <5>1 DEF Places
      <4> QED
        BY <4>1, <4>2, <4>3 DEF Places
    <3>4. MoveIsSafe'
      BY <3>3 DEF MoveIsSafe, Move
    <3> QED
      BY <2>0, <3>1, <3>4
  <2>2. ASSUME parent' = parent,
               \A r \in Requests, f \in Folders, p \in Folders \cup {Root} :
                 req'[r] = Move(f, p) =>
                   \/ req'[r] = req[r]
                   \/ f \in Existing /\ p \in Places /\ p \notin Subtree(f)
        PROVE TreeInv'
    <3>1. Existing' = Existing /\ Places' = Places /\ ParentsExist' /\ Acyclic'
      BY <2>2 DEF Existing, Places, ParentsExist, Acyclic
    <3>2. ASSUME NEW f PROVE Subtree(f)' = Subtree(f)
      BY <2>2 DEF Subtree, Below, Closed, Existing
    <3>3. MoveIsSafe'
      BY <2>2, <3>1, <3>2 DEF MoveIsSafe
    <3> QED
      BY <2>0, <3>1, <3>3
  <2>3. ASSUME NEW d \in Decks, NEW p \in Folders \cup {Root}, MoveDeck(d, p)
        PROVE TreeInv'
    BY <2>2, <2>3 DEF MoveDeck
  <2>4. ASSUME NEW r \in Requests, NEW f \in Folders, NEW p \in Folders \cup {Root},
               ReadMove(r, f, p)
        PROVE TreeInv'
    <3>1. req'[r] = Move(f, p) /\ \A s \in Requests : s = r
      BY <2>4 DEF ReadMove, FoldersTypeOK, Move
    <3>2. f \in Existing /\ p \in Places /\ p \notin Subtree(f)
      BY <2>4 DEF ReadMove, Places, Subtree, Below, Existing
    <3> QED
      BY <2>2, <2>4, <3>1, <3>2 DEF ReadMove, Move
  <2>5. ASSUME NEW r \in Requests, CommitMove(r)
        PROVE TreeInv'
    <3> DEFINE f == req[r].folder
               p == req[r].to
    <3>0. f \in Folders /\ p \in Folders \cup {Root} /\ req[r] = Move(f, p)
      BY <2>5 DEF CommitMove, FoldersTypeOK, Moving, Deleting, NoRequest, Move
    <3>1. f \in Existing /\ p \in Places /\ p \notin Subtree(f)
      BY <3>0 DEF MoveIsSafe
    <3>2. parent' = [parent EXCEPT ![f] = p]
      BY <2>5, <3>1 DEF CommitMove
    <3>3. ParentsExist' /\ Acyclic'
      BY <3>1, <3>2, MoveKeepsTree
    <3>4. \A s \in Requests : req'[s].op = "none"
      BY <2>5 DEF CommitMove, FoldersTypeOK, NoRequest
    <3> QED
      BY <2>0, <3>3, <3>4 DEF MoveIsSafe, Move
  <2>6. ASSUME NEW r \in Requests, NEW f \in Folders, NEW form \in BOOLEAN,
             ReadDelete(r, f, form)
        PROVE TreeInv'
    <3>1. req'[r].op = "delete" /\ \A s \in Requests : s = r
      BY <2>6 DEF ReadDelete, FoldersTypeOK
    <3> QED
      BY <2>2, <2>6, <3>1 DEF ReadDelete, Move
  <2>7. ASSUME NEW r \in Requests, CommitDelete(r)
        PROVE TreeInv'
    <3>1. \A s \in Requests : req'[s].op = "none"
      BY <2>7 DEF CommitDelete, FoldersTypeOK, NoRequest
    <3>2. PICK f \in Folders : f = req[r].folder
      BY <2>7 DEF CommitDelete, FoldersTypeOK, Moving, Deleting, NoRequest
    <3>3. CASE Doable(r)
      <4>1. parent' = [g \in Folders |-> IF g \in Subtree(f) THEN None ELSE parent[g]]
        BY <2>7, <3>2, <3>3 DEF CommitDelete
      <4>2. ParentsExist' /\ Acyclic'
        BY <4>1, DeleteKeepsTree
      <4> QED
        BY <2>0, <3>1, <4>2 DEF MoveIsSafe, Move
    <3>4. CASE ~Doable(r)
      <4>1. parent' = parent
        BY <2>7, <3>4 DEF CommitDelete
      <4> QED
        BY <2>2, <3>1, <4>1 DEF Move
    <3> QED
      BY <3>3, <3>4
  <2>8. CASE UNCHANGED foldersVars
    BY <2>2, <2>8 DEF foldersVars
  <2> QED
    BY <2>1, <2>3, <2>4, <2>5, <2>6, <2>7, <2>8 DEF FoldersNext
<1> QED
  BY <1>1, <1>2, PTL DEF FoldersSpec

\* Read as a promise to whoever browses: when no two move or delete requests
\* are under way together, no folder ever ends up inside itself.
THEOREM OneRequestKeepsTree ==
  ASSUME \A r, s \in Requests : r = s
  PROVE  FoldersSpec => []Acyclic
<1>1. FoldersSpec => []TreeInv
  BY TreeInvariant
<1>2. TreeInv => Acyclic
  BY DEF TreeInv
<1> QED
  BY <1>1, <1>2, PTL

-----------------------------------------------------------------------------
\* Every folder_id names a row: the foreign key of decks.folder_id.
HomesExist == \A d \in Decks : home[d] \in Places

\* No step leaves a deck in a folder that is gone, with any number of requests.
LEMMA HomesStep ==
  ASSUME FoldersTypeOK, HomesExist, [FoldersNext]_foldersVars
  PROVE  HomesExist'
<1> USE ConstantsAssumption
<1>1. ASSUME Places \subseteq Places', home' = home
      PROVE HomesExist'
  BY <1>1 DEF HomesExist
<1>2. ASSUME NEW f \in Folders, NEW p \in Folders \cup {Root}, Create(f, p)
      PROVE HomesExist'
  <2>1. Places \subseteq Places' /\ home' = home
    BY <1>2 DEF Create, Existing, Places, FoldersTypeOK
  <2> QED
    BY <1>1, <2>1
<1>3. ASSUME NEW d \in Decks, NEW p \in Folders \cup {Root}, MoveDeck(d, p)
      PROVE HomesExist'
  BY <1>3 DEF MoveDeck, HomesExist, Places, Existing, FoldersTypeOK
<1>4. ASSUME NEW r \in Requests, NEW f \in Folders, NEW p \in Folders \cup {Root},
             ReadMove(r, f, p)
      PROVE HomesExist'
  BY <1>1, <1>4 DEF ReadMove, Places, Existing
<1>5. ASSUME NEW r \in Requests, CommitMove(r)
      PROVE HomesExist'
  <2>1. Places \subseteq Places'
    BY <1>5 DEF CommitMove, Places, Existing, FoldersTypeOK
  <2> QED
    BY <1>1, <1>5, <2>1 DEF CommitMove
<1>6. ASSUME NEW r \in Requests, NEW f \in Folders, NEW form \in BOOLEAN,
             ReadDelete(r, f, form)
      PROVE HomesExist'
  BY <1>1, <1>6 DEF ReadDelete, Places, Existing
<1>7. ASSUME NEW r \in Requests, CommitDelete(r)
      PROVE HomesExist'
  <2> DEFINE f == req[r].folder
             was == req[r].was
  <2>1. CASE Doable(r)
    <3>1. parent' = [g \in Folders |-> IF g \in Subtree(f) THEN None ELSE parent[g]]
      BY <1>7, <2>1 DEF CommitDelete
    <3>2. Existing' = Existing \ Subtree(f)
      BY <3>1 DEF Existing, FoldersTypeOK
    <3>3. home' = Homes(f, was, Moved(r))
      BY <1>7, <2>1 DEF CommitDelete
    <3>4. ASSUME NEW d \in Decks PROVE home'[d] \in Places'
      <4>1. CASE d \in Moved(r) /\ was \notin Subtree(f)
        <5>1. home'[d] = was /\ was \in Places
          BY <2>1, <3>3, <4>1 DEF Homes, Doable
        <5> QED
          BY <3>2, <4>1, <5>1 DEF Places
      <4>2. CASE ~(d \in Moved(r) /\ was \notin Subtree(f)) /\ home[d] \in Subtree(f)
        <5>1. home'[d] = Root
          BY <3>3, <4>2 DEF Homes
        <5> QED
          BY <5>1 DEF Places
      <4>3. CASE ~(d \in Moved(r) /\ was \notin Subtree(f)) /\ home[d] \notin Subtree(f)
        <5>1. home'[d] = home[d]
          BY <3>3, <4>3 DEF Homes
        <5> QED
          BY <3>2, <4>3, <5>1 DEF HomesExist, Places
      <4> QED
        BY <4>1, <4>2, <4>3
    <3> QED
      BY <3>4 DEF HomesExist
  <2>2. CASE ~Doable(r)
    <3>1. parent' = parent /\ home' = home
      BY <1>7, <2>2 DEF CommitDelete
    <3> QED
      BY <1>1, <3>1 DEF Places, Existing
  <2> QED
    BY <2>1, <2>2
<1>8. CASE UNCHANGED foldersVars
  BY <1>1, <1>8 DEF foldersVars, Places, Existing
<1> QED
  BY <1>2, <1>3, <1>4, <1>5, <1>6, <1>7, <1>8 DEF FoldersNext

\* In a tree whose decks are in existing folders every deck is found.
LEMMA TreeFindsDecks ==
  ASSUME ParentsExist, Acyclic, HomesExist
  PROVE  EveryDeckIsFound
<1> USE ConstantsAssumption
<1> SUFFICES ASSUME NEW d \in Decks, home[d] # Root, NEW S \in SUBSET Existing,
                    Closed(S), \A c \in Existing : parent[c] = Root => c \in S,
                    home[d] \notin S
             PROVE  FALSE
  BY DEF EveryDeckIsFound
<1> DEFINE Rest == Existing \ S
<1>1. home[d] \in Rest
  BY DEF HomesExist, Places
<1>2. PICK g \in Rest : parent[g] \notin Rest
  BY <1>1 DEF Acyclic
<1>3. parent[g] \in S \/ parent[g] = Root
  BY <1>2 DEF ParentsExist, Places
<1> QED
  BY <1>2, <1>3 DEF Closed

\* Where every deck is found, each user finds the decks listed to that user by
\* the folders shown: those on the way to a deck are shown because of it.
LEMMA ShownFindsDecks ==
  ASSUME HomesExist, EveryDeckIsFound
  PROVE  BrowseReachesDecks
<1> USE ConstantsAssumption
<1> SUFFICES ASSUME NEW u \in Users, NEW S \in SUBSET Existing,
                    \A c \in {g \in Existing : Shown(u, g)} :
                      parent[c] \in S \cup {Root} => c \in S,
                    NEW d \in Seen[u], home[d] \notin S \cup {Root}
             PROVE  FALSE
  BY DEF BrowseReachesDecks
<1>1. d \in Decks
  BY UsersAssumption
<1>2. home[d] \in Existing /\ home[d] \in Subtree(home[d])
  BY <1>1 DEF HomesExist, Places, Subtree
<1> DEFINE T == S \cup {g \in Existing : home[d] \notin Subtree(g)}
<1>3. ASSUME NEW g \in Existing, home[d] \in Subtree(g)
      PROVE Shown(u, g)
  BY <1>1, <1>3 DEF Shown, DecksUnder
<1>4. \A c \in Existing : parent[c] = Root => c \in T
  BY <1>3
<1>5. ASSUME NEW g \in Existing, parent[g] \in T
      PROVE g \in T
  <2> SUFFICES ASSUME home[d] \in Subtree(g) PROVE g \in S
    OBVIOUS
  <2>1. CASE parent[g] \in S
    BY <1>3, <2>1
  <2>2. CASE parent[g] \in Existing /\ home[d] \notin Subtree(parent[g])
    <3> DEFINE p == parent[g]
    <3>1. PICK R \in SUBSET Existing :
            /\ Closed(R)
            /\ \A c \in Existing : parent[c] = p => c \in R
            /\ home[d] \notin R
      BY <1>2, <2>2 DEF Subtree, Below
    <3>2. g \in R /\ \A c \in Existing : parent[c] = g => c \in R
      BY <3>1 DEF Closed
    <3> QED
      BY <3>1, <3>2 DEF Subtree, Below
  <2> QED
    BY <1>5, <2>1, <2>2
<1>6. T \in SUBSET Existing /\ Closed(T)
  BY <1>5 DEF Closed
<1>7. home[d] \in T
  BY <1>1, <1>4, <1>6 DEF EveryDeckIsFound
<1> QED
  BY <1>2, <1>7

\* With one request at a time every deck stays where browsing from the root
\* finds it, for any folders, decks and sequence of requests.
THEOREM OneRequestFindsDecks ==
  ASSUME \A r, s \in Requests : r = s
  PROVE  FoldersSpec => []EveryDeckIsFound
<1>1. FoldersSpec => []TreeInv
  BY TreeInvariant
<1>2. FoldersInit => HomesExist
  BY DEF FoldersInit, HomesExist, Places
<1>3. FoldersTypeOK /\ HomesExist /\ [FoldersNext]_foldersVars => HomesExist'
  BY HomesStep
<1>4. TreeInv => FoldersTypeOK
  BY DEF TreeInv
<1>5. TreeInv /\ HomesExist => EveryDeckIsFound
  BY TreeFindsDecks DEF TreeInv
<1> QED
  BY <1>1, <1>2, <1>3, <1>4, <1>5, PTL DEF FoldersSpec

\* ... and each user finds the decks this user may see by the folders the
\* browse page shows, for any users, rights and owners of folders.
THEOREM OneRequestReachesDecks ==
  ASSUME \A r, s \in Requests : r = s
  PROVE  FoldersSpec => []BrowseReachesDecks
<1>1. FoldersSpec => []TreeInv
  BY TreeInvariant
<1>2. FoldersInit => HomesExist
  BY DEF FoldersInit, HomesExist, Places
<1>3. FoldersTypeOK /\ HomesExist /\ [FoldersNext]_foldersVars => HomesExist'
  BY HomesStep
<1>4. TreeInv => FoldersTypeOK
  BY DEF TreeInv
<1>5. TreeInv /\ HomesExist => BrowseReachesDecks
  BY TreeFindsDecks, ShownFindsDecks DEF TreeInv
<1> QED
  BY <1>1, <1>2, <1>3, <1>4, <1>5, PTL DEF FoldersSpec
=============================================================================
