----------------------------- MODULE DeckAccess -----------------------------
(***************************************************************************)
(* Who may read, write, delete and share a deck, and which decks the pages *)
(* list: services/access.py, api/routers/deck_accesses.py and the handlers *)
(* of api/routers/pages.py that write users, decks, tags and organisations.*)
(*                                                                         *)
(* Two layers decide: the deck's scope, and one row per deck and user that *)
(* grants more.  They are evaluated twice, by Python predicates over one   *)
(* loaded deck (Can...) and by SQL clauses that select the decks of a page *)
(* (Listed...).  A request is one step: it loads a few rows, checks and    *)
(* commits once.  Names, folders and stars are left out.            *)
(***************************************************************************)
EXTENDS Naturals, FiniteSets, UsersAndDecks

CONSTANTS
    Orgs,           \* the organisations
    DefaultOrg,     \* the organisation named "Default Organization"
    Bootstrap       \* the user whose email is the configured bootstrap email

ASSUME DeckAccessAssumption ==
    /\ NoOrg \notin Orgs
    /\ DefaultOrg \in Orgs
    /\ Bootstrap \in Users

VARIABLES
    role,           \* users.role
    org,            \* users.organization_id
    deck,           \* the rows of decks
    grant           \* the rows of deck_accesses; "none" where there is no row

vars == <<role, org, deck, grant>>

Roles  == {"user", "admin", "system_admin"}
Scopes == {"global", "org", "user"}
Levels == {"none", "read", "write", "delete"}

DeckRow ==
    [state: {"absent", "active", "deleted"}, owner: Users, scope: Scopes,
     org: Orgs \cup {NoOrg}, isGlobal: BOOLEAN]

TypeOK ==
    /\ role \in [Users -> Roles]
    /\ org \in [Users -> Orgs \cup {NoOrg}]
    /\ deck \in [Decks -> DeckRow]
    /\ grant \in [Decks -> [Users -> Levels]]

Init ==
    /\ role = [u \in Users |-> "user"]
    /\ org = [u \in Users |-> NoOrg]
    /\ deck = [d \in Decks |-> [state |-> "absent", owner |-> Bootstrap,
                                scope |-> "user", org |-> NoOrg, isGlobal |-> FALSE]]
    /\ grant = [d \in Decks |-> [u \in Users |-> "none"]]

-----------------------------------------------------------------------------
(* The predicates of services/access.py. *)

Rank(level) ==
    CASE level = "none"  -> 0
      [] level = "read"  -> 1
      [] level = "write" -> 2
      [] OTHER           -> 3

IsSystemAdmin(u) == role[u] = "system_admin"
IsOrgAdmin(u)    == role[u] = "admin" /\ org[u] # NoOrg

IsActive(d)      == deck[d].state = "active"
Owns(u, d)       == deck[d].owner = u
\* Mutant: a grant of exactly the level asked for does not count.
FaultyHasGrant(u, d, level) == Rank(grant[d][u]) > Rank(level)

HasGrant(u, d, level) == Rank(grant[d][u]) >= Rank(level)
SameOrg(u, d)    == org[u] # NoOrg /\ org[u] = deck[d].org

\* An organisation's admin is answered by the organisations alone when both
\* are known: the deck's grants are not looked at any more.
OrgAdminDecides(u, d) ==
    /\ deck[d].scope = "org"
    /\ IsOrgAdmin(u)
    /\ deck[d].org # NoOrg

CanAccess(u, d) ==
    /\ IsActive(d)
    /\ \/ IsSystemAdmin(u)
       \/ Owns(u, d)
       \/ HasGrant(u, d, "read")
       \/ deck[d].scope = "global"
       \/ deck[d].scope = "org" /\ SameOrg(u, d)

CanChange(u, d, level) ==
    /\ IsActive(d)
    /\ \/ IsSystemAdmin(u)
       \/ Owns(u, d)
       \/ OrgAdminDecides(u, d) /\ SameOrg(u, d)
       \/ ~OrgAdminDecides(u, d) /\ HasGrant(u, d, level)

CanWrite(u, d)  == CanChange(u, d, "write")
CanDelete(u, d) == CanChange(u, d, "delete")

CanManageDecks(u) == role[u] \in {"admin", "system_admin"}

CanSetAccess(u, d) ==
    \/ IsSystemAdmin(u)
    \/ Owns(u, d)
    \/ OrgAdminDecides(u, d) /\ SameOrg(u, d)

CanChangeScope(u, d, scope) ==
    \/ IsSystemAdmin(u)
    \/ /\ Owns(u, d)
       /\ scope = "global" => role[u] # "user"
       /\ scope = "org" => IsOrgAdmin(u)

CanManageTags(u, d) ==
    \/ IsSystemAdmin(u)
    \/ role[u] = "admin" /\ ~deck[d].isGlobal /\ SameOrg(u, d)

-----------------------------------------------------------------------------
(* The clauses that select the decks of a page. *)

\* Dashboard, live counters and the next card to review.
Listed(u) ==
    {d \in Decks :
        /\ IsActive(d)
        /\ \/ IsSystemAdmin(u)
           \/ Owns(u, d)
           \/ SameOrg(u, d)
           \/ deck[d].scope = "global"}

\* The clause written for the browse page, grants included.
ListedToBrowse(u) ==
    {d \in Decks :
        /\ IsActive(d)
        /\ \/ IsSystemAdmin(u)
           \/ Owns(u, d)
           \/ deck[d].scope = "global"
           \/ grant[d][u] # "none"
           \/ deck[d].scope = "org" /\ SameOrg(u, d)}

\* What the browse page selects inside a folder and in a search.
ListedBySearch(u) ==
    {d \in Decks :
        /\ IsActive(d)
        /\ \/ Owns(u, d)
           \/ deck[d].scope = "global"
           \/ deck[d].scope = "org" /\ SameOrg(u, d)}

TabsOf(u) ==
    CASE IsSystemAdmin(u)  -> {"all", "global", "org", "user"}
      [] role[u] = "admin" -> {"global", "org", "user"}
      [] OTHER             -> {"global", "user"}

\* What the browse page selects under one of its tabs.
ListedUnder(u, tab) ==
    {d \in Listed(u) :
        CASE tab = "global" -> deck[d].scope = "global"
          [] tab = "org"    -> /\ deck[d].scope = "org"
                               /\ org[u] # NoOrg => SameOrg(u, d)
          [] tab = "user"   -> deck[d].scope = "user" /\ Owns(u, d)
          [] OTHER          -> TRUE}

-----------------------------------------------------------------------------
(* The requests of user a. *)

\* Mutant: whoever may write a deck may make it global.
FaultyMayChooseScope(a, scope) == scope = "org" => IsOrgAdmin(a)

\* create and update take only a system admin's "global" and an org admin's
\* "org", and give the deck the organisation of the user who sends the request.
MayChooseScope(a, scope) ==
    /\ scope = "global" => IsSystemAdmin(a)
    /\ scope = "org" => IsOrgAdmin(a)

ChosenOrg(a, scope) == IF scope = "org" THEN org[a] ELSE NoOrg

CreateDeck(a, d, scope) ==
    /\ deck[d].state = "absent"
    /\ CanManageDecks(a)
    /\ MayChooseScope(a, scope)
    /\ deck' = [deck EXCEPT ![d] =
                    [state |-> "active", owner |-> a, scope |-> scope,
                     org |-> ChosenOrg(a, scope), isGlobal |-> scope = "global"]]
    /\ UNCHANGED <<role, org, grant>>

UpdateDeck(a, d, scope) ==
    /\ CanWrite(a, d)
    /\ MayChooseScope(a, scope)
    /\ deck' = [deck EXCEPT ![d].scope = scope,
                            ![d].org = ChosenOrg(a, scope),
                            ![d].isGlobal = (scope = "global")]
    /\ UNCHANGED <<role, org, grant>>

\* Both requests that set the scope, for one deck and for the decks chosen or
\* found in the chosen folders.  The deck keeps its organisation.
SetScope(a, D, scope) ==
    /\ \A d \in D : IsActive(d) /\ CanChangeScope(a, d, scope)
    /\ deck' = [d \in Decks |->
                    IF d \in D
                    THEN [deck[d] EXCEPT !.scope = scope, !.isGlobal = (scope = "global")]
                    ELSE deck[d]]
    /\ UNCHANGED <<role, org, grant>>

Grant(a, d, u, level) ==
    /\ IsActive(d)
    /\ CanSetAccess(a, d)
    /\ level # "none"
    /\ ~Owns(u, d)
    /\ grant' = [grant EXCEPT ![d][u] = level]
    /\ UNCHANGED <<role, org, deck>>

\* The level "none" deletes the row.
UpdateGrant(a, d, u, level) ==
    /\ IsActive(d)
    /\ CanSetAccess(a, d)
    /\ grant[d][u] # "none"
    /\ grant' = [grant EXCEPT ![d][u] = level]
    /\ UNCHANGED <<role, org, deck>>

RevokeGrant(a, d, u) ==
    /\ IsActive(d)
    /\ CanSetAccess(a, d)
    /\ grant[d][u] # "none"
    /\ grant' = [grant EXCEPT ![d][u] = "none"]
    /\ UNCHANGED <<role, org, deck>>

\* Tags belong to an organisation: a deck without one gets its editor's, and
\* an editor without one gets the default organisation for both.
TagOrganization(a, d) ==
    IF deck[d].org # NoOrg THEN deck[d].org
    ELSE IF org[a] # NoOrg THEN org[a]
    ELSE DefaultOrg

EditTags(a, d) ==
    /\ CanAccess(a, d)
    /\ CanManageTags(a, d)
    /\ deck' = [deck EXCEPT ![d].org = TagOrganization(a, d)]
    /\ org' = [org EXCEPT ![a] = IF deck[d].org = NoOrg /\ @ = NoOrg THEN DefaultOrg ELSE @]
    /\ UNCHANGED <<role, grant>>

\* The form's delete and the API's: both ask for the right to write.
DeleteDeck(a, d) ==
    /\ CanWrite(a, d)
    /\ deck' = [deck EXCEPT ![d].state = "deleted"]
    /\ UNCHANGED <<role, org, grant>>

RoleOptions(a, u) ==
    CASE IsSystemAdmin(a)                        -> Roles
      [] role[a] = "admin" /\ org[u] = org[a]    -> {"user", "admin"}
      [] OTHER                                   -> {}

\* A system admin moves a user anywhere, an admin only within the admin's own
\* organisation, no organisation being one too.
UpdateUser(a, u, r, o) ==
    /\ CanManageDecks(a)
    /\ IsSystemAdmin(a) \/ o = org[a]
    /\ r \in RoleOptions(a, u)
    /\ role' = [role EXCEPT ![u] = r]
    /\ org' = [org EXCEPT ![u] = o]
    /\ UNCHANGED <<deck, grant>>

\* Signing in with the bootstrap email makes a user a system admin.
SignIn(a) ==
    /\ a = Bootstrap
    /\ role' = [role EXCEPT ![a] = "system_admin"]
    /\ UNCHANGED <<org, deck, grant>>

RequestOf(a) ==
    \/ \E d \in Decks, s \in Scopes : CreateDeck(a, d, s) \/ UpdateDeck(a, d, s)
    \/ \E D \in SUBSET Decks, s \in Scopes : SetScope(a, D, s)
    \/ \E d \in Decks, u \in Users, l \in Levels : Grant(a, d, u, l) \/ UpdateGrant(a, d, u, l)
    \/ \E d \in Decks, u \in Users : RevokeGrant(a, d, u)
    \/ \E d \in Decks : EditTags(a, d) \/ DeleteDeck(a, d)
    \/ \E u \in Users, r \in Roles, o \in Orgs \cup {NoOrg} : UpdateUser(a, u, r, o)
    \/ SignIn(a)

Next == \E a \in Users : RequestOf(a)

Spec == Init /\ [][Next]_vars

-----------------------------------------------------------------------------
(* Properties. *)

\* The two columns that tell a global deck, access_level and the older
\* is_global that tag management still reads, never disagree, whichever
\* handler wrote the deck last.
GlobalInSync == \A d \in Decks : deck[d].isGlobal <=> deck[d].scope = "global"

\* The clause with grants selects exactly the decks that can_access_deck lets
\* the user open: two formulations of one rule, in SQL and in Python.
BrowseClauseAgrees ==
    \A u \in Users : ListedToBrowse(u) = {d \in Decks : CanAccess(u, d)}

\* Every deck the browse page lists, under each tab it offers the user, in a
\* folder or in a search, is one the user may open.  (The clause below the
\* tabs alone does not have this property, see ReviewShowsReadable.)
BrowseShowsReadable ==
    \A u \in Users :
        /\ \A d \in ListedBySearch(u) : CanAccess(u, d)
        /\ \A tab \in TabsOf(u) : \A d \in ListedUnder(u, tab) : CanAccess(u, d)

\* The rights are ordered: whoever is offered the deletion or the sharing of a
\* live deck may also change it, and whoever may change it may open it.  The
\* delete button is shown by can_delete_deck and its handler asks can_write_deck.
RightsAreOrdered ==
    \A u \in Users, d \in Decks :
        /\ CanDelete(u, d) => CanWrite(u, d)
        /\ IsActive(d) /\ CanSetAccess(u, d) => CanWrite(u, d)
        /\ CanWrite(u, d) => CanAccess(u, d)

\* No request of an ordinary user who may not share a deck lets anybody open it
\* who could not before (signing in as the bootstrap user apart), whatever was
\* granted: "write" lets one change a deck, not hand it on (update_deck sets the
\* scope under can_write_deck).
GranteesNeverWiden ==
    [][\A d \in Decks :
          UNCHANGED <<role, org>> /\ (\E u \in Users : ~CanAccess(u, d) /\ CanAccess(u, d)')
          => \A a \in Users : role[a] = "user" /\ ~CanSetAccess(a, d) => ~RequestOf(a)]_vars

\* The power over users does not grow below the system admins: a user who is
\* none becomes one only by signing in with the bootstrap email or while there
\* is a system admin to do it.
SystemAdminsMakeSystemAdmins ==
    [][\A u \in Users : ~IsSystemAdmin(u) /\ IsSystemAdmin(u)' =>
          u = Bootstrap \/ \E a \in Users : IsSystemAdmin(a)]_vars

\* What the code does not have (README 3.3): a card offered for review
\* is of a deck the user may open.
ReviewShowsReadable ==
    \A u \in Users : \A d \in Listed(u) : CanAccess(u, d)

\* An explicit grant of "write" lets its user change the deck.
GrantIsHonoured ==
    \A u \in Users, d \in Decks :
        IsActive(d) /\ HasGrant(u, d, "write") => CanWrite(u, d)

\* A deck an org admin puts into scope "org" can be read in an organisation.
OrgDeckHasOrganisation ==
    \A d \in Decks : IsActive(d) /\ deck[d].scope = "org" => deck[d].org # NoOrg

\* A deck becomes global only at the request of a system admin.
OnlySystemAdminsPublish ==
    [][\A d \in Decks : ~deck[d].isGlobal /\ deck'[d].isGlobal =>
          \E a \in Users : IsSystemAdmin(a)]_vars
=============================================================================
