--------------------------- MODULE ProviderConfig ---------------------------
(***************************************************************************)
(* The AI provider every generation uses, and the key it uses it with:     *)
(* app/services/ai_provider_config.py, app/services/ai_auth.py and the     *)
(* settings pages of app/api/routers/pages.py.                             *)
(*                                                                         *)
(* An administrator stores one provider, one model and a key per provider  *)
(* in a single row; without it the environment decides.  Every process     *)
(* keeps the row in a cache for a while, and a save drops the cache of the *)
(* process it happens in.  A generation reads the row from the database to *)
(* choose its provider, and from the cache to find the app's key and, if   *)
(* the provider's client looks at the setting at all, its model; users and *)
(* organisations may have keys of their own.                               *)
(*                                                                         *)
(* A step ends at a commit, and between reading the row and writing it to  *)
(* the cache, which is done without the lock.  A stored model is named by  *)
(* the provider that serves it: administrators store pairs that match.     *)
(***************************************************************************)
EXTENDS Naturals

CONSTANTS
  Providers,
  Processes,     \* of the application: its web servers and its worker
  Web,           \* the process that serves the administrators
  Admins,        \* requests to the settings page, each made repeatedly
  Calls,         \* generations, each made repeatedly
  Readers,       \* the providers whose client uses the model that is set
  BuiltIn,       \* the model that is written into the client of any other
  EnvProvider,   \* AI_PROVIDER, with AI_MODEL and AI_API_KEY
  OldKey,        \* the key of a row from before keys were kept per provider
  Nothing,       \* no row, no key
  Ttl,           \* CACHE_TTL_SECONDS, in units of Tick
  MaxEvents      \* bound: changes of settings and keys, and reads of the row that fail

ASSUME ConstantsAssumption ==
  /\ EnvProvider \in Providers /\ Web \in Processes
  /\ OldKey \notin Providers /\ Nothing \notin Providers /\ OldKey # Nothing
  /\ Readers \subseteq Providers /\ BuiltIn \notin Providers
  /\ Ttl \in Nat \ {0} /\ MaxEvents \in Nat

VARIABLES
  row,      \* the stored setting
  cache,    \* per process: the row as it was read, and how long ago
  scope,    \* keys of a user and of the user's organisation, AI switched on
  admin,    \* where a request of an administrator is
  call,     \* where a generation is, and what it has found out
  quiet,    \* time since the row changed, up to Ttl
  events    \* how many so far

vars == <<row, cache, scope, admin, call, quiet, events>>

\* bare: the row holds OldKey alone, and no names with it.
Row == [provider : Providers, keys : SUBSET Providers, bare : BOOLEAN]
ASSUME RowAssumption == Nothing \notin Row
Rows == Row \cup {Nothing}

Empty == [row |-> Nothing, age |-> Ttl, late |-> FALSE]
NoRequest == [pc |-> "idle", read |-> Nothing, gone |-> FALSE,
              provider |-> Nothing, key |-> "keep"]
NoCall == [pc |-> "idle", at |-> Web, got |-> Nothing, provider |-> Nothing,
           appKey |-> Nothing, key |-> Nothing, from |-> "none",
           model |-> Nothing, calm |-> FALSE]

Init ==
  /\ row \in {Nothing} \cup {[provider |-> p, keys |-> {}, bare |-> TRUE] : p \in Providers}
  /\ cache = [w \in Processes |-> Empty]
  /\ scope = [user |-> {}, org |-> {}, on |-> FALSE]
  /\ admin = [a \in Admins |-> NoRequest]
  /\ call = [c \in Calls |-> NoCall]
  /\ quiet = Ttl
  /\ events = 0

-----------------------------------------------------------------------------
\* effective_provider and effective_model, of a row.
Effective(r) == IF r = Nothing THEN EnvProvider ELSE r.provider

\* stored_api_key: the key a row holds for p.  A bare one belongs to whatever
\* provider the row names.
AppKey(r, p) ==
  CASE r = Nothing -> Nothing
    [] r # Nothing /\ r.bare -> IF p = r.provider THEN OldKey ELSE Nothing
    [] OTHER -> IF p \in r.keys THEN p ELSE Nothing

\* Mutant: the environment's key for any provider.
FaultyEnvKey(p) == EnvProvider

\* _env_credential.
EnvKey(p) == IF p = EnvProvider THEN p ELSE Nothing

Fresh(w) == cache[w].age < Ttl

\* The row changes: calls under way are not calm any more.
Stored(r) ==
  /\ row' = r
  /\ quiet' = IF r = row THEN quiet ELSE 0
  /\ call' = [c \in Calls |-> [call[c] EXCEPT !.calm = @ /\ r = row]]

-----------------------------------------------------------------------------
(* The settings pages. *)

\* settings_ai_save: save_setting reads the row.  A field left blank keeps the
\* provider's key.
BeginSave(a, p, key) ==
  /\ admin[a].pc = "idle"
  /\ admin' = [admin EXCEPT ![a] =
                 [pc |-> "save", read |-> row, gone |-> FALSE, provider |-> p, key |-> key]]
  /\ UNCHANGED <<row, cache, scope, call, quiet>>

\* Mutant: the keys of the other providers are forgotten.
FaultyKeysAfter(r, p, key) ==
  CASE key = "new" -> {p} [] key = "clear" -> {} [] OTHER -> r.keys

\* The keys a save writes, from the row it has read.
KeysAfter(r, p, key) ==
  CASE key = "new"   -> r.keys \cup {p}
    [] key = "clear" -> r.keys \ {p}
    [] OTHER         -> r.keys

Bare(r) == [provider |-> Nothing, keys |-> {}, bare |-> FALSE]

\* Whether a save changes the keys it has read.  The row's provider is set
\* before its keys are looked up, so a bare key counts as the new provider's and
\* goes when that gets or loses one.
Rekeys(r, p, key) == key = "new" \/ (key = "clear" /\ (r.bare \/ p \in r.keys))

\* The row after the commit, which writes the columns that differ from what was
\* read, and leaves the others as they are now.
Written(r, p, key) ==
  LET old == IF r = Nothing THEN Bare(r) ELSE r
      now == IF r = Nothing THEN Bare(r) ELSE row
  IN [provider |-> IF r # Nothing /\ r.provider = p THEN now.provider ELSE p,
      keys |-> IF Rekeys(old, p, key) THEN KeysAfter(old, p, key) ELSE now.keys,
      bare |-> now.bare /\ ~Rekeys(old, p, key)]

CommitSave(a) ==
  LET r == admin[a].read IN
  /\ admin[a].pc = "save"
  /\ IF (r = Nothing) = (row = Nothing) /\ ~admin[a].gone
     THEN /\ Stored(Written(r, admin[a].provider, admin[a].key))
          /\ admin' = [admin EXCEPT ![a].pc = "invalidate"]
     ELSE \* the row was inserted or deleted meanwhile, or is another row
          \* inserted after a reset: the request fails
          /\ admin' = [admin EXCEPT ![a] = NoRequest]
          /\ UNCHANGED <<row, quiet, call>>
  /\ UNCHANGED <<cache, scope>>

\* The key a call of a user without keys uses, under the setting r.
CallKey(r, p) == IF AppKey(r, p) # Nothing THEN AppKey(r, p) ELSE EnvKey(p)

\* Mutant: the stored keys are not looked at.
FaultyProbeKey(p, key) == IF key = "new" THEN p ELSE EnvKey(p)

\* settings_ai_test and settings_ai_models call provider p with the key that was
\* entered, or else with the stored one or the environment's.
ProbeKey(p, key) == IF key = "new" THEN p ELSE CallKey(row, p)

\* clear_setting.  A save that has read the row will not find it again.
Reset(a) ==
  /\ admin[a].pc = "idle" /\ row # Nothing
  /\ Stored(Nothing)
  /\ admin' = [b \in Admins |->
                 IF b = a THEN [admin[b] EXCEPT !.pc = "invalidate"]
                 ELSE [admin[b] EXCEPT !.gone = admin[b].pc = "save" /\ admin[b].read # Nothing]]
  /\ UNCHANGED <<cache, scope>>

\* invalidate_cache, of the process the request runs in.
Invalidate(a) ==
  /\ admin[a].pc = "invalidate"
  /\ cache' = [cache EXCEPT ![Web] = Empty]
  /\ admin' = [admin EXCEPT ![a] = NoRequest]
  /\ UNCHANGED <<row, scope, call, quiet>>

\* update_user_settings: a key is stored, or all the user's keys are deleted.
UpdateUser(keys) ==
  /\ scope' = [scope EXCEPT !.user = IF keys = {} THEN {} ELSE @ \cup keys]
  /\ UNCHANGED <<row, cache, admin, call, quiet>>

\* update_organization: with AI switched off its keys stay as they are, and so
\* they do when the override is on and no key is entered.
UpdateOrganization(on, override, keys) ==
  /\ scope' = [scope EXCEPT !.on = on,
                 !.org = CASE on /\ override -> @ \cup keys
                           [] on /\ ~override -> {}
                           [] OTHER -> @]
  /\ UNCHANGED <<row, cache, admin, call, quiet>>

-----------------------------------------------------------------------------
(* A generation: resolve_configured_ai_credential, then the constructor of  *)
(* the provider's client.                                                   *)

\* Nothing in the process of w is older than the last change of the row.
Settled(w) ==
  /\ quiet = Ttl
  /\ ~(Fresh(w) /\ cache[w].late)
  /\ \A c \in Calls : call[c].at = w /\ call[c].pc \in {"fillKey", "fillModel"}
                        => call[c].got = row

\* The provider is read from the database.
Begin(c, w) ==
  /\ call[c].pc \in {"idle", "called"}
  /\ call' = [call EXCEPT ![c] =
                [NoCall EXCEPT !.pc = "key", !.at = w, !.provider = Effective(row),
                               !.calm = Settled(w)]]
  /\ UNCHANGED <<row, cache, scope, admin, quiet>>

\* What comes of the row a call has looked up: the app's key, or the model.
Found(c, r) ==
  IF call[c].pc \in {"key", "fillKey"}
  THEN [call[c] EXCEPT !.pc = "resolve", !.got = Nothing,
                       !.appKey = AppKey(r, call[c].provider)]
  ELSE [call[c] EXCEPT !.pc = "called", !.got = Nothing, !.model = Effective(r)]

\* Mutant: a hit makes the entry young again.
FaultyHit(c) ==
  /\ call[c].pc \in {"key", "model"}
  /\ Fresh(call[c].at)
  /\ call' = [call EXCEPT ![c] = Found(c, cache[@.at].row)]
  /\ cache' = [cache EXCEPT ![call[c].at].age = 0]
  /\ UNCHANGED <<row, scope, admin, quiet>>

\* _read_row without a session: from the cache ...
Hit(c) ==
  /\ call[c].pc \in {"key", "model"}
  /\ Fresh(call[c].at)
  /\ call' = [call EXCEPT ![c] = Found(c, cache[@.at].row)]
  /\ UNCHANGED <<row, cache, scope, admin, quiet>>

\* ... or from the database, with a session of its own ...
Miss(c) ==
  /\ call[c].pc \in {"key", "model"}
  /\ ~Fresh(call[c].at)
  /\ call' = [call EXCEPT ![c] =
                [call[c] EXCEPT !.pc = IF call[c].pc = "key" THEN "fillKey" ELSE "fillModel",
                                !.got = row]]
  /\ UNCHANGED <<row, cache, scope, admin, quiet>>

\* ... which is then written to the cache, whatever happened meanwhile.
Fill(c) ==
  LET w == call[c].at IN
  /\ call[c].pc \in {"fillKey", "fillModel"}
  /\ cache' = [cache EXCEPT ![w] = [row |-> call[c].got, age |-> 0,
                                    late |-> call[c].got # row]]
  /\ call' = [call EXCEPT ![c] = Found(c, call[c].got)]
  /\ UNCHANGED <<row, scope, admin, quiet>>

\* The read fails: the environment decides, and nothing is cached.
Unreadable(c) ==
  /\ call[c].pc \in {"key", "model"}
  /\ ~Fresh(call[c].at)
  /\ call' = [call EXCEPT ![c] = [Found(c, Nothing) EXCEPT !.calm = FALSE]]
  /\ UNCHANGED <<row, cache, scope, admin, quiet>>

\* resolve_ai_credential: the user's key, the organisation's if AI is switched
\* on for it, the app's, the environment's.
Credential(p, appKey) ==
  CASE p \in scope.user -> [from |-> "user", key |-> p]
    [] p \notin scope.user /\ scope.on /\ p \in scope.org
         -> [from |-> "organization", key |-> p]
    [] OTHER
         -> IF appKey # Nothing THEN [from |-> "app", key |-> appKey]
            ELSE [from |-> "env", key |-> EnvKey(p)]

\* Without a key the call is not made.  With one it waits for the model only if
\* the client looks it up; OpenAI's, Minimax' and Claude's name their own.
Resolve(c) ==
  LET use == Credential(call[c].provider, call[c].appKey)
      reads == call[c].provider \in Readers
  IN
  /\ call[c].pc = "resolve"
  /\ call' = [call EXCEPT ![c] =
                IF use.key = Nothing THEN NoCall
                ELSE [@ EXCEPT !.pc = IF reads THEN "model" ELSE "called",
                               !.model = IF reads THEN Nothing ELSE BuiltIn,
                               !.appKey = Nothing, !.from = use.from, !.key = use.key]]
  /\ UNCHANGED <<row, cache, scope, admin, quiet>>

Tick ==
  /\ (quiet < Ttl \/ \E w \in Processes : Fresh(w))
  /\ cache' = [w \in Processes |-> IF cache[w].age + 1 >= Ttl THEN Empty
                                   ELSE [cache[w] EXCEPT !.age = @ + 1]]
  /\ quiet' = IF quiet < Ttl THEN quiet + 1 ELSE quiet
  /\ UNCHANGED <<row, scope, admin, call, events>>

-----------------------------------------------------------------------------
Happens == events < MaxEvents /\ events' = events + 1

\* The setting is changed.
Change ==
  /\ Happens
  /\ \E a \in Admins :
       \/ Reset(a)
       \/ \E p \in Providers, key \in {"keep", "new", "clear"} : BeginSave(a, p, key)

\* The keys of the user or of the organisation are changed.
ChangeScope ==
  /\ Happens
  /\ \E keys \in {{}} \cup {{p} : p \in Providers} :
       \/ UpdateUser(keys)
       \/ \E on \in BOOLEAN, override \in BOOLEAN : UpdateOrganization(on, override, keys)

Fault == Happens /\ \E c \in Calls : Unreadable(c)

Start == (\E c \in Calls, w \in Processes : Begin(c, w)) /\ UNCHANGED events

Proceed ==
  /\ \/ \E a \in Admins : CommitSave(a) \/ Invalidate(a)
     \/ \E c \in Calls : Hit(c) \/ Miss(c) \/ Fill(c) \/ Resolve(c)
  /\ UNCHANGED events

Next == Change \/ ChangeScope \/ Fault \/ Start \/ Proceed \/ Tick

Spec == Init /\ [][Next]_vars

-----------------------------------------------------------------------------
(* Properties. *)

TypeOK ==
  /\ row \in Rows
  /\ cache \in [Processes -> [row : Rows, age : 0 .. Ttl, late : BOOLEAN]]
  /\ scope \in [user : SUBSET Providers, org : SUBSET Providers, on : BOOLEAN]
  /\ admin \in [Admins -> [pc : {"idle", "save", "invalidate"}, read : Rows, gone : BOOLEAN,
                           provider : Providers \cup {Nothing},
                           key : {"keep", "new", "clear"}]]
  /\ call \in [Calls ->
       [pc : {"idle", "key", "fillKey", "resolve", "model", "fillModel", "called"},
        at : Processes, got : Rows, provider : Providers \cup {Nothing},
        appKey : Providers \cup {OldKey, Nothing},
        key : Providers \cup {OldKey, Nothing},
        from : {"none", "user", "organization", "app", "env"},
        model : Providers \cup {BuiltIn, Nothing}, calm : BOOLEAN]]
  /\ quiet \in 0 .. Ttl
  /\ events \in 0 .. MaxEvents

\* A provider is called with a key that was entered for it, however settings
\* and caches change in between; the key of an old row is an exception.
KeysStayWithTheirProvider ==
  \A c \in Calls : call[c].key \in {call[c].provider, OldKey, Nothing}

\* The same for the key of an old row: it stays with the provider of that row
\* ("Switching provider must never lend one provider's key to another",
\* ai_provider_config.py:152).  It does not hold: another provider saved with a
\* blank key field gets the bare key.
OldKeyStays ==
  [][row # Nothing /\ row.bare /\ row' # Nothing /\ row'.bare
       => row'.provider = row.provider]_vars

\* Provider and model are "decided together" (ai_provider_config.py:10-11).
\* They are not while a switch takes effect: the one is read from the
\* database, the other from the cache.
CallsAreMatched ==
  \A c \in Calls : call[c].pc = "called" /\ call[c].provider \in Readers
                    => call[c].model = call[c].provider

\* "Every AI call in the app runs on ONE provider and ONE model"
\* (ai_provider_config.py:3), the one that is set.  It does not hold, however
\* long the setting has been left alone: three clients of five have a model
\* written into them (ai_generation.py:142, 171 and 218).
OneModel ==
  \A c \in Calls :
    call[c].pc = "called" /\ call[c].calm => call[c].model = Effective(row)

\* A switch of provider is complete Ttl after the last change: a generation
\* that begins later, in a process where no read has been overtaken by a
\* save, and that no change and no failed read interrupts, uses the provider
\* and the app's key of the stored row, and its model too if the provider's
\* client reads it; any other client uses the model written into it.
SettledCallsAgree ==
  \A c \in Calls :
    call[c].pc = "called" /\ call[c].calm =>
      /\ call[c].provider = Effective(row)
      /\ call[c].model = IF call[c].provider \in Readers THEN Effective(row) ELSE BuiltIn
      /\ call[c].from = "app" => call[c].key = AppKey(row, call[c].provider)
      /\ call[c].from = "env" => AppKey(row, call[c].provider) = Nothing

\* A test of a provider uses the very key the provider is called with when the
\* same form is then saved ("a probe cannot succeed on a key the app would not
\* then use", pages.py:2249), whatever was saved before.  The key of an old row
\* is an exception: a test does not lend it to another provider, a save does.
ProbesAreHonest ==
  \A p \in Providers, key \in {"keep", "new"} :
    row = Nothing \/ ~row.bare \/ row.provider = p
    => ProbeKey(p, key) = CallKey(Written(row, p, key), p)

\* A key that was stored for a provider goes only when the row is reset, when
\* it is cleared, or when two saves overlap.
KeysOutliveSwitches ==
  [][row # Nothing /\ row' # Nothing =>
       \A p \in row.keys \ row'.keys :
         \E a \in Admins :
           /\ admin[a].pc = "save" /\ admin'[a].pc = "invalidate"
           /\ admin[a].read # row
              \/ (admin[a].provider = p /\ admin[a].key = "clear")]_vars

=============================================================================
