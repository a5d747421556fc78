------------------------ MODULE ProviderConfigProofs ------------------------
(***************************************************************************)
(* Proofs about ProviderConfig: for any providers, processes, requests and *)
(* generations, whatever is saved, cached, lost or read late, a provider   *)
(* is called only with its own key or with the key of an old row; and once *)
(* a switch of provider is Ttl old, calls agree with it, but for the model *)
(* of those clients that have their own.                                   *)
(***************************************************************************)
EXTENDS ProviderConfig, TLAPS

\* A save names a provider, and so does a generation that has begun.
Named ==
  /\ \A a \in Admins : admin[a].pc = "save" => admin[a].provider \in Providers
  /\ \A c \in Calls : call[c].pc # "idle" => call[c].provider \in Providers

\* The key found so far, the app's or the one chosen, is the provider's.
KeysFit ==
  \A c \in Calls :
    /\ call[c].appKey \in {call[c].provider, OldKey, Nothing}
    /\ call[c].key \in {call[c].provider, OldKey, Nothing}

KeysInv == TypeOK /\ Named /\ KeysFit

\* A generation as TypeOK, Named and KeysFit want it.
CallRecord ==
  [pc : {"idle", "key", "fillKey", "resolve", "model", "fillModel", "called"},
   at : Processes, got : Rows, provider : Providers \cup {Nothing},
   appKey : Providers \cup {OldKey, Nothing},
   key : Providers \cup {OldKey, Nothing},
   from : {"none", "user", "organization", "app", "env"},
   model : Providers \cup {BuiltIn, Nothing}, calm : BOOLEAN]

CallFits(x) ==
  /\ x \in CallRecord
  /\ x.pc # "idle" => x.provider \in Providers
  /\ x.appKey \in {x.provider, OldKey, Nothing}
  /\ x.key \in {x.provider, OldKey, Nothing}

\* What a row holds for a provider is that provider's key or an old one.
LEMMA AppKeyFits ==
  ASSUME NEW r \in Rows, NEW p \in Providers
  PROVE  /\ AppKey(r, p) \in {p, OldKey, Nothing}
         /\ Effective(r) \in Providers
  BY ConstantsAssumption DEF AppKey, Effective, Rows, Row

\* What is chosen for a provider is its own key or what the app had for it.
LEMMA CredentialFits ==
  ASSUME NEW p \in Providers, NEW k \in {p, OldKey, Nothing}
  PROVE  /\ Credential(p, k).key \in {p, OldKey, Nothing}
         /\ Credential(p, k).from \in {"user", "organization", "app", "env"}
  BY DEF Credential, EnvKey

\* A lookup leaves a call with a key that fits.
LEMMA FoundFits ==
  ASSUME NEW c \in Calls, CallFits(call[c]), NEW r \in Rows,
         call[c].pc \in {"key", "fillKey", "model", "fillModel"}
  PROVE  CallFits(Found(c, r))
<1>1. call[c] \in CallRecord /\ call[c].provider \in Providers
  BY DEF CallFits
<1>2. /\ AppKey(r, call[c].provider) \in {call[c].provider, OldKey, Nothing}
      /\ Effective(r) \in Providers
  BY <1>1, AppKeyFits
<1>3. Nothing \in Rows
  BY DEF Rows
<1>4. CASE call[c].pc \in {"key", "fillKey"}
  <2>1. Found(c, r) = [call[c] EXCEPT !.pc = "resolve", !.got = Nothing,
                                      !.appKey = AppKey(r, call[c].provider)]
    BY <1>4 DEF Found
  <2> QED BY <1>1, <1>2, <1>3, <2>1 DEF CallFits, CallRecord
<1>5. CASE call[c].pc \notin {"key", "fillKey"}
  <2>1. Found(c, r) = [call[c] EXCEPT !.pc = "called", !.got = Nothing,
                                      !.model = Effective(r)]
    BY <1>5 DEF Found
  <2> QED BY <1>1, <1>2, <1>3, <2>1 DEF CallFits, CallRecord
<1> QED BY <1>4, <1>5

-----------------------------------------------------------------------------

\* The variables of the settings alone, and those of the calls alone.
SettingsOK ==
  /\ row \in Rows
  /\ admin \in [Admins -> [pc : {"idle", "save", "invalidate"}, read : Rows, gone : BOOLEAN,
                           provider : Providers \cup {Nothing},
                           key : {"keep", "new", "clear"}]]
  /\ \A a \in Admins : admin[a].pc = "save" => admin[a].provider \in Providers

CallsOK == call \in [Calls -> CallRecord] /\ \A c \in Calls : CallFits(call[c])

RestOK ==
  /\ cache \in [Processes -> [row : Rows, age : 0 .. Ttl, late : BOOLEAN]]
  /\ scope \in [user : SUBSET Providers, org : SUBSET Providers, on : BOOLEAN]
  /\ quiet \in 0 .. Ttl
  /\ events \in 0 .. MaxEvents

LEMMA KeysInvParts == KeysInv <=> SettingsOK /\ CallsOK /\ RestOK
  BY DEF KeysInv, TypeOK, Named, KeysFit, SettingsOK, CallsOK, RestOK, CallRecord, CallFits

LEMMA StoredKeeps ==
  ASSUME CallsOK, quiet \in 0 .. Ttl, NEW r \in Rows, Stored(r)
  PROVE  row' \in Rows /\ CallsOK' /\ quiet' \in 0 .. Ttl
<1>1. row' \in Rows /\ quiet' \in 0 .. Ttl
  BY ConstantsAssumption DEF Stored
<1>2. call' = [c \in Calls |-> [call[c] EXCEPT !.calm = @ /\ r = row]]
  BY DEF Stored
<1>3. ASSUME NEW c \in Calls PROVE CallFits(call'[c]) /\ call'[c] \in CallRecord
  <2>1. call[c] \in CallRecord /\ (call[c].calm /\ r = row) \in BOOLEAN
    BY DEF CallsOK
  <2> DEFINE calm == call[c].calm /\ r = row
  <2>2. call'[c] = [call[c] EXCEPT !.calm = calm] /\ calm \in BOOLEAN
    BY <1>2, <2>1
  <2> HIDE DEF calm
  <2> QED BY <2>1, <2>2 DEF CallsOK, CallFits, CallRecord
<1> QED BY <1>1, <1>2, <1>3 DEF CallsOK

LEMMA NoCallFits == CallFits(NoCall)
  BY ConstantsAssumption DEF CallFits, CallRecord, NoCall, Rows

LEMMA KeysInvInit == Init => KeysInv
<1> SUFFICES ASSUME Init PROVE KeysInv
  OBVIOUS
<1>1. SettingsOK
  <2>1. \A p \in Providers : [provider |-> p, keys |-> {}, bare |-> TRUE] \in Row
    BY DEF Row
  <2>2. row \in Rows
    BY <2>1 DEF Init, Rows
  <2>3. Nothing \in Rows
    BY DEF Rows
  <2> QED BY <2>2, <2>3 DEF Init, SettingsOK, NoRequest
<1>2. CallsOK
  BY NoCallFits DEF Init, CallsOK, CallFits
<1>3. RestOK
  BY ConstantsAssumption DEF Init, RestOK, Empty, Rows
<1> QED BY <1>1, <1>2, <1>3, KeysInvParts

\* One generation changes.
LEMMA CallChanges ==
  ASSUME CallsOK, NEW c \in Calls, NEW x, CallFits(x), call' = [call EXCEPT ![c] = x]
  PROVE  CallsOK'
<1>1. x \in CallRecord BY DEF CallFits
<1> QED BY <1>1 DEF CallsOK

LEMMA KeysInvStep == KeysInv /\ [Next]_vars => KeysInv'
<1> SUFFICES ASSUME KeysInv, [Next]_vars PROVE KeysInv'
  OBVIOUS
<1> USE ConstantsAssumption
<1>0. SettingsOK /\ CallsOK /\ RestOK
  BY KeysInvParts
<1>h. Happens => events' \in 0 .. MaxEvents
  BY <1>0 DEF Happens, RestOK
<1>1. ASSUME NEW a \in Admins, NEW p \in Providers,
             NEW key \in {"keep", "new", "clear"}, BeginSave(a, p, key), Happens
      PROVE KeysInv'
  <2>1. SettingsOK'
    BY <1>1, <1>0 DEF BeginSave, SettingsOK
  <2>2. CallsOK' /\ RestOK'
    BY <1>1, <1>0, <1>h DEF BeginSave, CallsOK, RestOK
  <2> QED BY <2>1, <2>2, KeysInvParts, PTL
<1>2. ASSUME NEW a \in Admins, CommitSave(a), UNCHANGED events PROVE KeysInv'
  <2> DEFINE r == admin[a].read
             p == admin[a].provider
             key == admin[a].key
             old == IF r = Nothing THEN Bare(r) ELSE r
             now == IF r = Nothing THEN Bare(r) ELSE row
             new == Written(r, p, key)
  <2>1. CASE (r = Nothing) = (row = Nothing) /\ ~admin[a].gone
    <3>1. p \in Providers /\ r \in Rows /\ row \in Rows /\ key \in {"keep", "new", "clear"}
      BY <1>0, <1>2 DEF SettingsOK, CommitSave
    <3>2. /\ now.keys \in SUBSET Providers /\ now.bare \in BOOLEAN
          /\ r # Nothing => now.provider \in Providers
      BY <3>1, <2>1 DEF Bare, Rows, Row
    <3>3. KeysAfter(old, p, key) \in SUBSET Providers
      BY <3>1, <3>2 DEF KeysAfter, Rows, Row, Bare
    <3>r. Rekeys(old, p, key) \in BOOLEAN
      BY <3>1 DEF Rekeys, Rows, Row, Bare
    <3>4. new \in Rows
      <4>1. new = [provider |-> new.provider, keys |-> new.keys, bare |-> new.bare]
        BY DEF Written
      <4>2. new.provider \in Providers BY <3>1, <3>2 DEF Written
      <4>3. new.keys \in SUBSET Providers BY <3>2, <3>3 DEF Written
      <4>4. new.bare \in BOOLEAN BY <3>2, <3>r DEF Written
      <4> HIDE DEF new
      <4> QED BY <4>1, <4>2, <4>3, <4>4 DEF Rows, Row
    <3>5. Stored(new) /\ admin' = [admin EXCEPT ![a].pc = "invalidate"]
          /\ UNCHANGED <<cache, scope>>
      BY <2>1, <1>2 DEF CommitSave
    <3>6. row' \in Rows /\ CallsOK' /\ quiet' \in 0 .. Ttl
      BY <3>4, <3>5, <1>0, StoredKeeps DEF RestOK
    <3>7. SettingsOK'
      BY <3>5, <3>6, <1>0 DEF SettingsOK
    <3>8. RestOK'
      BY <3>5, <3>6, <1>2, <1>0 DEF RestOK
    <3> QED BY <3>6, <3>7, <3>8, KeysInvParts, PTL
  <2>2. CASE ~((r = Nothing) = (row = Nothing) /\ ~admin[a].gone)
    <3>1. admin' = [admin EXCEPT ![a] = NoRequest] /\ UNCHANGED <<row, quiet, call, cache, scope>>
      BY <2>2, <1>2 DEF CommitSave
    <3>2. SettingsOK'
      BY <3>1, <1>0 DEF SettingsOK, NoRequest, Rows
    <3>3. CallsOK' /\ RestOK'
      BY <3>1, <1>0, <1>2 DEF CallsOK, RestOK
    <3> QED BY <3>2, <3>3, KeysInvParts, PTL
  <2> QED BY <2>1, <2>2
<1>3. ASSUME NEW a \in Admins, Reset(a), Happens PROVE KeysInv'
  <2>1. row' \in Rows /\ CallsOK' /\ quiet' \in 0 .. Ttl
    <3>1. Nothing \in Rows BY DEF Rows
    <3> QED BY <3>1, <1>3, <1>0, StoredKeeps DEF Reset, RestOK
  <2>2. SettingsOK'
    <3> DEFINE gone(b) == admin[b].pc = "save" /\ admin[b].read # Nothing
    <3>1. ASSUME NEW b \in Admins
          PROVE  /\ admin'[b] \in [pc : {"idle", "save", "invalidate"}, read : Rows, gone : BOOLEAN,
                                    provider : Providers \cup {Nothing},
                                    key : {"keep", "new", "clear"}]
                 /\ admin'[b].pc = "save" => admin'[b].provider \in Providers
      <4>1. admin'[b] = IF b = a THEN [admin[b] EXCEPT !.pc = "invalidate"]
                        ELSE [admin[b] EXCEPT !.gone = gone(b)]
        BY <1>3 DEF Reset
      <4>2. gone(b) \in BOOLEAN
        OBVIOUS
      <4> HIDE DEF gone
      <4> QED BY <4>1, <4>2, <1>0 DEF SettingsOK
    <3>2. admin' = [b \in Admins |-> admin'[b]]
      BY <1>3 DEF Reset
    <3> QED BY <2>1, <3>1, <3>2 DEF SettingsOK
  <2>3. RestOK'
    BY <2>1, <1>3, <1>0, <1>h DEF RestOK, Reset
  <2> QED BY <2>1, <2>2, <2>3, KeysInvParts, PTL
<1>4. ASSUME NEW a \in Admins, Invalidate(a), UNCHANGED events PROVE KeysInv'
  <2>1. SettingsOK'
    BY <1>4, <1>0 DEF SettingsOK, Invalidate, NoRequest, Rows
  <2>2. RestOK'
    BY <1>4, <1>0 DEF RestOK, Invalidate, Empty, Rows
  <2>3. CallsOK'
    BY <1>4, <1>0 DEF CallsOK, Invalidate
  <2> QED BY <2>1, <2>2, <2>3, KeysInvParts, PTL
<1>5. ASSUME NEW keys \in {{}} \cup {{p} : p \in Providers}, Happens,
             \/ UpdateUser(keys)
             \/ \E on \in BOOLEAN, override \in BOOLEAN : UpdateOrganization(on, override, keys)
      PROVE KeysInv'
  <2>1. SettingsOK' /\ CallsOK'
    BY <1>5, <1>0 DEF SettingsOK, CallsOK, UpdateUser, UpdateOrganization
  <2>2. scope' \in [user : SUBSET Providers, org : SUBSET Providers, on : BOOLEAN]
    <3>1. keys \in SUBSET Providers
      BY <1>5
    <3>2. CASE UpdateUser(keys)
      BY <3>1, <3>2, <1>0 DEF UpdateUser, RestOK
    <3>3. ASSUME NEW on \in BOOLEAN, NEW override \in BOOLEAN,
                 UpdateOrganization(on, override, keys)
          PROVE scope' \in [user : SUBSET Providers, org : SUBSET Providers, on : BOOLEAN]
      BY <3>1, <3>3, <1>0 DEF UpdateOrganization, RestOK
    <3> QED BY <3>2, <3>3, <1>5
  <2>3. RestOK'
    BY <2>2, <1>5, <1>0, <1>h DEF RestOK, UpdateUser, UpdateOrganization
  <2> QED BY <2>1, <2>3, KeysInvParts, PTL
<1>6. ASSUME NEW c \in Calls, NEW w \in Processes, Begin(c, w), UNCHANGED events
      PROVE KeysInv'
  <2>1. Effective(row) \in Providers
    BY <1>0, AppKeyFits DEF SettingsOK, Effective, Rows, Row
  <2>2. CallsOK'
    <3> DEFINE x == [NoCall EXCEPT !.pc = "key", !.at = w, !.provider = Effective(row),
                                   !.calm = Settled(w)]
    <3>1. Settled(w) \in BOOLEAN
      BY DEF Settled
    <3>2. CallFits(x)
      BY <2>1, <3>1, ConstantsAssumption DEF CallFits, CallRecord, NoCall, Rows
    <3>3. call' = [call EXCEPT ![c] = x]
      BY <1>6 DEF Begin
    <3> HIDE DEF x
    <3> QED BY <3>2, <3>3, <1>0, CallChanges
  <2>3. SettingsOK' /\ RestOK'
    BY <1>6, <1>0 DEF SettingsOK, RestOK, Begin
  <2> QED BY <2>2, <2>3, KeysInvParts, PTL
<1>7. ASSUME NEW c \in Calls, Hit(c), UNCHANGED events PROVE KeysInv'
  <2>1. cache[call[c].at].row \in Rows
    BY <1>0 DEF RestOK, CallsOK, CallRecord
  <2>2. CallsOK'
    <3>1. CallFits(Found(c, cache[call[c].at].row))
      BY <2>1, <1>7, <1>0, FoundFits DEF CallsOK, Hit
    <3>2. call' = [call EXCEPT ![c] = Found(c, cache[call[c].at].row)]
      BY <1>7, <1>0 DEF Hit, CallsOK
    <3> QED BY <3>1, <3>2, <1>0, CallChanges
  <2>3. SettingsOK' /\ RestOK'
    BY <1>7, <1>0 DEF SettingsOK, RestOK, Hit
  <2> QED BY <2>2, <2>3, KeysInvParts, PTL
<1>8. ASSUME NEW c \in Calls, Miss(c), UNCHANGED events PROVE KeysInv'
  <2>1. CallsOK'
    <3> DEFINE x == [call[c] EXCEPT
                       !.pc = IF call[c].pc = "key" THEN "fillKey" ELSE "fillModel",
                       !.got = row]
    <3>1. CallFits(x)
      <4>1. /\ call[c] \in CallRecord /\ row \in Rows
            /\ call[c].provider \in Providers /\ CallFits(call[c])
        BY <1>8, <1>0 DEF CallsOK, CallFits, Miss, SettingsOK
      <4>2. x.provider = call[c].provider /\ x.appKey = call[c].appKey /\ x.key = call[c].key
        BY <4>1 DEF CallRecord
      <4>3. x \in CallRecord
        BY <4>1 DEF CallRecord
      <4> QED BY <4>1, <4>2, <4>3 DEF CallFits
    <3>2. call' = [call EXCEPT ![c] = x]
      BY <1>8, <1>0 DEF Miss, CallsOK
    <3> HIDE DEF x
    <3> QED BY <3>1, <3>2, <1>0, CallChanges
  <2>2. SettingsOK' /\ RestOK'
    BY <1>8, <1>0 DEF SettingsOK, RestOK, Miss
  <2> QED BY <2>1, <2>2, KeysInvParts, PTL
<1>9. ASSUME NEW c \in Calls, Fill(c), UNCHANGED events PROVE KeysInv'
  <2>1. call[c].got \in Rows /\ call[c].at \in Processes
    BY <1>0 DEF CallsOK, CallRecord
  <2>2. CallsOK'
    <3>1. CallFits(Found(c, call[c].got))
      BY <2>1, <1>9, <1>0, FoundFits DEF CallsOK, Fill
    <3>2. call' = [call EXCEPT ![c] = Found(c, call[c].got)]
      BY <1>9, <1>0 DEF Fill, CallsOK
    <3> QED BY <3>1, <3>2, <1>0, CallChanges
  <2>3. SettingsOK' /\ RestOK'
    BY <2>1, <1>9, <1>0 DEF SettingsOK, RestOK, Fill
  <2> QED BY <2>2, <2>3, KeysInvParts, PTL
<1>10. ASSUME NEW c \in Calls, Unreadable(c), Happens PROVE KeysInv'
  <2>1. Nothing \in Rows
    BY DEF Rows
  <2>2. CallsOK'
    <3> DEFINE x == [Found(c, Nothing) EXCEPT !.calm = FALSE]
    <3>1. CallFits(Found(c, Nothing))
      BY <2>1, <1>10, <1>0, FoundFits DEF CallsOK, Unreadable
    <3>2. CallFits(x)
      BY <3>1 DEF CallFits, CallRecord
    <3>3. call' = [call EXCEPT ![c] = x]
      BY <1>10 DEF Unreadable
    <3> HIDE DEF x
    <3> QED BY <3>2, <3>3, <1>0, CallChanges
  <2>3. SettingsOK' /\ RestOK'
    BY <1>10, <1>0, <1>h DEF SettingsOK, RestOK, Unreadable
  <2> QED BY <2>2, <2>3, KeysInvParts, PTL
<1>11. ASSUME NEW c \in Calls, Resolve(c), UNCHANGED events PROVE KeysInv'
  <2> DEFINE use == Credential(call[c].provider, call[c].appKey)
  <2>1. /\ call[c].provider \in Providers
        /\ call[c].appKey \in {call[c].provider, OldKey, Nothing}
    BY <1>11, <1>0 DEF CallsOK, CallFits, Resolve
  <2>2. /\ use.key \in {call[c].provider, OldKey, Nothing}
        /\ use.from \in {"user", "organization", "app", "env"}
    BY <2>1, CredentialFits
  <2> DEFINE reads == call[c].provider \in Readers
             x == IF use.key = Nothing THEN NoCall
                  ELSE [call[c] EXCEPT !.pc = IF reads THEN "model" ELSE "called",
                                       !.model = IF reads THEN Nothing ELSE BuiltIn,
                                       !.appKey = Nothing, !.from = use.from, !.key = use.key]
  <2>3. call' = [call EXCEPT ![c] = x]
    BY <1>11, <1>0 DEF Resolve, CallsOK
  <2> HIDE DEF use
  <2>4. CallsOK'
    <3>1. CallFits(call[c])
      BY <1>0 DEF CallsOK
    <3>2. CallFits(x)
      <4>1. CASE use.key = Nothing
        BY <4>1, NoCallFits
      <4>2. CASE use.key # Nothing
        <5> DEFINE k == use.key
                   from == use.from
                   pc == IF reads THEN "model" ELSE "called"
                   model == IF reads THEN Nothing ELSE BuiltIn
        <5>0. pc \in {"model", "called"} /\ model \in {Nothing, BuiltIn}
          OBVIOUS
        <5>1. /\ k \in {call[c].provider, OldKey, Nothing}
              /\ from \in {"user", "organization", "app", "env"}
          BY <2>2
        <5>2. x = [call[c] EXCEPT !.pc = pc, !.model = model, !.appKey = Nothing,
                                  !.from = from, !.key = k]
          BY <4>2
        <5> HIDE DEF x, k, from, pc, model
        <5> QED BY <5>0, <5>1, <5>2, <2>1, <3>1 DEF CallFits, CallRecord
      <4> QED BY <4>1, <4>2
    <3> HIDE DEF x
    <3> QED BY <2>3, <3>2, <1>0, CallChanges
  <2>5. SettingsOK' /\ RestOK'
    BY <1>11, <1>0 DEF SettingsOK, RestOK, Resolve
  <2> QED BY <2>4, <2>5, KeysInvParts, PTL
<1>12. ASSUME Tick PROVE KeysInv'
  <2>1. cache' \in [Processes -> [row : Rows, age : 0 .. Ttl, late : BOOLEAN]]
    BY <1>12, <1>0 DEF Tick, RestOK, Empty, Rows
  <2>2. RestOK'
    BY <2>1, <1>12, <1>0 DEF Tick, RestOK
  <2>3. SettingsOK' /\ CallsOK'
    BY <1>12, <1>0 DEF Tick, SettingsOK, CallsOK
  <2> QED BY <2>2, <2>3, KeysInvParts, PTL
<1>13. ASSUME UNCHANGED vars PROVE KeysInv'
  BY <1>13, <1>0 DEF vars, KeysInv, TypeOK, Named, KeysFit
<1> QED
  BY <1>1, <1>2, <1>3, <1>4, <1>5, <1>6, <1>7, <1>8, <1>9, <1>10, <1>11, <1>12, <1>13
  DEF Next, Change, ChangeScope, Fault, Start, Proceed

LEMMA KeysInvAlways == Spec => []KeysInv
  BY KeysInvInit, KeysInvStep, PTL DEF Spec

\* The variables keep their types.
THEOREM TypeCorrect == Spec => []TypeOK
  <1>1. KeysInv => TypeOK BY DEF KeysInv
  <1> QED BY <1>1, KeysInvAlways, PTL

\* No provider is ever sent another provider's key, the bare key of an old
\* row excepted.
THEOREM KeysAreNotLent == Spec => []KeysStayWithTheirProvider
  <1>1. KeysInv => KeysStayWithTheirProvider
    BY DEF KeysInv, KeysFit, KeysStayWithTheirProvider
  <1> QED BY <1>1, KeysInvAlways, PTL

\* A test of a provider uses the key that a save of the same form makes the
\* application use, for any providers and whatever was saved before.
THEOREM ProbesTellTheTruth == Spec => []ProbesAreHonest
<1>1. row \in Rows => ProbesAreHonest
  <2> SUFFICES ASSUME row \in Rows, NEW p \in Providers, NEW key \in {"keep", "new"},
                      row = Nothing \/ ~row.bare \/ row.provider = p
               PROVE  ProbeKey(p, key) = CallKey(Written(row, p, key), p)
    BY DEF ProbesAreHonest
  <2> DEFINE w == Written(row, p, key)
  <2>0. p # Nothing BY ConstantsAssumption
  <2>1. CASE row = Nothing
    <3>1. w = [provider |-> p, keys |-> IF key = "keep" THEN {} ELSE {p}, bare |-> FALSE]
      BY <2>1 DEF Written, Bare, KeysAfter, Rekeys
    <3>2. w # Nothing
      <4>1. w \in Row
        <5>1. (IF key = "keep" THEN {} ELSE {p}) \in SUBSET Providers OBVIOUS
        <5> QED BY <3>1, <5>1 DEF Row
      <4> QED BY <4>1, RowAssumption
    <3>3. AppKey(w, p) = IF key = "keep" THEN Nothing ELSE p
      <4>1. w.keys = (IF key = "keep" THEN {} ELSE {p}) /\ w.bare = FALSE BY <3>1
      <4> HIDE DEF w
      <4> QED BY <3>2, <4>1 DEF AppKey
    <3>4. AppKey(row, p) = Nothing BY <2>1 DEF AppKey
    <3>5. CallKey(w, p) = IF key = "keep" THEN EnvKey(p) ELSE p
      BY <2>0, <3>3 DEF CallKey
    <3>6. CallKey(row, p) = EnvKey(p) BY <3>4 DEF CallKey
    <3> QED BY <3>5, <3>6 DEF ProbeKey
  <2>2. CASE row # Nothing
    <3>1. row \in Row BY <2>2 DEF Rows
    <3>2. w = [provider |-> p, keys |-> IF key = "keep" THEN row.keys ELSE row.keys \cup {p},
               bare |-> row.bare /\ key = "keep"]
      BY <2>2, <3>1 DEF Written, KeysAfter, Row, Rekeys
    <3>3. w # Nothing
      <4>1. w \in Row
        <5>1. /\ (IF key = "keep" THEN row.keys ELSE row.keys \cup {p}) \in SUBSET Providers
              /\ (row.bare /\ key = "keep") \in BOOLEAN
          BY <3>1 DEF Row
        <5> QED BY <3>2, <5>1 DEF Row
      <4> QED BY <4>1, RowAssumption
    <3>4. AppKey(w, p) = IF key = "keep" THEN AppKey(row, p) ELSE p
      <4>1. /\ w.provider = p
            /\ w.keys = IF key = "keep" THEN row.keys ELSE row.keys \cup {p}
            /\ w.bare = (row.bare /\ key = "keep")
        BY <3>2
      <4> HIDE DEF w
      <4>2. CASE key = "keep" /\ row.bare
        BY <2>2, <3>3, <4>1, <4>2 DEF AppKey
      <4>3. CASE ~(key = "keep" /\ row.bare)
        BY <2>2, <3>1, <3>3, <4>1, <4>3 DEF AppKey, Row
      <4> QED BY <4>2, <4>3
    <3>5. CallKey(w, p) = IF key = "keep" THEN CallKey(row, p) ELSE p
      BY <2>0, <3>4 DEF CallKey
    <3> QED BY <3>5 DEF ProbeKey
  <2> QED BY <2>1, <2>2
<1>2. KeysInv => row \in Rows BY DEF KeysInv, TypeOK
<1> QED BY <1>1, <1>2, KeysInvAlways, PTL

-----------------------------------------------------------------------------
(* When a switch is complete.  A cache entry that no save has overtaken is   *)
(* either of the stored row or as old as the row's last change, and such     *)
(* entries are gone when that is Ttl ago; a calm call has begun after that.  *)

OnTime ==
  \A w \in Processes : Fresh(w) /\ ~cache[w].late =>
    cache[w].row = row \/ quiet <= cache[w].age

\* The process of w knows of no row but the stored one, ...
CachesRow(w) == Fresh(w) => cache[w].row = row
Undisturbed(w) ==
  /\ CachesRow(w)
  /\ \A d \in Calls : call[d].at = w /\ call[d].pc \in {"fillKey", "fillModel"}
                        => call[d].got = row

\* ... and what a call in it has found out so far comes from there.
Agrees(x, r) ==
  /\ x.provider = Effective(r)
  /\ x.pc = "resolve" => x.appKey = AppKey(r, x.provider)
  /\ x.pc \in {"model", "fillModel", "called"} =>
       /\ x.from = "app" => x.key = AppKey(r, x.provider)
       /\ x.from = "env" => AppKey(r, x.provider) = Nothing
  /\ x.pc \in {"model", "fillModel"} => x.provider \in Readers
  /\ x.pc = "called" =>
       x.model = IF x.provider \in Readers THEN Effective(r) ELSE BuiltIn

CalmAgrees(c) ==
  call[c].calm => \E w \in Processes : /\ w = call[c].at /\ Undisturbed(w)
                                       /\ Agrees(call[c], row)
CalmCallsAgree == \A c \in Calls : CalmAgrees(c)

\* A step that leaves the row and what its cache entry is of alone.
CachesStay == \A w \in Processes : Undisturbed(w) => CachesRow(w)'

LEMMA CallsKeepAgreeing ==
  ASSUME UNCHANGED <<row, call>>, CachesStay, CalmCallsAgree, call \in [Calls -> CallRecord]
  PROVE  CalmCallsAgree'
<1>1. \A w \in Processes : Undisturbed(w) => Undisturbed(w)'
  BY DEF CachesStay, Undisturbed
<1>2. \A c \in Calls : call[c].at \in Processes
  BY DEF CallRecord
<1> QED BY <1>1, <1>2 DEF CalmCallsAgree, CalmAgrees, Agrees

\* One generation goes on.
LEMMA CallAgrees ==
  ASSUME UNCHANGED row, CachesStay, CalmCallsAgree, call \in [Calls -> CallRecord],
         NEW c \in Calls, NEW x \in CallRecord, call' = [call EXCEPT ![c] = x],
         \/ x.pc \notin {"fillKey", "fillModel"}
         \/ x.got = row,
         x.calm => Undisturbed(x.at) /\ Agrees(x, row)
  PROVE  CalmCallsAgree'
<1>1. call'[c] = x /\ \A d \in Calls \ {c} : call'[d] = call[d]
  OBVIOUS
<1>2. ASSUME NEW w \in Processes, Undisturbed(w) PROVE Undisturbed(w)'
  BY <1>1, <1>2 DEF CachesStay, Undisturbed
<1>3. CalmAgrees(c)'
  BY <1>1, <1>2 DEF CalmAgrees, CallRecord
<1>4. ASSUME NEW d \in Calls \ {c} PROVE CalmAgrees(d)'
  BY <1>1, <1>2 DEF CalmCallsAgree, CalmAgrees
<1> QED BY <1>3, <1>4 DEF CalmCallsAgree, CalmAgrees

\* A new row leaves no call calm, and storing the old one again changes nothing.
LEMMA StoredAgrees ==
  ASSUME KeysInv, OnTime, CalmCallsAgree, NEW r, Stored(r), UNCHANGED cache
  PROVE  OnTime' /\ CalmCallsAgree'
<1>1. call \in [Calls -> CallRecord] /\ cache \in [Processes -> [row : Rows, age : 0 .. Ttl, late : BOOLEAN]]
      /\ quiet \in 0 .. Ttl /\ Ttl \in Nat
  BY ConstantsAssumption DEF KeysInv, TypeOK, CallRecord
<1>2. CASE r = row
  <2>1. ASSUME NEW c \in Calls PROVE [call[c] EXCEPT !.calm = @ /\ r = row] = call[c]
    BY <1>1, <1>2 DEF CallRecord
  <2>2. call' = call /\ row' = row /\ quiet' = quiet
    BY <1>1, <1>2, <2>1 DEF Stored
  <2>3. CachesStay
    BY <2>2 DEF CachesStay, Undisturbed, CachesRow, Fresh
  <2> QED BY <1>1, <2>2, <2>3, CallsKeepAgreeing DEF OnTime, Fresh
<1>3. CASE r # row
  <2>1. quiet' = 0
    BY <1>3 DEF Stored
  <2>2. OnTime'
    BY <1>1, <2>1 DEF OnTime, Fresh
  <2>3. ASSUME NEW c \in Calls PROVE ~call'[c].calm
    BY <1>1, <1>3 DEF Stored, CallRecord
  <2> QED BY <2>2, <2>3 DEF CalmCallsAgree, CalmAgrees
<1> QED BY <1>2, <1>3

SettledInv == OnTime /\ CalmCallsAgree

LEMMA SettledStep == KeysInv /\ SettledInv /\ [Next]_vars => SettledInv'
<1> SUFFICES ASSUME KeysInv, SettledInv, [Next]_vars PROVE SettledInv'
  OBVIOUS
<1>0. /\ call \in [Calls -> CallRecord]
      /\ cache \in [Processes -> [row : Rows, age : 0 .. Ttl, late : BOOLEAN]]
      /\ quiet \in 0 .. Ttl /\ Ttl \in Nat \ {0} /\ row \in Rows
      /\ \A c \in Calls : CallFits(call[c])
  BY KeysInvParts, ConstantsAssumption DEF KeysInv, TypeOK, CallRecord, CallsOK
<1>1. ASSUME NEW r, Stored(r), UNCHANGED cache PROVE SettledInv'
  BY <1>1, StoredAgrees DEF SettledInv
<1>2. ASSUME UNCHANGED <<row, call, quiet, cache>> PROVE SettledInv'
  <2>1. CachesStay
    BY <1>2 DEF CachesStay, Undisturbed, CachesRow, Fresh
  <2> QED BY <1>0, <1>2, <2>1, CallsKeepAgreeing DEF SettledInv, OnTime, Fresh
<1>3. ASSUME NEW a \in Admins, Invalidate(a) PROVE SettledInv'
  <2>1. \A w \in Processes : cache'[w] = cache[w] \/ ~(cache'[w].age < Ttl)
    BY <1>0, <1>3 DEF Invalidate, Empty
  <2>2. CachesStay
    BY <1>3, <2>1 DEF CachesStay, Undisturbed, CachesRow, Fresh, Invalidate
  <2>3. OnTime'
    BY <1>3, <2>1 DEF Invalidate, SettledInv, OnTime, Fresh
  <2> QED BY <1>0, <1>3, <2>2, <2>3, CallsKeepAgreeing DEF SettledInv, Invalidate
<1>4. ASSUME Tick PROVE SettledInv'
  <2>1. ASSUME NEW w \in Processes, cache'[w].age < Ttl
        PROVE  /\ cache'[w].row = cache[w].row /\ cache'[w].late = cache[w].late
               /\ cache'[w].age = cache[w].age + 1 /\ cache[w].age < Ttl
    <3>1. cache[w] \in [row : Rows, age : 0 .. Ttl, late : BOOLEAN]
      BY <1>0
    <3>2. cache'[w] = IF cache[w].age + 1 >= Ttl THEN Empty ELSE [cache[w] EXCEPT !.age = @ + 1]
      BY <1>4 DEF Tick
    <3>3. cache[w].age + 1 < Ttl
      BY <1>0, <2>1, <3>1, <3>2 DEF Empty
    <3> QED BY <1>0, <3>1, <3>2, <3>3
  <2>2. CachesStay
    BY <1>4, <2>1 DEF CachesStay, Undisturbed, CachesRow, Fresh, Tick
  <2>3. OnTime'
    <3> SUFFICES ASSUME NEW w \in Processes, cache'[w].age < Ttl, ~cache'[w].late,
                        cache'[w].row # row'
                 PROVE  quiet' <= cache'[w].age
      BY DEF OnTime, Fresh
    <3>1. quiet <= cache[w].age
      BY <1>4, <2>1 DEF SettledInv, OnTime, Fresh, Tick
    <3>2. quiet' <= quiet + 1 /\ cache[w].age \in Nat /\ quiet \in Nat
      BY <1>0, <1>4 DEF Tick
    <3>3. quiet' \in Nat /\ cache'[w].age = cache[w].age + 1
      BY <1>0, <1>4, <2>1 DEF Tick
    <3> QED BY <3>1, <3>2, <3>3
  <2> QED BY <1>0, <1>4, <2>2, <2>3, CallsKeepAgreeing DEF SettledInv, Tick
<1>5. ASSUME NEW c \in Calls, NEW x \in CallRecord, call' = [call EXCEPT ![c] = x],
             UNCHANGED <<row, quiet, cache>>,
             x.pc \notin {"fillKey", "fillModel"} \/ x.got = row,
             x.calm => Undisturbed(x.at) /\ Agrees(x, row)
      PROVE  SettledInv'
  <2>1. CachesStay
    BY <1>5 DEF CachesStay, Undisturbed, CachesRow, Fresh
  <2>2. CalmCallsAgree'
    BY <1>0, <1>5, <2>1, CallAgrees DEF SettledInv
  <2> QED BY <1>5, <2>2 DEF SettledInv, OnTime, Fresh
<1>6. ASSUME NEW c \in Calls, NEW w \in Processes, Begin(c, w) PROVE SettledInv'
  <2> DEFINE calm == Settled(w)
             x == [NoCall EXCEPT !.pc = "key", !.at = w, !.provider = Effective(row),
                                 !.calm = calm]
  <2>1. calm \in BOOLEAN /\ Effective(row) \in Providers
    BY <1>0, AppKeyFits, ConstantsAssumption DEF Settled, Effective, Rows, Row
  <2>2. calm => Undisturbed(w)
    BY <1>0 DEF Settled, SettledInv, OnTime, Undisturbed, CachesRow, Fresh
  <2> HIDE DEF calm
  <2>3. /\ x \in CallRecord /\ x.pc = "key" /\ x.at = w /\ x.provider = Effective(row)
        /\ x.calm = calm
    BY <2>1, ConstantsAssumption DEF NoCall, CallRecord, Rows
  <2>4. call' = [call EXCEPT ![c] = x] /\ UNCHANGED <<row, quiet, cache>>
    BY <1>6 DEF Begin, calm
  <2> HIDE DEF x
  <2> QED BY <1>5, <2>2, <2>3, <2>4 DEF Agrees
<1>7. ASSUME NEW c \in Calls, call[c].pc \in {"key", "fillKey", "model", "fillModel"},
             NEW r \in Rows, call[c].calm => r = row
      PROVE  /\ Found(c, r) \in CallRecord /\ Found(c, r).pc \notin {"fillKey", "fillModel"}
             /\ Found(c, r).calm = call[c].calm
             /\ Found(c, r).calm => Undisturbed(Found(c, r).at) /\ Agrees(Found(c, r), row)
  <2> DEFINE q == call[c]
             k == AppKey(r, q.provider)
             m == Effective(r)
             x == Found(c, r)
  <2>1. q \in CallRecord /\ CallFits(Found(c, r))
    BY <1>0, <1>7, FoundFits
  <2>2. q.calm => Undisturbed(q.at) /\ Agrees(q, row)
    BY DEF SettledInv, CalmCallsAgree, CalmAgrees
  <2>3. CASE q.pc \in {"key", "fillKey"}
    <3>1. x = [q EXCEPT !.pc = "resolve", !.got = Nothing, !.appKey = k]
      BY <2>3 DEF Found
    <3>2. /\ x.pc = "resolve" /\ x.calm = q.calm /\ x.at = q.at /\ x.provider = q.provider
          /\ x.appKey = k
      BY <2>1, <3>1 DEF CallRecord
    <3> HIDE DEF x
    <3> QED BY <1>7, <2>1, <2>2, <3>2 DEF Agrees, CallFits, x
  <2>4. CASE q.pc \in {"model", "fillModel"}
    <3>1. x = [q EXCEPT !.pc = "called", !.got = Nothing, !.model = m]
      BY <2>4 DEF Found
    <3>2. /\ x.pc = "called" /\ x.calm = q.calm /\ x.at = q.at /\ x.provider = q.provider
          /\ x.key = q.key /\ x.from = q.from /\ x.model = m
      BY <2>1, <3>1 DEF CallRecord
    <3> HIDE DEF x
    <3> QED BY <1>7, <2>1, <2>2, <2>4, <3>2 DEF Agrees, CallFits, x
  <2> QED BY <1>7, <2>3, <2>4
<1>8. ASSUME NEW c \in Calls, Hit(c) PROVE SettledInv'
  <2>1. /\ cache[call[c].at].row \in Rows /\ call[c].at \in Processes
        /\ call[c].calm => cache[call[c].at].row = row
    BY <1>0, <1>8 DEF Hit, SettledInv, CalmCallsAgree, CalmAgrees, Undisturbed, CachesRow, CallRecord
  <2>2. call' = [call EXCEPT ![c] = Found(c, cache[call[c].at].row)]
        /\ UNCHANGED <<row, quiet, cache>> /\ call[c].pc \in {"key", "model"}
    BY <1>0, <1>8 DEF Hit
  <2> QED BY <1>5, <1>7, <2>1, <2>2
<1>9. ASSUME NEW c \in Calls, Miss(c) PROVE SettledInv'
  <2> DEFINE q == call[c]
             pc == IF q.pc = "key" THEN "fillKey" ELSE "fillModel"
             x == [q EXCEPT !.pc = pc, !.got = row]
  <2>1. q \in CallRecord /\ q.pc \in {"key", "model"} /\ pc \in {"fillKey", "fillModel"}
    BY <1>0, <1>9 DEF Miss
  <2>2. q.calm => Undisturbed(q.at) /\ Agrees(q, row)
    BY DEF SettledInv, CalmCallsAgree, CalmAgrees
  <2>3. call' = [call EXCEPT ![c] = x] /\ UNCHANGED <<row, quiet, cache>>
    BY <1>9 DEF Miss
  <2>4. /\ x.pc = pc /\ x.calm = q.calm /\ x.at = q.at /\ x.provider = q.provider
        /\ x.key = q.key /\ x.from = q.from /\ x.got = row
    BY <2>1 DEF CallRecord
  <2>5. x \in CallRecord
    BY <1>0, <2>1 DEF CallRecord
  <2>6. x.calm => Undisturbed(x.at) /\ Agrees(x, row)
    <3> HIDE DEF x
    <3> QED BY <2>1, <2>2, <2>4 DEF Agrees
  <2> HIDE DEF x
  <2> QED BY <1>5, <2>3, <2>4, <2>5, <2>6
<1>10. ASSUME NEW c \in Calls, Fill(c) PROVE SettledInv'
  <2> DEFINE w == call[c].at
             x == Found(c, call[c].got)
             entry == [row |-> call[c].got, age |-> 0, late |-> call[c].got # row]
  <2>1. w \in Processes /\ call[c].got \in Rows /\ call[c].pc \in {"fillKey", "fillModel"}
    BY <1>0, <1>10 DEF Fill, CallRecord
  <2>2. /\ cache' = [cache EXCEPT ![w] = entry] /\ call' = [call EXCEPT ![c] = x]
        /\ UNCHANGED <<row, quiet>>
    BY <1>10 DEF Fill
  <2>3. Undisturbed(w) => call[c].got = row
    BY <2>1 DEF Undisturbed
  <2>4. CachesStay
    BY <1>0, <2>1, <2>2, <2>3 DEF CachesStay, Undisturbed, CachesRow, Fresh
  <2>5. OnTime'
    BY <1>0, <2>1, <2>2 DEF SettledInv, OnTime, Fresh
  <2>6. call[c].calm => call[c].got = row
    BY <2>3 DEF SettledInv, CalmCallsAgree, CalmAgrees
  <2>7. CalmCallsAgree'
    BY <1>0, <1>7, <2>1, <2>2, <2>4, <2>6, CallAgrees DEF SettledInv
  <2> QED BY <2>5, <2>7 DEF SettledInv
<1>11. ASSUME NEW c \in Calls, Unreadable(c) PROVE SettledInv'
  <2> DEFINE y == Found(c, Nothing)
             x == [y EXCEPT !.calm = FALSE]
  <2>1. y \in CallRecord /\ y.pc \notin {"fillKey", "fillModel"}
    <3>1. Nothing \in Rows
      BY DEF Rows
    <3>2. CallFits(y)
      BY <1>0, <1>11, <3>1, FoundFits DEF Unreadable
    <3> QED BY <3>2, <1>0 DEF CallFits, Found, CallRecord
  <2>2. call' = [call EXCEPT ![c] = x] /\ UNCHANGED <<row, quiet, cache>>
    BY <1>11 DEF Unreadable
  <2> HIDE DEF y
  <2>3. x \in CallRecord /\ x.pc = y.pc /\ ~x.calm
    BY <2>1 DEF CallRecord
  <2> HIDE DEF x
  <2> QED BY <1>5, <2>1, <2>2, <2>3
<1>12. ASSUME NEW c \in Calls, Resolve(c) PROVE SettledInv'
  <2> DEFINE q == call[c]
             use == Credential(q.provider, q.appKey)
             key == use.key
             from == use.from
  <2>1. /\ q \in CallRecord /\ q.pc = "resolve" /\ q.provider \in Providers
        /\ q.appKey \in {q.provider, OldKey, Nothing}
    BY <1>0, <1>12 DEF Resolve, CallFits
  <2>2. key \in {q.provider, OldKey, Nothing} /\ from \in {"user", "organization", "app", "env"}
    BY <2>1, CredentialFits
  <2>3. /\ from = "app" => key = q.appKey
        /\ from = "env" => q.appKey = Nothing
    BY DEF Credential
  <2>4. q.calm => Undisturbed(q.at) /\ Agrees(q, row)
    BY DEF SettledInv, CalmCallsAgree, CalmAgrees
  <2>5. UNCHANGED <<row, quiet, cache>>
    BY <1>12 DEF Resolve
  <2>6. CASE key = Nothing
    <3>1. call' = [call EXCEPT ![c] = NoCall]
      BY <1>12, <2>6 DEF Resolve
    <3>2. NoCall \in CallRecord /\ NoCall.pc \notin {"fillKey", "fillModel"} /\ ~NoCall.calm
      BY NoCallFits DEF CallFits, NoCall
    <3> QED BY <1>5, <2>5, <3>1, <3>2
  <2>7. CASE key # Nothing
    <3> DEFINE reads == q.provider \in Readers
               pc == IF reads THEN "model" ELSE "called"
               model == IF reads THEN Nothing ELSE BuiltIn
               x == [q EXCEPT !.pc = pc, !.model = model, !.appKey = Nothing,
                              !.from = from, !.key = key]
    <3>1. call' = [call EXCEPT ![c] = x]
      BY <1>12, <2>7 DEF Resolve
    <3>p. /\ pc \in {"model", "called"} /\ model \in {Nothing, BuiltIn}
          /\ pc = "model" => q.provider \in Readers
          /\ pc = "called" => model = BuiltIn /\ q.provider \notin Readers
      OBVIOUS
    <3> HIDE DEF key, from, pc, model
    <3>2. x \in CallRecord
      BY <2>1, <2>2, <3>p DEF CallRecord
    <3>3. /\ x.pc = pc /\ x.calm = q.calm /\ x.at = q.at /\ x.provider = q.provider
          /\ x.key = key /\ x.from = from /\ x.model = model
      BY <2>1 DEF CallRecord
    <3> HIDE DEF x
    <3>4. x.calm => Undisturbed(x.at) /\ Agrees(x, row)
      BY <2>1, <2>3, <2>4, <3>3, <3>p DEF Agrees
    <3> QED BY <1>5, <2>5, <3>1, <3>2, <3>3, <3>4, <3>p
  <2> QED BY <2>6, <2>7
<1>13. ASSUME NEW a \in Admins, CommitSave(a) PROVE SettledInv'
  BY <1>1, <1>2, <1>13 DEF CommitSave
<1> QED
  BY <1>1, <1>2, <1>3, <1>4, <1>6, <1>8, <1>9, <1>10, <1>11, <1>12, <1>13
  DEF Next, Change, ChangeScope, Fault, Start, Proceed, vars, BeginSave, Reset,
      UpdateUser, UpdateOrganization

\* Once a switch of provider is Ttl old, a generation that begins where no read
\* has been overtaken by a save uses the provider and key of the row, and its
\* model if the provider's client is one that reads it, whichever clients do,
\* for any processes, calls and saves.
THEOREM SettledSwitches == Spec => []SettledCallsAgree
<1>1. Init => SettledInv
  BY ConstantsAssumption
  DEF Init, SettledInv, OnTime, CalmCallsAgree, CalmAgrees, Fresh, Empty, NoCall
<1>2. SettledInv => SettledCallsAgree
  BY DEF SettledInv, CalmCallsAgree, CalmAgrees, Agrees, SettledCallsAgree
<1> QED BY <1>1, <1>2, SettledStep, KeysInvAlways, PTL DEF Spec

\* A stored key goes only with the row, by being cleared, or when another save
\* has come between the read and the commit of a save.
THEOREM KeysAreNotLost == Spec => KeysOutliveSwitches
<1> DEFINE Kept == row # Nothing /\ row' # Nothing =>
       \A p \in row.keys \ row'.keys :
         \E a \in Admins :
           /\ admin[a].pc = "save" /\ admin'[a].pc = "invalidate"
           /\ admin[a].read # row
              \/ (admin[a].provider = p /\ admin[a].key = "clear")
<1>1. KeysInv /\ [Next]_vars => [Kept]_vars
  <2> SUFFICES ASSUME KeysInv, Next, row # Nothing, row' # Nothing,
                      NEW p \in row.keys \ row'.keys
               PROVE  \E a \in Admins :
                        /\ admin[a].pc = "save" /\ admin'[a].pc = "invalidate"
                        /\ admin[a].read # row
                           \/ (admin[a].provider = p /\ admin[a].key = "clear")
    OBVIOUS
  <2>1. PICK a \in Admins : CommitSave(a)
    BY DEF Next, Change, ChangeScope, Fault, Start, Proceed, Tick, BeginSave, Reset, Stored,
           UpdateUser, UpdateOrganization, Begin, Invalidate, Hit, Miss, Fill, Resolve, Unreadable
  <2> DEFINE r == admin[a].read
             name == admin[a].provider
             key == admin[a].key
  <2>2. /\ row \in Row /\ admin[a].pc = "save" /\ key \in {"keep", "new", "clear"}
    BY <2>1 DEF KeysInv, TypeOK, Rows, CommitSave
  <2>3. r # Nothing /\ row' = Written(r, name, key)
        /\ admin' = [admin EXCEPT ![a].pc = "invalidate"]
    BY <2>1 DEF CommitSave, Stored
  <2>4. admin'[a].pc = "invalidate"
    BY <2>3 DEF KeysInv, TypeOK
  <2>5. row'.keys = IF Rekeys(r, name, key) THEN KeysAfter(r, name, key) ELSE row.keys
    BY <2>3 DEF Written
  <2>6. CASE r = row
    BY <2>2, <2>4, <2>5, <2>6 DEF KeysAfter, Rekeys
  <2> QED BY <2>2, <2>4, <2>6
<1>2. KeysOutliveSwitches <=> [][Kept]_vars
  BY DEF KeysOutliveSwitches
<1> QED BY <1>1, <1>2, KeysInvAlways, PTL DEF Spec

=============================================================================
