------------------------ MODULE DatabaseRelation_proofs ------------------------
(***************************************************************************)
(* Theorems about the database relation, for any units of Superset and any *)
(* number of writes: credentials stay out of the databag, a unit announces *)
(* them again only when the hook that did has failed, and what it believes *)
(* of the status and plans with is what is published now.                  *)
(***************************************************************************)
EXTENDS DatabaseRelation, TLAPS

\* Superset asks for a database and for secrets in one write, and the provider
\* cannot write a credential before it was asked, so that none reaches the
\* databag and all of them are kept in secrets.
HiddenInv ==
    /\ "database" \in request => "requested-secrets" \in request
    /\ CredentialsHidden

\* Credentials a unit has announced it has stored, and does not announce again;
\* until then the hook that announced them is in error.
AnnouncedKept(u) ==
    "secret-user" \in DOMAIN bag /\ bag["secret-user"] \in announced[u] =>
        "secret-user" \in DOMAIN seen[u] \/ failed[u] = "changed"

\* Secrets are numbered by the writes that made them, and none is made again.
AnnouncedInv ==
    /\ writes \in Nat /\ DOMAIN seen = DbUnits /\ DOMAIN failed = DbUnits
    /\ announced \in [DbUnits -> SUBSET ({"secret-user"} \X (1 .. writes))]
    /\ "secret-user" \in DOMAIN bag => bag["secret-user"] \in {"secret-user"} \X (1 .. writes)
    /\ "subordinated" \notin DOMAIN bag => \A u \in DbUnits : AnnouncedKept(u)

DbInv == HiddenInv /\ AnnouncedInv

\* The secret of the credentials is the one it was, or a new one.
SecretKeptOrNew ==
    "secret-user" \in DOMAIN bag' =>
        \/ "secret-user" \in DOMAIN bag /\ bag'["secret-user"] = bag["secret-user"]
        \/ bag'["secret-user"] = <<"secret-user", writes + 1>>

-----------------------------------------------------------------------------
\* What a write of the provider does to the databag.
LEMMA PublishedKeys ==
    ASSUME HiddenInv, NEW data, DOMAIN data \intersect Groups = {}, UpdateRelationData(data)
    PROVE  CredentialsHidden' /\ SecretKeptOrNew /\ DOMAIN bag \subseteq DOMAIN bag'
<1> DEFINE hidden == DOMAIN data \intersect LocalSecretFields
           groups == {Group(f) : f \in hidden}
           uri == [g \in groups |-> IF g \in DOMAIN bag THEN bag[g] ELSE <<g, writes + 1>>]
           plain == Without(data, hidden)
           named == Over(uri, bag)
<1>1. bag' = Over(plain, named) /\ Accepted(DOMAIN data)
  BY DEF UpdateRelationData, Publish
<1>2. DOMAIN data \intersect SecretFields \subseteq hidden
  <2>1. CASE "database" \in request
    BY <2>1 DEF HiddenInv, CredentialsHidden, LocalSecretFields
  <2>2. CASE DOMAIN data \subseteq {"endpoints"}
    BY <2>2 DEF SecretFields
  <2>3. QED
    BY <1>1, <2>1, <2>2 DEF Accepted
<1>3. groups \subseteq Groups /\ "secret-user" \in Groups
  BY DEF Groups, Group
<1>4. /\ DOMAIN plain = DOMAIN data \ hidden
      /\ DOMAIN named = groups \union DOMAIN bag
      /\ \A k \in DOMAIN named : named[k] = IF k \in groups THEN uri[k] ELSE bag[k]
  BY DEF Without, Over
<1>5. DOMAIN bag' = (DOMAIN data \ hidden) \union groups \union DOMAIN bag
  <2> HIDE DEF plain, named
  <2>1. DOMAIN bag' = DOMAIN plain \union DOMAIN named
    BY <1>1 DEF Over
  <2>2. QED
    BY <1>4, <2>1
<1>6. SecretKeptOrNew
  <2> SUFFICES ASSUME "secret-user" \in DOMAIN bag'
               PROVE  \/ "secret-user" \in DOMAIN bag /\ bag'["secret-user"] = bag["secret-user"]
                      \/ bag'["secret-user"] = <<"secret-user", writes + 1>>
    BY DEF SecretKeptOrNew
  <2>1. "secret-user" \notin DOMAIN plain
    BY <1>3, <1>4
  <2>2. "secret-user" \in groups \union DOMAIN bag
    BY <1>4, <1>5, <2>1
  <2>3. bag'["secret-user"] = named["secret-user"]
    <3> HIDE DEF plain, named
    <3>1. QED
      BY <1>1, <2>1 DEF Over
  <2>4. named["secret-user"] = IF "secret-user" \in groups THEN uri["secret-user"]
                               ELSE bag["secret-user"]
    BY <1>4, <2>2
  <2>5. "secret-user" \in groups =>
            uri["secret-user"] = IF "secret-user" \in DOMAIN bag THEN bag["secret-user"]
                                 ELSE <<"secret-user", writes + 1>>
    OBVIOUS
  <2> HIDE DEF groups, uri, named
  <2>6. QED
    BY <2>2, <2>3, <2>4, <2>5
<1>7. CredentialsHidden'
  BY <1>2, <1>3, <1>5 DEF HiddenInv, CredentialsHidden, SecretFields, Groups
<1>8. QED
  BY <1>5, <1>6, <1>7

\* And what a removal does.
LEMMA LeftFields ==
    ASSUME NEW fields, "subordinated" \notin fields, DeleteRelationData(fields)
    PROVE  /\ SecretKeptOrNew /\ DOMAIN bag' \subseteq DOMAIN bag
           /\ "subordinated" \in DOMAIN bag => "subordinated" \in DOMAIN bag'
<1> DEFINE hidden == fields \intersect LocalSecretFields
           groups == {g \in {Group(f) : f \in hidden} \intersect DOMAIN bag :
                          fields \subseteq DOMAIN secrets[bag[g]]}
           emptied == {g \in groups : DOMAIN secrets[bag[g]] \subseteq fields}
           normal == {f \in fields : f \in hidden => Group(f) \notin groups}
<1>1. bag' = Without(bag, emptied \union normal)
  BY Zenon DEF DeleteRelationData, Publish
<1>2. "subordinated" \notin emptied \union normal
  BY DEF Group
<1> HIDE DEF emptied, normal
<1>3. QED
  BY <1>1, <1>2 DEF Without, SecretKeptOrNew

\* A provider's step makes at most one new secret, and a subordinate stays one.
LEMMA BagSteps ==
    ASSUME HiddenInv, writes \in Nat, ProviderActs
    PROVE  /\ UNCHANGED superVars
           /\ CredentialsHidden'
           /\ "subordinated" \in DOMAIN bag => "subordinated" \in DOMAIN bag'
           /\ \/ UNCHANGED <<bag, writes>>
              \/ writes' = writes + 1 /\ SecretKeptOrNew
<1>1. CASE OnRequestChanged \/ RemoteBecomesReady
  BY <1>1 DEF OnRequestChanged, RemoteBecomesReady, HiddenInv, CredentialsHidden
<1>2. CASE AnswerRequest
  <2>1. PICK more \in SUBSET {"endpoints"} :
          UpdateRelationData([f \in Credentials \union more |-> writes'])
    BY <1>2 DEF AnswerRequest
  <2>2. (Credentials \union more) \intersect Groups = {}
    BY DEF Credentials, Groups
  <2>3. CredentialsHidden' /\ SecretKeptOrNew /\ DOMAIN bag \subseteq DOMAIN bag'
    BY <2>1, <2>2, PublishedKeys
  <2>4. QED
    BY <1>2, <2>3 DEF AnswerRequest, Writes
<1>3. CASE UpdateField
  <2>1. \/ \E fields \in {Credentials, {"password"}, {"tls"}, {"endpoints"}} :
               UpdateRelationData([f \in fields |-> writes'])
        \/ UpdateRelationData([f \in {"status"} |-> 1])
        \/ UpdateRelationData([f \in {"status"} |-> 0])
    BY <1>3 DEF UpdateField
  <2>2. /\ \A fields \in {Credentials, {"password"}, {"tls"}, {"endpoints"}} :
              fields \intersect Groups = {}
        /\ {"status"} \intersect Groups = {}
    BY DEF Credentials, Groups
  <2>3. CredentialsHidden' /\ SecretKeptOrNew /\ DOMAIN bag \subseteq DOMAIN bag'
    BY <2>1, <2>2, PublishedKeys
  <2>4. QED
    BY <1>3, <2>3 DEF UpdateField, Writes
<1>4. CASE BecomeSubordinate
  <2>1. {"subordinated"} \intersect Groups = {}
    BY DEF Groups
  <2>2. CredentialsHidden' /\ SecretKeptOrNew /\ DOMAIN bag \subseteq DOMAIN bag'
    BY <1>4, <2>1, PublishedKeys DEF BecomeSubordinate
  <2>3. QED
    BY <1>4, <2>2 DEF BecomeSubordinate, Writes
<1>5. CASE DeleteFields
  <2>1. PICK fields \in {Credentials, {"password"}, {"tls"}, {"status"},
                         Credentials \union {"endpoints"}} : DeleteRelationData(fields)
    BY <1>5 DEF DeleteFields
  <2>2. "subordinated" \notin fields
    BY DEF Credentials
  <2>3. /\ SecretKeptOrNew /\ DOMAIN bag' \subseteq DOMAIN bag
        /\ "subordinated" \in DOMAIN bag => "subordinated" \in DOMAIN bag'
    BY <2>1, <2>2, LeftFields
  <2>4. QED
    BY <1>5, <2>3 DEF DeleteFields, Writes, HiddenInv, CredentialsHidden
<1>6. QED
  BY <1>1, <1>2, <1>3, <1>4, <1>5 DEF ProviderActs

\* A secret that was just made has been announced by nobody.
LEMMA ProviderAnnounced ==
    ASSUME DbInv, ProviderActs
    PROVE  AnnouncedInv'
<1>1. /\ writes \in Nat /\ UNCHANGED <<seen, announced, failed>>
      /\ "subordinated" \in DOMAIN bag => "subordinated" \in DOMAIN bag'
      /\ \/ UNCHANGED <<bag, writes>>
         \/ writes' = writes + 1 /\ SecretKeptOrNew
  BY BagSteps DEF DbInv, AnnouncedInv, superVars
<1>2. CASE UNCHANGED <<bag, writes>>
  BY <1>1, <1>2 DEF DbInv, AnnouncedInv, AnnouncedKept
<1>3. CASE writes' = writes + 1 /\ SecretKeptOrNew
  <2>1. 1 .. writes \subseteq 1 .. writes' /\ writes' \in 1 .. writes' /\ writes' \in Nat
    BY <1>1, <1>3
  <2>2. announced' \in [DbUnits -> SUBSET ({"secret-user"} \X (1 .. writes'))]
    BY <1>1, <2>1 DEF DbInv, AnnouncedInv
  <2>3. "secret-user" \in DOMAIN bag' => bag'["secret-user"] \in {"secret-user"} \X (1 .. writes')
    BY <1>3, <2>1 DEF SecretKeptOrNew, DbInv, AnnouncedInv
  <2>4. ASSUME "subordinated" \notin DOMAIN bag', NEW u \in DbUnits PROVE AnnouncedKept(u)'
    <3> SUFFICES ASSUME "secret-user" \in DOMAIN bag', bag'["secret-user"] \in announced[u]
                 PROVE  "secret-user" \in DOMAIN seen[u] \/ failed[u] = "changed"
      BY <1>1 DEF AnnouncedKept
    <3>1. bag'["secret-user"] # <<"secret-user", writes + 1>>
      <4>1. announced[u] \subseteq {"secret-user"} \X (1 .. writes)
        BY DEF DbInv, AnnouncedInv
      <4>2. <<"secret-user", writes + 1>> \notin {"secret-user"} \X (1 .. writes)
        BY <1>1
      <4>3. QED
        BY <4>1, <4>2
    <3>2. "secret-user" \in DOMAIN bag /\ bag'["secret-user"] = bag["secret-user"]
      BY <1>3, <3>1 DEF SecretKeptOrNew
    <3>3. AnnouncedKept(u)
      BY <1>1, <2>4 DEF DbInv, AnnouncedInv
    <3>4. QED
      BY <3>2, <3>3 DEF AnnouncedKept
  <2>5. QED
    BY <1>1, <2>1, <2>2, <2>3, <2>4 DEF DbInv, AnnouncedInv
<1>4. QED
  BY <1>1, <1>2, <1>3

\* Announcing, whatever becomes of the hook, leaves the types as they are.
LEMMA AnnouncedType ==
    ASSUME DbInv, NEW u \in DbUnits, Announced(u)
    PROVE  /\ announced' \in [DbUnits -> SUBSET ({"secret-user"} \X (1 .. writes))]
           /\ \A v \in DbUnits : v # u => announced'[v] = announced[v]
<1> DEFINE more == IF Announces(u) THEN {Uri("secret-user")} ELSE {}
<1>1. announced' = [announced EXCEPT ![u] = @ \union more]
  BY DEF Announced
<1>2. more \subseteq {"secret-user"} \X (1 .. writes)
  <2>1. "username" \notin DOMAIN bag
    BY DEF DbInv, HiddenInv, CredentialsHidden, SecretFields
  <2>2. Announces(u) => "secret-user" \in DOMAIN bag
    BY <2>1 DEF Announces, CredentialsShared, Credentials
  <2>3. QED
    BY <2>2 DEF Uri, DbInv, AnnouncedInv
<1> HIDE DEF more
<1>3. QED
  BY <1>1, <1>2 DEF DbInv, AnnouncedInv

\* A unit stores what it has announced if its hook succeeds, and is in error with
\* it otherwise.
LEMMA ChangedAnnounces ==
    ASSUME DbInv, NEW u \in DbUnits, OnRelationChanged(u) \/ HookFails(u, "changed")
    PROVE  AnnouncedInv'
<1>1. UNCHANGED <<bag, writes>> /\ Announced(u)
  BY DEF OnRelationChanged, HookFails, providerVars
<1>2. /\ announced' \in [DbUnits -> SUBSET ({"secret-user"} \X (1 .. writes))]
      /\ \A v \in DbUnits : v # u => announced'[v] = announced[v]
  BY <1>1, AnnouncedType
<1>3. DOMAIN seen' = DbUnits /\ DOMAIN failed' = DbUnits
  BY DEF OnRelationChanged, HookFails, Succeed, DbInv, AnnouncedInv
<1>4. ASSUME NEW v \in DbUnits, v # u PROVE seen'[v] = seen[v] /\ failed'[v] = failed[v]
  BY <1>4 DEF OnRelationChanged, HookFails, Succeed, DbInv, AnnouncedInv
<1>5. ASSUME "subordinated" \notin DOMAIN bag
      PROVE  seen'[u] = bag \/ failed'[u] = "changed"
  BY <1>5 DEF OnRelationChanged, HookFails, Held, DiffStored, DbInv, AnnouncedInv
<1>6. ASSUME "subordinated" \notin DOMAIN bag, NEW v \in DbUnits PROVE AnnouncedKept(v)'
  <2>1. CASE v = u
    BY <1>1, <1>5, <1>6, <2>1 DEF AnnouncedKept
  <2>2. CASE v # u
    <3>1. AnnouncedKept(v)
      BY <1>6 DEF DbInv, AnnouncedInv
    <3>2. QED
      BY <1>1, <1>2, <1>4, <2>2, <3>1 DEF AnnouncedKept
  <2>3. QED
    BY <2>1, <2>2
<1>7. QED
  BY <1>1, <1>2, <1>3, <1>6 DEF DbInv, AnnouncedInv

\* A hook of another kind may succeed, or fail, where none was in error.
LEMMA OthersAnnounced ==
    ASSUME DbInv, NEW u \in DbUnits, failed[u] # "changed", NEW outcome,
           failed' = [failed EXCEPT ![u] = outcome], UNCHANGED <<bag, writes, announced, seen>>
    PROVE  AnnouncedInv'
<1>1. DOMAIN failed' = DbUnits /\ \A v \in DbUnits : v # u => failed'[v] = failed[v]
  BY DEF DbInv, AnnouncedInv
<1>2. ASSUME "subordinated" \notin DOMAIN bag, NEW v \in DbUnits PROVE AnnouncedKept(v)'
  <2>1. AnnouncedKept(v)
    BY <1>2 DEF DbInv, AnnouncedInv
  <2>2. QED
    BY <1>1, <2>1 DEF AnnouncedKept
<1>3. QED
  BY <1>1, <1>2 DEF DbInv, AnnouncedInv

LEMMA DbStep == DbInv /\ [DbNext]_dbVars => DbInv'
<1> SUFFICES ASSUME DbInv, [DbNext]_dbVars PROVE DbInv'
  OBVIOUS
<1>1. CASE ProviderActs
  <2>1. HiddenInv'
    BY <1>1, BagSteps DEF DbInv, AnnouncedInv, HiddenInv, superVars
  <2>2. QED
    BY <1>1, <2>1, ProviderAnnounced DEF DbInv
<1>2. ASSUME NEW u \in DbUnits, OnRelationChanged(u) \/ HookFails(u, "changed") PROVE DbInv'
  <2>1. HiddenInv'
    BY <1>2 DEF OnRelationChanged, HookFails, providerVars, DbInv, HiddenInv, CredentialsHidden
  <2>2. QED
    BY <1>2, <2>1, ChangedAnnounces DEF DbInv
<1>3. ASSUME NEW u \in DbUnits,
             OnRelationCreated(u) \/ OnDbSecretChanged(u) \/ HookFails(u, "secret")
      PROVE  DbInv'
  <2>1. HiddenInv'
    BY <1>3 DEF OnRelationCreated, OnDbSecretChanged, HookFails, providerVars, DbInv, HiddenInv,
                CredentialsHidden
  <2>2. /\ failed[u] # "changed" /\ UNCHANGED <<bag, writes, announced, seen>>
        /\ \E outcome : failed' = [failed EXCEPT ![u] = outcome]
    BY <1>3 DEF OnRelationCreated, OnDbSecretChanged, HookFails, Starts, Succeed, providerVars
  <2>3. QED
    BY <2>1, <2>2, OthersAnnounced DEF DbInv
<1>4. CASE MoveLeadership \/ UNCHANGED dbVars
  BY <1>4 DEF MoveLeadership, dbVars, superVars, providerVars, DbInv, HiddenInv,
              CredentialsHidden, AnnouncedInv, AnnouncedKept
<1>5. QED
  BY <1>1, <1>2, <1>3, <1>4 DEF DbNext, RunHook

LEMMA DbInvariant == DbSpec => []DbInv
<1>1. DbInit => DbInv
  BY DEF DbInit, DbInv, HiddenInv, CredentialsHidden, AnnouncedInv, AnnouncedKept
<1>2. QED
  BY <1>1, DbStep, PTL DEF DbSpec

(* No credential and no certificate is ever in the databag in the clear:    *)
(* the provider can write none before it was asked (PrematureDataAccess),   *)
(* and Superset asks for the secrets with the database.                     *)
THEOREM Hidden == DbSpec => []CredentialsHidden
<1>1. DbInv => CredentialsHidden
  BY DEF DbInv, HiddenInv
<1>2. QED
  BY <1>1, DbInvariant, PTL

(* Credentials a unit has announced it announces again only when the hook   *)
(* that announced them has failed and is run again, unless the provider has *)
(* become a subordinate (_on_relation_changed_event of                      *)
(* DatabaseRequirerEventHandlers, and the observer of database_created).    *)
THEOREM AnnouncedOnce == DbSpec => []CreatedOnce
<1>1. DbInv => CreatedOnce
  <2> SUFFICES ASSUME DbInv, NEW u \in DbUnits, "subordinated" \notin DOMAIN bag,
                      Announces(u), Uri("secret-user") \in announced[u]
               PROVE  failed[u] = "changed"
    BY DEF CreatedOnce
  <2>1. "username" \notin DOMAIN bag
    BY DEF DbInv, HiddenInv, CredentialsHidden, SecretFields
  <2>2. "secret-user" \in DOMAIN bag \ DOMAIN seen[u]
    BY <2>1 DEF Announces, CredentialsShared, Credentials
  <2>3. AnnouncedKept(u)
    BY DEF DbInv, AnnouncedInv
  <2>4. QED
    BY <2>2, <2>3 DEF AnnouncedKept, Uri
<1>2. QED
  BY <1>1, DbInvariant, PTL

-----------------------------------------------------------------------------
(* What the units have seen                                                 *)

\* A provider that is no subordinate: what a unit believes is what it has stored,
\* and that is the databag unless its hook waits.
StatusInv ==
    /\ believed \in [DbUnits -> BOOLEAN] /\ DOMAIN seen = DbUnits /\ DOMAIN dbHooks = DbUnits
    /\ "subordinated" \notin DOMAIN bag =>
           \A u \in DbUnits : /\ believed[u] = StatusIn(seen[u])
                              /\ "changed" \notin dbHooks[u] => seen[u] = bag

\* Changes of the databag are announced, and a subordinate stays one.
LEMMA ProviderNotifies ==
    ASSUME ProviderActs, DOMAIN dbHooks = DbUnits
    PROVE  /\ UNCHANGED superVars
           /\ \/ Notify(bag', secrets')
              \/ UNCHANGED <<bag, secrets, dbHooks>>
              \/ UNCHANGED <<bag, secrets>> /\ \A u \in DbUnits : "changed" \in dbHooks'[u]
           /\ DOMAIN dbHooks' = DbUnits
           /\ \A u \in DbUnits : dbHooks[u] \subseteq dbHooks'[u]
           /\ "subordinated" \in DOMAIN bag => "subordinated" \in DOMAIN bag'
<1>1. ASSUME NEW data, UpdateRelationData(data)
      PROVE  Notify(bag', secrets') /\ ("subordinated" \in DOMAIN bag => "subordinated" \in DOMAIN bag')
  <2>1. PICK d, e : bag' = Over(d, Over(e, bag))
    BY <1>1 DEF UpdateRelationData, Publish
  <2>2. Notify(bag', secrets')
    BY <1>1, Zenon DEF UpdateRelationData, Publish
  <2>3. QED
    BY <2>1, <2>2 DEF Over
<1>2. ASSUME NEW fields, "subordinated" \notin fields, DeleteRelationData(fields)
      PROVE  Notify(bag', secrets') /\ ("subordinated" \in DOMAIN bag => "subordinated" \in DOMAIN bag')
  <2>1. PICK gone : bag' = Without(bag, gone) /\ "subordinated" \notin gone
    <3> DEFINE hidden == fields \intersect LocalSecretFields
               groups == {g \in {Group(f) : f \in hidden} \intersect DOMAIN bag :
                              fields \subseteq DOMAIN secrets[bag[g]]}
               emptied == {g \in groups : DOMAIN secrets[bag[g]] \subseteq fields}
               normal == {f \in fields : f \in hidden => Group(f) \notin groups}
    <3>1. bag' = Without(bag, emptied \union normal)
      BY <1>2, Zenon DEF DeleteRelationData, Publish
    <3>2. "subordinated" \notin emptied \union normal
      BY <1>2 DEF Group
    <3>3. QED
      BY <3>1, <3>2
  <2>2. Notify(bag', secrets')
    BY <1>2, Zenon DEF DeleteRelationData, Publish
  <2>3. QED
    BY <2>1, <2>2 DEF Without
<1>3. ASSUME Notify(bag', secrets')
      PROVE  DOMAIN dbHooks' = DbUnits /\ \A u \in DbUnits : dbHooks[u] \subseteq dbHooks'[u]
  BY <1>3 DEF Notify
<1>4. CASE OnRequestChanged
  BY <1>4 DEF OnRequestChanged
<1>5. CASE RemoteBecomesReady
  BY <1>5 DEF RemoteBecomesReady
<1>6. CASE AnswerRequest
  BY <1>6, <1>1, <1>3 DEF AnswerRequest
<1>7. CASE UpdateField
  BY <1>7, <1>1, <1>3 DEF UpdateField
<1>8. CASE BecomeSubordinate
  BY <1>8, <1>1, <1>3 DEF BecomeSubordinate
<1>9. CASE DeleteFields
  <2>1. PICK fields \in {Credentials, {"password"}, {"tls"}, {"status"},
                         Credentials \union {"endpoints"}} : DeleteRelationData(fields)
    BY <1>9 DEF DeleteFields
  <2>2. "subordinated" \notin fields
    BY <2>1 DEF Credentials
  <2>3. QED
    BY <1>9, <2>1, <2>2, <1>2, <1>3 DEF DeleteFields
<1>10. QED
  BY <1>4, <1>5, <1>6, <1>7, <1>8, <1>9 DEF ProviderActs

\* What a unit's own hooks do to its queue.
LEMMA HooksRun ==
    ASSUME DOMAIN dbHooks = DbUnits, NEW u \in DbUnits, NEW h, Succeed(u, h)
    PROVE  /\ DOMAIN dbHooks' = DbUnits
           /\ dbHooks'[u] = dbHooks[u] \ {h}
           /\ \A v \in DbUnits \ {u} : dbHooks'[v] = dbHooks[v]
BY DEF Succeed

LEMMA StatusStep == StatusInv /\ [DbNext]_dbVars => StatusInv'
<1> SUFFICES ASSUME StatusInv, [DbNext]_dbVars PROVE StatusInv'
  OBVIOUS
<1>1. CASE ProviderActs
  <2>1. /\ UNCHANGED <<seen, believed>> /\ DOMAIN dbHooks' = DbUnits
        /\ "subordinated" \in DOMAIN bag => "subordinated" \in DOMAIN bag'
    BY <1>1, ProviderNotifies DEF StatusInv, superVars
  <2>2. \A u \in DbUnits : "changed" \notin dbHooks'[u] =>
            bag' = bag /\ "changed" \notin dbHooks[u]
    BY <1>1, ProviderNotifies DEF StatusInv, Notify
  <2>3. QED
    BY <2>1, <2>2 DEF StatusInv, StatusIn, Has
<1>2. ASSUME NEW u \in DbUnits, OnRelationChanged(u) PROVE StatusInv'
  <2>1. /\ believed' = [believed EXCEPT ![u] = StatusEvents(u)] /\ bag' = bag
        /\ Succeed(u, "changed")
    BY <1>2 DEF OnRelationChanged, providerVars
  <2>2. StatusEvents(u) \in BOOLEAN
    BY DEF StatusEvents, StatusInv
  <2>3. CASE "subordinated" \in DOMAIN bag
    <3>1. DOMAIN seen' = DbUnits
      BY <1>2 DEF OnRelationChanged, StatusInv
    <3>2. QED
      BY <2>1, <2>2, <2>3, <3>1, HooksRun DEF StatusInv
  <2>4. CASE "subordinated" \notin DOMAIN bag
    <3>1. seen' = [seen EXCEPT ![u] = bag]
      BY <1>2, <2>4 DEF OnRelationChanged, Held, DiffStored
    <3>2. StatusEvents(u) = StatusIn(bag)
      BY <2>4 DEF StatusEvents, StatusInv, StatusIn, Has
    <3>3. believed' \in [DbUnits -> BOOLEAN] /\ DOMAIN seen' = DbUnits /\ DOMAIN dbHooks' = DbUnits
      BY <2>1, <2>2, <3>1, HooksRun DEF StatusInv
    <3>4. ASSUME NEW v \in DbUnits
          PROVE  believed'[v] = StatusIn(seen'[v]) /\ ("changed" \notin dbHooks'[v] => seen'[v] = bag')
      <4>1. CASE v = u
        BY <4>1, <2>1, <3>1, <3>2 DEF StatusInv
      <4>2. CASE v # u
        BY <4>2, <2>1, <2>4, <3>1, HooksRun DEF StatusInv
      <4>3. QED
        BY <4>1, <4>2
    <3>5. QED
      BY <3>3, <3>4 DEF StatusInv, StatusIn, Has
  <2>5. QED
    BY <2>3, <2>4
<1>3. ASSUME NEW u \in DbUnits, OnRelationCreated(u) PROVE StatusInv'
  <2>1. UNCHANGED <<bag, seen, believed>> /\ Succeed(u, "created")
    BY <1>3 DEF OnRelationCreated, providerVars
  <2>2. QED
    BY <2>1, HooksRun DEF StatusInv, StatusIn, Has
<1>4. ASSUME NEW u \in DbUnits, OnDbSecretChanged(u) PROVE StatusInv'
  <2>1. UNCHANGED <<bag, seen, believed>> /\ Succeed(u, "secret")
    BY <1>4 DEF OnDbSecretChanged, providerVars
  <2>2. QED
    BY <2>1, HooksRun DEF StatusInv, StatusIn, Has
<1>5. ASSUME UNCHANGED <<bag, seen, believed, dbHooks>> PROVE StatusInv'
  BY <1>5 DEF StatusInv, StatusIn, Has
<1>6. ASSUME NEW u \in DbUnits, NEW h, HookFails(u, h) PROVE StatusInv'
  BY <1>5, <1>6 DEF HookFails, providerVars
<1>7. CASE MoveLeadership \/ UNCHANGED dbVars
  BY <1>5, <1>7 DEF MoveLeadership, dbVars, superVars, providerVars
<1>8. QED
  BY <1>1, <1>2, <1>3, <1>4, <1>6, <1>7 DEF DbNext, RunHook

(* The status events a unit has seen leave the status as the provider has   *)
(* it, once no hook waits, unless the provider is a subordinate             *)
(* (RequirerEventHandlers._on_relation_changed_event).                      *)
THEOREM StatusKept == DbSpec => []StatusFollowed
<1>1. DbInit => StatusInv
  <2>1. "status" \notin DOMAIN << >>
    OBVIOUS
  <2>2. SUFFICES ASSUME DbInit PROVE StatusInv
    OBVIOUS
  <2>3. believed \in [DbUnits -> BOOLEAN] /\ DOMAIN seen = DbUnits /\ DOMAIN dbHooks = DbUnits
    BY <2>2 DEF DbInit
  <2>4. ASSUME NEW u \in DbUnits PROVE believed[u] = StatusIn(seen[u])
    <3>1. seen[u] = << >> /\ believed[u] = FALSE
      BY <2>2 DEF DbInit
    <3>2. StatusIn(seen[u]) = FALSE
      BY <2>1, <3>1 DEF StatusIn, Has
    <3>3. QED
      BY <3>1, <3>2, Zenon
  <2>5. \A u \in DbUnits : seen[u] = bag
    BY <2>2 DEF DbInit
  <2>6. QED
    BY <2>3, <2>4, <2>5, Zenon DEF StatusInv
<1>2. StatusInv => StatusFollowed
  BY DEF StatusInv, StatusFollowed
<1>3. QED
  BY <1>1, <1>2, StatusStep, PTL DEF DbSpec

-----------------------------------------------------------------------------
(* What the units have planned                                              *)

\* The secrets there are, are those the databag names, one of each group, and a
\* label is bound to a secret of its group.
SecretsInv ==
    /\ writes \in Nat
    /\ \A g \in Groups \intersect DOMAIN bag : bag[g] \in DOMAIN secrets /\ bag[g] \in {g} \X Nat
    /\ \A v \in DOMAIN secrets : \E g \in Groups \intersect DOMAIN bag : v = bag[g]

LabelsInv ==
    /\ DOMAIN secretLabel = DbUnits
    /\ \A u \in DbUnits : DOMAIN secretLabel[u] = Groups
    /\ \A u \in DbUnits, g \in Groups : secretLabel[u][g] \in ({g} \X Nat) \union {NoUnit}

Uris == [g \in Groups |-> Uri(g)]

\* A unit without a change to see reads the secrets of the databag, and without
\* a revision to see it has planned with them.
PlannedInv ==
    /\ DOMAIN connection = DbUnits /\ DOMAIN dbHooks = DbUnits
    /\ \A u \in DbUnits : "changed" \notin dbHooks[u] =>
           /\ secretLabel[u] = Uris
           /\ "secret" \notin dbHooks[u]
                 /\ Credentials \union {"endpoints"} \subseteq DOMAIN Published
              => connection[u] = Only(Published, Credentials \union {"endpoints"})

ConnectionInv == SecretsInv /\ LabelsInv /\ PlannedInv

LEMMA NoUnitIsNoSecret ==
    ASSUME SecretsInv
    PROVE  NoUnit \notin DOMAIN secrets
BY UnitAssumption DEF SecretsInv

\* A label that still leads to a secret leads to the one of the databag.
LEMMA LabelsOfBag ==
    ASSUME SecretsInv, LabelsInv, NEW u \in DbUnits
    PROVE  BoundLabel(u) = Uris
<1>1. ASSUME NEW g \in Groups, secretLabel[u][g] \in DOMAIN secrets PROVE secretLabel[u][g] = Uri(g)
  <2>1. PICK h \in Groups \intersect DOMAIN bag : secretLabel[u][g] = bag[h]
    BY <1>1 DEF SecretsInv
  <2>2. bag[h] \in {h} \X Nat /\ secretLabel[u][g] \in {g} \X Nat
    BY <1>1, <2>1, NoUnitIsNoSecret DEF SecretsInv, LabelsInv
  <2>3. h = g
    BY <2>1, <2>2
  <2>4. QED
    BY <2>1, <2>3 DEF Uri
<1>2. QED
  BY <1>1 DEF BoundLabel, Uris

LEMMA WriteKeepsSecrets ==
    ASSUME SecretsInv, NEW data, DOMAIN data \intersect Groups = {}, UpdateRelationData(data),
           writes' \in Nat
    PROVE  SecretsInv'
<1> DEFINE hidden == DOMAIN data \intersect LocalSecretFields
           groups == {Group(f) : f \in hidden}
           uri == [g \in groups |-> IF g \in DOMAIN bag THEN bag[g] ELSE <<g, writes + 1>>]
<1>1. PICK content : /\ bag' = Over(Without(data, hidden), Over(uri, bag))
                     /\ secrets' = Over(content, secrets)
                     /\ DOMAIN content = {uri[g] : g \in groups}
  <2> DEFINE of(g) == [f \in {h \in hidden : Group(h) = g} |-> data[f]]
             old(g) == IF g \in DOMAIN bag THEN secrets[bag[g]] ELSE << >>
             content == [v \in {uri[g] : g \in groups} |->
                             LET g == CHOOSE h \in groups : uri[h] = v
                             IN  Over(of(g), old(g))]
  <2>1. bag' = Over(Without(data, hidden), Over(uri, bag)) /\ secrets' = Over(content, secrets)
    BY Zenon DEF UpdateRelationData, Publish
  <2>2. DOMAIN content = {uri[g] : g \in groups}
    OBVIOUS
  <2> HIDE DEF content
  <2>3. QED
    BY <2>1, <2>2
<1>2. groups \subseteq Groups
  BY DEF Groups, Group
<1>3. DOMAIN secrets' = {uri[g] : g \in groups} \union DOMAIN secrets
  BY <1>1 DEF Over
<1>4. \A g \in groups : uri[g] \in {g} \X Nat
  BY <1>2 DEF SecretsInv
<1>5. \A g \in groups : g \in DOMAIN bag => uri[g] = bag[g]
  OBVIOUS
<1>6. DOMAIN uri = groups
  OBVIOUS
<1> HIDE DEF uri, groups
<1>7. ASSUME NEW g \in Groups
      PROVE  /\ g \in DOMAIN bag' <=> g \in groups \/ g \in DOMAIN bag
             /\ g \in groups => bag'[g] = uri[g]
             /\ g \in DOMAIN bag /\ g \notin groups => bag'[g] = bag[g]
  <2>1. g \notin DOMAIN Without(data, hidden)
    BY <1>7 DEF Without
  <2>2. QED
    BY <2>1, <1>1, <1>6 DEF Over
<1>8. ASSUME NEW g \in Groups \intersect DOMAIN bag'
      PROVE  bag'[g] \in DOMAIN secrets' /\ bag'[g] \in {g} \X Nat
  BY <1>3, <1>4, <1>7 DEF SecretsInv
<1>9. ASSUME NEW v \in DOMAIN secrets' PROVE \E g \in Groups \intersect DOMAIN bag' : v = bag'[g]
  <2>1. CASE v \in {uri[g] : g \in groups}
    BY <2>1, <1>2, <1>7
  <2>2. CASE v \in DOMAIN secrets
    <3>1. PICK g \in Groups \intersect DOMAIN bag : v = bag[g]
      BY <2>2 DEF SecretsInv
    <3>2. QED
      BY <3>1, <1>5, <1>7
  <2>3. QED
    BY <2>1, <2>2, <1>3
<1>10. QED
  BY <1>8, <1>9 DEF SecretsInv

LEMMA DeletionKeepsSecrets ==
    ASSUME SecretsInv, NEW fields, fields \intersect Groups = {}, DeleteRelationData(fields),
           writes' \in Nat
    PROVE  SecretsInv'
<1> DEFINE hidden == fields \intersect LocalSecretFields
           groups == {g \in {Group(f) : f \in hidden} \intersect DOMAIN bag :
                          fields \subseteq DOMAIN secrets[bag[g]]}
           emptied == {g \in groups : DOMAIN secrets[bag[g]] \subseteq fields}
           normal == {f \in fields : f \in hidden => Group(f) \notin groups}
<1>1. PICK shrunk : /\ bag' = Without(bag, emptied \union normal)
                    /\ secrets' = Over(shrunk, Without(secrets, {bag[g] : g \in emptied}))
                    /\ DOMAIN shrunk = {bag[g] : g \in groups \ emptied}
  <2> DEFINE shrunk == [v \in {bag[g] : g \in groups \ emptied} |-> Without(secrets[v], fields)]
  <2>1. /\ bag' = Without(bag, emptied \union normal)
        /\ secrets' = Over(shrunk, Without(secrets, {bag[g] : g \in emptied}))
    BY Zenon DEF DeleteRelationData, Publish
  <2>2. DOMAIN shrunk = {bag[g] : g \in groups \ emptied}
    OBVIOUS
  <2> HIDE DEF shrunk
  <2>3. QED
    BY <2>1, <2>2
<1>2. groups \subseteq Groups \intersect DOMAIN bag /\ emptied \subseteq groups
  BY DEF Groups, Group
<1>3. normal \intersect Groups = {}
  OBVIOUS
<1> HIDE DEF groups, emptied, normal
<1>4. \A g \in Groups : /\ g \in DOMAIN bag' <=> g \in DOMAIN bag \ emptied
                        /\ g \in DOMAIN bag' => bag'[g] = bag[g]
  BY <1>1, <1>3 DEF Without
<1>5. DOMAIN secrets' = {bag[g] : g \in groups \ emptied}
                            \union (DOMAIN secrets \ {bag[g] : g \in emptied})
  BY <1>1 DEF Over, Without
<1>6. \A g, h \in Groups \intersect DOMAIN bag : bag[g] = bag[h] => g = h
  <2> SUFFICES ASSUME NEW g \in Groups \intersect DOMAIN bag, NEW h \in Groups \intersect DOMAIN bag,
                      bag[g] = bag[h]
               PROVE  g = h
    OBVIOUS
  <2>1. bag[g] \in {g} \X Nat /\ bag[h] \in {h} \X Nat
    BY DEF SecretsInv
  <2>2. QED
    BY <2>1
<1>7. ASSUME NEW g \in Groups \intersect DOMAIN bag'
      PROVE  bag'[g] \in DOMAIN secrets' /\ bag'[g] \in {g} \X Nat
  <2>1. /\ g \in Groups \intersect DOMAIN bag /\ g \notin emptied /\ bag'[g] = bag[g]
        /\ bag[g] \in DOMAIN secrets /\ bag[g] \in {g} \X Nat
    BY <1>7, <1>4 DEF SecretsInv
  <2>2. bag[g] \notin {bag[h] : h \in emptied}
    BY <2>1, <1>2, <1>6
  <2>3. QED
    BY <2>1, <2>2, <1>5
<1>8. ASSUME NEW v \in DOMAIN secrets' PROVE \E g \in Groups \intersect DOMAIN bag' : v = bag'[g]
  <2>1. CASE v \in {bag[g] : g \in groups \ emptied}
    BY <2>1, <1>2, <1>4
  <2>2. CASE v \in DOMAIN secrets \ {bag[g] : g \in emptied}
    <3>1. PICK g \in Groups \intersect DOMAIN bag : v = bag[g]
      BY <2>2 DEF SecretsInv
    <3>2. g \notin emptied
      BY <2>2, <3>1
    <3>3. QED
      BY <3>1, <3>2, <1>4
  <2>3. QED
    BY <2>1, <2>2, <1>5
<1>9. QED
  BY <1>7, <1>8 DEF SecretsInv

LEMMA ProviderKeepsSecrets ==
    ASSUME SecretsInv, ProviderActs
    PROVE  SecretsInv'
<1>1. CASE OnRequestChanged \/ RemoteBecomesReady
  BY <1>1 DEF OnRequestChanged, RemoteBecomesReady, SecretsInv
<1>2. Writes => writes' \in Nat
  BY DEF Writes, SecretsInv
<1>3. CASE AnswerRequest
  <2>1. PICK more \in SUBSET {"endpoints"} :
          UpdateRelationData([f \in Credentials \union more |-> writes'])
    BY <1>3 DEF AnswerRequest
  <2>2. (Credentials \union more) \intersect Groups = {}
    BY DEF Credentials, Groups
  <2>3. QED
    BY <1>2, <1>3, <2>1, <2>2, WriteKeepsSecrets DEF AnswerRequest
<1>4. CASE UpdateField
  <2>1. \/ \E fields \in {Credentials, {"password"}, {"tls"}, {"endpoints"}} :
               UpdateRelationData([f \in fields |-> writes'])
        \/ UpdateRelationData([f \in {"status"} |-> 1])
        \/ UpdateRelationData([f \in {"status"} |-> 0])
    BY <1>4 DEF UpdateField
  <2>2. /\ \A fields \in {Credentials, {"password"}, {"tls"}, {"endpoints"}} :
              fields \intersect Groups = {}
        /\ {"status"} \intersect Groups = {}
    BY DEF Credentials, Groups
  <2>3. QED
    BY <1>2, <1>4, <2>1, <2>2, WriteKeepsSecrets DEF UpdateField
<1>5. CASE BecomeSubordinate
  <2>1. {"subordinated"} \intersect Groups = {}
    BY DEF Groups
  <2>2. QED
    BY <1>2, <1>5, <2>1, WriteKeepsSecrets DEF BecomeSubordinate
<1>6. CASE DeleteFields
  <2>1. PICK fields \in {Credentials, {"password"}, {"tls"}, {"status"},
                         Credentials \union {"endpoints"}} : DeleteRelationData(fields)
    BY <1>6 DEF DeleteFields
  <2>2. fields \intersect Groups = {}
    BY <2>1 DEF Credentials, Groups
  <2>3. QED
    BY <1>2, <1>6, <2>1, <2>2, DeletionKeepsSecrets DEF DeleteFields
<1>7. QED
  BY <1>1, <1>3, <1>4, <1>5, <1>6 DEF ProviderActs

\* With the databag, and the secrets it names, as they were, a reader finds what
\* it found.
LEMMA SamePublished ==
    ASSUME bag' = bag, NEW old, NEW new, old = secrets, new = secrets',
           \A g \in Groups : /\ Uri(g) \in DOMAIN old <=> Uri(g) \in DOMAIN new
                             /\ Uri(g) \in DOMAIN old => new[Uri(g)] = old[Uri(g)]
    PROVE  Published' = Published
<1> DEFINE Shared(s) == {h \in SecretFields : Uri(Group(h)) \in DOMAIN s
                                              /\ h \in DOMAIN s[Uri(Group(h))]}
           Content(s) == [f \in Shared(s) |-> s[Uri(Group(f))][f]]
<1>1. \A f \in SecretFields : Group(f) \in Groups
  BY DEF Group, Groups
<1>2. Shared(new) = Shared(old)
  BY <1>1
<1>3. \A f \in Shared(old) : new[Uri(Group(f))][f] = old[Uri(Group(f))][f]
  BY <1>1
<1>4. Content(new) = Content(old)
  BY <1>2, <1>3
<1>5. \A g : Uri(g)' = Uri(g)
  BY DEF Uri
<1>6. Published = Over(Content(old), Without(bag, Groups))
  BY <1>1 DEF Published, Visible
<1>7. Published' = Over(Content(new), Without(bag, Groups))
  BY <1>1, <1>5 DEF Published, Visible
<1>8. QED
  BY <1>4, <1>6, <1>7

\* A unit that has planned keeps its plan until it is told.
LEMMA ProviderPlans ==
    ASSUME ConnectionInv, ProviderActs
    PROVE  ConnectionInv'
<1>1. SecretsInv /\ SecretsInv' /\ LabelsInv /\ PlannedInv /\ DOMAIN dbHooks = DbUnits
  BY ProviderKeepsSecrets DEF ConnectionInv, PlannedInv
<1>2. /\ UNCHANGED <<secretLabel, connection>> /\ DOMAIN dbHooks' = DbUnits
      /\ \A u \in DbUnits : dbHooks[u] \subseteq dbHooks'[u]
  BY <1>1, ProviderNotifies DEF superVars
<1>3. ASSUME NEW u \in DbUnits, "changed" \notin dbHooks'[u]
      PROVE  bag' = bag /\ secretLabel[u] = Uris /\ Uris' = Uris
  <2>1. bag' = bag
    BY <1>1, <1>3, ProviderNotifies DEF Notify
  <2>2. secretLabel[u] = Uris
    BY <1>1, <1>2, <1>3 DEF PlannedInv
  <2>3. QED
    BY <2>1, <2>2 DEF Uris, Uri
<1>4. ASSUME NEW u \in DbUnits, "changed" \notin dbHooks'[u], "secret" \notin dbHooks'[u]
      PROVE  Published' = Published
  <2>1. \/ UNCHANGED secrets
        \/ \A g \in Groups : Uri(g) \in DOMAIN secrets /\ Uri(g) \in DOMAIN secrets'
                                => secrets'[Uri(g)] = secrets[Uri(g)]
    <3>1. CASE UNCHANGED secrets
      BY <3>1
    <3>2. CASE Notify(bag', secrets')
      <4>1. \A g \in Groups : secretLabel[u][g] \in DOMAIN secrets /\ secretLabel[u][g] \in DOMAIN secrets'
                                  => secrets'[secretLabel[u][g]] = secrets[secretLabel[u][g]]
        BY <1>4, <3>2 DEF Notify
      <4>2. \A g \in Groups : secretLabel[u][g] = Uri(g)
        BY <1>3, <1>4 DEF Uris
      <4>3. QED
        BY <4>1, <4>2
    <3>3. QED
      BY <3>1, <3>2, <1>1, <1>4, ProviderNotifies
  <2>2. \A g \in Groups : Uri(g) \in DOMAIN secrets <=> Uri(g) \in DOMAIN secrets'
    <3>1. bag' = bag
      BY <1>3, <1>4
    <3>2. \A g \in Groups \intersect DOMAIN bag : bag[g] \in DOMAIN secrets /\ bag[g] \in DOMAIN secrets'
      BY <1>1, <3>1 DEF SecretsInv
    <3>3. NoUnit \notin DOMAIN secrets /\ NoUnit \notin DOMAIN secrets'
      BY <1>1, NoUnitIsNoSecret, UnitAssumption DEF SecretsInv
    <3>4. QED
      BY <3>2, <3>3 DEF Uri
  <2>3. bag' = bag
    BY <1>3, <1>4
  <2>4. QED
    BY <2>1, <2>2, <2>3, SamePublished
<1>5. PlannedInv'
  <2>1. DOMAIN connection' = DbUnits /\ DOMAIN dbHooks' = DbUnits
    BY <1>1, <1>2 DEF PlannedInv
  <2>2. ASSUME NEW u \in DbUnits, "changed" \notin dbHooks'[u]
        PROVE  /\ secretLabel'[u] = Uris'
               /\ "secret" \notin dbHooks'[u]
                     /\ Credentials \union {"endpoints"} \subseteq DOMAIN Published'
                  => connection'[u] = Only(Published', Credentials \union {"endpoints"})
    <3>1. secretLabel'[u] = Uris'
      BY <1>2, <1>3, <2>2
    <3>2. ASSUME "secret" \notin dbHooks'[u],
                 Credentials \union {"endpoints"} \subseteq DOMAIN Published'
          PROVE  connection'[u] = Only(Published', Credentials \union {"endpoints"})
      <4>1. Published' = Published
        BY <1>4, <2>2, <3>2
      <4>2. "changed" \notin dbHooks[u] /\ "secret" \notin dbHooks[u]
        BY <1>2, <2>2, <3>2
      <4>3. connection[u] = Only(Published, Credentials \union {"endpoints"})
        BY <1>1, <3>2, <4>1, <4>2 DEF PlannedInv
      <4>4. QED
        BY <1>2, <4>1, <4>3
    <3>3. QED
      BY <3>1, <3>2
  <2>3. QED
    BY <2>1, <2>2, Zenon DEF PlannedInv
<1>6. LabelsInv'
  BY <1>1, <1>2 DEF LabelsInv
<1>7. QED
  BY <1>1, <1>5, <1>6 DEF ConnectionInv

\* The steps of Superset's units leave what is published as it is.
LEMMA SameProvider ==
    ASSUME UNCHANGED providerVars
    PROVE  Published' = Published /\ Uris' = Uris /\ (SecretsInv => SecretsInv')
<1>1. bag' = bag /\ secrets' = secrets /\ writes' = writes
  BY DEF providerVars
<1>2. Uris' = Uris
  BY <1>1 DEF Uris, Uri
<1>3. Published' = Published
  BY <1>1, SamePublished DEF Uri
<1>4. QED
  BY <1>1, <1>2, <1>3 DEF SecretsInv

LEMMA HookPlans ==
    ASSUME ConnectionInv, NEW u \in DbUnits, NEW h \in {"changed", "secret"},
           PlanConnection(u), Succeed(u, h), ~GetDbInfoRaises(u), UNCHANGED providerVars
    PROVE  ConnectionInv'
<1>1. SecretsInv /\ LabelsInv /\ PlannedInv /\ DOMAIN dbHooks = DbUnits
  BY DEF ConnectionInv, PlannedInv
<1>2. BoundLabel(u) = Uris /\ Fetched(u) = Published
  BY <1>1, LabelsOfBag DEF Fetched, Published, Uris
<1>3. /\ secretLabel' = [secretLabel EXCEPT ![u] = Uris]
      /\ connection' = [connection EXCEPT ![u] =
             IF Credentials \subseteq DOMAIN Published
             THEN Only(Published, Credentials \union {"endpoints"}) ELSE connection[u]]
  BY <1>2, Zenon DEF PlanConnection, IsResourceCreated
<1>4. /\ DOMAIN dbHooks' = DbUnits /\ \A v \in DbUnits \ {u} : dbHooks'[v] = dbHooks[v]
  BY <1>1, HooksRun
<1>5. LabelsInv'
  <2>1. DOMAIN Uris = Groups /\ \A g \in Groups : Uris[g] \in ({g} \X Nat) \union {NoUnit}
    BY <1>1 DEF Uris, Uri, SecretsInv
  <2>2. QED
    BY <1>1, <1>3, <2>1 DEF LabelsInv
<1>6. PlannedInv'
  <2>1. DOMAIN connection' = DbUnits
    BY <1>1, <1>3 DEF PlannedInv
  <2>2. ASSUME NEW v \in DbUnits, "changed" \notin dbHooks'[v]
        PROVE  /\ secretLabel'[v] = Uris
               /\ "secret" \notin dbHooks'[v]
                     /\ Credentials \union {"endpoints"} \subseteq DOMAIN Published
                  => connection'[v] = Only(Published, Credentials \union {"endpoints"})
    <3>1. CASE v = u
      BY <1>1, <1>3, <3>1 DEF LabelsInv, PlannedInv
    <3>2. CASE v # u
      <4>1. secretLabel'[v] = secretLabel[v] /\ connection'[v] = connection[v] /\ dbHooks'[v] = dbHooks[v]
        BY <1>3, <1>4, <1>1, <3>2 DEF LabelsInv, PlannedInv
      <4>2. QED
        BY <4>1, <1>1, <2>2 DEF PlannedInv
    <3>3. QED
      BY <3>1, <3>2
  <2>3. QED
    BY <2>1, <2>2, <1>4, SameProvider DEF PlannedInv
<1>7. QED
  BY <1>1, <1>5, <1>6, SameProvider DEF ConnectionInv

LEMMA ConnectionStep == ConnectionInv /\ [DbNext]_dbVars => ConnectionInv'
<1> SUFFICES ASSUME ConnectionInv, [DbNext]_dbVars PROVE ConnectionInv'
  OBVIOUS
<1>1. CASE ProviderActs
  BY <1>1, ProviderPlans
<1>2. ASSUME NEW u \in DbUnits, OnRelationChanged(u) PROVE ConnectionInv'
  BY <1>2, HookPlans DEF OnRelationChanged
<1>3. ASSUME NEW u \in DbUnits, OnDbSecretChanged(u) PROVE ConnectionInv'
  BY <1>3, HookPlans DEF OnDbSecretChanged
<1>4. ASSUME UNCHANGED providerVars, UNCHANGED <<secretLabel, connection>>,
             DOMAIN dbHooks' = DbUnits,
             \A u \in DbUnits, h \in {"changed", "secret"} : h \in dbHooks[u] => h \in dbHooks'[u]
      PROVE  ConnectionInv'
  <2>1. SecretsInv' /\ LabelsInv'
    BY <1>4, SameProvider DEF ConnectionInv, LabelsInv
  <2>2. PlannedInv'
    BY <1>4, SameProvider DEF ConnectionInv, PlannedInv
  <2>3. QED
    BY <2>1, <2>2 DEF ConnectionInv
<1>5. DOMAIN dbHooks = DbUnits
  BY DEF ConnectionInv, PlannedInv
<1>6. ASSUME NEW u \in DbUnits, OnRelationCreated(u) PROVE ConnectionInv'
  <2>1. /\ Succeed(u, "created") /\ UNCHANGED providerVars
        /\ UNCHANGED <<secretLabel, connection>>
    BY <1>6 DEF OnRelationCreated
  <2>2. QED
    BY <2>1, <1>4, <1>5, HooksRun
<1>7. ASSUME NEW u \in DbUnits, NEW h, HookFails(u, h) PROVE ConnectionInv'
  BY <1>4, <1>5, <1>7 DEF HookFails
<1>8. CASE MoveLeadership \/ UNCHANGED dbVars
  BY <1>4, <1>5, <1>8 DEF MoveLeadership, dbVars, superVars
<1>9. QED
  BY <1>1, <1>2, <1>3, <1>6, <1>7, <1>8 DEF DbNext, RunHook

(* A complete connection that is published is what a unit with no hook to   *)
(* run has planned, whatever order writes, rotations and failing hooks came *)
(* in (get_db_info, CachedSecret).                                          *)
THEOREM ConnectionFollows == DbSpec => []ConnectionCurrent
<1>1. DbInit => ConnectionInv
  <2> SUFFICES ASSUME DbInit PROVE ConnectionInv
    OBVIOUS
  <2>1. bag = << >> /\ secrets = << >> /\ writes = 0 /\ DOMAIN << >> = {}
    BY DEF DbInit
  <2>2. SecretsInv
    BY <2>1 DEF SecretsInv
  <2>3. LabelsInv
    BY DEF DbInit, LabelsInv
  <2>4. PlannedInv
    BY DEF DbInit, PlannedInv
  <2>5. QED
    BY <2>2, <2>3, <2>4 DEF ConnectionInv
<1>2. ConnectionInv => ConnectionCurrent
  BY DEF ConnectionInv, PlannedInv, ConnectionCurrent
<1>3. QED
  BY <1>1, <1>2, ConnectionStep, PTL DEF DbSpec

-----------------------------------------------------------------------------
(* Types                                                                    *)

HookKinds == {"created", "changed", "secret"}

\* What DbTypeOK adds to the invariants above.
KeysInv ==
    /\ dbLeader \in DbUnits \union {NoUnit}
    /\ request \subseteq {"requested-secrets", "database"}
    /\ DOMAIN bag \subseteq Fields \union Groups
    /\ \A v \in DOMAIN secrets : DOMAIN secrets[v] \subseteq SecretFields
    /\ dbHooks \in [DbUnits -> SUBSET HookKinds]
    /\ failed \in [DbUnits -> {"none", "changed", "secret"}]
    /\ writes \in 0 .. MaxWrites

\* Of what the provider writes and deletes, only secret fields get into secrets.
LEMMA WrittenKeys ==
    ASSUME SecretsInv, KeysInv, NEW data, DOMAIN data \subseteq Fields, UpdateRelationData(data)
    PROVE  /\ DOMAIN bag' \subseteq Fields \union Groups
           /\ \A v \in DOMAIN secrets' : DOMAIN secrets'[v] \subseteq SecretFields
           /\ Notify(bag', secrets')
<1> DEFINE hidden == DOMAIN data \intersect LocalSecretFields
           groups == {Group(f) : f \in hidden}
           uri == [g \in groups |-> IF g \in DOMAIN bag THEN bag[g] ELSE <<g, writes + 1>>]
           of(g) == [f \in {h \in hidden : Group(h) = g} |-> data[f]]
           old(g) == IF g \in DOMAIN bag THEN secrets[bag[g]] ELSE << >>
           content == [v \in {uri[g] : g \in groups} |->
                           LET g == CHOOSE h \in groups : uri[h] = v
                           IN  Over(of(g), old(g))]
<1>1. /\ bag' = Over(Without(data, hidden), Over(uri, bag))
      /\ secrets' = Over(content, secrets)
      /\ Notify(bag', secrets')
  BY Zenon DEF UpdateRelationData, Publish
<1>3. hidden \subseteq SecretFields /\ groups \subseteq Groups /\ DOMAIN uri = groups
  BY DEF LocalSecretFields, Groups, Group
<1>4. ASSUME NEW g \in groups
      PROVE  DOMAIN Over(of(g), old(g)) \subseteq SecretFields
  <2>1. DOMAIN of(g) \subseteq SecretFields
    BY <1>3
  <2>2. DOMAIN old(g) \subseteq SecretFields
    BY <1>3 DEF SecretsInv, KeysInv
  <2> HIDE DEF of, old
  <2>3. QED
    BY <2>1, <2>2 DEF Over
<1>5. ASSUME NEW v \in DOMAIN content PROVE DOMAIN content[v] \subseteq SecretFields
  <2> DEFINE g == CHOOSE h \in groups : uri[h] = v
  <2>1. \E h \in groups : uri[h] = v
    OBVIOUS
  <2>2. g \in groups
    BY <2>1
  <2>3. content[v] = Over(of(g), old(g))
    OBVIOUS
  <2> HIDE DEF g, content, of, old
  <2>4. QED
    BY <2>2, <2>3, <1>4
<1> HIDE DEF content, uri, groups
<1>6. DOMAIN bag' \subseteq Fields \union Groups
  <2>1. DOMAIN bag' = DOMAIN Without(data, hidden) \union (groups \union DOMAIN bag)
    BY <1>1, <1>3 DEF Over
  <2>2. DOMAIN Without(data, hidden) \subseteq DOMAIN data
    BY DEF Without
  <2>3. QED
    BY <2>1, <2>2, <1>3 DEF KeysInv
<1>7. \A v \in DOMAIN secrets' : DOMAIN secrets'[v] \subseteq SecretFields
  BY <1>1, <1>5 DEF Over, KeysInv
<1>8. QED
  BY <1>1, <1>6, <1>7

LEMMA LeftKeys ==
    ASSUME KeysInv, NEW fields, DeleteRelationData(fields), SecretsInv
    PROVE  /\ DOMAIN bag' \subseteq Fields \union Groups
           /\ \A v \in DOMAIN secrets' : DOMAIN secrets'[v] \subseteq SecretFields
           /\ Notify(bag', secrets')
<1> DEFINE hidden == fields \intersect LocalSecretFields
           groups == {g \in {Group(f) : f \in hidden} \intersect DOMAIN bag :
                          fields \subseteq DOMAIN secrets[bag[g]]}
           emptied == {g \in groups : DOMAIN secrets[bag[g]] \subseteq fields}
           normal == {f \in fields : f \in hidden => Group(f) \notin groups}
           shrunk == [v \in {bag[g] : g \in groups \ emptied} |-> Without(secrets[v], fields)]
           rest == Without(secrets, {bag[g] : g \in emptied})
<1>1. /\ bag' = Without(bag, emptied \union normal)
      /\ secrets' = Over(shrunk, rest)
      /\ Notify(bag', secrets')
  BY Zenon DEF DeleteRelationData, Publish
<1>2. groups \subseteq Groups \intersect DOMAIN bag
  BY DEF Groups, Group
<1>3. ASSUME NEW v \in DOMAIN shrunk PROVE DOMAIN shrunk[v] \subseteq SecretFields
  <2>1. v \in DOMAIN secrets
    BY <1>2, <1>3 DEF SecretsInv
  <2>2. shrunk[v] = Without(secrets[v], fields)
    BY <1>3
  <2>3. QED
    BY <2>1, <2>2 DEF Without, KeysInv
<1>4. ASSUME NEW v \in DOMAIN rest PROVE DOMAIN rest[v] \subseteq SecretFields
  BY <1>4 DEF Without, KeysInv
<1> HIDE DEF shrunk, rest, emptied, normal
<1>5. \A v \in DOMAIN secrets' : DOMAIN secrets'[v] \subseteq SecretFields
  BY <1>1, <1>3, <1>4 DEF Over
<1>6. QED
  BY <1>1, <1>5 DEF Without, KeysInv

LEMMA ProviderKeys ==
    ASSUME SecretsInv, KeysInv, ProviderActs
    PROVE  KeysInv'
<1> DEFINE Typed ==
        /\ DOMAIN bag' \subseteq Fields \union Groups
        /\ \A v \in DOMAIN secrets' : DOMAIN secrets'[v] \subseteq SecretFields
        /\ dbHooks' \in [DbUnits -> SUBSET HookKinds]
<1>1. Notify(bag', secrets') => dbHooks' \in [DbUnits -> SUBSET HookKinds]
  BY DEF Notify, KeysInv, HookKinds
<1>2. ASSUME NEW data, DOMAIN data \subseteq Fields, UpdateRelationData(data)
      PROVE  Typed
  BY <1>1, <1>2, WrittenKeys
<1>3. ASSUME NEW fields, DeleteRelationData(fields) PROVE Typed
  BY <1>1, <1>3, LeftKeys
<1> HIDE DEF Typed
<1>4. ASSUME Typed, Writes, UNCHANGED superVars
      PROVE  KeysInv'
  <2>1. writes' \in 0 .. MaxWrites
    BY <1>4, UnitAssumption DEF Writes, KeysInv
  <2>2. UNCHANGED <<dbLeader, request, failed>>
    BY <1>4 DEF superVars
  <2>3. QED
    BY <1>4, <2>1, <2>2 DEF KeysInv, Typed
<1>5. CASE OnRequestChanged
  BY <1>5 DEF OnRequestChanged, superVars, KeysInv
<1>6. CASE RemoteBecomesReady
  BY <1>6 DEF RemoteBecomesReady, superVars, KeysInv, HookKinds
<1>7. CASE AnswerRequest
  <2>1. PICK more \in SUBSET {"endpoints"} :
          UpdateRelationData([f \in Credentials \union more |-> writes'])
    BY <1>7 DEF AnswerRequest
  <2>2. Credentials \union more \subseteq Fields
    BY DEF Credentials, Fields, SecretFields
  <2>3. QED
    BY <1>2, <1>4, <1>7, <2>1, <2>2 DEF AnswerRequest
<1>8. CASE UpdateField
  <2>1. \/ \E fields \in {Credentials, {"password"}, {"tls"}, {"endpoints"}} :
               UpdateRelationData([f \in fields |-> writes'])
        \/ UpdateRelationData([f \in {"status"} |-> 1])
        \/ UpdateRelationData([f \in {"status"} |-> 0])
    BY <1>8 DEF UpdateField
  <2>2. /\ \A fields \in {Credentials, {"password"}, {"tls"}, {"endpoints"}} : fields \subseteq Fields
        /\ {"status"} \subseteq Fields
    BY DEF Credentials, Fields, SecretFields
  <2>3. Typed
    BY <1>2, <2>1, <2>2
  <2>4. QED
    BY <1>4, <1>8, <2>3 DEF UpdateField
<1>9. CASE BecomeSubordinate
  <2>1. {"subordinated"} \subseteq Fields
    BY DEF Fields
  <2>2. QED
    BY <1>2, <1>4, <1>9, <2>1 DEF BecomeSubordinate
<1>10. CASE DeleteFields
  BY <1>3, <1>4, <1>10 DEF DeleteFields
<1>11. QED
  BY <1>5, <1>6, <1>7, <1>8, <1>9, <1>10 DEF ProviderActs

LEMMA KeysStep == SecretsInv /\ KeysInv /\ [DbNext]_dbVars => KeysInv'
<1> SUFFICES ASSUME SecretsInv, KeysInv, [DbNext]_dbVars PROVE KeysInv'
  OBVIOUS
<1>1. CASE ProviderActs
  BY <1>1, ProviderKeys
<1>2. CASE MoveLeadership
  BY <1>2 DEF MoveLeadership, providerVars, KeysInv
<1>3. ASSUME NEW u \in DbUnits, RunHook(u) PROVE KeysInv'
  <2>1. /\ UNCHANGED <<dbLeader, bag, secrets, writes>>
        /\ request' \in {request, {"requested-secrets", "database"}}
        /\ \/ \E h \in HookKinds : Succeed(u, h)
           \/ /\ UNCHANGED dbHooks
              /\ \E h \in {"changed", "secret"} : failed' = [failed EXCEPT ![u] = h]
    <3>1. CASE OnRelationCreated(u)
      BY <3>1 DEF OnRelationCreated, providerVars, HookKinds
    <3>2. CASE OnRelationChanged(u) \/ OnDbSecretChanged(u)
      BY <3>2 DEF OnRelationChanged, OnDbSecretChanged, providerVars, HookKinds
    <3>3. CASE \E h \in {"changed", "secret"} : HookFails(u, h)
      BY <3>3 DEF HookFails, providerVars
    <3>4. QED
      BY <1>3, <3>1, <3>2, <3>3 DEF RunHook
  <2>2. dbHooks' \in [DbUnits -> SUBSET HookKinds]
    BY <2>1 DEF Succeed, KeysInv
  <2>3. failed' \in [DbUnits -> {"none", "changed", "secret"}]
    BY <2>1 DEF Succeed, KeysInv
  <2>4. QED
    BY <2>1, <2>2, <2>3 DEF KeysInv
<1>4. CASE UNCHANGED dbVars
  BY <1>4 DEF dbVars, superVars, providerVars, KeysInv
<1>5. QED
  BY <1>1, <1>2, <1>3, <1>4 DEF DbNext

\* All that holds of the relation.
DbInvs == DbInv /\ StatusInv /\ ConnectionInv /\ KeysInv

LEMMA DbStarts == DbInit \/ DbUnused => DbInvs
<1> SUFFICES ASSUME DbInit \/ DbUnused PROVE DbInvs
  OBVIOUS
<1>1. /\ bag = << >> /\ secrets = << >> /\ writes = 0 /\ request = {}
      /\ DOMAIN << >> = {} /\ seen = [u \in DbUnits |-> << >>]
      /\ believed = [u \in DbUnits |-> FALSE] /\ announced = [u \in DbUnits |-> {}]
      /\ secretLabel = [u \in DbUnits |-> [g \in Groups |-> NoUnit]]
      /\ connection = [u \in DbUnits |-> << >>] /\ failed = [u \in DbUnits |-> "none"]
      /\ dbLeader \in DbUnits \union {NoUnit}
      /\ dbHooks \in [DbUnits -> SUBSET HookKinds] /\ MaxWrites \in Nat
  BY UnitAssumption DEF DbInit, DbUnused, HookKinds
<1>2. DbInv
  BY <1>1 DEF DbInv, HiddenInv, CredentialsHidden, AnnouncedInv, AnnouncedKept
<1>3. StatusInv
  <2>1. \A u \in DbUnits : ~StatusIn(seen[u]) /\ seen[u] = bag
    BY <1>1 DEF StatusIn, Has
  <2>2. \A u \in DbUnits : StatusIn(seen[u]) = FALSE
    BY <2>1 DEF StatusIn, Has
  <2>3. \A u \in DbUnits : believed[u] = StatusIn(seen[u])
    BY <1>1, <2>2, Zenon
  <2>4. believed \in [DbUnits -> BOOLEAN] /\ DOMAIN seen = DbUnits /\ DOMAIN dbHooks = DbUnits
    BY <1>1
  <2>5. QED
    BY <2>1, <2>3, <2>4, Zenon DEF StatusInv
<1>4. ConnectionInv
  <2>1. SecretsInv
    BY <1>1 DEF SecretsInv
  <2>2. LabelsInv
    BY <1>1 DEF LabelsInv
  <2>3. Uris = [g \in Groups |-> NoUnit] /\ DOMAIN Published \intersect Credentials = {}
    BY <1>1 DEF Uris, Uri, Published, Visible, Over, Without
  <2>4. PlannedInv
    BY <1>1, <2>3 DEF PlannedInv, Credentials
  <2>5. QED
    BY <2>1, <2>2, <2>4 DEF ConnectionInv
<1>5. KeysInv
  BY <1>1 DEF KeysInv
<1>6. QED
  BY <1>2, <1>3, <1>4, <1>5 DEF DbInvs

LEMMA DbInvsStep == DbInvs /\ [DbNext]_dbVars => DbInvs'
BY DbStep, StatusStep, ConnectionStep, KeysStep DEF DbInvs, ConnectionInv

(* Every variable keeps its type: what the databag names is there, secrets  *)
(* hold secret fields only, and no hook runs that Juju does not know.       *)
THEOREM DbTypeCorrect == DbSpec => []DbTypeOK
<1>1. DbInvs => DbTypeOK
  <2> SUFFICES ASSUME DbInvs PROVE DbTypeOK
    OBVIOUS
  <2>1. \A g \in Groups \intersect DOMAIN bag : bag[g] \in DOMAIN secrets
    BY DEF DbInvs, ConnectionInv, SecretsInv
  <2>2. believed \in [DbUnits -> BOOLEAN]
    BY DEF DbInvs, StatusInv
  <2>3. announced \in [DbUnits -> SUBSET ({"secret-user"} \X (1 .. writes))]
    BY DEF DbInvs, DbInv, AnnouncedInv
  <2>4. QED
    BY <2>1, <2>2, <2>3 DEF DbInvs, KeysInv, HookKinds, DbTypeOK
<1>2. QED
  BY <1>1, DbStarts, DbInvsStep, PTL DEF DbSpec
=============================================================================
