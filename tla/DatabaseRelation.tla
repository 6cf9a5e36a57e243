--------------------------- MODULE DatabaseRelation ---------------------------
(***************************************************************************)
(* The postgresql_db relation at both ends: data_interfaces.py as Superset *)
(* (DatabaseRequires) and the database charm (DatabaseProvides) run it.    *)
(* Superset's leader asks for a database and for secrets; the provider     *)
(* publishes fields, those asked for in Juju secrets whose URIs it puts in *)
(* the databag; every unit of Superset turns the change of the databag     *)
(* into events and reads the connection.                                   *)
(*                                                                         *)
(* A value of a field is the number of the write that made it.  Juju       *)
(* commits what a hook wrote when the hook succeeds, runs relation-created *)
(* first, coalesces the hooks of one kind that wait, and retries a hook    *)
(* that failed until it succeeds.  The provider has one unit.              *)
(***************************************************************************)
EXTENDS Naturals

CONSTANTS
    DbUnits,        \* units of Superset
    NoUnit,         \* no unit leads
    MaxWrites       \* bound: changes the provider makes to what it publishes

VARIABLES
    dbLeader,       \* the unit of Superset that leads, or NoUnit
    request,        \* keys in Superset's application databag
    bag,            \* the provider's application databag: field -> value
    secrets,        \* the provider's Juju secrets: URI -> content
    secretLabel,    \* unit -> group -> URI the unit's label is bound to
    seen,           \* unit -> "data" in its databag: what it diffs against
    dbHooks,        \* unit -> hooks that wait
    failed,         \* unit -> the hook it is in error with, or "none"
    announced,      \* unit -> credentials it has emitted database_created for
    believed,       \* unit -> as it stores it: has the last status event raised the status?
    connection,     \* unit -> credentials and endpoints of its last plan
    requestSeen,    \* "data" in the provider's databag
    asked,          \* database_requested waits for the provider's charm
    remoteReady,    \* the provider's unit has announced state = ready
    writes          \* changes made so far

superVars == <<dbLeader, request, secretLabel, seen, failed, announced,
               believed, connection>>
providerVars == <<bag, secrets, requestSeen, asked, remoteReady, writes>>
dbVars == <<superVars, providerVars, dbHooks>>

SecretFields == {"username", "password", "tls"}     \* SECRET_FIELDS
Groups == {"secret-user", "secret-tls"}

ASSUME UnitAssumption == MaxWrites \in Nat /\ NoUnit \notin Groups \X Nat

Group(f) == IF f = "tls" THEN "secret-tls" ELSE "secret-user"   \* SECRET_LABEL_MAP
Credentials == {"username", "password"}
Fields == SecretFields \union {"endpoints", "status", "subordinated"}

Only(f, keys) == [k \in DOMAIN f \intersect keys |-> f[k]]
Without(f, keys) == [k \in DOMAIN f \ keys |-> f[k]]
\* dict.update: the fields of f, and those of g that f lacks.
Over(f, g) == [k \in DOMAIN f \union DOMAIN g |-> IF k \in DOMAIN f THEN f[k] ELSE g[k]]
Has(f, k, v) == k \in DOMAIN f /\ f[k] = v

-----------------------------------------------------------------------------
(* The provider: ProviderData                                               *)

\* The fields the provider keeps in secrets: those Superset asked for, unless
\* the relation started with one of them in the databag.
LocalSecretFields ==
    IF "requested-secrets" \in request /\ DOMAIN bag \intersect SecretFields = {}
    THEN SecretFields ELSE {}

\* Units whose label is bound to the secret are told of a new revision, and
\* all of them of a change of the databag.
Notify(newBag, newSecrets) ==
    dbHooks' = [u \in DbUnits |-> dbHooks[u]
        \union (IF newBag = bag THEN {} ELSE {"changed"})
        \union (IF \E g \in Groups : /\ secretLabel[u][g] \in DOMAIN secrets
                                     /\ secretLabel[u][g] \in DOMAIN newSecrets
                                     /\ newSecrets[secretLabel[u][g]] # secrets[secretLabel[u][g]]
                THEN {"secret"} ELSE {})]

Publish(newBag, newSecrets) ==
    /\ bag' = newBag /\ secrets' = newSecrets
    /\ Notify(newBag, newSecrets)

\* Mutant: data may be written before the database was asked for.
AcceptedAlways(fields) == TRUE

\* PrematureDataAccessError otherwise
Accepted(fields) == "database" \in request \/ fields \subseteq {"endpoints"}

\* update_relation_data: secret fields go to the secret of their group, which is
\* made if the databag has no URI of it; the others to the databag.
UpdateRelationData(data) ==
    LET hidden  == DOMAIN data \intersect LocalSecretFields
        groups  == {Group(f) : f \in hidden}
        uri     == [g \in groups |-> IF g \in DOMAIN bag THEN bag[g] ELSE <<g, writes + 1>>]
        of(g)   == [f \in {h \in hidden : Group(h) = g} |-> data[f]]
        old(g)  == IF g \in DOMAIN bag THEN secrets[bag[g]] ELSE << >>
        content == [v \in {uri[g] : g \in groups} |->
                        LET g == CHOOSE h \in groups : uri[h] = v
                        IN  Over(of(g), old(g))]
    IN  /\ Accepted(DOMAIN data)
        /\ Publish(Over(Without(data, hidden), Over(uri, bag)), Over(content, secrets))

\* delete_relation_data: a secret loses the fields if it has them all, and is
\* removed with its last field; what no secret lost leaves the databag.
DeleteRelationData(fields) ==
    LET hidden == fields \intersect LocalSecretFields
        groups == {g \in {Group(f) : f \in hidden} \intersect DOMAIN bag :
                       fields \subseteq DOMAIN secrets[bag[g]]}
        emptied == {g \in groups : DOMAIN secrets[bag[g]] \subseteq fields}
        shrunk == [v \in {bag[g] : g \in groups \ emptied} |-> Without(secrets[v], fields)]
        normal == {f \in fields : f \in hidden => Group(f) \notin groups}
    IN  Publish(Without(bag, emptied \union normal),
                Over(shrunk, Without(secrets, {bag[g] : g \in emptied})))

\* What a reader of the databag finds, each secret being read through uri.
Visible(uri) ==
    LET groups == {g \in Groups : uri[g] \in DOMAIN secrets}
        content == [f \in {h \in SecretFields :
                        Group(h) \in groups /\ h \in DOMAIN secrets[uri[Group(h)]]} |->
                        secrets[uri[Group(f)]][f]]
    IN  Over(content, Without(bag, Groups))

Uri(g) == IF g \in DOMAIN bag THEN bag[g] ELSE NoUnit

Published == Visible([g \in Groups |-> Uri(g)])

-----------------------------------------------------------------------------
(* Superset: RequirerData, DatabaseRequirerEventHandlers, Database          *)

\* get_secret by label, then by the URI in the databag, which binds the label
BoundLabel(u) ==
    [g \in Groups |-> IF secretLabel[u][g] \in DOMAIN secrets THEN secretLabel[u][g]
                      ELSE Uri(g)]

Fetched(u) == Visible(BoundLabel(u))

IsResourceCreated(u) == Credentials \subseteq DOMAIN Fetched(u)

\* get_db_info splits endpoints, and raises AttributeError without them.
GetDbInfoRaises(u) == IsResourceCreated(u) /\ "endpoints" \notin DOMAIN Fetched(u)

\* _update as far as the database goes: no plan without the credentials.
PlanConnection(u) ==
    /\ connection' = [connection EXCEPT ![u] =
           IF IsResourceCreated(u)
           THEN Only(Fetched(u), Credentials \union {"endpoints"}) ELSE @]
    /\ secretLabel' = [secretLabel EXCEPT ![u] = BoundLabel(u)]

\* Hook h of unit u succeeds.
Succeed(u, h) ==
    /\ failed' = [failed EXCEPT ![u] = "none"]
    /\ dbHooks' = [dbHooks EXCEPT ![u] = @ \ {h}]

Starts(u, h) ==
    /\ h \in dbHooks[u] /\ failed[u] \in {"none", h}
    /\ h # "created" => "created" \notin dbHooks[u]

\* _on_relation_created_event, of the leader only
OnRelationCreated(u) ==
    /\ Starts(u, "created")
    /\ request' = IF u = dbLeader THEN {"requested-secrets", "database"} ELSE request
    /\ Succeed(u, "created")
    /\ UNCHANGED <<dbLeader, secretLabel, seen, announced, believed, connection>>
    /\ UNCHANGED providerVars

StatusIn(data) == Has(data, "status", 1)

\* A subordinate provider is ignored until its unit is ready.
Held == "subordinated" \in DOMAIN bag /\ ~remoteReady

\* Mutant: the diff is not stored.
DiffForgotten(u) == seen[u]

\* diff: what is stored to compare the next change with
DiffStored(u) == bag

\* Mutant: the status is compared with what the diff has just stored.
StatusEventsLate(u) ==
    CASE StatusIn(bag) /\ ~StatusIn(DiffStored(u)) -> TRUE
      [] ~StatusIn(bag) /\ StatusIn(DiffStored(u)) -> FALSE
      [] OTHER -> believed[u]

\* status_raised and status_resolved: the databag against the stored data
StatusEvents(u) ==
    CASE StatusIn(bag) /\ ~StatusIn(seen[u]) -> TRUE
      [] ~StatusIn(bag) /\ StatusIn(seen[u]) -> FALSE
      [] OTHER -> believed[u]

CredentialsShared(u) ==
    LET added == DOMAIN bag \ DOMAIN seen[u]
    IN  "secret-user" \in added \/ Credentials \subseteq added

\* database_created is emitted, and the charm's handler of it runs at once.
Announces(u) == ~Held /\ CredentialsShared(u)

Announced(u) ==
    announced' = [announced EXCEPT ![u] =
        @ \union (IF Announces(u) THEN {Uri("secret-user")} ELSE {})]

\* The library's handler and then the charm's, which updates on every
\* relation-changed, whatever event the library has made of it.
OnRelationChanged(u) ==
    /\ Starts(u, "changed") /\ ~GetDbInfoRaises(u)
    /\ believed' = [believed EXCEPT ![u] = StatusEvents(u)]
    /\ seen' = IF Held THEN seen ELSE [seen EXCEPT ![u] = DiffStored(u)]
    /\ Announced(u)
    /\ PlanConnection(u)
    /\ Succeed(u, "changed")
    /\ UNCHANGED <<dbLeader, request>> /\ UNCHANGED providerVars

\* Mutant: the charm does not update either.
SecretChangedIgnored(u) ==
    /\ Starts(u, "secret")
    /\ Succeed(u, "secret")
    /\ UNCHANGED <<dbLeader, request, secretLabel, seen, announced, believed, connection>>
    /\ UNCHANGED providerVars

\* The library ignores the event; the charm updates.
OnDbSecretChanged(u) ==
    /\ Starts(u, "secret") /\ ~GetDbInfoRaises(u)
    /\ PlanConnection(u)
    /\ Succeed(u, "secret")
    /\ UNCHANGED <<dbLeader, request, seen, announced, believed>> /\ UNCHANGED providerVars

\* Nothing is kept of what a hook that raises has stored, and the unit waits for
\* its retry; but the charm's handlers have run, that of database_created being
\* the first to raise, and run again with every retry.
HookFails(u, h) ==
    /\ Starts(u, h) /\ GetDbInfoRaises(u)
    /\ failed' = [failed EXCEPT ![u] = h]
    /\ IF h = "changed" THEN Announced(u) ELSE UNCHANGED announced
    /\ UNCHANGED <<dbLeader, request, secretLabel, seen, believed, connection>>
    /\ UNCHANGED dbHooks /\ UNCHANGED providerVars

-----------------------------------------------------------------------------
(* The provider's charm, as far as the library lets it                      *)

\* DatabaseProviderEventHandlers: database_requested, once per request
OnRequestChanged ==
    /\ requestSeen # request
    /\ requestSeen' = request
    /\ asked' = (asked \/ "database" \in request \ requestSeen)
    /\ UNCHANGED <<bag, secrets, remoteReady, writes, dbHooks>>
    /\ UNCHANGED superVars

Writes == writes < MaxWrites /\ writes' = writes + 1

\* set_credentials, perhaps with set_endpoints in the same hook
AnswerRequest ==
    /\ asked /\ Writes
    /\ \E more \in SUBSET {"endpoints"} :
           UpdateRelationData([f \in Credentials \union more |-> writes'])
    /\ asked' = FALSE
    /\ UNCHANGED <<requestSeen, remoteReady>> /\ UNCHANGED superVars

\* set_credentials, a new password, set_tls, set_endpoints, raise_status
UpdateField ==
    /\ Writes
    /\ \/ \E fields \in {Credentials, {"password"}, {"tls"}, {"endpoints"}} :
              UpdateRelationData([f \in fields |-> writes'])
       \/ UpdateRelationData([f \in {"status"} |-> 1])
       \/ StatusIn(bag) /\ UpdateRelationData([f \in {"status"} |-> 0])   \* resolve_status
    /\ UNCHANGED <<requestSeen, asked, remoteReady>> /\ UNCHANGED superVars

\* set_subordinated
BecomeSubordinate ==
    /\ Writes
    /\ UpdateRelationData([f \in {"subordinated"} |-> 1])
    /\ UNCHANGED <<requestSeen, asked, remoteReady>> /\ UNCHANGED superVars

\* delete_relation_data, clear_statuses
DeleteFields ==
    /\ Writes
    /\ \E fields \in {Credentials, {"password"}, {"tls"}, {"status"},
                      Credentials \union {"endpoints"}} : DeleteRelationData(fields)
    /\ UNCHANGED <<requestSeen, asked, remoteReady>> /\ UNCHANGED superVars

\* The provider's unit writes state = ready to its own databag.
RemoteBecomesReady ==
    /\ "subordinated" \in DOMAIN bag /\ ~remoteReady
    /\ remoteReady' = TRUE
    /\ dbHooks' = [u \in DbUnits |-> dbHooks[u] \union {"changed"}]
    /\ UNCHANGED <<bag, secrets, requestSeen, asked, writes>>
    /\ UNCHANGED superVars

MoveLeadership ==
    /\ \E u \in DbUnits \union {NoUnit} : dbLeader' = u /\ u # dbLeader
    /\ UNCHANGED <<request, secretLabel, seen, failed, announced, believed, connection>>
    /\ UNCHANGED providerVars /\ UNCHANGED dbHooks

DbInit ==
    /\ dbLeader \in DbUnits
    /\ request = {} /\ bag = << >> /\ secrets = << >>
    /\ secretLabel = [u \in DbUnits |-> [g \in Groups |-> NoUnit]]
    /\ seen = [u \in DbUnits |-> << >>]
    /\ dbHooks = [u \in DbUnits |-> {"created", "changed"}]
    /\ failed = [u \in DbUnits |-> "none"]
    /\ announced = [u \in DbUnits |-> {}]
    /\ believed = [u \in DbUnits |-> FALSE]
    /\ connection = [u \in DbUnits |-> << >>]
    /\ requestSeen = {} /\ asked = FALSE /\ remoteReady = FALSE
    /\ writes = 0

RunHook(u) ==
    \/ OnRelationCreated(u) \/ OnRelationChanged(u) \/ OnDbSecretChanged(u)
    \/ \E h \in {"changed", "secret"} : HookFails(u, h)

ProviderActs ==
    \/ OnRequestChanged \/ AnswerRequest \/ UpdateField \/ BecomeSubordinate
    \/ DeleteFields \/ RemoteBecomesReady

DbNext == MoveLeadership \/ ProviderActs \/ \E u \in DbUnits : RunHook(u)

DbSpec == DbInit /\ [][DbNext]_dbVars

-----------------------------------------------------------------------------
DbTypeOK ==
    /\ dbLeader \in DbUnits \union {NoUnit}
    /\ request \subseteq {"requested-secrets", "database"}
    /\ DOMAIN bag \subseteq Fields \union Groups
    /\ \A g \in Groups \intersect DOMAIN bag : bag[g] \in DOMAIN secrets
    /\ \A v \in DOMAIN secrets : DOMAIN secrets[v] \subseteq SecretFields
    /\ dbHooks \in [DbUnits -> SUBSET {"created", "changed", "secret"}]
    /\ failed \in [DbUnits -> {"none", "changed", "secret"}]
    /\ believed \in [DbUnits -> BOOLEAN]
    /\ writes \in 0 .. MaxWrites
    /\ announced \in [DbUnits -> SUBSET ({"secret-user"} \X (1 .. writes))]

(* No credential, and no certificate, is ever in the databag in the clear,  *)
(* where anyone who sees the relation reads it: the provider can write none *)
(* before the database was asked for, and by then secrets were asked for.   *)
CredentialsHidden == DOMAIN bag \intersect SecretFields = {}

(* Credentials that a unit has announced are announced again by nothing but *)
(* the retry of the hook that announced them and failed, however many       *)
(* changes and secret revisions there are: once a hook has succeeded a      *)
(* consumer that migrates its schema on the event does not do it again.     *)
(* Not where the provider has become a subordinate before the retry, which  *)
(* then succeeds without remembering anything.                              *)
CreatedOnce ==
    \A u \in DbUnits :
        "subordinated" \notin DOMAIN bag /\ Announces(u) /\ Uri("secret-user") \in announced[u]
            => failed[u] = "changed"

(* Once a unit has no hook to run, the status events it has seen leave the  *)
(* status as the provider has it; not where the provider is a subordinate,  *)
(* whose statuses raise events before its unit is ready without being       *)
(* remembered, so that their resolution raises none.                        *)
StatusFollowed ==
    \A u \in DbUnits : dbHooks[u] = {} /\ "subordinated" \notin DOMAIN bag =>
        believed[u] = StatusIn(bag)

(* Whatever the order of the provider's writes, the rotations of its secret *)
(* and the hooks that failed for want of endpoints and were retried: once a *)
(* complete connection is published, a unit with no hook to run is planned  *)
(* with it, and with no password or endpoint of an earlier one.             *)
ConnectionCurrent ==
    \A u \in DbUnits :
        dbHooks[u] = {} /\ Credentials \union {"endpoints"} \subseteq DOMAIN Published =>
            connection[u] = Only(Published, Credentials \union {"endpoints"})

-----------------------------------------------------------------------------
\* The relation does not exist in this behaviour.
DbUnused ==
    /\ dbLeader = NoUnit /\ request = {} /\ bag = << >> /\ secrets = << >>
    /\ secretLabel = [u \in DbUnits |-> [g \in Groups |-> NoUnit]]
    /\ seen = [u \in DbUnits |-> << >>] /\ dbHooks = [u \in DbUnits |-> {}]
    /\ failed = [u \in DbUnits |-> "none"] /\ announced = [u \in DbUnits |-> {}]
    /\ believed = [u \in DbUnits |-> FALSE] /\ connection = [u \in DbUnits |-> << >>]
    /\ requestSeen = {} /\ asked = FALSE /\ remoteReady = FALSE
    /\ writes = 0
=============================================================================
