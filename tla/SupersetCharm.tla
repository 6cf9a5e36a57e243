--------------------------- MODULE SupersetCharm ---------------------------
(***************************************************************************)
(* One unit of the superset-k8s charm (src/charm.py): the hooks Juju       *)
(* dispatches to it, the Pebble plan it merges into the workload           *)
(* container, the service that runs from that plan, and the unit status.   *)
(*                                                                         *)
(* A hook sees one snapshot of the model (config, relation data, secrets), *)
(* so each handler is one action; the model changes between hooks.  What   *)
(* can fail half-way inside a hook is the sequence of Pebble calls, whose  *)
(* outcomes are separate disjuncts of Replan.  Deliveries of an event that *)
(* is already queued are merged, as Juju does.                             *)
(***************************************************************************)

CONSTANTS
    Functions,      \* charm-function values
    UiFunctions,    \* those that serve the UI (literals.UI_FUNCTIONS)
    Roles,          \* self-registration-role values
    DefaultRoles,   \* literals.DEFAULT_ROLES
    Dbs,            \* database endpoints and credentials PostgreSQL may publish
    Hosts,          \* Redis units
    SmtpContents,   \* well-formed contents of the SMTP secret
    NoPlan,         \* the container's plan has no superset layer
    NoHost,         \* Redis publishes no host, or no port
    NoSmtp,         \* no SMTP variables in the environment
    NoEvent,        \* no hook is in error
    Changes         \* kinds of change the environment makes in this model

ChangeKinds == {"function", "role", "validity", "smtp", "roles", "pg", "redis",
                "leader", "pod", "probe", "pebble", "peers", "trino", "sync",
                "restart", "early_status", "bare_image"}

ASSUME ConstantsAssumption ==
    /\ UiFunctions \subseteq Functions
    /\ DefaultRoles \subseteq Roles /\ DefaultRoles # {}
    /\ Dbs \intersect {"absent", "requested", "credentials"} = {}
    /\ SmtpContents \intersect {"revoked", "malformed", NoSmtp} = {}
    /\ NoHost \notin Hosts
    /\ Changes \subseteq ChangeKinds

Events == {"install", "pebble_ready", "config_changed", "peer_changed",
           "secret_changed", "update_status", "database", "redis", "trino"}

Statuses == {"unknown", "installing", "configuring", "replanning",
             "restarting", "down", "blocked", "active"}

\* The part of the workload's environment variables that can go stale.
Env == [function: Functions, role: Roles, db: Dbs, redis: Hosts,
        smtp: SmtpContents \union {NoSmtp}]

ASSUME NoPlanAssumption == NoPlan \notin Env /\ NoEvent \notin Events

VARIABLES
    config,     \* the application's config options
    secret,     \* the SMTP secret: "revoked", "malformed" or its content
    tracked,    \* the unit has read the SMTP secret, so Juju notifies it
    pg,         \* postgresql_db relation: "absent", "requested", "credentials"
                \* (published without an endpoint) or its data
    redis,      \* redis relation: [related, leader, units]
    dbRoles,    \* roles the metadata database returns; {} when it cannot answer
    reachable,  \* Pebble answers (container.can_connect)
    plan,       \* environment of the superset service in the plan, or NoPlan
    check,      \* the plan's "up" check: "absent", "up" or "down"
    service,    \* environment the running service was started with, or NoPlan
    ports,      \* the unit's ports are open
    status,     \* unit status
    pending,    \* events Juju has still to dispatch
    failed      \* the event whose hook is in error, or NoEvent

inputs == <<config, secret, pg, redis, dbRoles>>
workload == <<plan, check, service>>
vars == <<config, secret, tracked, pg, redis, dbRoles, reachable, plan, check,
          service, ports, status, pending, failed>>

InputsTypeOK ==
    /\ config \in [valid: BOOLEAN, function: Functions, role: Roles, smtp: BOOLEAN]
    /\ secret \in {"revoked", "malformed"} \union SmtpContents
    /\ pg \in {"absent", "requested", "credentials"} \union Dbs
    /\ redis \in [related: BOOLEAN, leader: Hosts \union {NoHost},
                  units: [Hosts -> {"out", "joined", "published"}]]
    /\ dbRoles \subseteq Roles

UnitTypeOK ==
    /\ tracked \in BOOLEAN
    /\ reachable \in BOOLEAN
    /\ plan \in Env \union {NoPlan}
    /\ check \in {"absent", "up", "down"}
    /\ service \in Env \union {NoPlan}
    /\ ports \in BOOLEAN
    /\ status \in Statuses
    /\ pending \subseteq Events
    /\ failed \in Events \union {NoEvent}

TypeOK == InputsTypeOK /\ UnitTypeOK

May(kind) == kind \in Changes

NoRedis == [related |-> FALSE, leader |-> NoHost, units |-> [h \in Hosts |-> "out"]]
FullRedis(h) == [related |-> TRUE, leader |-> NoHost,
                 units |-> [g \in Hosts |-> IF g = h THEN "published" ELSE "out"]]

\* A relation this run does not vary was established before the unit came up.
Init ==
    /\ config \in [valid: {~May("validity"), TRUE}, function: Functions,
                   role: DefaultRoles, smtp: {FALSE}]
    /\ secret = "revoked"
    /\ tracked = FALSE
    /\ pg \in IF May("pg") THEN {"absent"} ELSE Dbs
    /\ redis \in IF May("redis") THEN {NoRedis} ELSE {FullRedis(h): h \in Hosts}
    /\ dbRoles \in {{}, DefaultRoles}
    /\ reachable = FALSE
    /\ plan = NoPlan
    /\ check = "absent"
    /\ service = NoPlan
    /\ ports = FALSE
    /\ status = "unknown"
    /\ pending = {"install", "config_changed"}
    /\ failed = NoEvent

-----------------------------------------------------------------------------
(***************************************************************************)
(* What the handlers read.                                                 *)
(***************************************************************************)

\* ready_to_start: the config parses and both required relations exist.
ReadyToStart == config.valid /\ pg # "absent" /\ redis.related

JoinedUnits == {h \in Hosts: redis.units[h] # "out"}

\* get_redis_relation_data: the port, and the host unless the application names
\* its leader, come from one arbitrary unit of the relation.
RedisHost(u) ==
    IF redis.units[u] # "published" THEN NoHost
    ELSE IF redis.leader # NoHost THEN redis.leader ELSE u

RedisHosts ==
    IF JoinedUnits = {} THEN {NoHost} ELSE {RedisHost(u): u \in JoinedUnits}

\* Any role passes while the metadata database does not answer.
AnyRoleWithoutDb == IF dbRoles = {} THEN Roles ELSE dbRoles

\* An unanswered or empty role query falls back to the default roles.
AllowedRoles == IF dbRoles = {} THEN DefaultRoles ELSE dbRoles

\* The schema of the secret is not checked.
AnySmtpContent == config.smtp => secret # "revoked"

SmtpUsable == config.smtp => secret \in SmtpContents
SmtpValue == IF config.smtp THEN secret ELSE NoSmtp

\* get_db_info: the database has published its endpoint and credentials.
DbAvailable == pg \in Dbs

\* get_db_info splits the endpoints without looking whether they are there yet.
EndpointsMissing == pg = "credentials"

\* The conditions under which _create_env raises ValueError, by stage: the
\* secret is the last to be read.
SecretReached(host) == DbAvailable /\ config.role \in AllowedRoles /\ host # NoHost
EnvUsable(host) == SecretReached(host) /\ SmtpUsable

EnvFor(host) ==
    [function |-> config.function, role |-> config.role, db |-> pg,
     redis |-> host, smtp |-> SmtpValue]

-----------------------------------------------------------------------------
(***************************************************************************)
(* The end of a hook: it returns, or it raises and Juju keeps retrying it. *)
(***************************************************************************)
Return(e) ==
    /\ pending' = pending \ {e}
    /\ failed' = NoEvent

Raise(e) ==
    /\ pending' = pending
    /\ failed' = e

\* A unit in error only retries the hook that failed.  Juju raises
\* update-status periodically, when nothing else is queued; "early_status" lets
\* it also come first, for the change that reaches Juju as the hook starts.
Dispatch(e) ==
    \/ failed = e
    \/ /\ failed = NoEvent
       /\ \/ e \in pending
          \/ e = "update_status" /\ (pending = {} \/ May("early_status"))
       /\ e # "install" => "install" \notin pending

\* _get_smtp_config reads the secret as soon as the earlier stages pass.
TrackSecret(host) ==
    tracked' = (tracked \/ (SecretReached(host) /\ config.smtp /\ secret # "revoked"))

\* The check is only part of the first layer.
FirstLayerCheck(env) ==
    /\ plan' = env
    /\ check' = IF plan = NoPlan /\ env.function \in UiFunctions
                THEN "up" ELSE check

\* add_layer(combine=True): layers are merged, so the "up" check of an earlier
\* UI layer stays in the plan when the function is no longer a UI one.
AddLayer(env) ==
    /\ plan' = env
    /\ check' \in IF env.function \notin UiFunctions THEN {check}
                  ELSE {"up"} \union ({check} \ {"absent"})

\* The service is started when it does not run, and left alone when it does.
StartOnly(env) == service' = IF service = NoPlan THEN env ELSE service

\* replan restarts the services whose configuration changed.
ReplanService(env) == service' = env

\* The ports are only opened with the first layer.
OpenPortsOnce(env) ==
    ports' = (ports \/ (plan = NoPlan /\ env.function \in UiFunctions))

OpenPorts(env) == ports' = (ports \/ env.function \in UiFunctions)

\* The tail of _update.  Pebble may fail, or the hook may be killed, before the
\* layer is added; after it, with the service untouched, restarted or stopped.
\* Opened ports are only committed by a hook that returns.
Replan(e, st, env) ==
    \/ /\ AddLayer(env) /\ ReplanService(env) /\ OpenPorts(env)
       /\ status' = "replanning"
       /\ Return(e)
    \/ /\ May("pebble")
       /\ UNCHANGED <<plan, check, service, ports>>
       /\ status' = st
       /\ Raise(e)
    \/ /\ May("pebble")
       /\ AddLayer(env)
       /\ service' \in {service, env, NoPlan}
       /\ UNCHANGED ports
       /\ status' = st
       /\ Raise(e)

\* _update, called by handler e after it has set the status to st.
Update(e, st) ==
    \/ /\ ~reachable
       /\ status' = st
       /\ Return(e)
       /\ UNCHANGED <<plan, check, service, ports, tracked>>
    \/ /\ reachable /\ ~ReadyToStart
       /\ status' = "blocked"
       /\ Return(e)
       /\ UNCHANGED <<plan, check, service, ports, tracked>>
    \/ /\ reachable /\ ReadyToStart /\ EndpointsMissing
       /\ status' = st
       /\ Raise(e)
       /\ UNCHANGED <<plan, check, service, ports, tracked>>
    \/ /\ reachable /\ ReadyToStart /\ ~EndpointsMissing
       /\ \E host \in RedisHosts:
             /\ TrackSecret(host)
             /\ \/ EnvUsable(host) /\ Replan(e, st, EnvFor(host))
                \/ /\ ~EnvUsable(host)
                   /\ status' = "blocked"
                   /\ Return(e)
                   /\ UNCHANGED <<plan, check, service, ports>>

-----------------------------------------------------------------------------
(***************************************************************************)
(* The handlers.                                                           *)
(***************************************************************************)
OnInstall ==
    /\ Dispatch("install")
    /\ status' = "installing"
    /\ Return("install")
    /\ UNCHANGED <<inputs, tracked, reachable, workload, ports>>

\* Returns before ready_to_start has set the status.
SilentPebbleReady ==
    /\ Dispatch("pebble_ready")
    /\ \/ ReadyToStart /\ Update("pebble_ready", status)
       \/ /\ ~ReadyToStart
          /\ Return("pebble_ready")
          /\ UNCHANGED <<workload, ports, status, tracked>>
    /\ UNCHANGED <<inputs, reachable>>

OnPebbleReady ==
    /\ Dispatch("pebble_ready")
    /\ Update("pebble_ready", status)
    /\ UNCHANGED <<inputs, reachable>>

OnConfigChanged ==
    /\ Dispatch("config_changed")
    /\ Update("config_changed", "configuring")
    /\ UNCHANGED <<inputs, reachable>>

OnPeerRelationChanged ==
    /\ Dispatch("peer_changed")
    /\ Update("peer_changed", "configuring")
    /\ UNCHANGED <<inputs, reachable>>

\* Mutant: the service is stopped when the relation is broken.
StoppingDatabaseEvent ==
    /\ Dispatch("database")
    /\ IF pg # "absent" THEN Update("database", status)
       ELSE /\ service' = NoPlan
            /\ status' = "blocked"
            /\ Return("database")
            /\ UNCHANGED <<plan, check, ports, tracked>>
    /\ UNCHANGED <<inputs, reachable>>

\* database_created, endpoints_changed, relation-changed and relation-broken
\* of postgresql_db: every one of them only runs _update.
OnDatabaseEvent ==
    /\ Dispatch("database")
    /\ Update("database", status)
    /\ UNCHANGED <<inputs, reachable>>

\* Only reconfigures a unit that has no plan yet.
FirstRedisOnly ==
    /\ Dispatch("redis")
    /\ IF plan = NoPlan THEN Update("redis", status)
       ELSE /\ Return("redis")
            /\ UNCHANGED <<workload, ports, status, tracked>>
    /\ UNCHANGED <<inputs, reachable>>

OnRedisRelationUpdated ==
    /\ Dispatch("redis")
    /\ Update("redis", status)
    /\ UNCHANGED <<inputs, reachable>>

\* Of the catalog synchronisation only its effect on this unit is kept: the
\* leader calls ready_to_start, which may set the status, and both missing
\* endpoints and an answer of Superset that is no JSON raise out of the hook.
SyncStatus == IF ReadyToStart THEN {status} ELSE {status, "blocked"}

SyncRaises(e) ==
    /\ May("trino") /\ ReadyToStart /\ config.function \in UiFunctions
    /\ May("sync") \/ EndpointsMissing
    /\ status' = status
    /\ Raise(e)

OnTrinoRelationChanged ==
    /\ Dispatch("trino")
    /\ \/ status' \in SyncStatus /\ Return("trino")
       \/ SyncRaises("trino")
    /\ UNCHANGED <<inputs, tracked, reachable, workload, ports>>

\* The handler of the Trino relation was registered first, so a secret of
\* Trino's is synchronised before the charm's own handler runs _update.
OnSecretChanged ==
    /\ Dispatch("secret_changed")
    /\ \/ SyncRaises("secret_changed") /\ UNCHANGED <<workload, ports, tracked>>
       \/ \E st \in SyncStatus: Update("secret_changed", st)
    /\ UNCHANGED <<inputs, reachable>>

\* Looks the service up under another name.
NeverValid == FALSE

\* _validate_pebble_plan: Pebble answers and the plan has the charm's layer.
PlanValid == reachable /\ plan # NoPlan

\* A plan that holds log targets but no service has no "services" to look up
\* (KeyError).  Superset's rock brings services of its own
\* (superset_rock/rockcraft.yaml), so this takes another image.
PlanUnreadable == May("bare_image") /\ reachable /\ plan = NoPlan

\* get_check raises ModelError for a check the plan does not have.
ProbeStatus ==
    IF config.function \notin UiFunctions THEN "up" ELSE check

OnUpdateStatus ==
    /\ Dispatch("update_status")
    /\ \/ /\ SyncRaises("update_status")
          /\ UNCHANGED <<workload, ports, tracked>>
       \/ /\ ~ReadyToStart
          /\ status' = "blocked"
          /\ Return("update_status")
          /\ UNCHANGED <<workload, ports, tracked>>
       \/ /\ ReadyToStart /\ PlanUnreadable
          /\ status' = status
          /\ Raise("update_status")
          /\ UNCHANGED <<workload, ports, tracked>>
       \/ /\ ReadyToStart /\ (~PlanValid \/ May("pebble"))
          /\ Update("update_status", status)
       \/ /\ ReadyToStart /\ PlanValid
          /\ CASE ProbeStatus = "absent" ->
                     Raise("update_status") /\ status' = status
               [] ProbeStatus = "down" ->
                     Return("update_status") /\ status' = "down"
               [] ProbeStatus = "up" ->
                     Return("update_status") /\ status' = "active"
          /\ UNCHANGED <<workload, ports, tracked>>
    /\ UNCHANGED <<inputs, reachable>>

\* The restart action, which Juju also runs on a unit in error.  Pebble
\* refuses to restart a service the plan does not have; the action then fails
\* with the status already set.
RestartAction ==
    /\ May("restart")
    /\ IF reachable
       THEN /\ status' = "restarting"
            /\ service' \in IF May("pebble") THEN {plan, NoPlan} ELSE {plan}
       ELSE UNCHANGED <<status, service>>
    /\ UNCHANGED <<inputs, tracked, reachable, plan, check, ports, pending, failed>>

-----------------------------------------------------------------------------
(***************************************************************************)
(* The environment: administrators, the related applications, Kubernetes.  *)
(***************************************************************************)
Queue(e) == pending' = pending \union {e}
UnitUnchanged ==
    UNCHANGED <<reachable, plan, check, service, ports, status, failed>>

Configure ==
    /\ config' \in [valid: IF May("validity") THEN BOOLEAN ELSE {config.valid},
                    function: IF May("function") THEN Functions ELSE {config.function},
                    role: IF May("role") THEN Roles ELSE {config.role},
                    smtp: IF May("smtp") THEN BOOLEAN ELSE {FALSE}]
    /\ config' # config
    /\ Queue("config_changed")
    /\ UNCHANGED <<secret, tracked, pg, redis, dbRoles>> /\ UnitUnchanged

\* A new revision notifies the units that track the secret; granting access
\* or revoking it notifies nobody.
EditSecret ==
    /\ May("smtp")
    /\ secret' \in ({"revoked", "malformed"} \union SmtpContents) \ {secret}
    /\ IF tracked /\ "revoked" \notin {secret, secret'}
       THEN Queue("secret_changed") ELSE UNCHANGED pending
    /\ UNCHANGED <<config, tracked, pg, redis, dbRoles>> /\ UnitUnchanged

\* The metadata database becomes unreachable, returns, or gains roles.
ChangeRoles ==
    /\ May("roles")
    /\ dbRoles' \in {{}, DefaultRoles, Roles} \ {dbRoles}
    /\ UNCHANGED <<config, secret, tracked, pg, redis, pending>> /\ UnitUnchanged

ChangePg ==
    /\ May("pg")
    /\ \/ pg = "absent" /\ pg' = "requested" /\ UNCHANGED pending
       \/ pg = "requested" /\ pg' = "credentials" /\ Queue("database")
       \/ pg # "absent" /\ pg' \in Dbs \ {pg} /\ Queue("database")
       \/ pg # "absent" /\ pg' = "absent" /\ Queue("database")
    /\ UNCHANGED <<config, secret, tracked, redis, dbRoles>> /\ UnitUnchanged

\* RedisRequires emits for a unit that joins or publishes and for a broken
\* relation; nothing observes a departing unit, and a change of the
\* application's databag (leader-host) names no unit and is dropped.
ChangeRedis ==
    /\ May("redis")
    /\ \/ /\ ~redis.related
          /\ redis' = [NoRedis EXCEPT !.related = TRUE]
          /\ UNCHANGED pending
       \/ /\ redis.related
          /\ redis' = NoRedis
          /\ Queue("redis")
       \/ \E h \in Hosts:
             /\ redis.related
             /\ \/ /\ redis.units[h] = "out"
                   /\ redis' = [redis EXCEPT !.units[h] = "joined"]
                   /\ Queue("redis")
                \/ /\ redis.units[h] = "joined"
                   /\ redis' = [redis EXCEPT !.units[h] = "published"]
                   /\ Queue("redis")
                \/ /\ May("leader")
                   /\ redis.units[h] # "out"
                   /\ redis' = [redis EXCEPT !.units[h] = "out"]
                   /\ UNCHANGED pending
                \/ /\ May("leader")
                   /\ redis.units[h] = "published" /\ redis.leader # h
                   /\ redis' = [redis EXCEPT !.leader = h]
                   /\ UNCHANGED pending
    /\ UNCHANGED <<config, secret, tracked, pg, dbRoles>> /\ UnitUnchanged

ContainerReady ==
    /\ ~reachable
    /\ reachable' = TRUE
    /\ Queue("pebble_ready")
    /\ UNCHANGED <<inputs, tracked, workload, ports, status, failed>>

\* Layers added over the Pebble API die with the container.
ContainerLost ==
    /\ May("pod") /\ reachable
    /\ reachable' = FALSE
    /\ plan' = NoPlan /\ check' = "absent" /\ service' = NoPlan
    /\ UNCHANGED <<inputs, tracked, ports, status, pending, failed>>

\* The check answers only while a UI service runs.
Probe ==
    /\ May("probe") /\ check # "absent"
    /\ \/ check' = "down"
       \/ service # NoPlan /\ service.function \in UiFunctions /\ check' = "up"
    /\ check' # check
    /\ UNCHANGED <<inputs, tracked, reachable, plan, service, ports, status,
                   pending, failed>>

PeerJoins ==
    /\ May("peers") /\ Queue("peer_changed")
    /\ UNCHANGED <<inputs, tracked>> /\ UnitUnchanged

\* New catalogs, or a new revision of the credentials, which the charm's own
\* secret-changed handler gets too.
TrinoChanges ==
    /\ May("trino")
    /\ Queue("trino") \/ Queue("secret_changed")
    /\ UNCHANGED <<inputs, tracked>> /\ UnitUnchanged

Environment ==
    \/ Configure \/ EditSecret \/ ChangeRoles \/ ChangePg \/ ChangeRedis
    \/ ContainerReady \/ ContainerLost \/ Probe \/ PeerJoins \/ TrinoChanges

Handler ==
    \/ OnInstall \/ OnPebbleReady \/ OnConfigChanged \/ OnPeerRelationChanged
    \/ OnSecretChanged \/ OnUpdateStatus \/ OnDatabaseEvent
    \/ OnRedisRelationUpdated \/ OnTrinoRelationChanged

Next == Handler \/ RestartAction \/ Environment

Spec == Init /\ [][Next]_vars

(***************************************************************************)
(* Fairness: Juju dispatches every queued event and raises update-status   *)
(* for ever; Kubernetes brings a lost container back.  Administrators and  *)
(* related applications owe nothing.                                       *)
(***************************************************************************)
Fairness ==
    /\ WF_vars(OnInstall) /\ WF_vars(OnPebbleReady) /\ WF_vars(OnConfigChanged)
    /\ WF_vars(OnPeerRelationChanged) /\ WF_vars(OnSecretChanged)
    /\ WF_vars(OnDatabaseEvent) /\ WF_vars(OnRedisRelationUpdated)
    /\ WF_vars(OnTrinoRelationChanged) /\ WF_vars(OnUpdateStatus)
    /\ WF_vars(ContainerReady)

FairSpec == Spec /\ Fairness

-----------------------------------------------------------------------------
(***************************************************************************)
(* Properties.                                                             *)
(***************************************************************************)

\* The inputs are such that _update would build a layer from them.
Acceptable == ReadyToStart /\ \A host \in RedisHosts: EnvUsable(host)

\* _update would build this environment from the inputs as they are now.
BuiltNow(env) == \E host \in RedisHosts: env = EnvFor(host)
Current == BuiltNow(plan)

\* The events whose handlers end in _update, update-status aside.
Rebuilders == {"pebble_ready", "config_changed", "peer_changed",
               "secret_changed", "database", "redis"}

\* No lost wake-up: whenever the container answers and the inputs are
\* acceptable, either the plan was built from exactly these inputs or an event
\* that will rebuild it is still queued.  It is what lets update-status skip
\* _update when the plan is merely present (charm.py, _on_update_status).
NoLostChange == reachable /\ Acceptable /\ ~Current => pending # {}

\* A service that still runs an older environment is not forgotten: however
\* hooks fail between add_layer and the end of replan, get retried over other
\* inputs and give up, containers restart and the restart action interleaves,
\* it runs what the inputs ask for now, or an event that rebuilds it is queued
\* (charm.py, _update and _on_restart).
ServiceFollows ==
    reachable /\ Acceptable /\ service # NoPlan /\ ~BuiltNow(service)
        => pending \intersect Rebuilders # {}

\* A plan that serves the UI has the "up" check update-status asks for, also
\* after the function went from UI to worker and back, and after failed hooks.
UiPlanIsProbed == plan # NoPlan /\ plan.function \in UiFunctions => check # "absent"

\* A running UI service is reachable: its ports were committed by the hook
\* that started it, and a restart of the container does not lose them.
UiServicePortsOpen ==
    service # NoPlan /\ service.function \in UiFunctions => ports

\* "Status check: UP" with no service behind it lasts only until the queued
\* pebble-ready is dispatched or while the container is gone.
ActiveOutageIsTransient ==
    status = "active" /\ service = NoPlan /\ reachable => "pebble_ready" \in pending

\* While Pebble and Superset answer, a hook goes into error for two reasons
\* only: the database has published credentials without an endpoint (get_db_info),
\* or update-status asks for the check of a UI that no layer of this container
\* serves: the config says UI, the plan that runs does not (get_check).
HookErrorsExplained ==
    [][failed' \notin {failed, NoEvent} =>
          \/ EndpointsMissing
          \/ /\ failed' = "update_status"
             /\ plan # NoPlan /\ plan.function \notin UiFunctions]_vars

\* What enters the plan is complete and accepted: published credentials, a
\* Redis host, well-formed SMTP content and a role of Superset or a default.
OnlyAcceptedInputs ==
    [][plan' \notin {plan, NoPlan} =>
          /\ ReadyToStart /\ plan' \in Env
          /\ plan'.role \in DefaultRoles \union dbRoles
          /\ plan'.db = pg]_vars

\* No hook or action stops the workload: a broken relation, a rejected config
\* or a failed check changes the status only; the service goes with its
\* container.
WorkloadSurvives ==
    [][service # NoPlan /\ service' = NoPlan => ~reachable']_vars

InputsSettle == <>[][UNCHANGED inputs]_vars

\* Once the inputs stop changing and stay acceptable in a container that stays,
\* the plan ends up built from them.
Reconciles ==
    InputsSettle /\ <>[](Acceptable /\ reachable) => <>[]Current

\* Units and catalogs stop coming as well, so that the queue runs empty.
QueueSettles == <>[][~PeerJoins /\ ~TrinoChanges]_vars

\* Under the same conditions update-status reports Active again and again,
\* unless the check is down or the queue never runs empty.
ReportsActive ==
    InputsSettle /\ QueueSettles /\ <>[](Acceptable /\ reachable /\ check # "down")
        => []<>(status = "active")

(***************************************************************************)
(* What the documentation says and the code does not do; refuted by a run  *)
(* of its own.                                                             *)
(***************************************************************************)

\* config.yaml: charm-function is the function "you want the charm to fulfill".
\* A rejected change from worker to UI puts update-status in error, and the
\* correction of the config is then never dispatched.
FunctionFulfilled ==
    InputsSettle /\ <>[](Acceptable /\ reachable)
        => <>[](plan # NoPlan /\ plan.function = config.function)
=============================================================================
