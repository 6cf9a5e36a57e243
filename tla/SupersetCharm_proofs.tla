------------------------ MODULE SupersetCharm_proofs ------------------------
(***************************************************************************)
(* Theorems about one unit of the charm, for every choice of functions,    *)
(* roles, databases, Redis units and secrets.                              *)
(*                                                                         *)
(* Every handler but three ends in _update, so the proofs first reduce     *)
(* _update to three outcomes (UpdateOutcome): it gives up, it raises over  *)
(* missing endpoints, or it replans the layer built from one acceptable    *)
(* reading of the inputs.                                                  *)
(***************************************************************************)
EXTENDS SupersetCharm, TLAPS

USE ConstantsAssumption, NoPlanAssumption

-----------------------------------------------------------------------------
(***************************************************************************)
(* What the handlers read.                                                 *)
(***************************************************************************)

\* The reading of the Redis relation is always defined.
LEMMA RedisHostsType ==
    ASSUME TypeOK
    PROVE  RedisHosts # {} /\ RedisHosts \subseteq Hosts \union {NoHost}
<1>1. ASSUME NEW u \in Hosts
      PROVE  RedisHost(u) \in Hosts \union {NoHost}
  BY <1>1 DEF TypeOK, InputsTypeOK, RedisHost
<1>2. JoinedUnits \subseteq Hosts
  BY DEF JoinedUnits
<1>3. CASE JoinedUnits = {}
  BY <1>3 DEF RedisHosts
<1>4. CASE JoinedUnits # {}
  BY <1>1, <1>2, <1>4 DEF RedisHosts
<1>5. QED
  BY <1>3, <1>4

\* A layer is built from complete inputs only (_create_env).
LEMMA EnvForType ==
    ASSUME TypeOK, NEW host \in RedisHosts, EnvUsable(host)
    PROVE  /\ EnvFor(host) \in Env
           /\ EnvFor(host).db = pg
           /\ EnvFor(host).role \in DefaultRoles \union dbRoles
           /\ EnvFor(host).function = config.function
<1>1. host \in Hosts
  BY RedisHostsType DEF EnvUsable, SecretReached
<1>2. /\ pg \in Dbs
      /\ config.role \in AllowedRoles
  BY DEF EnvUsable, SecretReached, DbAvailable
<1>3. config.function \in Functions /\ config.role \in Roles /\ config.smtp \in BOOLEAN
  BY DEF TypeOK, InputsTypeOK
<1>4. SmtpValue \in SmtpContents \union {NoSmtp}
  BY DEF EnvUsable, SmtpUsable, SmtpValue
<1>5. QED
  BY <1>1, <1>2, <1>3, <1>4 DEF EnvFor, Env, AllowedRoles

\* A step that changes no input reads the same Redis hosts after it.
LEMMA SameReading ==
    ASSUME UNCHANGED inputs
    PROVE  /\ RedisHosts' = RedisHosts
           /\ ReadyToStart' = ReadyToStart
           /\ \A host: EnvUsable(host)' = EnvUsable(host)
           /\ \A host: EnvFor(host)' = EnvFor(host)
<1> USE DEF inputs
<1>1. JoinedUnits' = JoinedUnits /\ \A u: RedisHost(u)' = RedisHost(u)
  BY DEF JoinedUnits, RedisHost
<1>2. RedisHosts' = RedisHosts
  BY <1>1 DEF RedisHosts
<1>3. ReadyToStart' = ReadyToStart
  BY DEF ReadyToStart
<1>4. \A host: EnvUsable(host)' = EnvUsable(host)
  BY DEF EnvUsable, SecretReached, DbAvailable, AllowedRoles, SmtpUsable
<1>5. \A host: EnvFor(host)' = EnvFor(host)
  BY DEF EnvFor, SmtpValue
<1>6. QED
  BY <1>2, <1>3, <1>4, <1>5

-----------------------------------------------------------------------------
(***************************************************************************)
(* The outcomes of _update.                                                *)
(***************************************************************************)

\* Handler e gives up: nothing of the workload changes, and the container does
\* not answer or the unit is Blocked over inputs that are not acceptable.
GivesUp(e, st) ==
    /\ UNCHANGED <<plan, check, service, ports>>
    /\ Return(e)
    /\ \/ ~reachable /\ status' = st
       \/ ~Acceptable /\ status' = "blocked"

\* Handler e fails over a database without endpoints: nothing changes.
FailsUnread(e, st) ==
    /\ EndpointsMissing
    /\ UNCHANGED <<plan, check, service, ports>>
    /\ status' = st
    /\ Raise(e)

\* Handler e replans the layer of an acceptable reading of the inputs.
Replans(e, st) ==
    /\ reachable /\ ReadyToStart
    /\ \E host \in RedisHosts: EnvUsable(host) /\ Replan(e, st, EnvFor(host))

LEMMA UpdateOutcome ==
    ASSUME TypeOK, NEW e, NEW st, Update(e, st)
    PROVE  /\ tracked' \in BOOLEAN
           /\ GivesUp(e, st) \/ FailsUnread(e, st) \/ Replans(e, st)
<1>1. CASE ~reachable
  BY <1>1 DEF Update, GivesUp, TypeOK, UnitTypeOK
<1>2. CASE reachable /\ ~ReadyToStart
  BY <1>2 DEF Update, GivesUp, TypeOK, UnitTypeOK, Acceptable
<1>3. CASE reachable /\ ReadyToStart /\ EndpointsMissing
  BY <1>3 DEF Update, FailsUnread, TypeOK, UnitTypeOK
<1>4. CASE reachable /\ ReadyToStart /\ ~EndpointsMissing
  <2>1. PICK host \in RedisHosts:
           /\ TrackSecret(host)
           /\ \/ EnvUsable(host) /\ Replan(e, st, EnvFor(host))
              \/ /\ ~EnvUsable(host)
                 /\ status' = "blocked"
                 /\ Return(e)
                 /\ UNCHANGED <<plan, check, service, ports>>
    BY <1>4 DEF Update
  <2>2. tracked' \in BOOLEAN
    BY <2>1 DEF TrackSecret
  <2>3. CASE EnvUsable(host)
    BY <1>4, <2>1, <2>2, <2>3 DEF Replans
  <2>4. CASE ~EnvUsable(host)
    BY <1>4, <2>1, <2>2, <2>4 DEF GivesUp, Acceptable
  <2>5. QED
    BY <2>3, <2>4
<1>5. QED
  BY <1>1, <1>2, <1>3, <1>4

Rebuild(e, st) ==
    /\ Dispatch(e)
    /\ Update(e, st)
    /\ UNCHANGED <<inputs, reachable>>

\* The synchronisation raises before the charm's own handler has run.
SecretSyncFails ==
    /\ Dispatch("secret_changed")
    /\ SyncRaises("secret_changed")
    /\ UNCHANGED <<inputs, reachable, workload, ports, tracked>>

LEMMA HandlerCases ==
    ASSUME TypeOK, Handler
    PROVE  \/ \E e \in Rebuilders, st \in Statuses:
                 Rebuild(e, st) /\ st \in {status, "configuring", "blocked"}
           \/ OnInstall \/ OnTrinoRelationChanged \/ OnUpdateStatus
           \/ SecretSyncFails
<1>1. status \in Statuses /\ "configuring" \in Statuses /\ "blocked" \in Statuses
  BY DEF TypeOK, UnitTypeOK, Statuses
<1>2. CASE OnPebbleReady
  BY <1>1, <1>2 DEF OnPebbleReady, Rebuild, Rebuilders
<1>3. CASE OnConfigChanged
  BY <1>1, <1>3 DEF OnConfigChanged, Rebuild, Rebuilders
<1>4. CASE OnPeerRelationChanged
  BY <1>1, <1>4 DEF OnPeerRelationChanged, Rebuild, Rebuilders
<1>5. CASE OnSecretChanged
  BY <1>1, <1>5 DEF OnSecretChanged, SecretSyncFails, SyncStatus, Rebuild, Rebuilders
<1>6. CASE OnDatabaseEvent
  BY <1>1, <1>6 DEF OnDatabaseEvent, Rebuild, Rebuilders
<1>7. CASE OnRedisRelationUpdated
  BY <1>1, <1>7 DEF OnRedisRelationUpdated, Rebuild, Rebuilders
<1>8. QED
  BY <1>2, <1>3, <1>4, <1>5, <1>6, <1>7 DEF Handler

-----------------------------------------------------------------------------
(***************************************************************************)
(* Type correctness.                                                       *)
(***************************************************************************)
LEMMA ReplanTypeOK ==
    ASSUME TypeOK, NEW e \in Events, NEW st \in Statuses, NEW env \in Env,
           Replan(e, st, env)
    PROVE  /\ plan' \in Env \union {NoPlan} /\ service' \in Env \union {NoPlan}
           /\ check' \in {"absent", "up", "down"} /\ ports' \in BOOLEAN
           /\ status' \in Statuses
           /\ pending' \subseteq Events /\ failed' \in Events \union {NoEvent}
BY DEF TypeOK, UnitTypeOK, Replan, AddLayer, ReplanService, OpenPorts, Return, Raise, Statuses

LEMMA UpdateTypeOK ==
    ASSUME TypeOK, NEW e \in Events, NEW st \in Statuses, Update(e, st),
           UNCHANGED <<inputs, reachable>>
    PROVE  TypeOK'
<1>1. tracked' \in BOOLEAN /\ (GivesUp(e, st) \/ FailsUnread(e, st) \/ Replans(e, st))
  BY UpdateOutcome
<1>2. /\ plan' \in Env \union {NoPlan} /\ service' \in Env \union {NoPlan}
      /\ check' \in {"absent", "up", "down"} /\ ports' \in BOOLEAN
      /\ status' \in Statuses
      /\ pending' \subseteq Events /\ failed' \in Events \union {NoEvent}
  <2>1. CASE GivesUp(e, st)
    BY <2>1 DEF GivesUp, Return, TypeOK, UnitTypeOK, Statuses
  <2>2. CASE Replans(e, st)
    <3>1. PICK host \in RedisHosts: EnvUsable(host) /\ Replan(e, st, EnvFor(host))
      BY <2>2 DEF Replans
    <3>2. EnvFor(host) \in Env
      BY <3>1, EnvForType
    <3>3. QED
      BY <3>1, <3>2, ReplanTypeOK
  <2>3. CASE FailsUnread(e, st)
    BY <2>3 DEF FailsUnread, Raise, TypeOK, UnitTypeOK, Statuses
  <2>4. QED
    BY <1>1, <2>1, <2>2, <2>3
<1>3. QED
  BY <1>1, <1>2 DEF TypeOK, InputsTypeOK, UnitTypeOK, inputs

LEMMA InputsKept ==
    ASSUME InputsTypeOK, UNCHANGED inputs
    PROVE  InputsTypeOK'
BY DEF InputsTypeOK, inputs

LEMMA HandlerTypeOK ==
    ASSUME TypeOK, Handler
    PROVE  TypeOK'
<1>1. ASSUME NEW e \in Rebuilders, NEW st \in Statuses, Rebuild(e, st)
      PROVE  TypeOK'
  BY <1>1, UpdateTypeOK DEF Rebuild, Rebuilders, Events
<1>2. InputsTypeOK /\ UnitTypeOK
  BY DEF TypeOK
<1>3. CASE OnInstall
  <2>1. UnitTypeOK'
    BY <1>2, <1>3 DEF OnInstall, workload, Return, Statuses, UnitTypeOK
  <2>2. UNCHANGED inputs
    BY <1>3 DEF OnInstall
  <2>3. QED
    BY <1>2, <2>1, <2>2, InputsKept DEF TypeOK
<1>4. CASE OnTrinoRelationChanged
  <2>1. UnitTypeOK'
    BY <1>2, <1>4 DEF OnTrinoRelationChanged, SyncRaises, SyncStatus, workload, Return,
                      Raise, Statuses, Events, UnitTypeOK
  <2>2. UNCHANGED inputs
    BY <1>4 DEF OnTrinoRelationChanged
  <2>3. QED
    BY <1>2, <2>1, <2>2, InputsKept DEF TypeOK
<1>5. CASE OnUpdateStatus
  <2>1. UNCHANGED <<inputs, reachable>>
    BY <1>5 DEF OnUpdateStatus
  <2>2. CASE Update("update_status", status)
    BY <2>1, <2>2, UpdateTypeOK DEF TypeOK, UnitTypeOK, Events
  <2>3. CASE ~Update("update_status", status)
    <3>1. UNCHANGED <<workload, ports, tracked>>
      BY <1>5, <2>3 DEF OnUpdateStatus
    <3>2. status' \in {status, "blocked", "down", "active"}
      BY <1>5, <2>3 DEF OnUpdateStatus, SyncRaises, ProbeStatus, UnitTypeOK, TypeOK
    <3>3. Return("update_status") \/ Raise("update_status")
      BY <1>5, <2>3 DEF OnUpdateStatus, SyncRaises, ProbeStatus, UnitTypeOK, TypeOK
    <3>4. UnitTypeOK'
      BY <1>2, <2>1, <3>1, <3>2, <3>3 DEF UnitTypeOK, workload, Return, Raise,
                                          Statuses, Events
    <3>5. QED
      BY <1>2, <2>1, <3>4, InputsKept DEF TypeOK
  <2>4. QED
    BY <2>2, <2>3
<1>6. CASE SecretSyncFails
  <2>1. UnitTypeOK'
    BY <1>2, <1>6 DEF SecretSyncFails, SyncRaises, workload, Raise, Events, UnitTypeOK
  <2>2. UNCHANGED inputs
    BY <1>6 DEF SecretSyncFails
  <2>3. QED
    BY <1>2, <2>1, <2>2, InputsKept DEF TypeOK
<1>7. QED
  BY <1>1, <1>3, <1>4, <1>5, <1>6, HandlerCases

LEMMA EnvironmentTypeOK ==
    ASSUME TypeOK, Environment
    PROVE  TypeOK'
<1>1. InputsTypeOK /\ UnitTypeOK
  BY DEF TypeOK
<1>2. InputsTypeOK'
  <2> USE <1>1 DEF InputsTypeOK
  <2>1. CASE Configure
    BY <2>1 DEF Configure
  <2>2. CASE EditSecret
    BY <2>2 DEF EditSecret
  <2>3. CASE ChangeRoles
    BY <2>3 DEF ChangeRoles
  <2>4. CASE ChangePg
    BY <2>4 DEF ChangePg
  <2>5. CASE ChangeRedis
    <3>1. UNCHANGED <<config, secret, pg, dbRoles>>
      BY <2>5 DEF ChangeRedis
    <3> DEFINE RedisType ==
          [related: BOOLEAN, leader: Hosts \union {NoHost},
           units: [Hosts -> {"out", "joined", "published"}]]
    <3>2. NoRedis \in RedisType
      BY DEF NoRedis
    <3>3. [NoRedis EXCEPT !.related = TRUE] \in RedisType
      BY DEF NoRedis
    <3>4. ASSUME NEW h \in Hosts, NEW state \in {"out", "joined", "published"}
          PROVE  [redis EXCEPT !.units[h] = state] \in RedisType
      OBVIOUS
    <3>5. ASSUME NEW h \in Hosts
          PROVE  [redis EXCEPT !.leader = h] \in RedisType
      OBVIOUS
    <3>6. redis' \in RedisType
      BY <2>5, <3>2, <3>3, <3>4, <3>5 DEF ChangeRedis
    <3>7. QED
      BY <3>1, <3>6
  <2>6. CASE UNCHANGED inputs
    BY <2>6, InputsKept
  <2>7. QED
    BY <2>1, <2>2, <2>3, <2>4, <2>5, <2>6
       DEF Environment, ContainerReady, ContainerLost, Probe, PeerJoins, TrinoChanges
<1>3. UnitTypeOK'
  <2>1. ASSUME UnitUnchanged, tracked' = tracked,
               pending' = pending \/ \E e \in Events: Queue(e)
        PROVE  UnitTypeOK'
    BY <1>1, <2>1 DEF UnitUnchanged, UnitTypeOK, Queue
  <2>2. CASE Configure \/ EditSecret \/ ChangeRoles \/ PeerJoins \/ TrinoChanges
    BY <2>1, <2>2 DEF Configure, EditSecret, ChangeRoles, PeerJoins, TrinoChanges, Events
  <2>3. CASE ChangePg \/ ChangeRedis
    BY <2>1, <2>3 DEF ChangePg, ChangeRedis, Events
  <2>4. CASE ContainerReady
    BY <1>1, <2>4 DEF ContainerReady, UnitTypeOK, Queue, workload, Events
  <2>5. CASE ContainerLost
    BY <1>1, <2>5 DEF ContainerLost, UnitTypeOK
  <2>6. CASE Probe
    BY <1>1, <2>6 DEF Probe, UnitTypeOK
  <2>7. QED
    BY <2>2, <2>3, <2>4, <2>5, <2>6 DEF Environment
<1>4. QED
  BY <1>2, <1>3 DEF TypeOK

\* Every variable keeps its type: in particular, whatever enters the plan is a
\* complete environment.
THEOREM TypeCorrect == Spec => []TypeOK
<1>1. Init => TypeOK
  <2> SUFFICES ASSUME Init PROVE InputsTypeOK /\ UnitTypeOK
    BY DEF TypeOK
  <2>1. config \in [valid: BOOLEAN, function: Functions, role: Roles, smtp: BOOLEAN]
    BY DEF Init, May
  <2>2. NoRedis \in [related: BOOLEAN, leader: Hosts \union {NoHost},
                     units: [Hosts -> {"out", "joined", "published"}]]
    BY DEF NoRedis
  <2>3. ASSUME NEW h \in Hosts
        PROVE  FullRedis(h) \in [related: BOOLEAN, leader: Hosts \union {NoHost},
                                 units: [Hosts -> {"out", "joined", "published"}]]
    BY DEF FullRedis
  <2>4. InputsTypeOK
    BY <2>1, <2>2, <2>3 DEF Init, InputsTypeOK
  <2>5. UnitTypeOK
    BY DEF Init, UnitTypeOK, Statuses, Events
  <2>6. QED
    BY <2>4, <2>5
<1>2. TypeOK /\ [Next]_vars => TypeOK'
  <2> SUFFICES ASSUME TypeOK, [Next]_vars
               PROVE  TypeOK'
    OBVIOUS
  <2>1. CASE Handler
    BY <2>1, HandlerTypeOK
  <2>2. CASE RestartAction
    <3>1. UnitTypeOK'
      BY <2>2 DEF TypeOK, RestartAction, UnitTypeOK, Statuses
    <3>2. QED
      BY <2>2, <3>1, InputsKept DEF TypeOK, RestartAction
  <2>3. CASE Environment
    BY <2>3, EnvironmentTypeOK
  <2>4. CASE UNCHANGED vars
    BY <2>4 DEF vars, inputs, TypeOK, InputsTypeOK, UnitTypeOK
  <2>5. QED
    BY <2>1, <2>2, <2>3, <2>4 DEF Next
<1>3. QED
  BY <1>1, <1>2, PTL DEF Spec

-----------------------------------------------------------------------------
(***************************************************************************)
(* The workload.                                                           *)
(***************************************************************************)

\* Only these steps touch the plan, the check, the service or the ports.
LEMMA WorkloadSteps ==
    ASSUME TypeOK, [Next]_vars
    PROVE  \/ UNCHANGED <<workload, ports>>
           \/ RestartAction \/ ContainerLost \/ Probe
           \/ \E e \in Events, st \in Statuses: Rebuild(e, st) /\ Replans(e, st)
<1>1. ASSUME NEW e \in Events, NEW st \in Statuses, Rebuild(e, st)
      PROVE  \/ UNCHANGED <<workload, ports>>
             \/ Rebuild(e, st) /\ Replans(e, st)
  <2>1. GivesUp(e, st) \/ FailsUnread(e, st) \/ Replans(e, st)
    BY <1>1, UpdateOutcome DEF Rebuild
  <2>2. QED
    BY <1>1, <2>1 DEF GivesUp, FailsUnread, workload
<1>2. CASE Handler
  <2>1. ASSUME NEW e \in Rebuilders, NEW st \in Statuses, Rebuild(e, st)
        PROVE  \/ UNCHANGED <<workload, ports>>
               \/ \E f \in Events, s \in Statuses: Rebuild(f, s) /\ Replans(f, s)
    <3>1. e \in Events
      BY DEF Rebuilders, Events
    <3>2. QED
      BY <1>1, <2>1, <3>1
  <2>2. CASE OnInstall
    BY <2>2 DEF OnInstall
  <2>3. CASE OnTrinoRelationChanged
    BY <2>3 DEF OnTrinoRelationChanged
  <2>4. CASE OnUpdateStatus
    <3>1. CASE Update("update_status", status)
      <4>1. "update_status" \in Events /\ status \in Statuses
        BY DEF TypeOK, UnitTypeOK, Events
      <4>2. Rebuild("update_status", status)
        BY <2>4, <3>1 DEF OnUpdateStatus, Rebuild
      <4>3. QED
        BY <1>1, <4>1, <4>2
    <3>2. CASE ~Update("update_status", status)
      BY <2>4, <3>2 DEF OnUpdateStatus
    <3>3. QED
      BY <3>1, <3>2
  <2>5. CASE SecretSyncFails
    BY <2>5 DEF SecretSyncFails
  <2>6. QED
    BY <1>2, <2>1, <2>2, <2>3, <2>4, <2>5, HandlerCases
<1>3. CASE Environment
  <2>1. CASE Configure \/ EditSecret \/ ChangeRoles \/ PeerJoins \/ TrinoChanges
    BY <2>1 DEF Configure, EditSecret, ChangeRoles, PeerJoins, TrinoChanges,
                UnitUnchanged, workload
  <2>2. CASE ChangePg \/ ChangeRedis \/ ContainerReady
    BY <2>2 DEF ChangePg, ChangeRedis, ContainerReady, UnitUnchanged, workload
  <2>3. QED
    BY <1>3, <2>1, <2>2 DEF Environment
<1>4. CASE UNCHANGED vars
  BY <1>4 DEF vars, workload
<1>5. QED
  BY <1>2, <1>3, <1>4 DEF Next

\* What a replanned layer leaves behind, whichever way its Pebble calls end.
LEMMA ReplanEffect ==
    ASSUME TypeOK, NEW e, NEW st, Replans(e, st)
    PROVE  \/ UNCHANGED <<workload, ports>>
           \/ /\ plan' \in Env /\ service' \in {service, plan', NoPlan}
              /\ plan'.function \in UiFunctions => check' # "absent"
              /\ "pebble" \notin Changes =>
                    /\ service' = plan'
                    /\ plan'.function \in UiFunctions => ports'
                    /\ ports => ports'
                    /\ status' = "replanning"
                    /\ Return(e)
<1>1. PICK host \in RedisHosts: EnvUsable(host) /\ Replan(e, st, EnvFor(host))
  BY DEF Replans
<1>2. EnvFor(host) \in Env
  BY <1>1, EnvForType
<1>3. CASE AddLayer(EnvFor(host)) /\ ReplanService(EnvFor(host)) /\ OpenPorts(EnvFor(host))
           /\ status' = "replanning" /\ Return(e)
  BY <1>2, <1>3 DEF AddLayer, ReplanService, OpenPorts
<1>4. CASE May("pebble") /\ UNCHANGED <<plan, check, service, ports>>
  BY <1>4 DEF workload
<1>5. CASE /\ May("pebble") /\ AddLayer(EnvFor(host))
           /\ service' \in {service, EnvFor(host), NoPlan}
  BY <1>2, <1>5 DEF AddLayer, May
<1>6. QED
  BY <1>1, <1>3, <1>4, <1>5 DEF Replan

\* update-status always finds the check of a UI plan, however Pebble's calls
\* fail and whatever the function was before (charm.py, _update).
THEOREM UiPlanProbed == Spec => []UiPlanIsProbed
<1> USE DEF UiPlanIsProbed
<1>1. Init => UiPlanIsProbed
  BY DEF Init
<1>2. TypeOK /\ UiPlanIsProbed /\ [Next]_vars => UiPlanIsProbed'
  <2> SUFFICES ASSUME TypeOK, UiPlanIsProbed, [Next]_vars
               PROVE  UiPlanIsProbed'
    OBVIOUS
  <2>1. CASE UNCHANGED <<workload, ports>>
    BY <2>1 DEF workload
  <2>2. CASE RestartAction
    BY <2>2 DEF RestartAction
  <2>3. CASE ContainerLost
    BY <2>3 DEF ContainerLost
  <2>4. CASE Probe
    BY <2>4 DEF Probe
  <2>5. ASSUME NEW e \in Events, NEW st \in Statuses, Rebuild(e, st), Replans(e, st)
        PROVE  UiPlanIsProbed'
    BY <2>5, ReplanEffect DEF workload
  <2>6. QED
    BY <2>1, <2>2, <2>3, <2>4, <2>5, WorkloadSteps
<1>3. QED
  BY <1>1, <1>2, TypeCorrect, PTL DEF Spec

\* While Pebble's calls succeed the service follows the plan exactly, and the
\* ports of a UI plan are open.
PebbleInv ==
    /\ service = plan
    /\ plan # NoPlan /\ plan.function \in UiFunctions => ports

LEMMA PebbleInvariant ==
    ASSUME "pebble" \notin Changes
    PROVE  Spec => []PebbleInv
<1>1. Init => PebbleInv
  BY DEF Init, PebbleInv
<1>2. TypeOK /\ PebbleInv /\ [Next]_vars => PebbleInv'
  <2> SUFFICES ASSUME TypeOK, PebbleInv, [Next]_vars
               PROVE  PebbleInv'
    OBVIOUS
  <2> USE DEF PebbleInv
  <2>1. CASE UNCHANGED <<workload, ports>>
    BY <2>1 DEF workload
  <2>2. CASE RestartAction
    BY <2>2 DEF RestartAction, May
  <2>3. CASE ContainerLost
    BY <2>3 DEF ContainerLost
  <2>4. CASE Probe
    BY <2>4 DEF Probe
  <2>5. ASSUME NEW e \in Events, NEW st \in Statuses, Rebuild(e, st), Replans(e, st)
        PROVE  PebbleInv'
    BY <2>5, ReplanEffect DEF workload
  <2>6. QED
    BY <2>1, <2>2, <2>3, <2>4, <2>5, WorkloadSteps
<1>3. QED
  BY <1>1, <1>2, TypeCorrect, PTL DEF Spec

\* A running UI service is reachable through the ports its hook opened.
THEOREM PortsOpen ==
    ASSUME "pebble" \notin Changes
    PROVE  Spec => []UiServicePortsOpen
<1>1. PebbleInv => UiServicePortsOpen
  BY DEF PebbleInv, UiServicePortsOpen
<1>2. QED
  BY <1>1, PebbleInvariant, PTL

\* No hook and no action stops the workload (_update leaves it alone when it
\* gives up, whatever relation or secret is gone).
THEOREM Survival ==
    ASSUME "pebble" \notin Changes
    PROVE  Spec => WorkloadSurvives
<1>1. TypeOK /\ PebbleInv /\ [Next]_vars
        => [service # NoPlan /\ service' = NoPlan => ~reachable']_vars
  <2> SUFFICES ASSUME TypeOK, PebbleInv, [Next]_vars, service # NoPlan, service' = NoPlan
               PROVE  ~reachable'
    OBVIOUS
  <2>1. CASE UNCHANGED <<workload, ports>>
    BY <2>1 DEF workload
  <2>2. CASE RestartAction
    BY <2>2 DEF RestartAction, May, PebbleInv
  <2>3. CASE ContainerLost
    BY <2>3 DEF ContainerLost
  <2>4. CASE Probe
    BY <2>4 DEF Probe
  <2>5. ASSUME NEW e \in Events, NEW st \in Statuses, Rebuild(e, st), Replans(e, st)
        PROVE  FALSE
    BY <2>5, ReplanEffect DEF workload
  <2>6. QED
    BY <2>1, <2>2, <2>3, <2>4, <2>5, WorkloadSteps
<1>2. QED
  BY <1>1, TypeCorrect, PebbleInvariant, PTL DEF Spec, WorkloadSurvives

\* What enters the plan is complete and accepted, whatever changes between two
\* hooks (_create_env raises before anything is merged).
THEOREM AcceptedInputs == Spec => OnlyAcceptedInputs
<1>1. TypeOK /\ [Next]_vars
        => [plan' \notin {plan, NoPlan} =>
              /\ ReadyToStart /\ plan' \in Env
              /\ plan'.role \in DefaultRoles \union dbRoles
              /\ plan'.db = pg]_vars
  <2> SUFFICES ASSUME TypeOK, [Next]_vars, plan' \notin {plan, NoPlan}
               PROVE  /\ ReadyToStart /\ plan' \in Env
                      /\ plan'.role \in DefaultRoles \union dbRoles
                      /\ plan'.db = pg
    OBVIOUS
  <2>1. PICK e \in Events, st \in Statuses: Replans(e, st)
    BY WorkloadSteps DEF workload, RestartAction, ContainerLost, Probe
  <2>2. PICK host \in RedisHosts: EnvUsable(host) /\ Replan(e, st, EnvFor(host))
    BY <2>1 DEF Replans
  <2>3. plan' = EnvFor(host)
    BY <2>2 DEF Replan, AddLayer
  <2>4. QED
    BY <2>1, <2>2, <2>3, EnvForType DEF Replans
<1>2. QED
  BY <1>1, TypeCorrect, PTL DEF Spec, OnlyAcceptedInputs

-----------------------------------------------------------------------------
(***************************************************************************)
(* No lost change.                                                         *)
(***************************************************************************)

\* The plan, and the service if one runs, are built from the inputs of now.
UpToDate == Current /\ (service = NoPlan \/ BuiltNow(service))

\* An outdated unit has a rebuilding event queued.  Neither NoLostChange nor
\* ServiceFollows is inductive: install and trino-catalog events leave the queue
\* without a rebuild, install may only leave because config-changed comes with
\* it, and the restart action makes the service what the plan is.
QueueInv ==
    /\ "install" \in pending => failed = NoEvent /\ "config_changed" \in pending
    /\ reachable /\ Acceptable /\ ~UpToDate => pending \intersect Rebuilders # {}

\* The changes Juju announces: those of the role table, of the SMTP secret's
\* grant and of the Redis leader come without an event.
Announced == Changes \intersect {"roles", "smtp", "leader"} = {}

\* Unchanged inputs, plan and service are acceptable and current as they were.
LEMMA SameVerdict ==
    ASSUME UNCHANGED <<inputs, plan, service>>
    PROVE  Acceptable' = Acceptable /\ UpToDate' = UpToDate
<1>1. UNCHANGED inputs /\ plan' = plan /\ service' = service
  OBVIOUS
<1>2. /\ RedisHosts' = RedisHosts
      /\ ReadyToStart' = ReadyToStart
      /\ \A host: EnvUsable(host)' = EnvUsable(host)
      /\ \A host: EnvFor(host)' = EnvFor(host)
  BY <1>1, SameReading
<1>3. Acceptable' = Acceptable
  BY <1>2 DEF Acceptable
<1>4. UpToDate' = UpToDate
  BY <1>1, <1>2 DEF UpToDate, Current, BuiltNow
<1>5. QED
  BY <1>3, <1>4

\* _update leaves the unit up to date, or its inputs not acceptable, or it
\* failed and its event is still queued.
LEMMA UpdateReconciles ==
    ASSUME TypeOK, NEW e, NEW st, Update(e, st), UNCHANGED <<inputs, reachable>>
    PROVE  \/ ~reachable' \/ ~Acceptable' \/ UpToDate'
           \/ UNCHANGED <<plan, service>> /\ pending' = pending
           \/ /\ Current' /\ pending' = pending /\ service' = service
              /\ Acceptable' = Acceptable /\ BuiltNow(service)' = BuiltNow(service)
<1>1. UNCHANGED inputs
  OBVIOUS
<1>2. /\ RedisHosts' = RedisHosts
      /\ ReadyToStart' = ReadyToStart
      /\ \A host: EnvUsable(host)' = EnvUsable(host)
      /\ \A host: EnvFor(host)' = EnvFor(host)
  BY <1>1, SameReading
<1>3. CASE GivesUp(e, st)
  BY <1>2, <1>3 DEF GivesUp, Acceptable
<1>4. CASE FailsUnread(e, st)
  BY <1>4 DEF FailsUnread, Raise
<1>5. CASE Replans(e, st)
  <2>1. PICK host \in RedisHosts: EnvUsable(host) /\ Replan(e, st, EnvFor(host))
    BY <1>5 DEF Replans
  <2>2. CASE UNCHANGED <<plan, service>> /\ pending' = pending
    BY <2>2
  <2>3. CASE plan' = EnvFor(host) /\ service' \in {EnvFor(host), NoPlan}
    BY <1>2, <2>3 DEF UpToDate, Current, BuiltNow
  <2>4. CASE plan' = EnvFor(host) /\ service' = service /\ pending' = pending
    BY <1>2, <2>4 DEF Acceptable, Current, BuiltNow
  <2>5. QED
    BY <2>1, <2>2, <2>3, <2>4 DEF Replan, AddLayer, ReplanService, Raise
<1>6. QED
  BY <1>3, <1>4, <1>5, UpdateOutcome

\* A relation that is new, or a database that was only requested, is not
\* acceptable yet.
LEMMA IncompleteInputs ==
    ASSUME TypeOK', Acceptable'
    PROVE  pg' \in Dbs /\ redis' # [NoRedis EXCEPT !.related = TRUE]
<1>1. RedisHosts' # {}
  BY DEF RedisHosts
<1>2. PICK host \in RedisHosts': EnvUsable(host)'
  BY <1>1 DEF Acceptable
<1>3. pg' \in Dbs /\ host # NoHost
  BY <1>2 DEF EnvUsable, SecretReached, DbAvailable
<1>4. ASSUME redis' = [NoRedis EXCEPT !.related = TRUE]
      PROVE  FALSE
  <2>1. JoinedUnits' = {}
    BY <1>4 DEF JoinedUnits, NoRedis
  <2>2. QED
    BY <1>2, <1>3, <2>1 DEF RedisHosts
<1>5. QED
  BY <1>3, <1>4

\* A step that keeps the inputs, the workload and the queued rebuilds keeps
\* QueueInv.
LEMMA QueueKept ==
    ASSUME QueueInv, UNCHANGED <<inputs, plan, service>>, reachable' => reachable,
           pending \intersect Rebuilders \subseteq pending'
    PROVE  reachable' /\ Acceptable' /\ ~UpToDate' => pending' \intersect Rebuilders # {}
BY SameVerdict DEF QueueInv

LEMMA HandlerQueueInv ==
    ASSUME TypeOK, QueueInv, Handler
    PROVE  QueueInv'
<1> DEFINE Queued == reachable' /\ Acceptable' /\ ~UpToDate'
                        => pending' \intersect Rebuilders # {}
<1>1. ASSUME NEW e \in Events \ {"install"}, Dispatch(e), Return(e) \/ Raise(e)
      PROVE  "install" \in pending' => failed' = NoEvent /\ "config_changed" \in pending'
  BY <1>1 DEF QueueInv, Dispatch, Return, Raise, Events
<1>2. ASSUME NEW e, NEW st, Update(e, st)
      PROVE  Return(e) \/ Raise(e)
  BY <1>2, UpdateOutcome DEF GivesUp, FailsUnread, Replans, Replan
<1>3. ASSUME NEW e, NEW st, Update(e, st), UNCHANGED <<inputs, reachable>>
      PROVE  Queued
  <2>1. CASE UNCHANGED <<plan, service>> /\ pending' = pending
    BY <1>3, <2>1, QueueKept
  <2>2. CASE ~reachable' \/ ~Acceptable' \/ UpToDate'
    BY <2>2
  <2>3. CASE /\ Current' /\ pending' = pending /\ service' = service
             /\ Acceptable' = Acceptable /\ BuiltNow(service)' = BuiltNow(service)
    BY <1>3, <2>3 DEF QueueInv, UpToDate
  <2>4. QED
    BY <1>3, <2>1, <2>2, <2>3, UpdateReconciles
<1>4. ASSUME NEW e \in Rebuilders, NEW st \in Statuses, Rebuild(e, st)
      PROVE  QueueInv'
  <2>1. e \in Events \ {"install"}
    BY DEF Rebuilders, Events
  <2>2. QED
    BY <1>1, <1>2, <1>3, <1>4, <2>1 DEF Rebuild, QueueInv
<1>5. CASE OnInstall
  <2>1. Queued
    BY <1>5, QueueKept DEF OnInstall, Return, workload, Rebuilders
  <2>2. QED
    BY <1>5, <2>1 DEF OnInstall, Return, QueueInv
<1>6. CASE OnTrinoRelationChanged
  <2>1. Return("trino") \/ Raise("trino")
    BY <1>6 DEF OnTrinoRelationChanged, SyncRaises
  <2>2. Queued
    BY <1>6, <2>1, QueueKept DEF OnTrinoRelationChanged, Return, Raise, workload, Rebuilders
  <2>3. QED
    BY <1>1, <1>6, <2>1, <2>2 DEF OnTrinoRelationChanged, Events, QueueInv
<1>7. CASE OnUpdateStatus
  <2>1. Return("update_status") \/ Raise("update_status")
    BY <1>2, <1>7 DEF OnUpdateStatus, SyncRaises, ProbeStatus, TypeOK, UnitTypeOK
  <2>2. Queued
    <3>1. CASE Update("update_status", status)
      BY <1>3, <1>7, <3>1 DEF OnUpdateStatus
    <3>2. CASE ~Update("update_status", status)
      <4>1. UNCHANGED <<inputs, plan, service, reachable>>
        BY <1>7, <3>2 DEF OnUpdateStatus, workload
      <4>2. QED
        BY <2>1, <4>1, QueueKept DEF Return, Raise, Rebuilders
    <3>3. QED
      BY <3>1, <3>2
  <2>3. QED
    BY <1>1, <1>7, <2>1, <2>2 DEF OnUpdateStatus, Events, QueueInv
<1>8. CASE SecretSyncFails
  <2>1. Queued
    BY <1>8, QueueKept DEF SecretSyncFails, SyncRaises, Raise, workload
  <2>2. QED
    BY <1>1, <1>8, <2>1 DEF SecretSyncFails, SyncRaises, Events, QueueInv
<1>9. QED
  BY <1>4, <1>5, <1>6, <1>7, <1>8, HandlerCases

LEMMA EnvironmentQueueInv ==
    ASSUME Announced, TypeOK, TypeOK', QueueInv, Environment
    PROVE  QueueInv'
<1> DEFINE Queued == reachable' /\ Acceptable' /\ ~UpToDate'
                        => pending' \intersect Rebuilders # {}
<1>1. ASSUME NEW e \in Events \ {"install"}, Queue(e), failed' = failed
      PROVE  "install" \in pending' => failed' = NoEvent /\ "config_changed" \in pending'
  BY <1>1 DEF Queue, QueueInv
<1>2. ASSUME NEW e \in Rebuilders, Queue(e), failed' = failed
      PROVE  QueueInv'
  <2>1. e \in Events \ {"install"}
    BY DEF Rebuilders, Events
  <2>2. Queued
    BY <1>2 DEF Queue
  <2>3. QED
    BY <1>1, <1>2, <2>1, <2>2 DEF QueueInv
<1>3. ASSUME ~Acceptable', UNCHANGED <<pending, failed>>
      PROVE  QueueInv'
  BY <1>3 DEF QueueInv
<1>4. CASE Configure
  BY <1>2, <1>4 DEF Configure, UnitUnchanged, Rebuilders
<1>5. CASE EditSecret \/ ChangeRoles
  BY <1>5 DEF EditSecret, ChangeRoles, May, Announced
<1>6. CASE ChangePg
  <2>1. CASE pg' = "requested" /\ UNCHANGED pending
    BY <1>3, <1>6, <2>1, IncompleteInputs DEF ChangePg, UnitUnchanged
  <2>2. CASE Queue("database")
    BY <1>2, <1>6, <2>2 DEF ChangePg, UnitUnchanged, Rebuilders
  <2>3. QED
    BY <1>6, <2>1, <2>2 DEF ChangePg
<1>7. CASE ChangeRedis
  <2>1. CASE redis' = [NoRedis EXCEPT !.related = TRUE] /\ UNCHANGED pending
    BY <1>3, <1>7, <2>1, IncompleteInputs DEF ChangeRedis, UnitUnchanged
  <2>2. CASE Queue("redis")
    BY <1>2, <1>7, <2>2 DEF ChangeRedis, UnitUnchanged, Rebuilders
  <2>3. QED
    BY <1>7, <2>1, <2>2 DEF ChangeRedis, May, Announced
<1>8. CASE ContainerReady
  BY <1>2, <1>8 DEF ContainerReady, Rebuilders
<1>9. CASE ContainerLost
  BY <1>9 DEF ContainerLost, QueueInv
<1>10. CASE Probe
  <2>1. Queued
    BY <1>10, QueueKept DEF Probe
  <2>2. QED
    BY <1>10, <2>1 DEF Probe, QueueInv
<1>11. CASE PeerJoins
  BY <1>2, <1>11 DEF PeerJoins, UnitUnchanged, Rebuilders
<1>12. CASE TrinoChanges
  <2>1. Queued
    BY <1>12, QueueKept DEF TrinoChanges, UnitUnchanged, Queue
  <2>2. QED
    BY <1>1, <1>2, <1>12, <2>1 DEF TrinoChanges, UnitUnchanged, Events, Rebuilders, QueueInv
<1>13. QED
  BY <1>4, <1>5, <1>6, <1>7, <1>8, <1>9, <1>10, <1>11, <1>12 DEF Environment

LEMMA QueueInvariant ==
    ASSUME Announced
    PROVE  Spec => []QueueInv
<1>1. Init => QueueInv
  BY DEF Init, QueueInv
<1>2. TypeOK /\ TypeOK' /\ QueueInv /\ [Next]_vars => QueueInv'
  <2> SUFFICES ASSUME TypeOK, TypeOK', QueueInv, [Next]_vars
               PROVE  QueueInv'
    OBVIOUS
  <2>1. CASE Handler
    BY <2>1, HandlerQueueInv
  <2>2. CASE Environment
    BY <2>2, EnvironmentQueueInv
  <2>3. CASE RestartAction
    <3>1. UNCHANGED <<inputs, plan, reachable, pending, failed>>
      BY <2>3 DEF RestartAction
    <3>2. CASE service' = service
      BY <3>1, <3>2, QueueKept DEF QueueInv
    <3>3. CASE service' \in {plan, NoPlan}
      <4>1. /\ RedisHosts' = RedisHosts
            /\ ReadyToStart' = ReadyToStart
            /\ \A host: EnvUsable(host)' = EnvUsable(host)
            /\ \A host: EnvFor(host)' = EnvFor(host)
        BY <3>1, SameReading
      <4>2. Acceptable' = Acceptable /\ (Current => UpToDate')
        BY <3>1, <3>3, <4>1 DEF Acceptable, UpToDate, Current, BuiltNow
      <4>3. QED
        BY <3>1, <4>2 DEF QueueInv, UpToDate
    <3>4. QED
      BY <2>3, <3>2, <3>3 DEF RestartAction
  <2>4. CASE UNCHANGED vars
    BY <2>4, QueueKept DEF vars, inputs, QueueInv
  <2>5. QED
    BY <2>1, <2>2, <2>3, <2>4 DEF Next
<1>3. QED
  BY <1>1, <1>2, TypeCorrect, PTL DEF Spec

\* No configuration or relation change that Juju announces is lost: the unit is
\* current, its inputs are not acceptable, or an event is queued (charm.py: that
\* is what lets _on_update_status skip _update when a plan is present).
THEOREM NoChangeIsLost ==
    ASSUME Announced
    PROVE  Spec => []NoLostChange
<1>1. QueueInv => NoLostChange
  BY DEF QueueInv, UpToDate, NoLostChange
<1>2. QED
  BY <1>1, QueueInvariant, PTL

\* However hooks fail between add_layer and the end of replan, a service left
\* running an older environment has an event queued that rebuilds it, unless
\* the inputs block the unit (charm.py, _update and _on_restart).
THEOREM ServiceIsNotForgotten ==
    ASSUME Announced
    PROVE  Spec => []ServiceFollows
<1>1. QueueInv => ServiceFollows
  BY DEF QueueInv, UpToDate, ServiceFollows
<1>2. QED
  BY <1>1, QueueInvariant, PTL

-----------------------------------------------------------------------------
(***************************************************************************)
(* Status and errors.                                                      *)
(***************************************************************************)

\* An Active unit without a plan in a container that answers has the
\* pebble-ready of that container queued.
OutageInv ==
    status = "active" /\ plan = NoPlan /\ reachable => "pebble_ready" \in pending

LEMMA UpdateOutage ==
    ASSUME "pebble" \notin Changes, TypeOK, NEW e, NEW st, Update(e, st),
           UNCHANGED reachable, status' = "active", plan' = NoPlan
    PROVE  ~reachable' \/ FailsUnread(e, st)
<1>1. CASE GivesUp(e, st)
  BY <1>1 DEF GivesUp
<1>2. CASE Replans(e, st)
  <2>1. PICK host \in RedisHosts: EnvUsable(host) /\ Replan(e, st, EnvFor(host))
    BY <1>2 DEF Replans
  <2>2. plan' = EnvFor(host)
    BY <2>1 DEF Replan, AddLayer, May
  <2>3. QED
    BY <2>1, <2>2, EnvForType
<1>3. QED
  BY <1>1, <1>2, UpdateOutcome

\* "Status check: UP" over a container without a service lasts no longer than
\* the queued pebble-ready (charm.py, _on_update_status and _on_pebble_ready).
THEOREM OutageIsTransient ==
    ASSUME "pebble" \notin Changes
    PROVE  Spec => []ActiveOutageIsTransient
<1>1. Init => OutageInv
  BY DEF Init, OutageInv
<1>2. TypeOK /\ OutageInv /\ [Next]_vars => OutageInv'
  <2> SUFFICES ASSUME TypeOK, OutageInv, [Next]_vars,
                      status' = "active", plan' = NoPlan, reachable'
               PROVE  "pebble_ready" \in pending'
    BY DEF OutageInv
  <2>1. CASE Handler
    <3>1. ASSUME NEW e, NEW st \in {status, "configuring", "blocked"}, Update(e, st),
                 UNCHANGED <<inputs, reachable>>
          PROVE  "pebble_ready" \in pending'
      <4>1. FailsUnread(e, st)
        BY <3>1, UpdateOutage
      <4>2. QED
        BY <3>1, <4>1 DEF FailsUnread, Raise, OutageInv
    <3>2. CASE OnInstall
      BY <3>2 DEF OnInstall
    <3>3. CASE OnTrinoRelationChanged
      BY <3>3 DEF OnTrinoRelationChanged, SyncRaises, SyncStatus, Return, Raise, workload,
                  OutageInv
    <3>4. CASE OnUpdateStatus
      <4>1. CASE Update("update_status", status)
        BY <3>1, <3>4, <4>1 DEF OnUpdateStatus
      <4>2. CASE ~Update("update_status", status)
        <5>1. UNCHANGED <<workload, reachable>>
          BY <3>4, <4>2 DEF OnUpdateStatus
        <5>2. ~PlanValid
          BY <5>1 DEF PlanValid, workload
        <5>3. status' = status /\ Raise("update_status")
          BY <3>4, <4>2, <5>2 DEF OnUpdateStatus, SyncRaises
        <5>4. QED
          BY <5>1, <5>3 DEF Raise, workload, OutageInv
      <4>3. QED
        BY <4>1, <4>2
    <3>5. CASE SecretSyncFails
      BY <3>5 DEF SecretSyncFails, SyncRaises, Raise, workload, OutageInv
    <3>6. QED
      BY <2>1, <3>1, <3>2, <3>3, <3>4, <3>5, HandlerCases DEF Rebuild
  <2>2. CASE RestartAction
    BY <2>2 DEF RestartAction, OutageInv
  <2>3. CASE Environment
    <3>1. CASE ContainerReady
      BY <3>1 DEF ContainerReady, Queue
    <3>2. CASE ContainerLost
      BY <3>2 DEF ContainerLost
    <3>3. CASE Probe
      BY <3>3 DEF Probe, OutageInv
    <3>4. ASSUME UnitUnchanged, pending \subseteq pending'
          PROVE  "pebble_ready" \in pending'
      BY <3>4 DEF UnitUnchanged, OutageInv
    <3>5. CASE Configure \/ EditSecret \/ ChangeRoles \/ PeerJoins \/ TrinoChanges
      BY <3>4, <3>5 DEF Configure, EditSecret, ChangeRoles, PeerJoins, TrinoChanges, Queue
    <3>6. CASE ChangePg \/ ChangeRedis
      BY <3>4, <3>6 DEF ChangePg, ChangeRedis, Queue
    <3>7. QED
      BY <2>3, <3>1, <3>2, <3>3, <3>5, <3>6 DEF Environment
  <2>4. CASE UNCHANGED vars
    BY <2>4 DEF vars, OutageInv
  <2>5. QED
    BY <2>1, <2>2, <2>3, <2>4 DEF Next
<1>3. PebbleInv /\ OutageInv => ActiveOutageIsTransient
  BY DEF PebbleInv, OutageInv, ActiveOutageIsTransient
<1>4. QED
  BY <1>1, <1>2, <1>3, TypeCorrect, PebbleInvariant, PTL DEF Spec

\* While Pebble and Superset answer, a hook goes into error over a database
\* without endpoints (postgresql.py, get_db_info), or it is update-status and no
\* layer with a UI was merged (charm.py, get_check).
THEOREM HookErrors ==
    ASSUME Changes \intersect {"pebble", "sync", "bare_image"} = {}
    PROVE  Spec => HookErrorsExplained
<1>1. TypeOK /\ UiPlanIsProbed /\ [Next]_vars
        => [failed' \notin {failed, NoEvent} =>
              \/ EndpointsMissing
              \/ /\ failed' = "update_status"
                 /\ plan # NoPlan /\ plan.function \notin UiFunctions]_vars
  <2> SUFFICES ASSUME TypeOK, UiPlanIsProbed, [Next]_vars,
                      failed' \notin {failed, NoEvent}, ~EndpointsMissing
               PROVE  /\ failed' = "update_status"
                      /\ plan # NoPlan /\ plan.function \notin UiFunctions
    OBVIOUS
  <2>1. ASSUME NEW e, NEW st, Update(e, st)
        PROVE  FALSE
    BY <2>1, UpdateOutcome DEF GivesUp, FailsUnread, Replans, Replan, May, Return
  <2>2. ASSUME NEW e, SyncRaises(e)
        PROVE  FALSE
    BY <2>2 DEF SyncRaises, May
  <2>3. CASE Handler
    <3>1. ~OnInstall
      BY DEF OnInstall, Return
    <3>2. ~OnTrinoRelationChanged
      BY <2>2 DEF OnTrinoRelationChanged, Return
    <3>3. ~SecretSyncFails
      BY <2>2 DEF SecretSyncFails
    <3>4. OnUpdateStatus
      BY <2>1, <2>3, <3>1, <3>2, <3>3, HandlerCases DEF Rebuild
    <3>5. ~Return("update_status")
      BY DEF Return
    <3>6. PlanValid /\ ReadyToStart
      BY <2>1, <2>2, <3>4, <3>5 DEF OnUpdateStatus, PlanUnreadable, May
    <3>7. ProbeStatus = "absent" /\ Raise("update_status")
      BY <2>1, <2>2, <3>4, <3>5, <3>6
         DEF OnUpdateStatus, PlanUnreadable, PlanValid, May, ProbeStatus, TypeOK, UnitTypeOK
    <3>8. QED
      BY <3>6, <3>7 DEF PlanValid, ProbeStatus, Raise, UiPlanIsProbed
  <2>4. failed' = failed \/ Handler
    <3>1. CASE RestartAction
      BY <3>1 DEF RestartAction
    <3>2. CASE ContainerReady \/ ContainerLost \/ Probe
      BY <3>2 DEF ContainerReady, ContainerLost, Probe
    <3>3. CASE Configure \/ EditSecret \/ ChangeRoles \/ PeerJoins \/ TrinoChanges
      BY <3>3 DEF Configure, EditSecret, ChangeRoles, PeerJoins, TrinoChanges, UnitUnchanged
    <3>4. CASE ChangePg \/ ChangeRedis
      BY <3>4 DEF ChangePg, ChangeRedis, UnitUnchanged
    <3>5. CASE UNCHANGED vars
      BY <3>5 DEF vars
    <3>6. QED
      BY <3>1, <3>2, <3>3, <3>4, <3>5 DEF Next, Environment
  <2>5. QED
    BY <2>3, <2>4
<1>2. QED
  BY <1>1, TypeCorrect, UiPlanProbed, PTL DEF Spec, HookErrorsExplained
=============================================================================
