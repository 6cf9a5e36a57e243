-------------------------- MODULE Integrations_proofs --------------------------
(***************************************************************************)
(* Theorems about the relations of Superset to other charms: first of the  *)
(* logging, the nginx-route and the grafana-dashboard relation, each by    *)
(* itself, then of all of them, as MCIntegrations composes them.  They are *)
(* for any units and any number of changes.                                *)
(***************************************************************************)
EXTENDS MCIntegrations, DatabaseRelation_proofs, Metrics_proofs, TLAPS

-----------------------------------------------------------------------------
(* Logging: the targets follow what is published, and the alert rules reach *)
(* every relation that is ready.                                            *)

LogRelations == {"first", "second"}

\* What LogTypeOK says of functions, with their domains, and what is published.
EndpointsInv ==
    /\ lokiJoined \subseteq LokiUnits /\ lokiHooks \subseteq lokiJoined
    /\ lokiUrl \in [LokiUnits -> 1 .. 2] /\ lokiEndpoint \in [LokiUnits -> 0 .. 2]
    /\ \A l \in lokiJoined \ lokiHooks : lokiEndpoint[l] = lokiUrl[l]

\* A plan needs no update: what UpdateEndpoints makes of it is the plan itself.
PlanCurrent ==
    /\ \A l \in Active : logPlan[l] = lokiEndpoint[l]
    /\ \A l \in LokiUnits \ Active : ~Enabled(logPlan[l])

\* A plan that is not current, and rules that are not sent, are announced by a
\* hook that waits.  With no endpoint at all a hook leaves the plan as it is,
\* so nothing is said of it then.
HooksInv ==
    /\ logPlan \in [LokiUnits -> {Absent, Off, 1, 2}]
    /\ logHooks = {} /\ logContainer /\ Active # {} => PlanCurrent
    /\ logLeader => \A l \in Active : RelationOf(l) \in rulesSent \union logHooks

LogInv == EndpointsInv /\ HooksInv

\* UpdateEndpoints leaves a plan that is current.
LEMMA UpdatedPlan ==
    ASSUME EndpointsInv, HooksInv, UpdateEndpoints, UNCHANGED lokiVars
    PROVE  PlanCurrent' /\ logPlan' \in [LokiUnits -> {Absent, Off, 1, 2}]
<1>1. Active' = Active /\ Active \subseteq LokiUnits
  BY DEF Active, IsReady, Members, lokiVars, EndpointsInv
<1>2. \A l \in Active : Target(l) = lokiEndpoint[l] /\ lokiEndpoint[l] \in {1, 2}
  BY <1>1 DEF Target, Active, IsReady, Members, EndpointsInv
<1>3. \A l \in LokiUnits \ Active :
        Target(l) = IF Enabled(logPlan[l]) THEN Off ELSE logPlan[l]
  BY DEF Target
<1>4. \A l \in LokiUnits : logPlan'[l] = Target(l)
  BY DEF UpdateEndpoints
<1>5. QED
  BY <1>1, <1>2, <1>3, <1>4
  DEF PlanCurrent, UpdateEndpoints, HooksInv, lokiVars, Enabled, Off, Absent

\* A change of one unit's endpoint or membership leaves the other relation's
\* units as ready as they were.
LEMMA OtherRelation ==
    ASSUME NEW l \in LokiUnits, EndpointsInv,
           lokiJoined' \ {l} = lokiJoined \ {l}, lokiJoined' \subseteq LokiUnits,
           \A k \in LokiUnits \ {l} : lokiEndpoint'[k] = lokiEndpoint[k],
           NEW k \in Active', RelationOf(k) # RelationOf(l)
    PROVE  k \in Active
BY DEF Active, IsReady, Members, RelationOf, EndpointsInv

LEMMA LogStep == LogInv /\ [LogNext]_logVars => LogInv'
<1> SUFFICES ASSUME LogInv, [LogNext]_logVars PROVE LogInv'
  OBVIOUS
<1> USE DEF LogInv
<1>0. RelationOf(0) \in LogRelations /\ \A l : RelationOf(l) \in LogRelations
  BY DEF RelationOf, LogRelations
<1>1. ASSUME NEW r \in LogRelations, UpdateLogging(r) PROVE LogInv'
  <2>1. UNCHANGED <<lokiVars, lokiHooks, logContainer, logLeader>> /\ Active' = Active
    BY <1>1 DEF UpdateLogging, lokiVars, Active, IsReady, Members
  <2>2. EndpointsInv'
    BY <2>1 DEF EndpointsInv, lokiVars
  <2>3. CASE Active = {}
    BY <1>1, <2>1, <2>2, <2>3 DEF UpdateLogging, forwarderVars, HooksInv
  <2>4. CASE Active # {}
    <3>1. logLeader => \A l \in Active : RelationOf(l) \in rulesSent' \union logHooks'
      BY <1>1, <2>4 DEF UpdateLogging, HandleAlertRules, HooksInv
    <3>2. CASE logContainer
      BY <1>1, <2>1, <2>2, <2>4, <3>1, <3>2, UpdatedPlan DEF UpdateLogging, HooksInv
    <3>3. CASE ~logContainer
      BY <1>1, <2>1, <2>2, <2>4, <3>1, <3>3 DEF UpdateLogging, HooksInv
    <3>4. QED
      BY <3>2, <3>3
  <2>5. QED
    BY <2>3, <2>4
<1>2. CASE OnLogPebbleReady
  <2>1. /\ UNCHANGED <<lokiVars, lokiHooks, logContainer, logLeader, rulesSent>>
        /\ Active' = Active /\ logHooks' = logHooks \ {"ready"}
    BY <1>2 DEF OnLogPebbleReady, lokiVars, Active, IsReady, Members
  <2>2. EndpointsInv'
    BY <2>1 DEF EndpointsInv, lokiVars
  <2>3. logLeader => \A l \in Active : RelationOf(l) \in rulesSent' \union logHooks'
    BY <2>1, <1>0 DEF HooksInv, LogRelations
  <2>4. CASE Active = {}
    BY <1>2, <2>1, <2>2, <2>4 DEF OnLogPebbleReady, HooksInv
  <2>5. CASE Active # {}
    BY <1>2, <2>1, <2>2, <2>3, <2>5, UpdatedPlan DEF OnLogPebbleReady, HooksInv
  <2>6. QED
    BY <2>4, <2>5
<1>3. ASSUME NEW l \in LokiUnits, PublishEndpoint(l) PROVE LogInv'
  <2>1. EndpointsInv'
    BY <1>3 DEF PublishEndpoint, EndpointsInv
  <2>2. CASE lokiEndpoint' = lokiEndpoint
    <3>1. Active' = Active
      BY <1>3, <2>2 DEF PublishEndpoint, Active, IsReady, Members
    <3>2. QED
      BY <1>3, <2>1, <2>2, <3>1 DEF PublishEndpoint, forwarderVars, HooksInv, PlanCurrent
  <2>3. CASE lokiEndpoint' # lokiEndpoint
    <3>1. \A k \in Active' : RelationOf(k) # RelationOf(l) => k \in Active
      BY <1>3, OtherRelation DEF PublishEndpoint, EndpointsInv
    <3>2. logHooks' = logHooks \union {RelationOf(l)}
      BY <1>3, <2>3 DEF PublishEndpoint
    <3>3. QED
      BY <1>3, <2>1, <3>1, <3>2 DEF PublishEndpoint, forwarderVars, HooksInv
  <2>4. QED
    BY <2>2, <2>3
<1>4. ASSUME NEW l \in LokiUnits, LokiJoins(l) PROVE LogInv'
  <2>1. EndpointsInv'
    BY <1>4 DEF LokiJoins, EndpointsInv
  <2>2. \A k \in Active' : RelationOf(k) # RelationOf(l) => k \in Active
    BY <1>4, <2>1, OtherRelation DEF LokiJoins, EndpointsInv
  <2>3. QED
    BY <1>4, <2>1, <2>2 DEF LokiJoins, forwarderVars, HooksInv
<1>5. ASSUME NEW l \in LokiUnits, LokiDeparts(l) PROVE LogInv'
  <2>1. EndpointsInv'
    BY <1>5 DEF LokiDeparts, EndpointsInv
  <2>2. \A k \in Active' : RelationOf(k) # RelationOf(l) => k \in Active
    BY <1>5, <2>1, OtherRelation DEF LokiDeparts, EndpointsInv
  <2>3. \A r : r \in rulesSent /\ r # RelationOf(l) => r \in rulesSent'
    BY <1>5 DEF LokiDeparts
  <2>4. QED
    BY <1>5, <2>1, <2>2, <2>3 DEF LokiDeparts, HooksInv
<1>6. ASSUME NEW l \in LokiUnits, LokiMoves(l) PROVE LogInv'
  <2>1. EndpointsInv'
    BY <1>6 DEF LokiMoves, EndpointsInv
  <2>2. Active' = Active
    BY <1>6 DEF LokiMoves, Active, IsReady, Members
  <2>3. QED
    BY <1>6, <2>1, <2>2 DEF LokiMoves, forwarderVars, HooksInv, PlanCurrent
<1>7. CASE LogContainerLost \/ LogContainerReady \/ UNCHANGED logVars
  <2>1. UNCHANGED <<lokiVars, lokiHooks, rulesSent, logLeader>> /\ logHooks \subseteq logHooks'
    BY <1>7 DEF LogContainerLost, LogContainerReady, logVars, forwarderVars
  <2>2. Active' = Active /\ EndpointsInv'
    BY <2>1 DEF lokiVars, Active, IsReady, Members, EndpointsInv
  <2>3. \/ ~logContainer' \/ "ready" \in logHooks'
        \/ UNCHANGED <<logContainer, logHooks, logPlan>>
    BY <1>7 DEF LogContainerLost, LogContainerReady, logVars, forwarderVars
  <2>4. logPlan' \in [LokiUnits -> {Absent, Off, 1, 2}]
    BY <1>7 DEF LogContainerLost, LogContainerReady, logVars, forwarderVars, HooksInv
  <2>5. QED
    BY <2>1, <2>2, <2>3, <2>4 DEF HooksInv, PlanCurrent, lokiVars
<1>8. QED
  BY <1>1, <1>2, <1>3, <1>4, <1>5, <1>6, <1>7 DEF LogNext, LogRelations

LEMMA LogInvariant == LogSpec => []LogInv
<1>1. LogInit => LogInv
  BY DEF LogInit, LogInv, EndpointsInv, HooksInv, Active, Absent, Off
<1>2. QED
  BY <1>1, LogStep, PTL DEF LogSpec

(* Once no hook waits, logs go to every unit of Loki that is ready, at the  *)
(* URL it has now, and nowhere else (_update_logging, _update_endpoints).   *)
THEOREM Forwarding == LogSpec => []ForwardingCurrent
<1>1. LogInv => ForwardingCurrent
  <2> SUFFICES ASSUME LogInv, logHooks = {}, lokiHooks = {}, logContainer, Active # {}
               PROVE  /\ {l \in LokiUnits : Enabled(logPlan[l])} = Active
                      /\ \A l \in Active : logPlan[l] = lokiUrl[l]
    BY DEF ForwardingCurrent
  <2>1. PlanCurrent /\ Active \subseteq lokiJoined /\ lokiJoined \subseteq LokiUnits
    BY DEF LogInv, HooksInv, EndpointsInv, Active
  <2>2. \A l \in Active : lokiEndpoint[l] = lokiUrl[l] /\ lokiUrl[l] \in 1 .. 2
    BY <2>1 DEF LogInv, EndpointsInv
  <2>3. QED
    BY <2>1, <2>2 DEF PlanCurrent, Enabled, Off, Absent
<1>2. QED
  BY <1>1, LogInvariant, PTL

(* Once no hook waits, the leader's alert rules are in the databag of every *)
(* relation that is ready (_handle_alert_rules).                            *)
THEOREM RulesSent == LogSpec => []RulesReachLoki
<1>1. LogInv => RulesReachLoki
  BY DEF LogInv, HooksInv, RulesReachLoki
<1>2. QED
  BY <1>1, LogInvariant, PTL

(* Every variable keeps its type: in particular only units that are related *)
(* have hooks to run, and a target is enabled at a published version.       *)
THEOREM LogTypeCorrect == LogSpec => []LogTypeOK
<1> DEFINE Rest ==
      /\ logHooks \subseteq {"first", "second", "ready"}
      /\ rulesSent \subseteq {"first", "second"} /\ logContainer \in BOOLEAN
      /\ lokiChanges \in 0 .. MaxLokiChanges
<1>0. MaxLokiChanges \in Nat /\ \A l : RelationOf(l) \in {"first", "second"}
  BY LokiAssumption DEF RelationOf
<1>1. LogInit => Rest
  <2>1. LogInit => lokiChanges = 0 /\ logHooks = {} /\ rulesSent = {} /\ ~logContainer
                     /\ logContainer \in BOOLEAN
    BY DEF LogInit
  <2>2. QED
    BY <1>0, <2>1
<1>2. Rest /\ [LogNext]_logVars => Rest'
  <2> SUFFICES ASSUME Rest, [LogNext]_logVars PROVE Rest'
    OBVIOUS
  <2>0. Changes => lokiChanges' \in 0 .. MaxLokiChanges
    BY <1>0 DEF Changes
  <2>1. ASSUME NEW r \in {"first", "second"}, UpdateLogging(r) PROVE Rest'
    BY <2>1 DEF UpdateLogging, HandleAlertRules, forwarderVars
  <2>2. CASE OnLogPebbleReady
    BY <2>2 DEF OnLogPebbleReady
  <2>3. ASSUME NEW l \in LokiUnits, PublishEndpoint(l) PROVE Rest'
    BY <1>0, <2>3 DEF PublishEndpoint, forwarderVars
  <2>4. ASSUME NEW l \in LokiUnits, LokiJoins(l) \/ LokiMoves(l) PROVE Rest'
    BY <1>0, <2>0, <2>4 DEF LokiJoins, LokiMoves, forwarderVars
  <2>5. ASSUME NEW l \in LokiUnits, LokiDeparts(l) PROVE Rest'
    BY <1>0, <2>0, <2>5 DEF LokiDeparts
  <2>6. CASE LogContainerLost
    BY <2>0, <2>6 DEF LogContainerLost
  <2>7. CASE LogContainerReady
    BY <2>7 DEF LogContainerReady, forwarderVars
  <2>8. CASE UNCHANGED logVars
    BY <2>8 DEF logVars, forwarderVars
  <2>9. QED
    BY <2>1, <2>2, <2>3, <2>4, <2>5, <2>6, <2>7, <2>8 DEF LogNext
<1>3. LogInv /\ Rest => LogTypeOK
  BY DEF LogInv, EndpointsInv, HooksInv, LogTypeOK
<1> HIDE DEF Rest
<1>4. QED
  BY <1>1, <1>2, <1>3, LogInvariant, PTL DEF LogSpec

-----------------------------------------------------------------------------
(* nginx-route: the ingress serves what the leader asks for.                *)

\* The databag is what the leader writes, unless a hook of the leader waits:
\* whatever changes what it would write, or makes it leader, makes it run one.
BagInv ==
    /\ routeRelated /\ routeLeader \notin routeHooks => routeBag = Reconciled(routeLeader)
    /\ ~routeRelated => routeBag = NoRoute

\* Whoever leads the integrator has a hook to run, or has taken the databag.  A
\* lead that passes from a unit with a hook to one without is what routeMissed
\* recalls.
Served ==
    IF routeRelated THEN Required \subseteq DOMAIN routeBag => ingress = routeBag
    ELSE ingress = NoRoute

IngressInv ==
    /\ ingressLeader \in IngressUnits /\ DOMAIN ingressHooks = IngressUnits
    /\ \A i \in IngressUnits : ingressHooks[i] \subseteq {IF routeRelated THEN "changed" ELSE "broken"}
    /\ ingressHooks[ingressLeader] = {} /\ ~routeMissed => Served

RouteInv == routeLeader \in RouteUnits /\ BagInv /\ IngressInv

LEMMA ReconciledStable ==
    ASSUME routeOptions' = routeOptions, NEW u \in RouteUnits,
           routeRevision'[u] = routeRevision[u]
    PROVE  Reconciled(u)' = Reconciled(u)
BY DEF Reconciled, RouteConfig, NotEmpty

LEMMA AllOfThem ==
    ASSUME NEW hooks
    PROVE  /\ DOMAIN AllIngress(hooks) = IngressUnits
           /\ \A i \in IngressUnits : AllIngress(hooks)[i] = hooks
BY DEF AllIngress

\* What a hook of the integrator leaves alone.
LEMMA HookStep ==
    ASSUME NEW i \in IngressUnits, NEW h, IngressHook(i, h), RouteInv,
           IF i = ingressLeader THEN Served' ELSE UNCHANGED ingress
    PROVE  RouteInv'
<1> USE DEF RouteInv
<1>1. /\ UNCHANGED <<supersetRouteVars, routeRelated, routeBag, ingressLeader>>
      /\ ingressHooks' = [ingressHooks EXCEPT ![i] = @ \ {h}]
      /\ routeMissed' <=> routeMissed /\ i # ingressLeader
  BY Zenon DEF IngressHook
<1>2. BagInv' /\ routeLeader' = routeLeader
  BY <1>1 DEF BagInv, supersetRouteVars, Reconciled, RouteConfig, NotEmpty
<1>3. /\ DOMAIN ingressHooks' = IngressUnits
      /\ \A j \in IngressUnits : ingressHooks'[j] \subseteq ingressHooks[j]
      /\ \A j \in IngressUnits \ {i} : ingressHooks'[j] = ingressHooks[j]
  BY <1>1 DEF IngressInv
<1> QED  BY <1>1, <1>2, <1>3 DEF IngressInv, Served

LEMMA RouteStep == RouteInv /\ [RouteNext]_routeVars => RouteInv'
<1> SUFFICES ASSUME RouteInv, [RouteNext]_routeVars PROVE RouteInv'
  OBVIOUS
<1> USE DEF RouteInv
<1>1. ASSUME NEW u \in RouteUnits, RunRouteHook(u) PROVE RouteInv'
  <2>1. /\ UNCHANGED <<routeRevision, routeOptions, routeLeader, routeRelated, ingressVars>>
        /\ routeHooks' = routeHooks \ {u}
        /\ routeBag' = IF u = routeLeader /\ routeRelated THEN Reconciled(u) ELSE routeBag
        /\ ingressHooks' = IF routeBag' = routeBag THEN ingressHooks ELSE AllIngress({"changed"})
    BY <1>1 DEF RunRouteHook
  <2>2. Reconciled(routeLeader)' = Reconciled(routeLeader)
    BY <2>1 DEF Reconciled, RouteConfig, NotEmpty
  <2>3. BagInv'
    BY <2>1, <2>2 DEF BagInv
  <2>4. IngressInv'
    <3>1. CASE routeBag' = routeBag
      BY <2>1, <3>1 DEF IngressInv, Served, ingressVars
    <3>2. CASE routeBag' # routeBag
      BY <2>1, <3>2, AllOfThem DEF IngressInv, ingressVars
    <3> QED  BY <3>1, <3>2
  <2>5. QED
    BY <2>1, <2>3, <2>4
<1>2. ASSUME NEW u \in RouteUnits, RefreshRouteUnit(u) PROVE RouteInv'
  <2>1. /\ UNCHANGED <<routeOptions, routeLeader, routeRelated, routeBag, ingressHooks, ingressVars>>
        /\ routeHooks' = routeHooks \union {u}
        /\ routeRevision' = [routeRevision EXCEPT ![u] = 3 - @]
    BY <1>2 DEF RefreshRouteUnit
  <2>2. routeLeader # u => Reconciled(routeLeader)' = Reconciled(routeLeader)
    <3>1. routeLeader # u => routeRevision'[routeLeader] = routeRevision[routeLeader]
      BY <2>1
    <3>2. QED
      BY <2>1, <3>1 DEF Reconciled, RouteConfig, NotEmpty
  <2>3. QED
    BY <2>1, <2>2 DEF BagInv, IngressInv, Served, ingressVars
<1>3. ASSUME NEW i \in IngressUnits, OnRouteChanged(i) PROVE RouteInv'
  <2>1. IngressHook(i, "changed") /\ UNCHANGED <<routeRelated, routeBag, ingressLeader>>
    BY <1>3 DEF OnRouteChanged, IngressHook
  <2>2. routeRelated
    BY <2>1 DEF IngressInv, IngressHook
  <2>3. IF i = ingressLeader THEN Required \subseteq DOMAIN routeBag => ingress' = routeBag
        ELSE UNCHANGED ingress
    BY <1>3 DEF OnRouteChanged
  <2> QED  BY <2>1, <2>2, <2>3, HookStep DEF Served
<1>4. ASSUME NEW i \in IngressUnits, OnRouteBroken(i) PROVE RouteInv'
  <2>1. IngressHook(i, "broken") /\ UNCHANGED <<routeRelated, routeBag, ingressLeader>>
    BY <1>4 DEF OnRouteBroken, IngressHook
  <2>2. ~routeRelated
    BY <2>1 DEF IngressInv, IngressHook
  <2>3. ingress' = IF i = ingressLeader THEN NoRoute ELSE ingress
    BY <1>4 DEF OnRouteBroken
  <2> QED  BY <2>1, <2>2, <2>3, HookStep DEF Served
<1>5. CASE SetRouteOption
  BY <1>5 DEF SetRouteOption, BagInv, IngressInv, Served, ingressVars
<1>6. CASE MoveRouteLeader
  BY <1>6 DEF MoveRouteLeader, BagInv, IngressInv, Served, ingressVars
<1>7. CASE RelateRoute
  BY <1>7, AllOfThem DEF RelateRoute, BagInv, IngressInv, ingressVars
<1>8. CASE RemoveRoute
  BY <1>8, AllOfThem DEF RemoveRoute, BagInv, IngressInv, ingressVars
<1>9. CASE MoveIngressLeader
  <2>1. UNCHANGED <<supersetRouteVars, routeRelated, routeBag, ingressHooks, ingress>>
    BY <1>9 DEF MoveIngressLeader
  <2>2. PICK i \in IngressUnits :
            /\ ingressLeader' = i
            /\ routeMissed' <=> (routeMissed \/ (ingressHooks[ingressLeader] # {}
                                                 /\ ingressHooks[i] = {}))
    BY <1>9, Zenon DEF MoveIngressLeader
  <2>3. BagInv' /\ routeLeader' = routeLeader
    BY <2>1 DEF BagInv, supersetRouteVars, Reconciled, RouteConfig, NotEmpty
  <2> QED  BY <2>1, <2>2, <2>3 DEF IngressInv, Served
<1>10. CASE UNCHANGED routeVars
  <2>1. Reconciled(routeLeader)' = Reconciled(routeLeader)
    BY <1>10 DEF routeVars, supersetRouteVars, Reconciled, RouteConfig, NotEmpty
  <2>2. QED
    BY <1>10, <2>1 DEF routeVars, supersetRouteVars, ingressVars, BagInv, IngressInv, Served
<1>11. QED
  BY <1>1, <1>2, <1>3, <1>4, <1>5, <1>6, <1>7, <1>8, <1>9, <1>10 DEF RouteNext

LEMMA RouteInvariant == RouteSpec => []RouteInv
<1>1. RouteInit => RouteInv
  BY AllOfThem DEF RouteInit, RouteInv, BagInv, IngressInv, Served
<1>2. QED
  BY <1>1, RouteStep, PTL DEF RouteSpec

\* A route is complete if its hostname is given.
LEMMA RouteFields ==
    ASSUME NEW u
    PROVE  /\ DOMAIN Reconciled(u) \subseteq DOMAIN RouteConfig(u)
           /\ Required \ {"service-hostname"} \subseteq DOMAIN Reconciled(u)
           /\ "service-hostname" \in DOMAIN Reconciled(u) <=> routeOptions.hostname # Empty
           /\ \A k \in DOMAIN Reconciled(u) : Reconciled(u)[k] # Empty
<1> DEFINE config == RouteConfig(u)
           kept == {k \in DOMAIN config : config[k] # Empty}
<1>1. Required \subseteq DOMAIN config
  BY DEF RouteConfig
<1>2. config["service-hostname"] = routeOptions.hostname
  BY DEF RouteConfig, Required
<1>3. config["service-name"] = Application /\ config["service-port"] = "fixed"
  BY DEF RouteConfig, Required
<1>4. Reconciled(u) = [k \in kept |-> config[k]]
  BY DEF Reconciled, NotEmpty, Restrict
<1>5. "fixed" # Empty /\ Application # Empty
  BY DEF Empty, Application
<1> HIDE DEF config
<1>6. QED
  BY <1>1, <1>2, <1>3, <1>4, <1>5 DEF Required, config

(* Once no hook waits, the ingress serves exactly what the leader's         *)
(* revision of the charm asks for, through upgrades unit by unit, moves of  *)
(* leadership at both ends and relations made again, unless the hostname is *)
(* empty or the lead of the integrator passed over the last hook            *)
(* (_config_reconciliation, _on_relation_changed of the provider).          *)
THEOREM RouteFollows == RouteSpec => []RouteCurrent
<1>1. RouteInv => RouteCurrent
  <2> SUFFICES ASSUME RouteInv, routeHooks = {}, ingressHooks[ingressLeader] = {}, ~routeMissed,
                      routeRelated => routeOptions.hostname # Empty
               PROVE  ingress = IF routeRelated THEN Reconciled(routeLeader) ELSE NoRoute
    BY DEF RouteCurrent, Reconciled
  <2>1. Served
    BY DEF RouteInv, IngressInv
  <2>2. CASE routeRelated
    <3>1. routeBag = Reconciled(routeLeader)
      BY <2>2 DEF RouteInv, BagInv
    <3>2. Required \subseteq DOMAIN Reconciled(routeLeader)
      BY <2>2, RouteFields DEF Required
    <3> QED  BY <2>1, <2>2, <3>1, <3>2 DEF Served
  <2> QED  BY <2>1, <2>2 DEF Served
<1>2. QED
  BY <1>1, RouteInvariant, PTL

-----------------------------------------------------------------------------
(* grafana-dashboard: Grafana shows what is offered now, once for a uid.    *)

Templates == [uid : {"celery", "workers"}, version : 1 .. 4, form : {"good", "broken", "garbled"}]

DashTypes ==
    /\ dashRevision \in [DashUnits -> 1 .. 2] /\ dashLeader \in DashUnits
    /\ dashHooks \in [DashUnits -> SUBSET PublishingHooks]
    /\ dashRelated \subseteq DashRelations
    /\ dashBag \in [DashRelations -> SUBSET Templates]
    /\ grafanaHooks \in [DashRelations -> {"none", "changed", "broken"}]
    /\ peerDashboards \in [DashRelations -> SUBSET Templates]

\* Superset's databag has the dashboards of its leader, unless a hook of the
\* leader waits; of a relation that is gone nothing is left.
PublishedInv ==
    /\ "superset" \in dashRelated /\ dashHooks[dashLeader] = {}
         => dashBag["superset"] = Files(dashRevision[dashLeader])
    /\ \A r \in DashRelations \ dashRelated : dashBag[r] = NoTemplates

\* Grafana has read the databag, unless its hook waits.  It skips an empty
\* databag, but never with a hook that waits.
ReadInv ==
    \A r \in DashRelations :
        /\ grafanaHooks[r] = "none" => peerDashboards[r] = Rendered(dashBag[r])
        /\ grafanaHooks[r] = "changed" => dashBag[r] # NoTemplates
        /\ grafanaHooks[r] = "broken" => r \notin dashRelated

DashInv == DashTypes /\ PublishedInv /\ ReadInv

LEMMA FilesGood ==
    ASSUME NEW n \in 1 .. 2
    PROVE  /\ Files(n) \subseteq Templates /\ Files(n) # NoTemplates
           /\ Rendered(Files(n)) = Files(n)
<1>1. \A uid \in {"celery", "workers"}, v \in 1 .. 4 :
        Template(uid, v, "good") \in Templates /\ Template(uid, v, "good").form = "good"
  BY DEF Template, Templates
<1>2. 1 \in 1 .. 4 /\ 3 \in 1 .. 4
  OBVIOUS
<1>3. \A t \in Files(n) : t \in Templates /\ t.form = "good"
  BY <1>1, <1>2 DEF Files
<1>4. Files(n) # {}
  BY DEF Files
<1>5. QED
  BY <1>3, <1>4 DEF NoTemplates, Rendered

LEMMA OtherGood ==
    ASSUME NEW ts \in OtherTemplates
    PROVE  ts \subseteq Templates /\ ts # NoTemplates
<1>1. \A uid \in {"celery", "workers"}, v \in 1 .. 4, f \in {"good", "broken", "garbled"} :
        Template(uid, v, f) \in Templates
  BY DEF Template, Templates
<1>2. 2 \in 1 .. 4 /\ 3 \in 1 .. 4 /\ 4 \in 1 .. 4
  OBVIOUS
<1>3. QED
  BY <1>1, <1>2 DEF OtherTemplates, NoTemplates

LEMMA RenderedPart ==
    ASSUME NEW ts \in SUBSET Templates
    PROVE  /\ Rendered(ts) \in SUBSET Templates /\ Rendered(NoTemplates) = NoTemplates
           /\ \A t \in Rendered(ts) : t.form = "good"
BY DEF Rendered, NoTemplates

LEMMA DashStep == DashInv /\ [DashNext]_dashVars => DashInv'
<1> SUFFICES ASSUME DashInv, [DashNext]_dashVars PROVE DashInv'
  OBVIOUS
<1> USE DEF DashInv
<1>1. ASSUME NEW u \in DashUnits, PublishDashboards(u) PROVE DashInv'
  <2>1. UNCHANGED <<dashRevision, dashLeader, dashRelated, peerDashboards>>
    BY <1>1 DEF PublishDashboards
  <2>2. PICK h \in dashHooks[u] :
          /\ dashHooks' = [dashHooks EXCEPT ![u] = @ \ {h}]
          /\ IF h \in PublishingHooks /\ u = dashLeader /\ "superset" \in dashRelated
             THEN /\ dashBag' = [dashBag EXCEPT !["superset"] = Files(dashRevision[u])]
                  /\ grafanaHooks' = [grafanaHooks EXCEPT !["superset"] = "changed"]
             ELSE UNCHANGED <<dashBag, grafanaHooks>>
    BY <1>1 DEF PublishDashboards
  <2>3. h \in PublishingHooks /\ dashRevision[u] \in 1 .. 2
    BY DEF DashTypes
  <2>4. CASE u = dashLeader /\ "superset" \in dashRelated
    <3>1. /\ dashBag' = [dashBag EXCEPT !["superset"] = Files(dashRevision[u])]
          /\ grafanaHooks' = [grafanaHooks EXCEPT !["superset"] = "changed"]
      BY <2>2, <2>3, <2>4
    <3>2. DashTypes'
      BY <2>1, <2>2, <2>3, <3>1, FilesGood DEF DashTypes, DashRelations
    <3>3. PublishedInv' /\ ReadInv'
      BY <2>1, <2>3, <2>4, <3>1, FilesGood DEF DashTypes, PublishedInv, ReadInv, DashRelations
    <3>4. QED
      BY <3>2, <3>3
  <2>5. CASE ~(u = dashLeader /\ "superset" \in dashRelated)
    <3>1. UNCHANGED <<dashBag, grafanaHooks>>
      BY <2>2, <2>5
    <3>2. DashTypes'
      BY <2>1, <2>2, <3>1 DEF DashTypes
    <3>3. PublishedInv' /\ ReadInv'
      BY <2>1, <2>2, <2>5, <3>1 DEF DashTypes, PublishedInv, ReadInv
    <3>4. QED
      BY <3>2, <3>3
  <2>6. QED
    BY <2>4, <2>5
<1>2. ASSUME NEW u \in DashUnits, RefreshDashUnit(u) PROVE DashInv'
  BY <1>2 DEF RefreshDashUnit, DashTypes, PublishedInv, ReadInv, PublishingHooks
<1>3. ASSUME NEW r \in DashRelations, OnDashboardsChanged(r) PROVE DashInv'
  <2>1. /\ UNCHANGED <<dashRevision, dashLeader, dashHooks, dashRelated, dashBag>>
        /\ grafanaHooks[r] = "changed"
        /\ grafanaHooks' = [grafanaHooks EXCEPT ![r] = "none"]
    BY <1>3 DEF OnDashboardsChanged, supersetDashVars
  <2>2. peerDashboards' = [peerDashboards EXCEPT ![r] = Rendered(dashBag[r])]
    BY <1>3, <2>1 DEF OnDashboardsChanged, ReadInv
  <2>3. Rendered(dashBag[r]) \in SUBSET Templates
    BY RenderedPart DEF DashTypes
  <2>4. QED
    BY <2>1, <2>2, <2>3 DEF DashTypes, PublishedInv, ReadInv
<1>4. ASSUME NEW r \in DashRelations, OnDashboardsBroken(r) PROVE DashInv'
  <2>1. /\ UNCHANGED <<dashRevision, dashLeader, dashHooks, dashRelated, dashBag>>
        /\ grafanaHooks[r] = "broken"
        /\ grafanaHooks' = [grafanaHooks EXCEPT ![r] = "none"]
        /\ peerDashboards' = [peerDashboards EXCEPT ![r] = NoTemplates]
    BY <1>4 DEF OnDashboardsBroken, supersetDashVars
  <2>2. NoTemplates = Rendered(dashBag[r]) /\ NoTemplates \in SUBSET Templates
    BY <2>1, RenderedPart DEF ReadInv, PublishedInv, NoTemplates
  <2>3. QED
    BY <2>1, <2>2 DEF DashTypes, PublishedInv, ReadInv
<1>5. ASSUME NEW r \in DashRelations, Relate(r) PROVE DashInv'
  BY <1>5 DEF Relate, DashTypes, PublishedInv, ReadInv, PublishingHooks
<1>6. ASSUME NEW r \in DashRelations, Unrelate(r) PROVE DashInv'
  BY <1>6 DEF Unrelate, supersetDashVars, DashTypes, PublishedInv, ReadInv, NoTemplates
<1>7. CASE MoveDashLeader
  BY <1>7 DEF MoveDashLeader, DashTypes, PublishedInv, ReadInv, PublishingHooks
<1>8. CASE OtherPublishes
  <2>1. PICK ts \in OtherTemplates : dashBag' = [dashBag EXCEPT !["other"] = ts]
    BY <1>8 DEF OtherPublishes
  <2>2. QED
    BY <1>8, <2>1, OtherGood
    DEF OtherPublishes, supersetDashVars, DashTypes, PublishedInv, ReadInv, DashRelations
<1>9. CASE UNCHANGED dashVars
  BY <1>9 DEF dashVars, supersetDashVars, DashTypes, PublishedInv, ReadInv
<1>10. QED
  BY <1>1, <1>2, <1>3, <1>4, <1>5, <1>6, <1>7, <1>8, <1>9 DEF DashNext

LEMMA DashInvariant == DashSpec => []DashInv
<1>1. DashInit => DashInv
  BY DEF DashInit, DashInv, DashTypes, PublishedInv, ReadInv, Rendered, NoTemplates
<1>2. QED
  BY <1>1, DashStep, PTL DEF DashSpec

\* One dashboard for each uid: the highest version of those that are known.
LEMMA HighestShown ==
    ASSUME peerDashboards \in [DashRelations -> SUBSET Templates],
           \A r \in DashRelations : \A t \in peerDashboards[r] : t.form = "good"
    PROVE  /\ \A a, b \in Shown : a[2].uid = b[2].uid => a = b
           /\ {a[2] : a \in Shown} =
                {t \in peerDashboards["superset"] \union peerDashboards["other"] :
                   \A o \in peerDashboards["superset"] \union peerDashboards["other"] :
                      o.uid = t.uid => o.version <= t.version}
<1> DEFINE All == peerDashboards["superset"] \union peerDashboards["other"]
<1>1. \A a : a \in Known <=> \E r \in DashRelations : \E t \in peerDashboards[r] : a = <<r, t>>
  BY DEF Known
<1>2. \A t : t \in All <=> <<"superset", t>> \in Known \/ <<"other", t>> \in Known
  BY <1>1 DEF DashRelations
<1>3. \A t \in All : /\ t \in Templates /\ t.form = "good" /\ t.version \in Nat
  BY DEF DashRelations, Templates
<1>4. \A s, t \in All : s.uid = t.uid /\ s.version = t.version => s = t
  BY <1>3 DEF Templates
<1>5. \A a \in Known : /\ a = <<a[1], a[2]>> /\ a[2] \in All
                       /\ a[1] \in {"superset", "other"}
  BY <1>1 DEF DashRelations
<1> HIDE DEF All
<1>6. \A a, b \in Shown : a[2].uid = b[2].uid => a = b
  <2> SUFFICES ASSUME NEW a \in Shown, NEW b \in Shown, a[2].uid = b[2].uid
               PROVE  a = b
    OBVIOUS
  <2>1. a \in Known /\ b \in Known /\ ~Above(a, b) /\ ~Above(b, a)
    BY DEF Shown
  <2>2. a[2].version = b[2].version /\ a[1] = b[1]
    <3>1. a[2].version \in Nat /\ b[2].version \in Nat
      BY <1>3, <1>5, <2>1
    <3>2. a[2].version = b[2].version
      BY <3>1, <2>1 DEF Above
    <3>3. QED
      BY <3>2, <2>1, <1>5 DEF Above
  <2>3. a[2] = b[2]
    BY <1>4, <1>5, <2>1, <2>2
  <2>4. QED
    BY <1>5, <2>1, <2>2, <2>3
<1>7. ASSUME NEW a \in Shown
      PROVE  a[2] \in All /\ \A o \in All : o.uid = a[2].uid => o.version <= a[2].version
  <2>1. a \in Known
    BY DEF Shown
  <2>2. ASSUME NEW o \in All, o.uid = a[2].uid PROVE o.version <= a[2].version
    <3>1. PICK r \in {"superset", "other"} : <<r, o>> \in Known
      BY <1>2
    <3>2. ~Above(<<r, o>>, a)
      BY <2>2, <3>1 DEF Shown
    <3>3. ~(o.version > a[2].version)
      BY <3>2 DEF Above
    <3>4. QED
      BY <3>3, <1>3, <1>5, <2>1
  <2>3. QED
    BY <1>5, <2>1, <2>2
<1>8. ASSUME NEW t \in All, \A o \in All : o.uid = t.uid => o.version <= t.version
      PROVE  \E a \in Shown : t = a[2]
  <2>1. \A b \in Known, r \in {"superset", "other"} :
          b[2].uid = t.uid /\ Above(b, <<r, t>>) => b = <<"other", t>> /\ r = "superset"
    <3> SUFFICES ASSUME NEW b \in Known, NEW r \in {"superset", "other"}, b[2].uid = t.uid,
                        Above(b, <<r, t>>)
                 PROVE  b = <<"other", t>> /\ r = "superset"
      OBVIOUS
    <3>1. b[2] \in All /\ b[2].version \in Nat /\ t.version \in Nat
      BY <1>3, <1>5
    <3>2. ~(b[2].version > t.version)
      BY <3>1, <1>8
    <3>3. b[2].version = t.version /\ b[1] = "other" /\ r = "superset"
      BY <3>2 DEF Above
    <3>4. QED
      BY <3>1, <3>3, <1>4, <1>5
  <2>2. CASE <<"other", t>> \in Known
    <3>1. <<"other", t>> \in Shown
      BY <2>1, <2>2 DEF Shown
    <3>2. QED
      BY <3>1
  <2>3. CASE <<"other", t>> \notin Known
    <3>1. <<"superset", t>> \in Known
      BY <2>3, <1>2
    <3>2. <<"superset", t>> \in Shown
      BY <2>1, <2>3, <3>1 DEF Shown
    <3>3. QED
      BY <3>2
  <2>4. QED
    BY <2>2, <2>3
<1>9. QED
  BY <1>6, <1>7, <1>8 DEF All

(* Once no hook waits, Grafana shows for each uid the highest version that  *)
(* is offered now, once, and nothing else (dashboards,                      *)
(* _render_dashboards_and_signal_changed, _update_all_dashboards_from_dir). *)
THEOREM DashboardsFollow == DashSpec => []DashboardsCurrent
<1>1. DashInv => DashboardsCurrent
  <2> SUFFICES ASSUME DashInv, \A u \in DashUnits : dashHooks[u] = {},
                      \A r \in DashRelations : grafanaHooks[r] = "none"
               PROVE  /\ \A a, b \in Shown : a[2].uid = b[2].uid => a = b
                      /\ {a[2] : a \in Shown} =
                           {t \in Offered : \A o \in Offered :
                                              o.uid = t.uid => o.version <= t.version}
    BY DEF DashboardsCurrent
  <2>1. \A r \in DashRelations : peerDashboards[r] = Rendered(dashBag[r])
    BY DEF DashInv, ReadInv
  <2>2. peerDashboards["superset"] =
          IF "superset" \in dashRelated THEN Files(dashRevision[dashLeader]) ELSE {}
    <3>1. CASE "superset" \in dashRelated
      <4>1. dashBag["superset"] = Files(dashRevision[dashLeader])
        BY <3>1 DEF DashInv, PublishedInv, DashTypes
      <4>2. dashRevision[dashLeader] \in 1 .. 2
        BY DEF DashInv, DashTypes
      <4>3. QED
        BY <2>1, <3>1, <4>1, <4>2, FilesGood DEF DashRelations
    <3>2. CASE "superset" \notin dashRelated
      BY <2>1, <3>2 DEF DashInv, PublishedInv, DashRelations, Rendered, NoTemplates
    <3>3. QED
      BY <3>1, <3>2
  <2>3. peerDashboards["other"] =
          IF \E t \in dashBag["other"] : t.form = "garbled" THEN {}
          ELSE {t \in dashBag["other"] : t.form = "good"}
    BY <2>1 DEF DashRelations, Rendered, NoTemplates
  <2>4. Offered = peerDashboards["superset"] \union peerDashboards["other"]
    BY <2>2, <2>3 DEF Offered
  <2>5. \A r \in DashRelations : \A t \in peerDashboards[r] : t.form = "good"
    BY <2>1, RenderedPart DEF DashInv, DashTypes
  <2>6. QED
    BY <2>4, <2>5, HighestShown DEF DashInv, DashTypes
<1>2. QED
  BY <1>1, DashInvariant, PTL

-----------------------------------------------------------------------------
(* All the relations.                                                       *)

\* A route that is written has no empty option.
LEMMA RouteTypeStep == RouteTypeOK /\ [RouteNext]_routeVars => RouteTypeOK'
<1> SUFFICES ASSUME RouteTypeOK, [RouteNext]_routeVars PROVE RouteTypeOK'
  OBVIOUS
<1> USE DEF RouteTypeOK
<1>0. \A hooks \in SUBSET {"changed", "broken"} :
          AllIngress(hooks) \in [IngressUnits -> SUBSET {"changed", "broken"}]
  BY DEF AllIngress
<1>1. ASSUME NEW u \in RouteUnits, RunRouteHook(u) PROVE RouteTypeOK'
  <2>1. \A k \in DOMAIN routeBag' : routeBag'[k] # Empty
    BY <1>1, RouteFields DEF RunRouteHook
  <2>2. QED
    BY <1>0, <1>1, <2>1 DEF RunRouteHook, ingressVars
<1>2. ChangesRoute => routeChanges' \in 0 .. MaxRouteChanges
  BY RouteAssumption DEF ChangesRoute
<1>3. ASSUME NEW u \in RouteUnits, RefreshRouteUnit(u) PROVE RouteTypeOK'
  BY <1>2, <1>3 DEF RefreshRouteUnit, ingressVars
<1>4. ASSUME NEW i \in IngressUnits, OnRouteChanged(i) \/ OnRouteBroken(i) PROVE RouteTypeOK'
  <2>1. ingressBlocked' \subseteq IngressUnits
    BY <1>4 DEF OnRouteChanged, OnRouteBroken
  <2> QED  BY <1>4, <2>1 DEF OnRouteChanged, OnRouteBroken, IngressHook, supersetRouteVars
<1>5. CASE SetRouteOption
  BY <1>2, <1>5 DEF SetRouteOption, ingressVars
<1>6. CASE MoveRouteLeader
  BY <1>6 DEF MoveRouteLeader, ingressVars
<1>7. CASE RelateRoute
  BY <1>0, <1>2, <1>7 DEF RelateRoute, ingressVars
<1>8. CASE RemoveRoute
  BY <1>0, <1>2, <1>8 DEF RemoveRoute, NoRoute, ingressVars
<1>9. CASE MoveIngressLeader
  BY <1>9 DEF MoveIngressLeader, supersetRouteVars
<1>10. CASE UNCHANGED routeVars
  BY <1>10 DEF routeVars, supersetRouteVars, ingressVars
<1>11. QED
  BY <1>1, <1>3, <1>4, <1>5, <1>6, <1>7, <1>8, <1>9, <1>10 DEF RouteNext

\* What Grafana keeps can be read, whatever is sent meanwhile.
ShownInv ==
    /\ \A r \in DashRelations : \A t \in peerDashboards[r] : t.form = "good"
    /\ dashChanges \in 0 .. MaxDashChanges

LEMMA ShownStep == DashTypes /\ ShownInv /\ [DashNext]_dashVars => ShownInv'
<1> SUFFICES ASSUME DashTypes, ShownInv, [DashNext]_dashVars PROVE ShownInv'
  OBVIOUS
<1>1. UNCHANGED dashChanges \/ dashChanges' \in 0 .. MaxDashChanges
  BY DashAssumption DEF DashNext, PublishDashboards, RefreshDashUnit, OnDashboardsChanged,
     OnDashboardsBroken, Relate, Unrelate, MoveDashLeader, OtherPublishes, ChangesDash,
     ShownInv, dashVars
<1>2. ASSUME NEW r \in DashRelations, OnDashboardsChanged(r) \/ OnDashboardsBroken(r)
      PROVE  \A s \in DashRelations : \A t \in peerDashboards'[s] : t.form = "good"
  <2>1. dashBag[r] \in SUBSET Templates
    BY DEF DashTypes
  <2>2. \A t \in Rendered(dashBag[r]) : t.form = "good"
    BY <2>1, RenderedPart
  <2>3. QED
    BY <1>2, <2>2 DEF OnDashboardsChanged, OnDashboardsBroken, DashTypes, ShownInv, NoTemplates
<1>3. \/ UNCHANGED peerDashboards
      \/ \E r \in DashRelations : OnDashboardsChanged(r) \/ OnDashboardsBroken(r)
  BY DEF DashNext, PublishDashboards, RefreshDashUnit, Relate, Unrelate, MoveDashLeader,
     OtherPublishes, supersetDashVars, dashVars
<1>4. QED
  BY <1>1, <1>2, <1>3 DEF ShownInv

(* Every variable of the route keeps its type; none of its options is empty.*)
THEOREM RouteTypeCorrect == RouteSpec => []RouteTypeOK
<1>1. RouteInit => RouteTypeOK
  BY RouteAssumption DEF RouteInit, RouteTypeOK, NoRoute, AllIngress
<1>2. QED
  BY <1>1, RouteTypeStep, PTL DEF RouteSpec

(* Every variable of the dashboards keeps its type; Grafana keeps nothing   *)
(* it could not read, whatever the other application sends.                 *)
THEOREM DashTypeCorrect == DashSpec => []DashTypeOK
<1>1. DashInit => DashInv /\ ShownInv
  BY DashAssumption DEF DashInit, DashInv, DashTypes, PublishedInv, ReadInv, ShownInv, Rendered,
     NoTemplates
<1>2. DashInv => DashTypes
  BY DEF DashInv
<1>3. DashInv /\ ShownInv => DashTypeOK
  BY DEF DashInv, DashTypes, PublishedInv, ShownInv, PublishingHooks, DashTypeOK
<1>4. QED
  BY <1>1, <1>2, <1>3, DashStep, ShownStep, PTL DEF DashSpec

-----------------------------------------------------------------------------
(* A behaviour of the composition is one of a component, to which all the   *)
(* others do not exist.                                                     *)

LEMMA DbOrUnused == Spec => DbSpec \/ []DbUnused
<1> DEFINE Used == inUse = "database"
           Absence == inUse # "database" /\ DbUnused
<1>1. Init => Absence \/ (Used /\ DbInit)
  BY DEF Init
<1>2. Absence /\ [Next]_allVars => Absence'
  BY DEF Next, allVars, dbVars, superVars, providerVars, DbUnused
<1>3. Used /\ [Next]_allVars => Used' /\ [DbNext]_dbVars
  BY DEF Next, allVars
<1>4. Absence => DbUnused
  OBVIOUS
<1> HIDE DEF Used, Absence
<1>5. QED
  BY <1>1, <1>2, <1>3, <1>4, PTL DEF Spec, DbSpec

LEMMA MetricsOrUnused == Spec => MetricsSpec \/ []MetricsUnused
<1> DEFINE Used == inUse \in {"metrics", "alerts"}
           Absence == inUse \notin {"metrics", "alerts"} /\ MetricsUnused
<1>1. Init => Absence \/ (Used /\ MetricsInit)
  BY DEF Init, TargetsInit, AlertsInit
<1>2. Absence /\ [Next]_allVars => Absence'
  BY DEF Next, allVars, metricsVars, podVars, bagVars, consumerVars, MetricsUnused
<1>3. Used /\ [Next]_allVars => Used' /\ [MetricsNext]_metricsVars
  BY DEF Next, allVars, TargetsNext, AlertsNext
<1>4. Absence => MetricsUnused
  OBVIOUS
<1> HIDE DEF Used, Absence
<1>5. QED
  BY <1>1, <1>2, <1>3, <1>4, PTL DEF Spec, MetricsSpec

LEMMA LogOrUnused == Spec => LogSpec \/ []LogUnused
<1> DEFINE Used == inUse = "logging"
           Absence == inUse # "logging" /\ LogUnused
<1>1. Init => Absence \/ (Used /\ LogInit)
  BY DEF Init
<1>2. Absence /\ [Next]_allVars => Absence'
  BY DEF Next, allVars, logVars, lokiVars, forwarderVars, LogUnused, LogInit
<1>3. Used /\ [Next]_allVars => Used' /\ [LogNext]_logVars
  BY DEF Next, allVars
<1>4. Absence => LogUnused
  OBVIOUS
<1> HIDE DEF Used, Absence
<1>5. QED
  BY <1>1, <1>2, <1>3, <1>4, PTL DEF Spec, LogSpec

LEMMA RouteOrUnused == Spec => RouteSpec \/ []RouteUnused
<1> DEFINE Used == inUse = "route"
           Absence == inUse # "route" /\ RouteUnused
<1>1. Init => Absence \/ (Used /\ RouteInit)
  BY DEF Init
<1>2. Absence /\ [Next]_allVars => Absence'
  BY DEF Next, allVars, routeVars, supersetRouteVars, ingressVars, RouteUnused
<1>3. Used /\ [Next]_allVars => Used' /\ [RouteNext]_routeVars
  BY DEF Next, allVars
<1>4. Absence => RouteUnused
  OBVIOUS
<1> HIDE DEF Used, Absence
<1>5. QED
  BY <1>1, <1>2, <1>3, <1>4, PTL DEF Spec, RouteSpec

LEMMA DashOrUnused == Spec => DashSpec \/ []DashUnused
<1> DEFINE Used == inUse = "dashboards"
           Absence == inUse # "dashboards" /\ DashUnused
<1>1. Init => Absence \/ (Used /\ DashInit)
  BY DEF Init
<1>2. Absence /\ [Next]_allVars => Absence'
  BY DEF Next, allVars, dashVars, supersetDashVars, DashUnused
<1>3. Used /\ [Next]_allVars => Used' /\ [DashNext]_dashVars
  BY DEF Next, allVars
<1>4. Absence => DashUnused
  OBVIOUS
<1> HIDE DEF Used, Absence
<1>5. QED
  BY <1>1, <1>2, <1>3, <1>4, PTL DEF Spec, DashSpec

(* What holds where a relation does not exist.                              *)
LEMMA UnusedTyped ==
    /\ DbUnused => DbTypeOK
    /\ MetricsUnused => MetricsTypeOK
    /\ LogUnused => LogTypeOK
    /\ RouteUnused => RouteTypeOK
    /\ DashUnused => DashTypeOK
<1>1. DbUnused => DbTypeOK
  BY UnitAssumption DEF DbUnused, DbTypeOK
<1>2. MetricsUnused => MetricsTypeOK
  BY MetricsStarts DEF MetricsInv
<1>3. LogUnused => LogTypeOK
  <2> SUFFICES ASSUME LogUnused PROVE LogTypeOK
    OBVIOUS
  <2>1. logContainer \in BOOLEAN /\ lokiChanges \in 0 .. MaxLokiChanges
    <3>1. logContainer \in BOOLEAN
      BY Zenon DEF LogUnused, LogInit
    <3>2. lokiChanges = 0
      BY DEF LogUnused, LogInit
    <3>3. QED
      BY <3>1, <3>2, LokiAssumption
  <2>2. /\ lokiJoined = {} /\ lokiHooks = {} /\ logHooks = {} /\ rulesSent = {}
        /\ \A l \in LokiUnits : lokiUrl[l] = 1 /\ lokiEndpoint[l] = 0 /\ logPlan[l] = Absent
    BY DEF LogUnused, LogInit
  <2>3. QED
    BY <2>1, <2>2 DEF LogTypeOK
<1>4. RouteUnused => RouteTypeOK
  BY RouteAssumption DEF RouteUnused, RouteTypeOK, NoRoute, AllIngress
<1>5. DashUnused => DashTypeOK
  BY DashAssumption DEF DashUnused, DashTypeOK, NoTemplates
<1>6. QED
  BY <1>1, <1>2, <1>3, <1>4, <1>5

(* Every variable of every relation keeps its type.                         *)
THEOREM IntegrationsTyped == Spec => []IntegrationsTypeOK
BY DbOrUnused, MetricsOrUnused, LogOrUnused, RouteOrUnused, DashOrUnused, UnusedTyped,
   DbTypeCorrect, MetricsTypeCorrect, LogTypeCorrect, RouteTypeCorrect, DashTypeCorrect,
   PTL DEF IntegrationsTypeOK

LEMMA UnusedSafe ==
    /\ DbUnused => CredentialsHidden /\ CreatedOnce /\ StatusFollowed /\ ConnectionCurrent
    /\ MetricsUnused => JobNamesUnique /\ ErrorsCurrent
    /\ LogUnused => ForwardingCurrent /\ RulesReachLoki
    /\ RouteUnused => RouteCurrent
    /\ DashUnused => DashboardsCurrent
<1>1. DbUnused => CredentialsHidden /\ CreatedOnce /\ StatusFollowed /\ ConnectionCurrent
  <2> SUFFICES ASSUME DbUnused
               PROVE  CredentialsHidden /\ CreatedOnce /\ StatusFollowed /\ ConnectionCurrent
    OBVIOUS
  <2>1. StatusFollowed /\ ConnectionCurrent
    BY DbStarts DEF DbInvs, ConnectionInv, StatusInv, PlannedInv, StatusFollowed, ConnectionCurrent
  <2>2. QED
    BY <2>1 DEF DbUnused, CredentialsHidden, CreatedOnce
<1>2. MetricsUnused => JobNamesUnique /\ ErrorsCurrent
  BY DEF MetricsUnused, JobNamesUnique, ErrorsCurrent
<1>3. LogUnused => ForwardingCurrent /\ RulesReachLoki
  BY DEF LogUnused, LogInit, ForwardingCurrent, RulesReachLoki, Active
<1>4. RouteUnused => RouteCurrent
  BY DEF RouteUnused, RouteCurrent
<1>5. DashUnused => DashboardsCurrent
  <2>1. DashUnused => Known = {} /\ Offered = {}
    BY DEF DashUnused, Known, Offered, NoTemplates, DashRelations
  <2>2. QED
    BY <2>1 DEF DashboardsCurrent, Shown
<1>6. QED
  BY <1>1, <1>2, <1>3, <1>4, <1>5

(* What is promised of each relation holds where all of them are: none      *)
(* touches what another has published, planned or told.                     *)
THEOREM IntegrationsSafe ==
    Spec => [](/\ CredentialsHidden /\ CreatedOnce /\ StatusFollowed /\ ConnectionCurrent
               /\ JobNamesUnique /\ ErrorsCurrent
               /\ ForwardingCurrent /\ RulesReachLoki
               /\ RouteCurrent /\ DashboardsCurrent)
BY DbOrUnused, MetricsOrUnused, LogOrUnused, RouteOrUnused, DashOrUnused, UnusedSafe,
   Hidden, AnnouncedOnce, StatusKept, ConnectionFollows, NamesUnique, ErrorsFollow,
   Forwarding, RulesSent, RouteFollows, DashboardsFollow, PTL
=============================================================================
