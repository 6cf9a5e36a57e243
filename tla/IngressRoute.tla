------------------------------ MODULE IngressRoute ------------------------------
(***************************************************************************)
(* The nginx-route relation at both ends (nginx_route.py).  The charm's    *)
(* constructor writes the route it wants, so that every hook of the leader *)
(* reconciles it; the leader of the Nginx ingress integrator takes a       *)
(* complete route and refuses one that lacks a field.                      *)
(*                                                                         *)
(* Units of Superset may run different revisions of the charm, which pass  *)
(* different options.  Juju drops a key whose value is the empty string.   *)
(***************************************************************************)
EXTENDS Naturals, Functions

CONSTANTS
    RouteUnits,         \* units of Superset
    IngressUnits,       \* units of the integrator
    Hostnames,          \* values of external-hostname
    MaxRouteChanges     \* bound: upgrades, options set, relations made or removed

ASSUME RouteAssumption ==
    RouteUnits # {} /\ IngressUnits # {} /\ Hostnames # {} /\ MaxRouteChanges \in Nat

VARIABLES
    routeRevision,  \* unit -> revision of the charm
    routeOptions,   \* external-hostname and tls-secret-name
    routeLeader,    \* the unit that leads
    routeRelated,   \* the relation exists
    routeBag,       \* Superset's application databag
    routeHooks,     \* units with a hook to run
    ingressHooks,   \* unit of the integrator -> hooks that wait
    ingressLeader,  \* the unit of the integrator that leads
    routeMissed,    \* history: lead passed from a unit with such a hook to one without
    ingress,        \* route the integrator serves, or NoRoute
    ingressBlocked, \* units that set "Missing fields" since they accepted a route
    routeChanges

supersetRouteVars == <<routeRevision, routeOptions, routeLeader, routeHooks>>
ingressVars == <<ingress, ingressBlocked, ingressLeader, routeMissed>>
routeVars == <<supersetRouteVars, routeRelated, routeBag, ingressHooks, ingressVars, routeChanges>>

Empty == ""
NoRoute == << >>
Application == "superset-k8s"
Required == {"service-hostname", "service-name", "service-port"}

\* require_nginx_route, as _require_nginx_route calls it: the options given to
\* it.  A revision of the charm may pass one more, or one less.
RouteConfig(u) ==
    LET given == Required \union {"service-namespace", "backend-protocol", "tls-secret-name"}
                    \union (IF routeRevision[u] = 1 THEN {"max-body-size"} ELSE {})
    IN  [k \in given |-> CASE k = "service-hostname" -> routeOptions.hostname
                           [] k = "tls-secret-name"  -> routeOptions.tls
                           [] k = "service-name"     -> Application
                           [] OTHER                  -> "fixed"]

NotEmpty(config) == Restrict(config, {k \in DOMAIN config : config[k] # Empty})

\* Mutant: keys that are no longer given stay in the databag.
ReconciledKeeping(u) ==
    LET config == RouteConfig(u)
    IN  [k \in (DOMAIN routeBag \ DOMAIN config) \union DOMAIN NotEmpty(config) |->
            IF k \in DOMAIN config THEN config[k] ELSE routeBag[k]]

\* _config_reconciliation: keys that are not given are deleted
Reconciled(u) == NotEmpty(RouteConfig(u))

\* A hook for every unit of the integrator.
AllIngress(hooks) == [i \in IngressUnits |-> hooks]

\* Any hook of the unit: the constructor reconciles.
RunRouteHook(u) ==
    /\ u \in routeHooks /\ routeHooks' = routeHooks \ {u}
    /\ routeBag' = IF u = routeLeader /\ routeRelated THEN Reconciled(u) ELSE routeBag
    /\ ingressHooks' = IF routeBag' = routeBag THEN ingressHooks ELSE AllIngress({"changed"})
    /\ UNCHANGED <<routeRevision, routeOptions, routeLeader, routeRelated, ingressVars, routeChanges>>

\* A unit of the integrator runs a hook; only that of the leader does anything.
IngressHook(i, h) ==
    /\ h \in ingressHooks[i] /\ ingressHooks' = [ingressHooks EXCEPT ![i] = @ \ {h}]
    /\ routeMissed' = (routeMissed /\ i # ingressLeader)
    /\ UNCHANGED <<supersetRouteVars, routeRelated, routeBag, ingressLeader, routeChanges>>

\* _on_relation_changed of the provider, and its charm's nginx_route_available
OnRouteChanged(i) ==
    /\ IngressHook(i, "changed")
    /\ \/ i = ingressLeader /\ Required \subseteq DOMAIN routeBag
          /\ ingress' = routeBag /\ ingressBlocked' = ingressBlocked \ {i}
       \/ i = ingressLeader /\ ~(Required \subseteq DOMAIN routeBag)
          /\ ingressBlocked' = ingressBlocked \union (IF routeBag = NoRoute THEN {} ELSE {i})
          /\ UNCHANGED ingress
       \/ i # ingressLeader /\ UNCHANGED <<ingress, ingressBlocked>>

\* _on_relation_broken, and its charm's nginx_route_broken
OnRouteBroken(i) ==
    /\ IngressHook(i, "broken")
    /\ ingress' = IF i = ingressLeader THEN NoRoute ELSE ingress
    /\ UNCHANGED ingressBlocked

ChangesRoute == routeChanges < MaxRouteChanges /\ routeChanges' = routeChanges + 1

SetRouteOption ==
    /\ ChangesRoute
    /\ \E h \in Hostnames \union {Empty}, t \in {Empty, "secret"} :
           routeOptions' = [hostname |-> h, tls |-> t]
    /\ routeHooks' = RouteUnits
    /\ UNCHANGED <<routeRevision, routeLeader, routeRelated, routeBag, ingressHooks, ingressVars>>

RefreshRouteUnit(u) ==
    /\ ChangesRoute
    /\ routeRevision' = [routeRevision EXCEPT ![u] = 3 - @]
    /\ routeHooks' = routeHooks \union {u}
    /\ UNCHANGED <<routeOptions, routeLeader, routeRelated, routeBag, ingressHooks, ingressVars>>

MoveRouteLeader ==
    /\ \E u \in RouteUnits \ {routeLeader} :
           routeLeader' = u /\ routeHooks' = routeHooks \union {u}
    /\ UNCHANGED <<routeRevision, routeOptions, routeRelated, routeBag, ingressHooks,
                   ingressVars, routeChanges>>

\* The lead of the integrator may pass from a unit that has yet to run a hook
\* to one that ran it when it did not lead.
MoveIngressLeader ==
    /\ \E i \in IngressUnits \ {ingressLeader} :
           /\ ingressLeader' = i
           /\ routeMissed' = (routeMissed \/ (ingressHooks[ingressLeader] # {}
                                              /\ ingressHooks[i] = {}))
    /\ UNCHANGED <<supersetRouteVars, routeRelated, routeBag, ingressHooks, ingress,
                   ingressBlocked, routeChanges>>

RelateRoute ==
    /\ ChangesRoute
    /\ ~routeRelated /\ \A i \in IngressUnits : "broken" \notin ingressHooks[i]
    /\ routeRelated' = TRUE /\ routeHooks' = RouteUnits
    /\ ingressHooks' = AllIngress({"changed"})
    /\ UNCHANGED <<routeRevision, routeOptions, routeLeader, routeBag, ingressVars>>

RemoveRoute ==
    /\ ChangesRoute
    /\ routeRelated /\ routeRelated' = FALSE
    /\ routeBag' = NoRoute /\ ingressHooks' = AllIngress({"broken"})
    /\ routeHooks' = RouteUnits
    /\ UNCHANGED <<routeRevision, routeOptions, routeLeader, ingressVars>>

RouteInit ==
    /\ routeRevision \in [RouteUnits -> 1 .. 2] /\ routeLeader \in RouteUnits
    /\ routeOptions \in [hostname : Hostnames, tls : {"secret"}]
    /\ routeRelated = FALSE /\ routeBag = NoRoute /\ routeHooks = {}
    /\ ingressHooks = AllIngress({}) /\ ingressLeader \in IngressUnits /\ routeMissed = FALSE
    /\ ingress = NoRoute /\ ingressBlocked = {} /\ routeChanges = 0

RouteNext ==
    \/ \E u \in RouteUnits : RunRouteHook(u) \/ RefreshRouteUnit(u)
    \/ \E i \in IngressUnits : OnRouteChanged(i) \/ OnRouteBroken(i)
    \/ SetRouteOption \/ MoveRouteLeader \/ MoveIngressLeader \/ RelateRoute \/ RemoveRoute

RouteSpec == RouteInit /\ [][RouteNext]_routeVars

-----------------------------------------------------------------------------
RouteTypeOK ==
    /\ routeRevision \in [RouteUnits -> 1 .. 2] /\ routeLeader \in RouteUnits
    /\ routeOptions \in [hostname : Hostnames \union {Empty}, tls : {Empty, "secret"}]
    /\ \A k \in DOMAIN routeBag : routeBag[k] # Empty
    /\ routeHooks \subseteq RouteUnits
    /\ ingressHooks \in [IngressUnits -> SUBSET {"changed", "broken"}]
    /\ ingressLeader \in IngressUnits /\ ingressBlocked \subseteq IngressUnits
    /\ routeChanges \in 0 .. MaxRouteChanges

(* Once no hook waits, the ingress serves what the leader's revision of the *)
(* charm asks for with the options as they are, and no option a revision    *)
(* passed before, through upgrades unit by unit, moves of leadership at     *)
(* both ends and relations made again.  Unless the lead of the integrator   *)
(* passed over the last hook.  With an empty hostname there is no route:     *)
(* line 137 of charm.py passes it on, though config.yaml:17 says that it     *)
(* defaults to the name of the application.                                 *)
RouteCurrent ==
    /\ routeHooks = {} /\ ingressHooks[ingressLeader] = {} /\ ~routeMissed
    /\ routeRelated => routeOptions.hostname # Empty
    => ingress = IF routeRelated THEN NotEmpty(RouteConfig(routeLeader)) ELSE NoRoute

-----------------------------------------------------------------------------
\* The relation does not exist in this behaviour.
RouteUnused ==
    /\ routeRevision = [u \in RouteUnits |-> 2]
    /\ routeLeader = (CHOOSE u \in RouteUnits : TRUE)
    /\ routeOptions = [hostname |-> CHOOSE h \in Hostnames : TRUE, tls |-> "secret"]
    /\ routeRelated = FALSE /\ routeBag = NoRoute /\ routeHooks = {}
    /\ ingressHooks = AllIngress({}) /\ ingressLeader = (CHOOSE i \in IngressUnits : TRUE)
    /\ routeMissed = FALSE /\ ingress = NoRoute /\ ingressBlocked = {} /\ routeChanges = 0
=============================================================================
