----------------------------- MODULE LogForwarding -----------------------------
(***************************************************************************)
(* The logging relations at both ends (loki_push_api.py): units of Loki,   *)
(* of two related applications, publish the URL to push logs to, and a     *)
(* unit of Superset keeps the log targets of its Pebble plan as they are   *)
(* published (LogForwarder, _PebbleLogClient).                             *)
(***************************************************************************)
EXTENDS Naturals

CONSTANTS
    LokiUnits,          \* units of the two Loki applications
    FirstLoki,          \* those of the first relation
    MaxLokiChanges      \* bound: changes of Loki, and restarts of the container

ASSUME LokiAssumption == FirstLoki \subseteq LokiUnits /\ MaxLokiChanges \in Nat

VARIABLES
    lokiJoined,     \* units of Loki that are in their relation
    lokiUrl,        \* unit of Loki -> version of its URL
    lokiEndpoint,   \* unit of Loki -> version it has published, 0 for none
    lokiHooks,      \* units of Loki with a relation hook to run
    logHooks,       \* Superset's hooks that wait: relations, "ready"
    logContainer,   \* Pebble can be reached
    logPlan,        \* unit of Loki -> target: version, Off or Absent
    logLeader,      \* this unit of Superset leads
    rulesSent,      \* relations whose databag has the alert rules
    lokiChanges

lokiVars == <<lokiJoined, lokiUrl, lokiEndpoint>>
forwarderVars == <<logPlan, rulesSent>>
logVars == <<lokiVars, lokiHooks, logHooks, logContainer, forwarderVars, logLeader, lokiChanges>>

RelationOf(l) == IF l \in FirstLoki THEN "first" ELSE "second"
Members(r) == {l \in lokiJoined : RelationOf(l) = r}
Absent == 0         \* no target of that name in the plan
Off == 3            \* services: -all
Enabled(target) == target \notin {Off, Absent}

\* is_ready: KeyError as soon as one unit of the relation has no endpoint
IsReady(r) == Members(r) # {} /\ \A l \in Members(r) : lokiEndpoint[l] # 0

\* _retrieve_endpoints_from_relation: the units of every relation that is ready
Active == {l \in lokiJoined : IsReady(RelationOf(l))}

\* Mutant: targets without an endpoint stay enabled.
TargetEnabled(l) == IF l \in Active THEN lokiEndpoint[l] ELSE logPlan[l]

\* _update_endpoints: enabled targets without an endpoint are turned off, and
\* those with one are set to it.
Target(l) ==
    CASE l \in Active                             -> lokiEndpoint[l]
      [] l \notin Active /\ Enabled(logPlan[l])   -> Off
      [] l \notin Active /\ ~Enabled(logPlan[l])  -> logPlan[l]

UpdateEndpoints == logPlan' = [l \in LokiUnits |-> Target(l)]

\* Mutant: the rules are skipped with an unreachable container.
HandleAlertRulesIfReachable(r) == IF logLeader /\ logContainer THEN rulesSent \union {r} ELSE rulesSent

\* _handle_alert_rules
HandleAlertRules(r) == IF logLeader THEN rulesSent \union {r} ELSE rulesSent

\* _update_logging, on any event of relation r; without an endpoint anywhere it
\* leaves the plan, and the alert rules, as they are.
UpdateLogging(r) ==
    /\ r \in logHooks /\ logHooks' = logHooks \ {r}
    /\ IF Active = {} THEN UNCHANGED forwarderVars
       ELSE /\ IF logContainer THEN UpdateEndpoints ELSE UNCHANGED logPlan
            /\ rulesSent' = HandleAlertRules(r)
    /\ UNCHANGED <<lokiVars, lokiHooks, logContainer, logLeader, lokiChanges>>

OnLogPebbleReady ==
    /\ "ready" \in logHooks /\ logContainer
    /\ logHooks' = logHooks \ {"ready"}
    /\ IF Active = {} THEN UNCHANGED logPlan ELSE UpdateEndpoints
    /\ UNCHANGED <<lokiVars, lokiHooks, logContainer, logLeader, rulesSent, lokiChanges>>

\* _process_logging_relation_changed and update_endpoint of LokiPushApiProvider
PublishEndpoint(l) ==
    /\ l \in lokiHooks /\ lokiHooks' = lokiHooks \ {l}
    /\ lokiEndpoint' = [lokiEndpoint EXCEPT ![l] = lokiUrl[l]]
    /\ logHooks' = logHooks \union (IF lokiEndpoint' = lokiEndpoint THEN {} ELSE {RelationOf(l)})
    /\ UNCHANGED <<lokiJoined, lokiUrl, logContainer, logLeader, forwarderVars, lokiChanges>>

Changes == lokiChanges < MaxLokiChanges /\ lokiChanges' = lokiChanges + 1

LokiJoins(l) ==
    /\ Changes /\ l \notin lokiJoined
    /\ lokiJoined' = lokiJoined \union {l}
    /\ lokiHooks' = lokiHooks \union {l}
    /\ logHooks' = logHooks \union {RelationOf(l)}
    /\ UNCHANGED <<lokiUrl, lokiEndpoint, logContainer, logLeader, forwarderVars>>

\* A unit leaves, or its relation is removed with its last unit.
LokiDeparts(l) ==
    /\ Changes /\ l \in lokiJoined
    /\ lokiJoined' = lokiJoined \ {l}
    /\ lokiHooks' = lokiHooks \ {l}
    /\ lokiEndpoint' = [lokiEndpoint EXCEPT ![l] = 0]
    /\ rulesSent' = IF \E k \in lokiJoined' : RelationOf(k) = RelationOf(l)
                    THEN rulesSent ELSE rulesSent \ {RelationOf(l)}
    /\ logHooks' = logHooks \union {RelationOf(l)}
    /\ UNCHANGED <<lokiUrl, logContainer, logLeader, logPlan>>

\* An ingress or TLS changes the URL, and Loki runs a hook.
LokiMoves(l) ==
    /\ Changes
    /\ lokiUrl' = [lokiUrl EXCEPT ![l] = 3 - @]
    /\ lokiHooks' = lokiHooks \union ({l} \intersect lokiJoined)
    /\ UNCHANGED <<lokiJoined, lokiEndpoint, logHooks, logContainer, logLeader, forwarderVars>>

\* The workload container restarts and loses its plan.
LogContainerLost ==
    /\ Changes /\ logContainer
    /\ logContainer' = FALSE
    /\ logPlan' = [l \in LokiUnits |-> Absent]
    /\ UNCHANGED <<lokiVars, lokiHooks, logHooks, logLeader, rulesSent>>

LogContainerReady ==
    /\ ~logContainer
    /\ logContainer' = TRUE /\ logHooks' = logHooks \union {"ready"}
    /\ UNCHANGED <<lokiVars, lokiHooks, logLeader, forwarderVars, lokiChanges>>

LogInit ==
    /\ lokiJoined = {} /\ lokiHooks = {} /\ logHooks = {} /\ rulesSent = {}
    /\ lokiUrl = [l \in LokiUnits |-> 1] /\ lokiEndpoint = [l \in LokiUnits |-> 0]
    /\ logPlan = [l \in LokiUnits |-> Absent]
    /\ logContainer = FALSE /\ logLeader \in BOOLEAN /\ lokiChanges = 0

LogNext ==
    \/ \E r \in {"first", "second"} : UpdateLogging(r)
    \/ \E l \in LokiUnits : PublishEndpoint(l) \/ LokiJoins(l) \/ LokiDeparts(l) \/ LokiMoves(l)
    \/ OnLogPebbleReady \/ LogContainerLost \/ LogContainerReady

LogSpec == LogInit /\ [][LogNext]_logVars

-----------------------------------------------------------------------------
LogTypeOK ==
    /\ lokiJoined \subseteq LokiUnits /\ lokiHooks \subseteq lokiJoined
    /\ logHooks \subseteq {"first", "second", "ready"}
    /\ \A l \in LokiUnits : /\ lokiUrl[l] \in 1 .. 2 /\ lokiEndpoint[l] \in 0 .. 2
                            /\ logPlan[l] \in {Absent, Off, 1, 2}
    /\ rulesSent \subseteq {"first", "second"} /\ logContainer \in BOOLEAN
    /\ lokiChanges \in 0 .. MaxLokiChanges

(* Once no hook waits, logs go to every Loki unit that is ready, at the URL *)
(* it has now, and to no other: none that left, and none that moved, also   *)
(* when the container restarted meanwhile.  Not when no Loki is ready at    *)
(* all: _update_logging then returns early and the last target stays.       *)
ForwardingCurrent ==
    logHooks = {} /\ lokiHooks = {} /\ logContainer /\ Active # {} =>
        /\ {l \in LokiUnits : Enabled(logPlan[l])} = Active
        /\ \A l \in Active : logPlan[l] = lokiUrl[l]

(* Once no hook waits, the alert rules are in the databag of every relation *)
(* with a Loki that is ready, whichever relation had an endpoint first and  *)
(* whether the container could be reached or not, if this unit leads.  The  *)
(* rules of a unit that leads later are not modelled.                       *)
RulesReachLoki ==
    logHooks = {} /\ lokiHooks = {} /\ logLeader =>
        {RelationOf(l) : l \in Active} \subseteq rulesSent

-----------------------------------------------------------------------------
\* The relations do not exist in this behaviour.
LogUnused ==
    /\ LogInit
    /\ ~logLeader
=============================================================================
