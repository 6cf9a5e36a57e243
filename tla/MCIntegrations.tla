----------------------------- MODULE MCIntegrations -----------------------------
(* The relations of Superset to other charms through their libraries, for   *)
(* TLC: they share no state, and a behaviour is of one of them.  Those of   *)
(* metrics-endpoint are about addresses and jobs, with rules that stay, or  *)
(* about rules, with addresses that stay and one job.                       *)
EXTENDS DatabaseRelation, Metrics, LogForwarding, IngressRoute, Dashboards

VARIABLE inUse      \* the relation this behaviour is about

allVars == <<inUse, dbVars, metricsVars, logVars, routeVars, dashVars>>

IntegrationsTypeOK == DbTypeOK /\ MetricsTypeOK /\ LogTypeOK /\ RouteTypeOK /\ DashTypeOK

First(S) == CHOOSE x \in S : TRUE

\* Up to renaming, one unit of Prometheus leads.
TargetsInit ==
    /\ MetricsInit /\ promLeader = First(PromUnits)
    /\ verdict = [rules |-> "valid", jobs |-> "valid"]

AlertsInit ==
    /\ MetricsInit /\ promLeader = First(PromUnits) /\ scrapeLeader = First(ScrapeUnits)
    /\ specJobs = <<[name |-> "", targets |-> {Wildcard}]>>

TargetsNext == MetricsNext /\ UNCHANGED <<verdict, promLeader>>
AlertsNext == MetricsNext /\ UNCHANGED <<address, scrapeLeader>>

Init ==
    /\ inUse \in {"database", "metrics", "alerts", "logging", "route", "dashboards"}
    /\ IF inUse = "database" THEN DbInit ELSE DbUnused
    /\ CASE inUse = "metrics" -> TargetsInit
         [] inUse = "alerts"  -> AlertsInit
         [] OTHER             -> MetricsUnused
    /\ IF inUse = "logging" THEN LogInit ELSE LogUnused
    /\ IF inUse = "route" THEN RouteInit ELSE RouteUnused
    /\ IF inUse = "dashboards" THEN DashInit ELSE DashUnused

Next ==
    /\ UNCHANGED inUse
    /\ \/ inUse = "database" /\ DbNext /\ UNCHANGED <<metricsVars, logVars, routeVars, dashVars>>
       \/ inUse = "metrics" /\ TargetsNext /\ UNCHANGED <<dbVars, logVars, routeVars, dashVars>>
       \/ inUse = "alerts" /\ AlertsNext /\ UNCHANGED <<dbVars, logVars, routeVars, dashVars>>
       \/ inUse = "logging" /\ LogNext /\ UNCHANGED <<dbVars, metricsVars, routeVars, dashVars>>
       \/ inUse = "route" /\ RouteNext /\ UNCHANGED <<dbVars, metricsVars, logVars, dashVars>>
       \/ inUse = "dashboards" /\ DashNext /\ UNCHANGED <<dbVars, metricsVars, logVars, routeVars>>

\* Juju runs the hooks that wait, and update-status again and again.
Fairness ==
    /\ \A p \in PromUnits : WF_metricsVars(inUse \in {"metrics", "alerts"} /\ OnTargetsChanged(p))
    /\ \A u \in ScrapeUnits :
           /\ WF_metricsVars(inUse \in {"metrics", "alerts"}
                               /\ (SetScrapeJobSpec(u) \/ OnScrapeRelationChanged(u)))
           /\ WF_metricsVars(inUse \in {"metrics", "alerts"} /\ OnMetricsUpdateStatus(u))

Spec == Init /\ [][Next]_allVars /\ Fairness
=============================================================================
