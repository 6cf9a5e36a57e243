------------------------------- MODULE Dashboards -------------------------------
(***************************************************************************)
(* The grafana-dashboard relations at both ends (grafana_dashboard.py).    *)
(* Superset's leader publishes the dashboards its charm contains; another  *)
(* application publishes dashboards of its own, some with the same uid.    *)
(* Grafana, of one unit, keeps what it could read of each relation and     *)
(* shows one dashboard for each uid.                                       *)
(*                                                                         *)
(* Superset's units may run different revisions of the charm, and so have  *)
(* different dashboards.  Every publication carries a fresh UUID, so that  *)
(* Grafana is told of each one.  The charm adds no dashboard of its own    *)
(* (add_dashboard), and the files are read again before each publication:  *)
(* nothing depends on the stored templates.                                *)
(***************************************************************************)
EXTENDS Naturals

CONSTANTS
    DashUnits,          \* units of Superset
    MaxDashChanges      \* bound: upgrades, relations, and what the other sends

ASSUME DashAssumption == DashUnits # {} /\ MaxDashChanges \in Nat

VARIABLES
    dashRevision,   \* unit -> revision of the charm
    dashLeader,     \* the unit that leads
    dashHooks,      \* unit -> hooks that wait, of those that publish
    dashRelated,    \* relations that exist
    dashBag,        \* relation -> published templates, or NoTemplates
    grafanaHooks,   \* relation -> "none", "changed" or "broken"
    peerDashboards, \* relation -> templates Grafana has rendered
    dashChanges

supersetDashVars == <<dashRevision, dashLeader, dashHooks>>
dashVars == <<supersetDashVars, dashRelated, dashBag, grafanaHooks, peerDashboards, dashChanges>>

DashRelations == {"superset", "other"}

Template(uid, version, form) == [uid |-> uid, version |-> version, form |-> form]

\* load_dashboards_from_dir: the dashboards of a revision, files that are no
\* JSON left out
Files(revision) ==
    IF revision = 1 THEN {Template("celery", 1, "good")}
    ELSE {Template("celery", 3, "good"), Template("workers", 1, "good")}

NoTemplates == {}

\* What the other application may send: content that does not decompress is
\* garbled, content that is no JSON is broken.
OtherTemplates ==
    { {Template("celery", 2, "good")},
      {Template("celery", 3, "good"), Template("workers", 2, "broken")},
      {Template("celery", 4, "garbled"), Template("workers", 2, "good")} }

-----------------------------------------------------------------------------
(* Superset: GrafanaDashboardProvider                                       *)

\* Mutant: a unit that was elected does not publish.
PublishingHooksButElection == {"created", "upgraded"}

\* relation-created, upgrade-charm (and config-changed), leader-elected
PublishingHooks == {"created", "upgraded", "elected"}

\* _update_all_dashboards_from_dir, and _upset_dashboards_on_relation
PublishDashboards(u) ==
    /\ \E h \in dashHooks[u] :
           /\ dashHooks' = [dashHooks EXCEPT ![u] = @ \ {h}]
           /\ IF h \in PublishingHooks /\ u = dashLeader /\ "superset" \in dashRelated
              THEN /\ dashBag' = [dashBag EXCEPT !["superset"] = Files(dashRevision[u])]
                   /\ grafanaHooks' = [grafanaHooks EXCEPT !["superset"] = "changed"]
              ELSE UNCHANGED <<dashBag, grafanaHooks>>
    /\ UNCHANGED <<dashRevision, dashLeader, dashRelated, peerDashboards, dashChanges>>

-----------------------------------------------------------------------------
(* Grafana: GrafanaDashboardConsumer                                        *)

\* Mutant: what cannot be read is kept.
RenderedUnchecked(templates) == templates

\* _render_dashboards_and_signal_changed: one garbled template, and none of the
\* relation is kept; a broken one is left out.
Rendered(templates) ==
    IF \E t \in templates : t.form = "garbled" THEN NoTemplates
    ELSE {t \in templates : t.form = "good"}

OnDashboardsChanged(r) ==
    /\ grafanaHooks[r] = "changed"
    /\ grafanaHooks' = [grafanaHooks EXCEPT ![r] = "none"]
    /\ peerDashboards' = IF dashBag[r] = NoTemplates THEN peerDashboards
                         ELSE [peerDashboards EXCEPT ![r] = Rendered(dashBag[r])]
    /\ UNCHANGED <<supersetDashVars, dashRelated, dashBag, dashChanges>>

\* _on_grafana_dashboard_relation_broken
OnDashboardsBroken(r) ==
    /\ grafanaHooks[r] = "broken"
    /\ grafanaHooks' = [grafanaHooks EXCEPT ![r] = "none"]
    /\ peerDashboards' = [peerDashboards EXCEPT ![r] = NoTemplates]
    /\ UNCHANGED <<supersetDashVars, dashRelated, dashBag, dashChanges>>

\* dashboards: of those that share a uid the highest version, then the relation
\* with the greater id as text.
Known ==
    {a \in DashRelations \X UNION {peerDashboards[r] : r \in DashRelations} :
         a[2] \in peerDashboards[a[1]]}

Above(a, b) ==
    \/ a[2].version > b[2].version
    \/ a[2].version = b[2].version /\ a[1] = "other" /\ b[1] = "superset"

Shown == {a \in Known : ~\E b \in Known : b[2].uid = a[2].uid /\ Above(b, a)}

-----------------------------------------------------------------------------
ChangesDash == dashChanges < MaxDashChanges /\ dashChanges' = dashChanges + 1

RefreshDashUnit(u) ==
    /\ ChangesDash
    /\ dashRevision' = [dashRevision EXCEPT ![u] = 3 - @]
    /\ dashHooks' = [dashHooks EXCEPT ![u] = @ \union {"upgraded"}]
    /\ UNCHANGED <<dashLeader, dashRelated, dashBag, grafanaHooks, peerDashboards>>

MoveDashLeader ==
    /\ \E u \in DashUnits \ {dashLeader} :
           /\ dashLeader' = u
           /\ dashHooks' = [dashHooks EXCEPT ![u] = @ \union {"elected"}]
    /\ UNCHANGED <<dashRevision, dashRelated, dashBag, grafanaHooks, peerDashboards, dashChanges>>

Relate(r) ==
    /\ ChangesDash
    /\ r \notin dashRelated /\ grafanaHooks[r] = "none"
    /\ dashRelated' = dashRelated \union {r}
    /\ dashHooks' = IF r = "superset" THEN [u \in DashUnits |-> dashHooks[u] \union {"created"}]
                    ELSE dashHooks
    /\ UNCHANGED <<dashRevision, dashLeader, dashBag, grafanaHooks, peerDashboards>>

Unrelate(r) ==
    /\ ChangesDash
    /\ r \in dashRelated /\ dashRelated' = dashRelated \ {r}
    /\ dashBag' = [dashBag EXCEPT ![r] = NoTemplates]
    /\ grafanaHooks' = [grafanaHooks EXCEPT ![r] = "broken"]
    /\ UNCHANGED <<supersetDashVars, peerDashboards>>

OtherPublishes ==
    /\ ChangesDash
    /\ "other" \in dashRelated
    /\ \E ts \in OtherTemplates : dashBag' = [dashBag EXCEPT !["other"] = ts]
    /\ grafanaHooks' = [grafanaHooks EXCEPT !["other"] = "changed"]
    /\ UNCHANGED <<supersetDashVars, dashRelated, peerDashboards>>

DashInit ==
    /\ dashRevision \in [DashUnits -> 1 .. 2] /\ dashLeader \in DashUnits
    /\ dashHooks = [u \in DashUnits |-> {}]
    /\ dashRelated = {} /\ dashBag = [r \in DashRelations |-> NoTemplates]
    /\ grafanaHooks = [r \in DashRelations |-> "none"]
    /\ peerDashboards = [r \in DashRelations |-> NoTemplates] /\ dashChanges = 0

DashNext ==
    \/ \E u \in DashUnits : PublishDashboards(u) \/ RefreshDashUnit(u)
    \/ \E r \in DashRelations : \/ OnDashboardsChanged(r) \/ OnDashboardsBroken(r)
                                \/ Relate(r) \/ Unrelate(r)
    \/ MoveDashLeader \/ OtherPublishes

DashSpec == DashInit /\ [][DashNext]_dashVars

-----------------------------------------------------------------------------
DashTypeOK ==
    /\ dashRevision \in [DashUnits -> 1 .. 2] /\ dashLeader \in DashUnits
    /\ dashHooks \in [DashUnits -> SUBSET {"created", "upgraded", "elected"}]
    /\ grafanaHooks \in [DashRelations -> {"none", "changed", "broken"}]
    /\ \A r \in DashRelations \ dashRelated : dashBag[r] = NoTemplates
    /\ \A r \in DashRelations : \A t \in peerDashboards[r] : t.form = "good"
    /\ dashChanges \in 0 .. MaxDashChanges

(* What ought to be shown: the dashboards of the revision Superset's leader *)
(* runs, and those the other application sends when all of them can be read.*)
Offered ==
    (IF "superset" \in dashRelated THEN Files(dashRevision[dashLeader]) ELSE {})
    \union (IF \E t \in dashBag["other"] : t.form = "garbled" THEN {}
            ELSE {t \in dashBag["other"] : t.form = "good"})

(* Once no hook waits, Grafana shows for each uid the highest version that  *)
(* is offered now and nothing else, once: through upgrades unit by unit and *)
(* moves of leadership between revisions, relations removed and made again, *)
(* and content the other application garbles and repairs.                   *)
DashboardsCurrent ==
    (\A u \in DashUnits : dashHooks[u] = {}) /\ (\A r \in DashRelations : grafanaHooks[r] = "none") =>
        /\ \A a, b \in Shown : a[2].uid = b[2].uid => a = b
        /\ {a[2] : a \in Shown} =
               {t \in Offered : \A o \in Offered : o.uid = t.uid => o.version <= t.version}

-----------------------------------------------------------------------------
\* The relations do not exist in this behaviour.
DashUnused ==
    /\ dashRevision = [u \in DashUnits |-> 2] /\ dashLeader = (CHOOSE u \in DashUnits : TRUE)
    /\ dashHooks = [u \in DashUnits |-> {}]
    /\ dashRelated = {} /\ dashBag = [r \in DashRelations |-> NoTemplates]
    /\ grafanaHooks = [r \in DashRelations |-> "none"]
    /\ peerDashboards = [r \in DashRelations |-> NoTemplates] /\ dashChanges = 0
=============================================================================
