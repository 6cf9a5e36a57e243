----------------------------- MODULE TrinoSync -----------------------------
(***************************************************************************)
(* The synchronisation of Trino catalogs into Superset database            *)
(* connections (src/relations/trino_catalog.py) over the Superset REST API *)
(* (src/superset_api.py).                                                  *)
(*                                                                         *)
(* Every unit runs the same handlers; the one that is leader when a hook   *)
(* starts runs a synchronisation, a sequence of requests to Superset.  All *)
(* units write to one metadata database, in which administrators work as   *)
(* well.  A synchronisation is a job: what it read so far and what it has  *)
(* still to do.  Each request is a step, so leadership, Trino and the      *)
(* administrators may move between any two of them.                        *)
(***************************************************************************)
EXTENDS TrinoCatalogs, FiniteSets

CONSTANTS
    Units,          \* units of the UI application
    Other,          \* a permission that is not access to a Trino connection
    NoOffer,        \* no relation, or its data is not complete
    NoJob,          \* the unit runs no synchronisation
    Changes         \* kinds of change the environment makes in this model

\* The last three are answers of Superset that are no failures: it has no role
\* of the configured name, it does not list the permission of a connection yet,
\* or the answer comes without the field that is read.
ChangeKinds == {"faults", "crash", "leader", "url", "catalogs", "rotate",
                "relation", "rename", "delete", "permissions",
                "no_role", "unlisted", "no_result"}

ASSUME ChangesAssumption == Changes \subseteq ChangeKinds

\* The permission to use connection i is i: it appears with the connection.
Permissions == Ids \union {Other}

Steps == {"list", "role", "loop", "permission", "read", "post"}

Job == [step: Steps, event: {"changed", "secret", "status"}, offer: Offer,
        missing: SUBSET Catalogs, outdated: SUBSET Ids, role: BOOLEAN,
        catalog: Catalogs, permission: Ids \union {0}, seen: SUBSET Permissions]

ASSUME NullsAssumption ==
    /\ NoOffer \notin Offer
    /\ NoJob \notin Job
    /\ Other \notin Ids

VARIABLES
    leader,     \* the leader unit
    offer,      \* what the trino-catalog relation and its secret hold
    queued,     \* unit -> trino-catalog events Juju has still to dispatch
    tracked,    \* units that have read the credentials secret
    faulty,     \* requests to Superset and its database may fail
    conns,      \* connection id -> its data; ids are never reused
    nextId,     \* the id the next connection gets
    granted,    \* permissions of the self-registration role
    job,        \* unit -> its synchronisation, or NoJob
    removed     \* history: connections that administrators have removed

juju == <<leader, offer, queued, tracked>>
superset == <<conns, nextId, granted>>
vars == <<leader, offer, queued, tracked, faulty, conns, nextId, granted, job,
          removed>>

TypeOK ==
    /\ leader \in Units
    /\ offer \in Offer \union {NoOffer}
    /\ queued \in [Units -> SUBSET {"changed", "secret"}]
    /\ tracked \subseteq Units
    /\ faulty \in BOOLEAN
    /\ conns \in [Ids -> Connection \union {Deleted}]
    /\ nextId \in 1..MaxId + 1
    /\ granted \subseteq Permissions
    /\ job \in [Units -> Job \union {NoJob}]
    /\ removed \subseteq Ids

May(kind) == kind \in Changes

Live == {i \in Ids: conns[i] # Deleted}

Init ==
    /\ leader \in Units
    /\ offer = NoOffer
    /\ queued = [u \in Units |-> {}]
    /\ tracked = {}
    /\ faulty = May("faults")
    /\ conns = [i \in Ids |-> Deleted]
    /\ nextId = 1
    /\ granted = {Other}
    /\ job = [u \in Units |-> NoJob]
    /\ removed = {}

-----------------------------------------------------------------------------
(***************************************************************************)
(* Starting a synchronisation.                                             *)
(***************************************************************************)
\* sync_databases up to its first request: a unit that is not the leader, or
\* finds no complete relation data or no catalog, does nothing.  The secret is
\* read at its latest revision.  Juju raises update-status when nothing is queued.
Start(u, e) ==
    /\ job[u] = NoJob
    /\ e \in IF queued[u] = {} THEN {"status"} ELSE queued[u]
    /\ queued' = [queued EXCEPT ![u] = @ \ {e}]
    /\ IF u = leader /\ offer # NoOffer
       THEN /\ tracked' = tracked \union {u}
            /\ IF offer.catalogs = {} THEN UNCHANGED job
               ELSE \E c \in Catalogs:
                      job' = [job EXCEPT ![u] =
                        [step |-> "list", event |-> e, offer |-> offer,
                         missing |-> {}, outdated |-> {}, role |-> FALSE,
                         catalog |-> c, permission |-> 0, seen |-> {}]]
       ELSE UNCHANGED <<tracked, job>>
    /\ UNCHANGED <<leader, offer, faulty, removed, superset>>

OnRelationChanged(u) == Start(u, "changed")
OnSecretChanged(u) == Start(u, "secret")
OnUpdateStatus(u) == Start(u, "status")

-----------------------------------------------------------------------------
(***************************************************************************)
(* The requests of a job.  While faulty, a request may fail before or      *)
(* after its effect; either way the code logs the error and goes on.       *)
(***************************************************************************)
At(u, step) == job[u] # NoJob /\ job[u].step = step
Set(u, j) == job' = [job EXCEPT ![u] = j]

\* The address of the connection is not compared.
AddressIgnored(j, conn) == j.event = "secret" \/ conn.user # j.offer.user

\* A rotation is treated like any other event.
RotationIgnored(j, conn) == conn.url # j.offer.url \/ conn.user # j.offer.user

\* Only the event decides whether a password is written again.
NeedsUpdate(j, conn) ==
    \/ j.event = "secret"
    \/ conn.url # j.offer.url
    \/ conn.user # j.offer.user

\* get_trino_databases: one read of the metadata database for the whole job.
ListConnections(u) ==
    /\ At(u, "list")
    /\ \/ LET mine == {i \in Live: conns[i].catalog \in job[u].offer.catalogs}
          IN Set(u, [job[u] EXCEPT
               !.step = "role",
               !.missing = @ \union (job[u].offer.catalogs
                                        \ {conns[i].catalog: i \in mine}),
               !.outdated = {i \in mine: NeedsUpdate(job[u], conns[i])}])
       \/ faulty /\ Set(u, NoJob)
    /\ UNCHANGED <<juju, faulty, removed, superset>>

\* _resolve_role_id: when the request fails, or finds no role of the configured
\* name, connections are created but not granted.
ResolveRole(u) ==
    /\ At(u, "role")
    /\ \E found \in {TRUE, ~(faulty \/ May("no_role"))}:
          Set(u, [job[u] EXCEPT !.step = "loop", !.role = found])
    /\ UNCHANGED <<juju, faulty, removed, superset>>

\* Display names carry a suffix, so that none is ever taken.
SuffixedNames(c) == FALSE

\* The display name is derived from the catalog alone, and Superset keeps
\* connection names unique.
NameTaken(c) == \E i \in Live: conns[i].catalog = c /\ conns[i].named

AddConnection(o, c) ==
    /\ nextId \in Ids         \* bound
    /\ conns' = [conns EXCEPT ![nextId] = NewConnection(o, c)]
    /\ nextId' = nextId + 1

\* _create_new_connection; the grant follows whether or not it succeeded.
CreateConnection(u, c) ==
    /\ At(u, "loop") /\ c \in job[u].missing
    /\ \/ ~NameTaken(c) /\ AddConnection(job[u].offer, c)
       \/ (NameTaken(c) \/ faulty) /\ UNCHANGED <<conns, nextId>>
    /\ Set(u, [job[u] EXCEPT
              !.step = IF job[u].role THEN "permission" ELSE "loop",
              !.missing = @ \ {c}, !.catalog = c])
    /\ UNCHANGED <<juju, faulty, removed, granted>>

\* get_database_access_permission_id looks the permission up by the name; one
\* that is "not yet available" is not granted.
FindPermission(u) ==
    /\ At(u, "permission")
    /\ \/ \E i \in Live:
             /\ conns[i].catalog = job[u].catalog
             /\ conns[i].named
             /\ Set(u, [job[u] EXCEPT !.step = "read", !.permission = i])
       \/ /\ faulty \/ May("unlisted") \/ ~NameTaken(job[u].catalog)
          /\ Set(u, [job[u] EXCEPT !.step = "loop"])
    /\ UNCHANGED <<juju, faulty, removed, superset>>

\* get_role_permission_ids: an answer without a result reads as no permissions.
ReadRole(u) ==
    /\ At(u, "read")
    /\ \/ \E seen \in {granted} \union (IF May("no_result") THEN {{}} ELSE {}):
            Set(u, [job[u] EXCEPT
                  !.step = IF job[u].permission \in seen THEN "loop" ELSE "post",
                  !.seen = seen])
       \/ faulty /\ Set(u, [job[u] EXCEPT !.step = "loop"])
    /\ UNCHANGED <<juju, faulty, removed, superset>>

\* Posts the new permission without those the role has.
PostNewOnly(u) ==
    /\ At(u, "post")
    /\ granted' = {job[u].permission} \intersect (Live \union {Other})
    /\ Set(u, [job[u] EXCEPT !.step = "loop", !.permission = 0, !.seen = {}])
    /\ UNCHANGED <<juju, faulty, removed, conns, nextId>>

\* update_role_permissions posts the whole list, the ids it read and the new one.
PostRole(u) ==
    /\ At(u, "post")
    /\ granted' \in {(job[u].seen \union {job[u].permission})
                        \intersect (Live \union {Other})}
                    \union (IF faulty \/ job[u].permission \notin Live
                            THEN {granted} ELSE {})
    /\ Set(u, [job[u] EXCEPT !.step = "loop", !.permission = 0, !.seen = {}])
    /\ UNCHANGED <<juju, faulty, removed, conns, nextId>>

\* An outdated connection is replaced: deleted here and created again.
Recreate(u, i) ==
    /\ At(u, "loop") /\ i \in job[u].outdated
    /\ conns' = [conns EXCEPT ![i] = Deleted]
    /\ Set(u, [job[u] EXCEPT
              !.outdated = @ \ {i},
              !.missing = @ \union {conns[k].catalog: k \in Live \intersect {i}}])
    /\ UNCHANGED <<juju, faulty, removed, nextId, granted>>

UpdateConnection(u, i) ==
    /\ At(u, "loop") /\ i \in job[u].outdated
    /\ \/ i \in Live /\ conns' = [conns EXCEPT ![i] = Retarget(@, job[u].offer)]
       \/ (faulty \/ i \notin Live) /\ UNCHANGED conns
    /\ Set(u, [job[u] EXCEPT !.outdated = @ \ {i}])
    /\ UNCHANGED <<juju, faulty, removed, nextId, granted>>

Finish(u) ==
    /\ At(u, "loop") /\ job[u].missing = {} /\ job[u].outdated = {}
    /\ Set(u, NoJob)
    /\ UNCHANGED <<juju, faulty, removed, superset>>

Request(u) ==
    \/ ListConnections(u) \/ ResolveRole(u) \/ FindPermission(u)
    \/ ReadRole(u) \/ PostRole(u) \/ Finish(u)
    \/ \E c \in Catalogs: CreateConnection(u, c)
    \/ \E i \in Ids: UpdateConnection(u, i)

\* The charm process dies, or a response that is no JSON raises out of the hook;
\* Juju runs the hook again.
Crash(u) ==
    /\ May("crash") /\ job[u] # NoJob
    /\ queued' = [queued EXCEPT ![u] = @ \union ({job[u].event} \ {"status"})]
    /\ Set(u, NoJob)
    /\ UNCHANGED <<leader, offer, tracked, faulty, removed, superset>>

-----------------------------------------------------------------------------
(***************************************************************************)
(* The environment: Juju, Trino, the network, Superset's administrators.   *)
(***************************************************************************)
Notify(units, e) ==
    queued' = [u \in Units |-> queued[u] \union (IF u \in units THEN {e} ELSE {})]

ChangeLeader ==
    /\ May("leader")
    /\ leader' \in Units \ {leader}
    /\ UNCHANGED <<offer, queued, tracked, faulty, removed, superset, job>>

\* Trino publishes its data on a new relation.
Relate ==
    /\ offer = NoOffer
    /\ offer' \in {o \in Offer: o.catalogs # {}}
    /\ Notify(Units, "changed")
    /\ UNCHANGED <<leader, tracked, faulty, removed, superset, job>>

\* relation-broken: the handler leaves the connections alone.
OnRelationBroken ==
    /\ May("relation") /\ offer # NoOffer
    /\ offer' = NoOffer
    /\ tracked' = {}
    /\ UNCHANGED <<leader, queued, faulty, removed, superset, job>>

ChangeOffer ==
    /\ offer # NoOffer
    /\ offer' \in [url: IF May("url") THEN Urls ELSE {offer.url},
                   user: {offer.user}, password: {offer.password},
                   catalogs: IF May("catalogs") THEN SUBSET Catalogs
                             ELSE {offer.catalogs}] \ {offer}
    /\ Notify(Units, "changed")
    /\ UNCHANGED <<leader, tracked, faulty, removed, superset, job>>

\* A new revision of the secret is announced to the units that have read it.
Rotate ==
    /\ May("rotate") /\ offer # NoOffer
    /\ \E p \in Passwords \ {offer.password}: offer' = [offer EXCEPT !.password = p]
    /\ Notify(tracked, "secret")
    /\ UNCHANGED <<leader, tracked, faulty, removed, superset, job>>

ChangeFaults ==
    /\ May("faults")
    /\ faulty' = ~faulty
    /\ UNCHANGED <<juju, superset, removed, job>>

AdminRenames(i) ==
    /\ May("rename") /\ i \in Live
    /\ conns' = [conns EXCEPT ![i].named = FALSE]
    /\ UNCHANGED <<juju, faulty, removed, nextId, granted, job>>

\* Bound: an id is left for every catalog that is then without a connection.
AdminDeletes(i) ==
    /\ May("delete") /\ i \in Live
    /\ Cardinality({c \in Catalogs: \A k \in Live \ {i}: conns[k].catalog # c})
          <= MaxId + 1 - nextId
    /\ conns' = [conns EXCEPT ![i] = Deleted]
    /\ granted' = granted \ {i}
    /\ removed' = removed \union {i}
    /\ UNCHANGED <<juju, faulty, nextId, job>>

\* Of the edits of the role, those of an unrelated permission: revoking the
\* access to a connection is the administrator's decision.
AdminEditsRole ==
    /\ May("permissions")
    /\ granted' = IF Other \in granted THEN granted \ {Other} ELSE granted \union {Other}
    /\ UNCHANGED <<juju, faulty, removed, conns, nextId, job>>

Admin ==
    \/ \E i \in Ids: AdminRenames(i) \/ AdminDeletes(i)
    \/ AdminEditsRole

Unit(u) ==
    \/ OnRelationChanged(u) \/ OnSecretChanged(u) \/ OnUpdateStatus(u)
    \/ Request(u) \/ Crash(u)

Next ==
    \/ \E u \in Units: Unit(u)
    \/ ChangeLeader \/ Relate \/ OnRelationBroken \/ ChangeOffer \/ Rotate
    \/ ChangeFaults \/ Admin

Spec == Init /\ [][Next]_vars

(***************************************************************************)
(* Fairness: Juju dispatches queued events and update-status, and a        *)
(* started hook issues its requests to the end; every request has a        *)
(* timeout (DEFAULT_REQUEST_TIMEOUT), so it cannot wait for ever.          *)
(***************************************************************************)
Fairness ==
    \A u \in Units:
        /\ WF_vars(OnRelationChanged(u)) /\ WF_vars(OnSecretChanged(u))
        /\ WF_vars(OnUpdateStatus(u)) /\ WF_vars(Request(u))

FairSpec == Spec /\ Fairness

-----------------------------------------------------------------------------
(***************************************************************************)
(* Properties.                                                             *)
(***************************************************************************)

\* Two synchronisations that overlap after a change of leader, each with its
\* own reading of the existing connections, still create one connection per
\* catalog (_sync_catalogs checks a list read several requests earlier).
OneConnectionPerCatalog ==
    \A i, k \in Live: conns[i].catalog = conns[k].catalog => i = k

\* A synchronisation implements the documented promise on the connections: no
\* step of a job removes one, or adds a second one for a catalog.
Promise == INSTANCE CatalogConnections
               WITH held <- {job[u].offer: u \in {v \in Units: job[v] # NoJob}}
KeepsPromise == Promise!Spec

\* A connection just created is granted to the role by the job that created
\* it, and later grants keep it: none is left behind, unless an administrator
\* renames it before the job looks it up (_sync_catalogs, _grant_database_access).
\* Only for one unit whose requests succeed, in a Superset that has the role and
\* lists a new permission at once: after every other end of _grant_database_access
\* the connection stays ungranted (EventuallyGranted).
CreatedIsGranted ==
    \A i \in Live \ granted: conns[i].named => \E u \in Units:
        /\ job[u] # NoJob /\ job[u].catalog = conns[i].catalog
        /\ job[u].step \in {"permission", "read", "post"}

\* Trino, the leader and the network come to rest, and hooks stop crashing:
\* a job that ends has nothing left to do.
Settles ==
    /\ <>[][UNCHANGED <<offer, leader>> /\ \A u \in Units: Crash(u) => Finish(u)]_vars
    /\ <>[]~faulty

UpToDate(i) ==
    conns[i].catalog \in offer.catalogs
        => conns[i].url = offer.url /\ conns[i].user = offer.user

\* After failures, crashes and changes of leader, update-status brings every
\* offered catalog a connection and every such connection the current address.
EventuallyConnected ==
    Settles => <>[](offer # NoOffer =>
                      /\ \A c \in offer.catalogs: \E i \in Live: conns[i].catalog = c
                      /\ \A i \in Live: UpToDate(i))

\* integrate-with-trino.md: "If the credentials are rotated by Trino, Superset
\* will update all affected database connections during the next secret-changed
\* event".  Holds for a single unit whose requests succeed.
PasswordFollows ==
    Settles => <>[](offer # NoOffer => \A i \in Live:
                      conns[i].catalog \in offer.catalogs
                          => conns[i].password = UriPassword(offer))

(***************************************************************************)
(* What the documentation says and the code does not do.                   *)
(***************************************************************************)

\* integrate-with-trino.md: each connection is configured with "Permissions
\* granted to the Public role", and Superset "automatically retries until
\* reconciliation is complete".  Only the job that creates a connection grants.
EventuallyGranted ==
    Settles => <>[](\A i \in Live: i \in granted)

\* update_role_permissions: "Grant a permission to a role, preserving existing
\* permissions".  It posts a list read one request earlier.
PermissionsPreserved ==
    [][(\E u \in Units: PostRole(u)) => granted \subseteq granted']_vars
=============================================================================
