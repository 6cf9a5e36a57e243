-------------------------- MODULE TrinoSync_proofs --------------------------
(***************************************************************************)
(* Theorems about the synchronisation of Trino catalogs, for any number of *)
(* units, catalogs and addresses: type correctness, one connection per     *)
(* catalog, the refinement of the promise of CatalogConnections, and, for  *)
(* a single unit without faults, that what is created is granted.          *)
(***************************************************************************)
EXTENDS TrinoSync, TLAPS

USE CatalogsAssumption, NullsAssumption DEF Ids

-----------------------------------------------------------------------------
(***************************************************************************)
(* Type correctness.                                                       *)
(***************************************************************************)

\* What a job is asked for stays a job.
LEMMA NewConnectionType ==
    ASSUME NEW o \in Offer, NEW c \in Catalogs
    PROVE  NewConnection(o, c) \in Connection
BY DEF NewConnection, Connection, Offer, UriPassword

LEMMA RetargetType ==
    ASSUME NEW conn \in Connection, NEW o \in Offer
    PROVE  /\ Retarget(conn, o) \in Connection
           /\ Retarget(conn, o).catalog = conn.catalog
           /\ Retarget(conn, o).named = conn.named
BY DEF Retarget, Connection, Offer, UriPassword

\* Replacing one unit's job keeps the type of the others.
LEMMA SetType ==
    ASSUME TypeOK, NEW u \in Units, NEW j \in Job \union {NoJob}, Set(u, j)
    PROVE  job' \in [Units -> Job \union {NoJob}]
BY DEF TypeOK, Set

LEMMA StartTypeOK ==
    ASSUME TypeOK, NEW u \in Units, NEW e \in {"changed", "secret", "status"}, Start(u, e)
    PROVE  TypeOK'
<1>1. queued' \in [Units -> SUBSET {"changed", "secret"}]
  BY DEF Start, TypeOK
<1>2. tracked' \subseteq Units
  BY DEF Start, TypeOK
<1>3. job' \in [Units -> Job \union {NoJob}]
  <2>1. CASE u = leader /\ offer # NoOffer /\ offer.catalogs # {}
    <3>1. offer \in Offer
      BY <2>1 DEF TypeOK
    <3>2. PICK c \in Catalogs:
             job' = [job EXCEPT ![u] =
                        [step |-> "list", event |-> e, offer |-> offer,
                         missing |-> {}, outdated |-> {}, role |-> FALSE,
                         catalog |-> c, permission |-> 0, seen |-> {}]]
      BY <2>1 DEF Start
    <3>3. [step |-> "list", event |-> e, offer |-> offer,
           missing |-> {}, outdated |-> {}, role |-> FALSE,
           catalog |-> c, permission |-> 0, seen |-> {}] \in Job
      BY <3>1 DEF Job, Steps
    <3>4. QED
      BY <3>2, <3>3 DEF TypeOK
  <2>2. CASE ~(u = leader /\ offer # NoOffer /\ offer.catalogs # {})
    BY <2>2 DEF Start, TypeOK
  <2>3. QED
    BY <2>1, <2>2
<1>4. QED
  BY <1>1, <1>2, <1>3 DEF Start, TypeOK, superset

LEMMA RequestTypeOK ==
    ASSUME TypeOK, NEW u \in Units, Request(u)
    PROVE  TypeOK'
<1> DEFINE j == job[u]
<1>1. j \in Job
  BY DEF Request, ListConnections, ResolveRole, FindPermission, ReadRole, PostRole,
         Finish, CreateConnection, UpdateConnection, At, TypeOK
<1>2. CASE ListConnections(u)
  <2>1. PICK next \in Job \union {NoJob}: Set(u, next)
    <3>1. ASSUME NEW mine, mine = {i \in Live: conns[i].catalog \in j.offer.catalogs}
          PROVE  [j EXCEPT
                    !.step = "role",
                    !.missing = @ \union (j.offer.catalogs \ {conns[i].catalog: i \in mine}),
                    !.outdated = {i \in mine: NeedsUpdate(j, conns[i])}] \in Job
      BY <1>1, <3>1 DEF Job, Steps, Live, Offer
    <3>2. QED
      BY <1>2, <3>1 DEF ListConnections
  <2>2. QED
    BY <1>2, <2>1, SetType DEF ListConnections, TypeOK, juju, superset
<1>3. CASE ResolveRole(u)
  <2>1. ASSUME NEW found \in BOOLEAN
        PROVE  [j EXCEPT !.step = "loop", !.role = found] \in Job
    BY <1>1 DEF Job, Steps
  <2>2. PICK next \in Job \union {NoJob}: Set(u, next)
    BY <1>3, <2>1 DEF ResolveRole, TypeOK
  <2>3. QED
    BY <1>3, <2>2, SetType DEF ResolveRole, TypeOK, juju, superset
<1>4. ASSUME NEW c \in Catalogs, CreateConnection(u, c)
      PROVE  TypeOK'
  <2>1. [j EXCEPT !.step = IF j.role THEN "permission" ELSE "loop",
                  !.missing = @ \ {c}, !.catalog = c] \in Job
    BY <1>1 DEF Job, Steps
  <2>2. job' \in [Units -> Job \union {NoJob}]
    BY <1>4, <2>1, SetType DEF CreateConnection
  <2>3. conns' \in [Ids -> Connection \union {Deleted}] /\ nextId' \in 1..MaxId + 1
    <3>1. NewConnection(j.offer, c) \in Connection
      BY <1>1, NewConnectionType DEF Job
    <3>2. QED
      BY <1>4, <3>1 DEF CreateConnection, AddConnection, TypeOK
  <2>4. QED
    BY <1>4, <2>2, <2>3 DEF CreateConnection, TypeOK, juju
<1>5. CASE FindPermission(u)
  <2>1. ASSUME NEW i \in Ids
        PROVE  [j EXCEPT !.step = "read", !.permission = i] \in Job
    BY <1>1 DEF Job, Steps
  <2>2. [j EXCEPT !.step = "loop"] \in Job
    BY <1>1 DEF Job, Steps
  <2>3. PICK next \in Job \union {NoJob}: Set(u, next)
    BY <1>5, <2>1, <2>2 DEF FindPermission, Live
  <2>4. QED
    BY <1>5, <2>3, SetType DEF FindPermission, TypeOK, juju, superset
<1>6. CASE ReadRole(u)
  <2>1. ASSUME NEW seen \in SUBSET Permissions
        PROVE  [j EXCEPT !.step = IF j.permission \in seen THEN "loop" ELSE "post",
                         !.seen = seen] \in Job
    BY <1>1 DEF Job, Steps
  <2>2. [j EXCEPT !.step = "loop"] \in Job
    BY <1>1 DEF Job, Steps
  <2>3. PICK next \in Job \union {NoJob}: Set(u, next)
    BY <1>6, <2>1, <2>2 DEF ReadRole, TypeOK
  <2>4. QED
    BY <1>6, <2>3, SetType DEF ReadRole, TypeOK, juju, superset
<1>7. CASE PostRole(u)
  <2>1. [j EXCEPT !.step = "loop", !.permission = 0, !.seen = {}] \in Job
    BY <1>1 DEF Job, Steps
  <2>2. job' \in [Units -> Job \union {NoJob}]
    BY <1>7, <2>1, SetType DEF PostRole
  <2>3. granted' \subseteq Permissions
    BY <1>1, <1>7 DEF PostRole, TypeOK, Permissions, Live
  <2>4. QED
    BY <1>7, <2>2, <2>3 DEF PostRole, TypeOK, juju
<1>8. ASSUME NEW i \in Ids, UpdateConnection(u, i)
      PROVE  TypeOK'
  <2>1. [j EXCEPT !.outdated = @ \ {i}] \in Job
    BY <1>1 DEF Job
  <2>2. job' \in [Units -> Job \union {NoJob}]
    BY <1>8, <2>1, SetType DEF UpdateConnection
  <2>3. conns' \in [Ids -> Connection \union {Deleted}]
    <3>1. i \in Live => Retarget(conns[i], j.offer) \in Connection
      BY <1>1, RetargetType DEF Job, TypeOK, Live
    <3>2. QED
      BY <1>8, <3>1 DEF UpdateConnection, TypeOK
  <2>4. QED
    BY <1>8, <2>2, <2>3 DEF UpdateConnection, TypeOK, juju
<1>9. CASE Finish(u)
  BY <1>9, SetType DEF Finish, TypeOK, juju, superset
<1>10. QED
  BY <1>2, <1>3, <1>4, <1>5, <1>6, <1>7, <1>8, <1>9 DEF Request

LEMMA UnitTypeOK ==
    ASSUME TypeOK, NEW u \in Units, Unit(u)
    PROVE  TypeOK'
<1>1. CASE OnRelationChanged(u) \/ OnSecretChanged(u) \/ OnUpdateStatus(u)
  BY <1>1, StartTypeOK DEF OnRelationChanged, OnSecretChanged, OnUpdateStatus
<1>2. CASE Request(u)
  BY <1>2, RequestTypeOK
<1>3. CASE Crash(u)
  <2>1. queued' \in [Units -> SUBSET {"changed", "secret"}]
    BY <1>3 DEF Crash, TypeOK, Job
  <2>2. QED
    BY <1>3, <2>1, SetType DEF Crash, TypeOK, superset
<1>4. QED
  BY <1>1, <1>2, <1>3 DEF Unit

LEMMA EnvironmentTypeOK ==
    ASSUME TypeOK,
           ChangeLeader \/ Relate \/ OnRelationBroken \/ ChangeOffer \/ Rotate
              \/ ChangeFaults \/ Admin
    PROVE  TypeOK'
<1>1. ASSUME NEW units, NEW e \in {"changed", "secret"}, Notify(units, e)
      PROVE  queued' \in [Units -> SUBSET {"changed", "secret"}]
  BY <1>1 DEF Notify, TypeOK
<1>2. CASE ChangeLeader
  BY <1>2 DEF ChangeLeader, TypeOK, superset
<1>3. CASE Relate
  BY <1>1, <1>3 DEF Relate, TypeOK, superset
<1>4. CASE OnRelationBroken
  BY <1>4 DEF OnRelationBroken, TypeOK, superset
<1>5. CASE ChangeOffer
  <2>1. offer' \in Offer
    BY <1>5 DEF ChangeOffer, TypeOK, Offer
  <2>2. QED
    BY <1>1, <1>5, <2>1 DEF ChangeOffer, TypeOK, superset
<1>6. CASE Rotate
  <2>1. offer' \in Offer
    BY <1>6 DEF Rotate, TypeOK, Offer
  <2>2. QED
    BY <1>1, <1>6, <2>1 DEF Rotate, TypeOK, superset
<1>7. CASE ChangeFaults
  BY <1>7 DEF ChangeFaults, TypeOK, juju, superset
<1>8. CASE Admin
  <2>1. ASSUME NEW i \in Ids, AdminRenames(i)
        PROVE  TypeOK'
    <3>1. [conns[i] EXCEPT !.named = FALSE] \in Connection
      BY <2>1 DEF AdminRenames, TypeOK, Live, Connection
    <3>2. QED
      BY <2>1, <3>1 DEF AdminRenames, TypeOK, juju
  <2>2. ASSUME NEW i \in Ids, AdminDeletes(i)
        PROVE  TypeOK'
    BY <2>2 DEF AdminDeletes, TypeOK, juju
  <2>3. CASE AdminEditsRole
    BY <2>3 DEF AdminEditsRole, TypeOK, juju, Permissions, Live
  <2>4. QED
    BY <1>8, <2>1, <2>2, <2>3 DEF Admin
<1>9. QED
  BY <1>2, <1>3, <1>4, <1>5, <1>6, <1>7, <1>8

\* Jobs, connections and grants keep their types, whatever requests fail and
\* however jobs of several units overlap.
THEOREM TypeCorrect == Spec => []TypeOK
<1>1. Init => TypeOK
  BY DEF Init, TypeOK, May, Permissions
<1>2. TypeOK /\ [Next]_vars => TypeOK'
  <2> SUFFICES ASSUME TypeOK, [Next]_vars
               PROVE  TypeOK'
    OBVIOUS
  <2>1. CASE UNCHANGED vars
    BY <2>1 DEF vars, TypeOK
  <2>2. QED
    BY <2>1, UnitTypeOK, EnvironmentTypeOK DEF Next
<1>3. QED
  BY <1>1, <1>2, PTL DEF Spec

-----------------------------------------------------------------------------
(***************************************************************************)
(* What a step does to a job, and to the connections.                      *)
(***************************************************************************)

\* Next to its offer a step may change everything of job j but add no work.
Keeps(j, next) ==
    /\ next.offer = j.offer
    /\ next.missing \subseteq j.missing
    /\ next.outdated \subseteq j.outdated

LEMMA FieldsKept ==
    ASSUME NEW j \in Job
    PROVE  /\ \A step: Keeps(j, [j EXCEPT !.step = step])
           /\ \A step, role: Keeps(j, [j EXCEPT !.step = step, !.role = role])
           /\ \A step, permission:
                 Keeps(j, [j EXCEPT !.step = step, !.permission = permission])
           /\ \A step, seen: Keeps(j, [j EXCEPT !.step = step, !.seen = seen])
           /\ \A step, permission, seen:
                 Keeps(j, [j EXCEPT !.step = step, !.permission = permission, !.seen = seen])
           /\ \A step, c:
                 Keeps(j, [j EXCEPT !.step = step, !.missing = @ \ {c}, !.catalog = c])
           /\ \A i: Keeps(j, [j EXCEPT !.outdated = @ \ {i}])
BY DEF Job, Keeps

\* A job only drops work after it has listed the connections, and it keeps the
\* offer it started from to its end.
LEMMA JobSteps ==
    ASSUME TypeOK, [Next]_vars, NEW u \in Units, job'[u] # NoJob
    PROVE  \/ /\ job[u] = NoJob /\ offer # NoOffer
              /\ job'[u].offer = offer /\ job'[u].missing = {} /\ job'[u].outdated = {}
           \/ /\ job[u] # NoJob /\ job'[u].offer = job[u].offer
              /\ job'[u].missing \subseteq job[u].missing \union job[u].offer.catalogs
              /\ job'[u].outdated
                    \subseteq {i \in Live: conns[i].catalog \in job[u].offer.catalogs}
              /\ UNCHANGED superset
           \/ job[u] # NoJob /\ Keeps(job[u], job'[u])
<1>1. ASSUME NEW v \in Units, NEW j, Set(v, j)
      PROVE  job'[u] = IF u = v THEN j ELSE job[u]
  BY <1>1 DEF Set, TypeOK
<1>2. CASE UNCHANGED job
  BY <1>2 DEF Keeps
<1>3. ASSUME NEW v \in Units, NEW e, Start(v, e), job' # job
      PROVE  \/ job'[u] = job[u]
             \/ /\ job[u] = NoJob /\ offer # NoOffer
                /\ job'[u].offer = offer /\ job'[u].missing = {} /\ job'[u].outdated = {}
  <2>1. PICK c \in Catalogs:
           /\ job[v] = NoJob /\ offer # NoOffer
           /\ Set(v, [step |-> "list", event |-> e, offer |-> offer,
                      missing |-> {}, outdated |-> {}, role |-> FALSE,
                      catalog |-> c, permission |-> 0, seen |-> {}])
    BY <1>3 DEF Start, Set
  <2>2. QED
    BY <1>1, <2>1
<1>4. ASSUME NEW v \in Units, Request(v), v # u
      PROVE  job'[u] = job[u]
  BY <1>1, <1>4 DEF Request, ListConnections, ResolveRole, FindPermission, ReadRole,
                    PostRole, Finish, CreateConnection, UpdateConnection
<1>5. ASSUME NEW v \in Units, Crash(v)
      PROVE  job'[u] = job[u]
  BY <1>1, <1>5 DEF Crash
<1>6. CASE Request(u)
  <2>1. job[u] \in Job
    BY <1>6 DEF Request, ListConnections, ResolveRole, FindPermission, ReadRole,
                PostRole, Finish, CreateConnection, UpdateConnection, At, TypeOK
  <2>2. CASE ListConnections(u)
    <3> DEFINE mine == {i \in Live: conns[i].catalog \in job[u].offer.catalogs}
               missing == job[u].offer.catalogs \ {conns[i].catalog: i \in mine}
               outdated == {i \in mine: NeedsUpdate(job[u], conns[i])}
    <3>1. ~Set(u, NoJob)
      BY <1>1
    <3>2. Set(u, [job[u] EXCEPT !.step = "role", !.missing = @ \union missing,
                               !.outdated = outdated])
      BY <2>2, <3>1 DEF ListConnections
    <3> HIDE DEF missing, outdated
    <3>3. /\ job'[u].offer = job[u].offer
          /\ job'[u].missing = job[u].missing \union missing
          /\ job'[u].outdated = outdated
      <4>1. job'[u] = [job[u] EXCEPT !.step = "role", !.missing = @ \union missing,
                                     !.outdated = outdated]
        BY <1>1, <3>2
      <4>2. QED
        BY <2>1, <4>1 DEF Job
    <3>4. missing \subseteq job[u].offer.catalogs /\ outdated \subseteq mine
      BY DEF missing, outdated
    <3>5. QED
      BY <2>1, <2>2, <3>3, <3>4 DEF ListConnections
  <2>3. ASSUME NEW next, Set(u, next), Keeps(job[u], next)
        PROVE  job[u] # NoJob /\ Keeps(job[u], job'[u])
    BY <1>1, <2>1, <2>3
  <2>4. CASE ResolveRole(u)
    BY <2>1, <2>3, <2>4, FieldsKept DEF ResolveRole
  <2>5. ASSUME NEW c \in Catalogs, CreateConnection(u, c)
        PROVE  job[u] # NoJob /\ Keeps(job[u], job'[u])
    BY <2>1, <2>3, <2>5, FieldsKept DEF CreateConnection
  <2>6. CASE FindPermission(u)
    BY <2>1, <2>3, <2>6, FieldsKept DEF FindPermission
  <2>7. CASE ReadRole(u)
    BY <2>1, <2>3, <2>7, FieldsKept DEF ReadRole
  <2>8. CASE PostRole(u)
    BY <2>1, <2>3, <2>8, FieldsKept DEF PostRole
  <2>9. ASSUME NEW i \in Ids, UpdateConnection(u, i)
        PROVE  job[u] # NoJob /\ Keeps(job[u], job'[u])
    BY <2>1, <2>3, <2>9, FieldsKept DEF UpdateConnection
  <2>10. CASE Finish(u)
    BY <1>1, <2>10 DEF Finish
  <2>11. QED
    BY <1>6, <2>2, <2>4, <2>5, <2>6, <2>7, <2>8, <2>9, <2>10 DEF Request
<1>7. ASSUME ChangeLeader \/ Relate \/ OnRelationBroken \/ ChangeOffer \/ Rotate
                \/ ChangeFaults \/ Admin
      PROVE  UNCHANGED job
  BY <1>7 DEF ChangeLeader, Relate, OnRelationBroken, ChangeOffer, Rotate,
              ChangeFaults, Admin, AdminRenames, AdminDeletes, AdminEditsRole
<1>8. job'[u] = job[u] => Keeps(job[u], job'[u])
  BY DEF Keeps
<1>9. QED
  BY <1>2, <1>3, <1>4, <1>5, <1>6, <1>7, <1>8
     DEF Next, Unit, OnRelationChanged, OnSecretChanged, OnUpdateStatus, vars

Added(u, c) ==
    /\ job[u] # NoJob /\ c \in job[u].missing
    /\ ~NameTaken(c)
    /\ AddConnection(job[u].offer, c)
    /\ UNCHANGED removed

Updated(u, i) ==
    /\ job[u] # NoJob /\ i \in job[u].outdated /\ i \in Live
    /\ conns' = [conns EXCEPT ![i] = Retarget(@, job[u].offer)]
    /\ UNCHANGED <<nextId, removed>>

\* Without renaming administrators the connections change in three ways only.
LEMMA ConnectionSteps ==
    ASSUME TypeOK, [Next]_vars, "rename" \notin Changes
    PROVE  \/ UNCHANGED <<conns, nextId, removed>>
           \/ \E u \in Units, c \in Catalogs: Added(u, c)
           \/ \E u \in Units, i \in Ids: Updated(u, i)
           \/ \E i \in Ids: AdminDeletes(i)
<1>1. ASSUME NEW u \in Units, Request(u)
      PROVE  \/ UNCHANGED <<conns, nextId, removed>>
             \/ \E c \in Catalogs: Added(u, c)
             \/ \E i \in Ids: Updated(u, i)
  <2>1. ASSUME NEW c \in Catalogs, CreateConnection(u, c)
        PROVE  UNCHANGED <<conns, nextId, removed>> \/ Added(u, c)
    BY <2>1 DEF CreateConnection, Added, At
  <2>2. ASSUME NEW i \in Ids, UpdateConnection(u, i)
        PROVE  UNCHANGED <<conns, nextId, removed>> \/ Updated(u, i)
    BY <2>2 DEF UpdateConnection, Updated, At
  <2>3. QED
    BY <1>1, <2>1, <2>2 DEF Request, ListConnections, ResolveRole, FindPermission,
                            ReadRole, PostRole, Finish, superset
<1>2. ASSUME NEW u \in Units, Unit(u), ~Request(u)
      PROVE  UNCHANGED <<conns, nextId, removed>>
  BY <1>2 DEF Unit, OnRelationChanged, OnSecretChanged, OnUpdateStatus, Start, Crash,
              superset
<1>3. CASE ChangeLeader \/ Relate \/ OnRelationBroken \/ ChangeOffer \/ Rotate \/ ChangeFaults
  BY <1>3 DEF ChangeLeader, Relate, OnRelationBroken, ChangeOffer, Rotate,
              ChangeFaults, superset
<1>4. CASE Admin
  BY <1>4 DEF Admin, AdminRenames, AdminEditsRole, May
<1>5. QED
  BY <1>1, <1>2, <1>3, <1>4 DEF Next, vars

-----------------------------------------------------------------------------
(***************************************************************************)
(* One connection per catalog.                                             *)
(***************************************************************************)

\* What a job still plans to do is part of the offer it started from; the
\* connections it will update are connections for that offer, or were deleted.
JobsInv ==
    \A u \in Units: job[u] # NoJob =>
        /\ job[u].missing \subseteq job[u].offer.catalogs
        /\ \A i \in job[u].outdated:
              /\ i < nextId
              /\ i \in Live => conns[i].catalog \in job[u].offer.catalogs

\* Ids are not reused and every connection has the display name of its catalog,
\* which is why a stale list cannot lead to a second one.
ConnectionsInv ==
    /\ \A i \in Live: conns[i].named /\ i < nextId
    /\ \A i \in removed: i < nextId
    /\ OneConnectionPerCatalog

SyncInv == JobsInv /\ ConnectionsInv

LEMMA ConnectionsInvStep ==
    ASSUME TypeOK, SyncInv, [Next]_vars, "rename" \notin Changes
    PROVE  ConnectionsInv'
<1> USE DEF Live, ConnectionsInv, SyncInv, OneConnectionPerCatalog
<1>1. CASE UNCHANGED <<conns, nextId, removed>>
  BY <1>1
<1>2. ASSUME NEW u \in Units, NEW c \in Catalogs, Added(u, c)
      PROVE  ConnectionsInv'
  <2> DEFINE new == NewConnection(job[u].offer, c)
  <2>1. job[u].offer \in Offer
    BY <1>2 DEF Added, TypeOK, Job
  <2>2. new \in Connection /\ new.named /\ new.catalog = c
    BY <2>1, NewConnectionType DEF NewConnection
  <2> HIDE DEF new
  <2>3. /\ nextId \in Ids /\ nextId' = nextId + 1 /\ removed' = removed
        /\ conns' = [conns EXCEPT ![nextId] = new]
    BY <1>2 DEF Added, AddConnection, new
  <2>4. \A i \in Live: conns[i].catalog # c
    BY <1>2 DEF Added, NameTaken
  <2>5. \A i \in Ids: conns'[i] = IF i = nextId THEN new ELSE conns[i]
    BY <2>3 DEF TypeOK
  <2>6. QED
    BY <2>2, <2>3, <2>4, <2>5 DEF TypeOK
<1>3. ASSUME NEW u \in Units, NEW i \in Ids, Updated(u, i)
      PROVE  ConnectionsInv'
  <2> DEFINE new == Retarget(conns[i], job[u].offer)
  <2>1. job[u].offer \in Offer /\ conns[i] \in Connection
    BY <1>3 DEF Updated, TypeOK, Job
  <2>2. new \in Connection /\ new.named = conns[i].named /\ new.catalog = conns[i].catalog
    BY <2>1, RetargetType
  <2> HIDE DEF new
  <2>3. /\ conns' = [conns EXCEPT ![i] = new] /\ i \in Live
        /\ nextId' = nextId /\ removed' = removed
    BY <1>3 DEF Updated, new
  <2>4. \A k \in Ids: conns'[k] = IF k = i THEN new ELSE conns[k]
    BY <2>3 DEF TypeOK
  <2>5. QED
    BY <2>2, <2>3, <2>4
<1>4. ASSUME NEW i \in Ids, AdminDeletes(i)
      PROVE  ConnectionsInv'
  BY <1>4 DEF AdminDeletes, TypeOK
<1>5. QED
  BY <1>1, <1>2, <1>3, <1>4, ConnectionSteps

\* A connection that is live after a step was live before it, with the same
\* catalog, or is new.
LEMMA CatalogKept ==
    ASSUME TypeOK, [Next]_vars, "rename" \notin Changes
    PROVE  /\ nextId \in Nat /\ nextId' \in Nat /\ nextId <= nextId'
           /\ \A i \in Ids: i < nextId /\ i \in Live'
                 => i \in Live /\ conns'[i].catalog = conns[i].catalog
<1> USE DEF Live
<1>1. CASE UNCHANGED <<conns, nextId, removed>>
  BY <1>1 DEF TypeOK
<1>2. ASSUME NEW u \in Units, NEW c \in Catalogs, Added(u, c)
      PROVE  /\ nextId' = nextId + 1
             /\ \A i \in Ids: i # nextId => conns'[i] = conns[i]
  BY <1>2 DEF Added, AddConnection, TypeOK
<1>3. ASSUME NEW u \in Units, NEW i \in Ids, Updated(u, i)
      PROVE  /\ nextId' = nextId
             /\ \A k \in Ids: /\ k # i => conns'[k] = conns[k]
                              /\ k = i => k \in Live /\ conns'[k].catalog = conns[k].catalog
  <2>1. job[u].offer \in Offer /\ conns[i] \in Connection
    BY <1>3 DEF Updated, TypeOK, Job
  <2>2. QED
    BY <1>3, <2>1, RetargetType DEF Updated, TypeOK
<1>4. ASSUME NEW i \in Ids, AdminDeletes(i)
      PROVE  /\ nextId' = nextId
             /\ \A k \in Ids: conns'[k] = IF k = i THEN Deleted ELSE conns[k]
  BY <1>4 DEF AdminDeletes, TypeOK
<1>5. nextId \in Nat
  BY DEF TypeOK
<1>6. QED
  BY <1>1, <1>2, <1>3, <1>4, <1>5, ConnectionSteps

LEMMA JobsInvStep ==
    ASSUME TypeOK, SyncInv, [Next]_vars, "rename" \notin Changes
    PROVE  JobsInv'
<1> SUFFICES ASSUME NEW u \in Units, job'[u] # NoJob
             PROVE  /\ job'[u].missing \subseteq job'[u].offer.catalogs
                    /\ \A i \in job'[u].outdated:
                          /\ i < nextId'
                          /\ i \in Live' => conns'[i].catalog \in job'[u].offer.catalogs
  BY DEF JobsInv
<1>1. CASE job[u] = NoJob /\ job'[u].missing = {} /\ job'[u].outdated = {}
  BY <1>1
<1>2. CASE /\ job[u] # NoJob /\ job'[u].offer = job[u].offer
           /\ job'[u].missing \subseteq job[u].missing \union job[u].offer.catalogs
           /\ job'[u].outdated
                 \subseteq {i \in Live: conns[i].catalog \in job[u].offer.catalogs}
           /\ UNCHANGED superset
  BY <1>2 DEF SyncInv, JobsInv, ConnectionsInv, superset, Live
<1>3. CASE job[u] # NoJob /\ Keeps(job[u], job'[u])
  <2>1. job'[u].missing \subseteq job'[u].offer.catalogs
    BY <1>3 DEF Keeps, SyncInv, JobsInv
  <2>2. ASSUME NEW i \in job'[u].outdated
        PROVE  /\ i < nextId'
               /\ i \in Live' => conns'[i].catalog \in job'[u].offer.catalogs
    <3>1. /\ i \in job[u].outdated /\ i < nextId
          /\ i \in Live => conns[i].catalog \in job[u].offer.catalogs
      BY <1>3 DEF Keeps, SyncInv, JobsInv
    <3>2. i \in Ids
      BY <1>3, <3>1 DEF TypeOK, Job
    <3>3. /\ nextId \in Nat /\ nextId' \in Nat /\ nextId <= nextId'
          /\ i \in Live' => i \in Live /\ conns'[i].catalog = conns[i].catalog
      BY <3>1, <3>2, CatalogKept
    <3>4. QED
      BY <1>3, <3>1, <3>2, <3>3 DEF Keeps
  <2>3. QED
    BY <2>1, <2>2
<1>4. QED
  BY <1>1, <1>2, <1>3, JobSteps

LEMMA SyncInvariant ==
    ASSUME "rename" \notin Changes
    PROVE  Spec => []SyncInv
<1>1. Init => SyncInv
  BY DEF Init, SyncInv, JobsInv, ConnectionsInv, OneConnectionPerCatalog, Live
<1>2. TypeOK /\ SyncInv /\ [Next]_vars => SyncInv'
  BY ConnectionsInvStep, JobsInvStep DEF SyncInv
<1>3. QED
  BY <1>1, <1>2, TypeCorrect, PTL DEF Spec

\* Overlapping jobs of several units, each with its own stale list of the
\* connections, still leave one connection per catalog (_sync_catalogs), as long
\* as administrators rename none.
THEOREM OneConnection ==
    ASSUME "rename" \notin Changes
    PROVE  Spec => []OneConnectionPerCatalog
<1>1. SyncInv => OneConnectionPerCatalog
  BY DEF SyncInv, ConnectionsInv
<1>2. QED
  BY <1>1, SyncInvariant, PTL

-----------------------------------------------------------------------------
(***************************************************************************)
(* The refinement of CatalogConnections.                                   *)
(***************************************************************************)

\* The offers that jobs under way have taken.
Held == {job[u].offer: u \in {v \in Units: job[v] # NoJob}}

\* Taking, keeping and ending a job takes, keeps and releases its offer.
LEMMA HeldStep ==
    ASSUME TypeOK, NEW u \in Units, NEW j \in Job \union {NoJob}, Set(u, j)
    PROVE  /\ job[u] = NoJob /\ j # NoJob => Held' = Held \union {j.offer}
           /\ job[u] # NoJob /\ j # NoJob /\ j.offer = job[u].offer => Held' = Held
           /\ job[u] # NoJob /\ j = NoJob
                 => /\ job[u].offer \in Held
                    /\ Held' = Held \/ Held' = Held \ {job[u].offer}
<1>1. \A v \in Units: job'[v] = IF v = u THEN j ELSE job[v]
  BY DEF Set, TypeOK
<1>2. QED
  BY <1>1 DEF Held

\* Steps of the promise over Held.
Stutters == UNCHANGED <<offer, conns, removed>> /\ Held' = Held
Takes ==
    offer # NoOffer /\ Held' = Held \union {offer} /\ UNCHANGED <<offer, conns, removed>>
Releases == \E o \in Held: Held' = Held \ {o} /\ UNCHANGED <<offer, conns, removed>>
Adds ==
    \E o \in Held, c \in Catalogs, i \in Ids:
        /\ c \in o.catalogs /\ i \notin Live \union removed
        /\ \A k \in Live: conns[k].catalog # c
        /\ conns' = [conns EXCEPT ![i] = NewConnection(o, c)]
        /\ UNCHANGED <<offer, removed>> /\ Held' = Held
Updates ==
    \E o \in Held, i \in Live:
        /\ conns[i].catalog \in o.catalogs
        /\ conns' = [conns EXCEPT ![i] = Retarget(@, o)]
        /\ UNCHANGED <<offer, removed>> /\ Held' = Held
Removes ==
    \E i \in Live:
        /\ conns' = [conns EXCEPT ![i] = Deleted] /\ removed' = removed \union {i}
        /\ UNCHANGED offer /\ Held' = Held

LEMMA RequestRefines ==
    ASSUME TypeOK, SyncInv, NEW u \in Units, Request(u), "rename" \notin Changes
    PROVE  Stutters \/ Releases \/ Adds \/ Updates
<1> DEFINE j == job[u]
<1>1. j \in Job /\ j # NoJob /\ j.offer \in Held
  <2>1. j # NoJob
    BY DEF Request, ListConnections, ResolveRole, FindPermission, ReadRole,
           PostRole, Finish, CreateConnection, UpdateConnection, At
  <2>2. QED
    BY <2>1 DEF TypeOK, Held
<1>2. UNCHANGED <<offer, removed>>
  BY DEF Request, ListConnections, ResolveRole, FindPermission, ReadRole,
         PostRole, Finish, CreateConnection, UpdateConnection, juju
<1>3. PICK next: Set(u, next)
  BY DEF Request, ListConnections, ResolveRole, FindPermission, ReadRole,
         PostRole, Finish, CreateConnection, UpdateConnection
<1>4. job'[u] = next /\ next \in Job \union {NoJob}
  BY <1>3, RequestTypeOK DEF Set, TypeOK
<1>5. CASE next = NoJob /\ UNCHANGED conns
  BY <1>1, <1>2, <1>3, <1>4, <1>5, HeldStep DEF Stutters, Releases
<1>6. ASSUME next # NoJob
      PROVE  Held' = Held
  <2>1. next.offer = j.offer
    BY <1>1, <1>4, <1>6, JobSteps DEF Next, Unit, Keeps
  <2>2. QED
    BY <1>1, <1>3, <1>4, <1>6, <2>1, HeldStep
<1>7. ASSUME NEW c \in Catalogs, CreateConnection(u, c), ~UNCHANGED conns
      PROVE  Adds
  <2>1. [j EXCEPT !.step = IF j.role THEN "permission" ELSE "loop",
                  !.missing = @ \ {c}, !.catalog = c] \in Job
    BY <1>1, <1>7 DEF Job, Steps
  <2>2. Held' = Held
    BY <1>4, <1>6, <1>7, <2>1 DEF CreateConnection, Set, TypeOK
  <2>3. /\ c \in j.missing /\ ~NameTaken(c) /\ nextId \in Ids
        /\ conns' = [conns EXCEPT ![nextId] = NewConnection(j.offer, c)]
    BY <1>7 DEF CreateConnection, AddConnection
  <2>4. c \in j.offer.catalogs
    BY <1>1, <2>3 DEF SyncInv, JobsInv
  <2>5. \A k \in Live: conns[k].catalog # c /\ k < nextId
    BY <2>3 DEF NameTaken, SyncInv, ConnectionsInv
  <2>6. nextId \notin Live \union removed
    BY <2>3, <2>5 DEF SyncInv, ConnectionsInv
  <2>7. QED
    BY <1>1, <1>2, <2>2, <2>3, <2>4, <2>5, <2>6 DEF Adds
<1>8. ASSUME NEW i \in Ids, UpdateConnection(u, i), ~UNCHANGED conns
      PROVE  Updates
  <2>1. [j EXCEPT !.outdated = @ \ {i}] \in Job
    BY <1>1 DEF Job
  <2>2. Held' = Held
    BY <1>4, <1>6, <1>8, <2>1 DEF UpdateConnection, Set, TypeOK
  <2>3. /\ i \in j.outdated /\ i \in Live
        /\ conns' = [conns EXCEPT ![i] = Retarget(@, j.offer)]
    BY <1>8 DEF UpdateConnection
  <2>4. conns[i].catalog \in j.offer.catalogs
    BY <1>1, <2>3 DEF SyncInv, JobsInv
  <2>5. QED
    BY <1>1, <1>2, <2>2, <2>3, <2>4 DEF Updates
<1>9. UNCHANGED conns \/ Adds \/ Updates
  BY <1>7, <1>8 DEF Request, ListConnections, ResolveRole, FindPermission, ReadRole,
                    PostRole, Finish, superset
<1>10. QED
  BY <1>2, <1>5, <1>6, <1>9 DEF Stutters

LEMMA StepRefines ==
    ASSUME TypeOK, TypeOK', SyncInv, [Next]_vars, "rename" \notin Changes
    PROVE  \/ Stutters \/ Takes \/ Releases \/ Adds \/ Updates
           \/ UNCHANGED <<conns, removed>> /\ Held' = Held
           \/ Removes
<1>1. UNCHANGED job => Held' = Held
  BY DEF Held
<1>2. ASSUME NEW u \in Units, NEW e \in {"changed", "secret", "status"}, Start(u, e)
      PROVE  Stutters \/ Takes
  <2>1. UNCHANGED <<offer, conns, removed>>
    BY <1>2 DEF Start, superset
  <2>2. CASE UNCHANGED job
    BY <1>1, <2>1, <2>2 DEF Stutters
  <2>3. CASE ~UNCHANGED job
    <3> DEFINE Fresh(c) == [step |-> "list", event |-> e, offer |-> offer,
                            missing |-> {}, outdated |-> {}, role |-> FALSE,
                            catalog |-> c, permission |-> 0, seen |-> {}]
    <3>1. PICK c \in Catalogs: /\ job[u] = NoJob /\ offer # NoOffer
                               /\ Set(u, Fresh(c))
      BY <1>2, <2>3 DEF Start, Set
    <3>2. Fresh(c) \in Job /\ Fresh(c).offer = offer
      BY <3>1 DEF TypeOK, Job, Steps
    <3> HIDE DEF Fresh
    <3>3. QED
      BY <2>1, <3>1, <3>2, HeldStep DEF Takes
  <2>4. QED
    BY <2>2, <2>3
<1>3. ASSUME NEW u \in Units, Crash(u)
      PROVE  Stutters \/ Releases
  BY <1>3, HeldStep DEF Crash, superset, Stutters, Releases
<1>4. ASSUME NEW u \in Units, Unit(u)
      PROVE  Stutters \/ Takes \/ Releases \/ Adds \/ Updates
  BY <1>2, <1>3, <1>4, RequestRefines
     DEF Unit, OnRelationChanged, OnSecretChanged, OnUpdateStatus
<1>5. CASE ChangeLeader \/ Relate \/ OnRelationBroken \/ ChangeOffer \/ Rotate \/ ChangeFaults
  BY <1>1, <1>5 DEF ChangeLeader, Relate, OnRelationBroken, ChangeOffer, Rotate,
                    ChangeFaults, superset
<1>6. CASE Admin
  BY <1>1, <1>6 DEF Admin, AdminRenames, AdminDeletes, AdminEditsRole, Removes, juju, May
<1>7. CASE UNCHANGED vars
  BY <1>1, <1>7 DEF vars, Stutters
<1>8. QED
  BY <1>4, <1>5, <1>6, <1>7 DEF Next

\* The synchronisation implements the documented promise: it only adds a
\* connection to a catalog that has none and only replaces URIs, each from one
\* offer that a job under way has taken; a connection goes only in a step of an
\* administrator, never in one of a job (integrate-with-trino.md,
\* "Understanding connection behavior").
THEOREM Refinement ==
    ASSUME "rename" \notin Changes
    PROVE  Spec => KeepsPromise
<1>1. Init => Promise!Init
  BY DEF Init, Promise!Init, Promise!Ids
<1>2. TypeOK /\ TypeOK' /\ SyncInv /\ [Next]_vars => [Promise!Next]_(Promise!vars)
  <2> SUFFICES ASSUME TypeOK, TypeOK', SyncInv, [Next]_vars
               PROVE  [Promise!Next]_(Promise!vars)
    OBVIOUS
  <2> USE DEF Promise!Next, Promise!vars, Held
  <2>1. CASE Stutters
    BY <2>1 DEF Stutters
  <2>2. CASE Takes
    BY <2>2 DEF Takes, Promise!Take
  <2>3. CASE Releases
    BY <2>3 DEF Releases, Promise!Release
  <2>4. CASE Adds
    BY <2>4 DEF Adds, Live, Promise!Add, Promise!Live, Promise!Ids, Promise!NewConnection,
                NewConnection, Promise!UriPassword, UriPassword
  <2>5. CASE Updates
    BY <2>5 DEF Updates, Live, Promise!Update, Promise!Live, Promise!Ids, Promise!Retarget,
                Retarget, Promise!UriPassword, UriPassword
  <2>6. CASE UNCHANGED <<conns, removed>> /\ Held' = Held
    BY <2>6 DEF TypeOK, Promise!TrinoChanges, Promise!Offer, Offer
  <2>7. CASE Removes
    BY <2>7 DEF Removes, Live, Promise!AdminDeletes, Promise!Live, Promise!Ids
  <2>8. QED
    BY <2>1, <2>2, <2>3, <2>4, <2>5, <2>6, <2>7, StepRefines
<1>3. QED
  BY <1>1, <1>2, TypeCorrect, SyncInvariant, PTL DEF Spec, KeepsPromise, Promise!Spec

-----------------------------------------------------------------------------
(***************************************************************************)
(* What a single unit creates, it grants.                                  *)
(***************************************************************************)

\* Superset's connections have different names, a deletion and a renaming aside.
NamesUnique ==
    \A i, k \in Live: conns[i].named /\ conns[k].named
                         /\ conns[i].catalog = conns[k].catalog => i = k

\* A job has a role once it has asked for it, has found the permission of the
\* connection it grants, and posts every grant there is.
JobGrants(u) ==
    job[u] # NoJob =>
        /\ job[u].step \notin {"list", "role"} => job[u].role
        /\ job[u].step \in {"read", "post"} =>
              \A i \in Live: conns[i].named /\ conns[i].catalog = job[u].catalog
                                => i = job[u].permission
        /\ job[u].step = "post" => granted \ {Other} \subseteq job[u].seen

GrantInv ==
    /\ ~faulty /\ NamesUnique
    /\ ~May("no_role") /\ ~May("unlisted") /\ ~May("no_result")
    /\ \A u \in Units: JobGrants(u)
    /\ CreatedIsGranted

\* The connections of a step were there before it, with their catalogs.
Fewer ==
    \A i \in Live': /\ i \in Live /\ conns'[i].catalog = conns[i].catalog
                    /\ conns'[i].named => conns[i].named

LEMMA SameConns ==
    ASSUME UNCHANGED conns PROVE Fewer /\ Live' = Live
BY DEF Fewer, Live

LEMMA FewerNames ==
    ASSUME NamesUnique, Fewer PROVE NamesUnique'
BY DEF NamesUnique, Fewer

\* A step that takes no grant, adds no connection, and leaves the job alone.
LEMMA JobLeftAlone ==
    ASSUME TypeOK, GrantInv, NEW u \in Units, Units = {u}, UNCHANGED <<job, faulty>>, Fewer,
           granted \intersect Live' \subseteq granted',
           granted' \ {Other} \subseteq granted
    PROVE  GrantInv'
<1>1. NamesUnique' /\ ~faulty'
  BY FewerNames DEF GrantInv
<1>2. JobGrants(u)'
  BY DEF GrantInv, JobGrants, Fewer
<1>3. CreatedIsGranted'
  <2> SUFFICES ASSUME NEW i \in Live' \ granted', conns'[i].named
               PROVE  /\ job'[u] # NoJob /\ job'[u].catalog = conns'[i].catalog
                      /\ job'[u].step \in {"permission", "read", "post"}
    BY DEF CreatedIsGranted
  <2>1. i \in Live \ granted /\ conns[i].named /\ conns'[i].catalog = conns[i].catalog
    BY DEF Fewer
  <2>2. QED
    BY <2>1 DEF GrantInv, CreatedIsGranted
<1>4. QED
  BY <1>1, <1>2, <1>3 DEF GrantInv

\* A job before or after a grant: it owes none.
LEMMA NothingOwed ==
    ASSUME TypeOK, GrantInv, NEW u \in Units, Units = {u}, UNCHANGED faulty, Fewer,
           \A i \in Live': conns'[i].named => i \in granted',
           job'[u] # NoJob =>
               /\ job'[u].step \in {"list", "role", "loop"}
               /\ job'[u].step = "loop" => job'[u].role
    PROVE  GrantInv'
<1>1. NamesUnique' /\ ~faulty'
  BY FewerNames DEF GrantInv
<1>2. JobGrants(u)'
  BY DEF JobGrants
<1>3. CreatedIsGranted'
  BY DEF CreatedIsGranted
<1>4. QED
  BY <1>1, <1>2, <1>3 DEF GrantInv

LEMMA OwedInGrant ==
    ASSUME TypeOK, GrantInv, NEW u \in Units, Units = {u},
           job[u] = NoJob \/ job[u].step \in {"list", "role", "loop"}
    PROVE  \A i \in Live: conns[i].named => i \in granted
BY DEF GrantInv, CreatedIsGranted

LEMMA GrantRequest ==
    ASSUME TypeOK, GrantInv, NEW u \in Units, Units = {u}, Request(u)
    PROVE  GrantInv'
<1> DEFINE j == job[u]
<1>0. j # NoJob /\ j \in Job /\ ~faulty
  BY DEF Request, ListConnections, ResolveRole, FindPermission, ReadRole, PostRole,
         Finish, CreateConnection, UpdateConnection, At, TypeOK, GrantInv
<1>s. ASSUME NEW next, Set(u, next) PROVE job'[u] = next
  BY <1>s DEF Set, TypeOK
<1>r. j.step \notin {"list", "role"} => j.role
  BY <1>0 DEF GrantInv, JobGrants
<1>1. CASE ListConnections(u)
  <2>1. /\ j.step = "list" /\ UNCHANGED <<faulty, conns, granted>>
        /\ job'[u] = NoJob \/ job'[u].step = "role"
    <3>1. j.step = "list" /\ UNCHANGED <<faulty, conns, granted>>
      BY <1>1 DEF ListConnections, At, superset
    <3>2. PICK m, o: Set(u, [j EXCEPT !.step = "role", !.missing = @ \union m,
                                       !.outdated = o])
      BY <1>0, <1>1 DEF ListConnections
    <3>3. job'[u] = [j EXCEPT !.step = "role", !.missing = @ \union m, !.outdated = o]
      BY <1>s, <3>2
    <3>4. QED
      BY <1>0, <3>1, <3>3 DEF Job
  <2>2. QED
    BY <2>1, OwedInGrant, NothingOwed, SameConns
<1>2. CASE ResolveRole(u)
  <2>1. /\ j.step = "role" /\ UNCHANGED <<faulty, conns, granted>>
        /\ job'[u].step = "loop" /\ job'[u].role = TRUE
    <3>1. j.step = "role" /\ UNCHANGED <<faulty, conns, granted>>
      BY <1>2 DEF ResolveRole, At, superset
    <3>2. job'[u] = [j EXCEPT !.step = "loop", !.role = TRUE]
      BY <1>0, <1>2, <1>s DEF ResolveRole, GrantInv
    <3>3. QED
      BY <1>0, <3>1, <3>2 DEF Job
  <2>2. QED
    BY <2>1, OwedInGrant, NothingOwed, SameConns
<1>3. ASSUME NEW c \in Catalogs, CreateConnection(u, c) PROVE GrantInv'
  <2>1. /\ j.step = "loop" /\ UNCHANGED <<faulty, granted>>
        /\ \/ ~NameTaken(c) /\ AddConnection(j.offer, c)
           \/ NameTaken(c) /\ UNCHANGED conns
    BY <1>0, <1>3 DEF CreateConnection, At
  <2>2. j.role /\ \A i \in Live: conns[i].named => i \in granted
    BY <1>r, <2>1, OwedInGrant
  <2>3. job'[u] # NoJob /\ job'[u].step = "permission" /\ job'[u].role /\ job'[u].catalog = c
    <3>1. job'[u] = [j EXCEPT !.step = IF j.role THEN "permission" ELSE "loop",
                              !.missing = @ \ {c}, !.catalog = c]
      BY <1>3, <1>s DEF CreateConnection
    <3>2. job'[u].step = "permission" /\ job'[u].role = j.role /\ job'[u].catalog = c
      BY <1>0, <2>2, <3>1 DEF Job
    <3>3. job'[u] # NoJob
      <4>1. [j EXCEPT !.step = IF j.role THEN "permission" ELSE "loop",
                      !.missing = @ \ {c}, !.catalog = c] \in Job
        BY <1>0 DEF Job, Steps
      <4>2. QED
        BY <3>1, <4>1
    <3>4. QED
      BY <2>2, <3>2, <3>3
  <2>4. JobGrants(u)'
    BY <2>3 DEF JobGrants
  <2>5. CASE UNCHANGED conns
    <3>1. CreatedIsGranted'
      BY <2>1, <2>2, <2>5, SameConns DEF CreatedIsGranted
    <3>2. QED
      BY <1>0, <2>1, <2>4, <2>5, <3>1, SameConns, FewerNames DEF GrantInv
  <2>6. CASE ~NameTaken(c) /\ AddConnection(j.offer, c)
    <3>1. nextId \in Ids /\ \A i \in Ids: conns'[i] =
              IF i = nextId THEN NewConnection(j.offer, c) ELSE conns[i]
      BY <2>6 DEF AddConnection, TypeOK
    <3>2. NewConnection(j.offer, c).named /\ NewConnection(j.offer, c).catalog = c
      BY DEF NewConnection
    <3>3. \A i \in Live': i # nextId => i \in Live /\ conns'[i] = conns[i]
      BY <3>1 DEF Live
    <3>4. NamesUnique'
      BY <2>6, <3>1, <3>2, <3>3 DEF NamesUnique, NameTaken, GrantInv
    <3>5. CreatedIsGranted'
      BY <2>1, <2>2, <2>3, <3>1, <3>2, <3>3 DEF CreatedIsGranted
    <3>6. QED
      BY <1>0, <2>1, <2>4, <3>4, <3>5 DEF GrantInv
  <2>7. QED
    BY <2>1, <2>5, <2>6
<1>4. CASE FindPermission(u)
  <2>1. j.step = "permission" /\ UNCHANGED <<faulty, conns, granted>> /\ j.role
    BY <1>4, <1>r DEF FindPermission, At, superset
  <2>2. \A i \in Live: conns[i].named /\ i \notin granted => conns[i].catalog = j.catalog
    BY DEF GrantInv, CreatedIsGranted
  <2>3. CASE \E i \in Live: /\ conns[i].catalog = j.catalog /\ conns[i].named
                            /\ Set(u, [j EXCEPT !.step = "read", !.permission = i])
    <3>1. PICK i \in Live: /\ conns[i].catalog = j.catalog /\ conns[i].named
                           /\ Set(u, [j EXCEPT !.step = "read", !.permission = i])
      BY <2>3
    <3>2. /\ job'[u].step = "read" /\ job'[u].role = j.role /\ job'[u].permission = i
          /\ job'[u].catalog = j.catalog
      <4>1. job'[u] = [j EXCEPT !.step = "read", !.permission = i]
        BY <1>s, <3>1
      <4>2. QED
        BY <1>0, <4>1 DEF Job
    <3>3. job'[u] # NoJob
      <4>1. [j EXCEPT !.step = "read", !.permission = i] \in Job
        BY <1>0 DEF Job, Steps, Live
      <4>2. QED
        BY <1>s, <3>1, <4>1
    <3>4. JobGrants(u)'
      BY <2>1, <3>1, <3>2, SameConns DEF JobGrants, GrantInv, NamesUnique
    <3>5. CreatedIsGranted'
      BY <2>1, <2>2, <3>2, <3>3, SameConns DEF CreatedIsGranted
    <3>6. QED
      BY <1>0, <2>1, <3>4, <3>5, SameConns, FewerNames DEF GrantInv
  <2>4. CASE ~NameTaken(j.catalog) /\ Set(u, [j EXCEPT !.step = "loop"])
    <3>1. \A i \in Live: conns[i].named => i \in granted
      BY <2>2, <2>4 DEF NameTaken
    <3>2. job'[u].step = "loop" /\ job'[u].role
      <4>1. job'[u] = [j EXCEPT !.step = "loop"]
        BY <1>s, <2>4
      <4>2. QED
        BY <1>0, <2>1, <4>1 DEF Job
    <3>3. QED
      BY <2>1, <3>1, <3>2, NothingOwed, SameConns
  <2>5. QED
    BY <1>0, <1>4, <2>3, <2>4 DEF FindPermission, GrantInv
<1>5. CASE ReadRole(u)
  <2>1. j.step = "read" /\ UNCHANGED <<faulty, conns, granted>> /\ j.role
    BY <1>5, <1>r DEF ReadRole, At, superset
  <2>2. \A i \in Live: conns[i].named /\ i \notin granted
           => i = j.permission /\ conns[i].catalog = j.catalog
    BY <1>0, <2>1 DEF GrantInv, CreatedIsGranted, JobGrants
  <2>3. Set(u, [j EXCEPT !.step = IF j.permission \in granted THEN "loop" ELSE "post",
                         !.seen = granted])
    BY <1>0, <1>5 DEF ReadRole, GrantInv
  <2>4. CASE j.permission \in granted
    <3>1. job'[u].step = "loop" /\ job'[u].role
      <4>1. job'[u] = [j EXCEPT !.step = "loop", !.seen = granted]
        BY <1>s, <2>3, <2>4
      <4>2. QED
        BY <1>0, <2>1, <4>1 DEF Job
    <3>2. QED
      BY <2>1, <2>2, <2>4, <3>1, NothingOwed, SameConns
  <2>5. CASE j.permission \notin granted
    <3>1. /\ job'[u].step = "post" /\ job'[u].role = j.role /\ job'[u].seen = granted
          /\ job'[u].permission = j.permission /\ job'[u].catalog = j.catalog
      <4>1. job'[u] = [j EXCEPT !.step = "post", !.seen = granted]
        BY <1>s, <2>3, <2>5
      <4>2. QED
        BY <1>0, <4>1 DEF Job
    <3>2. job'[u] # NoJob
      <4>1. [j EXCEPT !.step = "post", !.seen = granted] \in Job
        BY <1>0 DEF Job, Steps, TypeOK
      <4>2. QED
        BY <1>s, <2>3, <2>5, <4>1
    <3>3. JobGrants(u)'
      BY <1>0, <2>1, <3>1, SameConns DEF JobGrants, GrantInv
    <3>4. CreatedIsGranted'
      BY <2>1, <2>2, <3>1, <3>2, SameConns DEF CreatedIsGranted
    <3>5. QED
      BY <1>0, <2>1, <3>3, <3>4, SameConns, FewerNames DEF GrantInv
  <2>6. QED
    BY <2>4, <2>5
<1>6. CASE PostRole(u)
  <2>1. j.step = "post" /\ UNCHANGED <<faulty, conns>> /\ j.role
    BY <1>6, <1>r DEF PostRole, At
  <2>2. \A i \in Live: conns[i].named /\ i \notin granted => i = j.permission
    BY <1>0, <2>1 DEF GrantInv, CreatedIsGranted, JobGrants
  <2>3. \/ granted' = (j.seen \union {j.permission}) \intersect (Live \union {Other})
        \/ granted' = granted /\ j.permission \notin Live
    BY <1>0, <1>6 DEF PostRole
  <2>4. granted \ {Other} \subseteq j.seen
    BY <1>0, <2>1 DEF GrantInv, JobGrants
  <2>5. Other \notin Live
    BY DEF Live
  <2>6. \A i \in Live: conns[i].named => i \in granted'
    BY <2>2, <2>3, <2>4, <2>5
  <2>7. job'[u].step = "loop" /\ job'[u].role
    <3>1. job'[u] = [j EXCEPT !.step = "loop", !.permission = 0, !.seen = {}]
      BY <1>6, <1>s DEF PostRole
    <3>2. QED
      BY <1>0, <2>1, <3>1 DEF Job
  <2>8. QED
    BY <2>1, <2>6, <2>7, NothingOwed, SameConns
<1>7. ASSUME NEW i \in Ids, UpdateConnection(u, i) PROVE GrantInv'
  <2>1. j.step = "loop" /\ UNCHANGED <<faulty, granted>> /\ j.role
    BY <1>7, <1>r DEF UpdateConnection, At
  <2>2. Fewer
    <3>1. CASE UNCHANGED conns
      BY <3>1, SameConns
    <3>2. CASE i \in Live /\ conns' = [conns EXCEPT ![i] = Retarget(@, j.offer)]
      <4>1. conns[i] \in Connection /\ j.offer \in Offer
        BY <1>0, <3>2 DEF Live, TypeOK, Job
      <4>2. \A k \in Ids: conns'[k] = IF k = i THEN Retarget(conns[i], j.offer) ELSE conns[k]
        BY <3>2 DEF TypeOK
      <4>3. QED
        BY <3>2, <4>1, <4>2, RetargetType DEF Fewer, Live
    <3>3. QED
      BY <1>7, <3>1, <3>2 DEF UpdateConnection
  <2>3. job'[u].step = "loop" /\ job'[u].role
    <3>1. job'[u] = [j EXCEPT !.outdated = @ \ {i}]
      BY <1>7, <1>s DEF UpdateConnection
    <3>2. QED
      BY <1>0, <2>1, <3>1 DEF Job
  <2>4. \A k \in Live': conns'[k].named => k \in granted'
    BY <2>1, <2>2, OwedInGrant DEF Fewer
  <2>5. QED
    BY <2>1, <2>2, <2>3, <2>4, NothingOwed
<1>8. CASE Finish(u)
  <2>1. j.step = "loop" /\ UNCHANGED <<faulty, conns, granted>> /\ job'[u] = NoJob
    BY <1>8, <1>s DEF Finish, At, superset
  <2>2. QED
    BY <2>1, OwedInGrant, NothingOwed, SameConns
<1>9. QED
  BY <1>1, <1>2, <1>3, <1>4, <1>5, <1>6, <1>7, <1>8 DEF Request

LEMMA GrantStart ==
    ASSUME TypeOK, GrantInv, NEW u \in Units, Units = {u}, NEW e, Start(u, e)
    PROVE  GrantInv'
<1>1. UNCHANGED <<faulty, conns, granted>> /\ job[u] = NoJob
  BY DEF Start, superset
<1>2. job'[u] = NoJob \/ job'[u].step = "list"
  <2>1. CASE UNCHANGED job
    BY <1>1, <2>1
  <2>2. CASE ~UNCHANGED job
    <3>1. PICK c \in Catalogs:
             job' = [job EXCEPT ![u] =
                        [step |-> "list", event |-> e, offer |-> offer,
                         missing |-> {}, outdated |-> {}, role |-> FALSE,
                         catalog |-> c, permission |-> 0, seen |-> {}]]
      BY <2>2 DEF Start
    <3>2. QED
      BY <3>1 DEF TypeOK
  <2>3. QED
    BY <2>1, <2>2
<1>3. QED
  BY <1>1, <1>2, OwedInGrant, NothingOwed, SameConns

\* A connection just created is granted to the role by the job that created it,
\* and later grants keep it: no connection is left behind, whatever administrators
\* do to the connections, and Trino and the relation to the offer (_sync_catalogs,
\* _grant_database_access).  What it takes is all in the assumption: one unit
\* synchronises, no request and no hook fails, Superset has the role, lists the
\* permission of a connection it has just created, and answers in full.
THEOREM Granting ==
    ASSUME NEW u, Units = {u},
           Changes \intersect {"faults", "crash", "no_role", "unlisted", "no_result"} = {}
    PROVE  Spec => []CreatedIsGranted
<1>1. Init => GrantInv
  BY DEF Init, GrantInv, May, NamesUnique, JobGrants, CreatedIsGranted, Live
<1>2. TypeOK /\ GrantInv /\ [Next]_vars => GrantInv'
  <2> SUFFICES ASSUME TypeOK, GrantInv, [Next]_vars PROVE GrantInv'
    OBVIOUS
  <2>0. u \in Units
    OBVIOUS
  <2>1. CASE Unit(u)
    BY <2>0, <2>1, GrantStart, GrantRequest
    DEF Unit, OnRelationChanged, OnSecretChanged, OnUpdateStatus, Crash, May
  <2>2. CASE ChangeLeader \/ Relate \/ OnRelationBroken \/ ChangeOffer \/ Rotate \/ UNCHANGED vars
    <3>1. UNCHANGED <<job, faulty, conns, granted>>
      BY <2>2 DEF ChangeLeader, Relate, OnRelationBroken, ChangeOffer, Rotate, superset, vars
    <3>2. QED
      BY <2>0, <3>1, SameConns, JobLeftAlone
  <2>3. CASE ChangeFaults
    BY <2>3 DEF ChangeFaults, May
  <2>4. ASSUME NEW i \in Ids, AdminRenames(i) PROVE GrantInv'
    <3>1. /\ UNCHANGED <<job, faulty, granted>> /\ i \in Live
          /\ conns' = [conns EXCEPT ![i].named = FALSE]
      BY <2>4 DEF AdminRenames
    <3>2. conns[i] \in Connection
      BY <3>1 DEF Live, TypeOK
    <3>3. /\ conns'[i].named = FALSE /\ conns'[i].catalog = conns[i].catalog
          /\ \A k \in Ids: k # i => conns'[k] = conns[k]
      BY <3>1, <3>2 DEF TypeOK, Connection
    <3>4. Fewer
      BY <3>1, <3>3 DEF Fewer, Live
    <3>5. QED
      BY <2>0, <3>1, <3>4, JobLeftAlone
  <2>5. ASSUME NEW i \in Ids, AdminDeletes(i) PROVE GrantInv'
    <3>1. /\ UNCHANGED <<job, faulty>> /\ granted' = granted \ {i}
          /\ \A k \in Ids: conns'[k] = IF k = i THEN Deleted ELSE conns[k]
      BY <2>5 DEF AdminDeletes, TypeOK
    <3>2. Fewer /\ i \notin Live'
      BY <3>1 DEF Fewer, Live
    <3>3. QED
      BY <2>0, <3>1, <3>2, JobLeftAlone
  <2>6. CASE AdminEditsRole
    <3>1. /\ UNCHANGED <<job, faulty, conns>>
          /\ granted' \ {Other} = granted \ {Other}
      BY <2>6 DEF AdminEditsRole
    <3>2. Other \notin Live
      BY DEF Live
    <3>3. QED
      BY <2>0, <3>1, <3>2, SameConns, JobLeftAlone
  <2>7. QED
    BY <2>1, <2>2, <2>3, <2>4, <2>5, <2>6 DEF Next, Admin
<1>3. GrantInv => CreatedIsGranted
  BY DEF GrantInv
<1>4. QED
  BY <1>1, <1>2, <1>3, TypeCorrect, PTL DEF Spec
=============================================================================
