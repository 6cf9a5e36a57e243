------------------------- MODULE CatalogConnections -------------------------
(***************************************************************************)
(* What the charm promises of the Superset connections it keeps for Trino  *)
(* (integrate-with-trino.md, "Understanding connection behavior"): a       *)
(* catalog that has no connection gets one; an existing one only has its   *)
(* URI replaced; the charm removes and renames none, whatever becomes of   *)
(* the catalogs and of the relation.  Only an administrator removes one,   *)
(* and removed keeps count of it: a connection that goes without becoming  *)
(* a member of removed breaks the promise.  A URI is written from one      *)
(* offer of Trino, url and credentials together.                           *)
(***************************************************************************)
EXTENDS TrinoCatalogs

CONSTANT NoOffer

VARIABLES
    offer,      \* what Trino offers, or NoOffer
    held,       \* offers that synchronisations under way have taken
    conns,      \* connection id -> its data, or Deleted
    removed     \* connections that administrators have removed

vars == <<offer, held, conns, removed>>

Live == {i \in Ids: conns[i] # Deleted}

Init ==
    /\ offer = NoOffer
    /\ held = {}
    /\ conns = [i \in Ids |-> Deleted]
    /\ removed = {}

TrinoChanges ==
    /\ offer' \in Offer \union {NoOffer}
    /\ UNCHANGED <<held, conns, removed>>

Take ==
    /\ offer # NoOffer
    /\ held' = held \union {offer}
    /\ UNCHANGED <<offer, conns, removed>>

Release(o) ==
    /\ held' = held \ {o}
    /\ UNCHANGED <<offer, conns, removed>>

\* Only for a catalog without a connection; a removed one does not come back.
Add(o, c, i) ==
    /\ c \in o.catalogs
    /\ \A k \in Live: conns[k].catalog # c
    /\ i \notin Live \union removed
    /\ conns' = [conns EXCEPT ![i] = NewConnection(o, c)]
    /\ UNCHANGED <<offer, held, removed>>

Update(o, i) ==
    /\ i \in Live
    /\ conns[i].catalog \in o.catalogs
    /\ conns' = [conns EXCEPT ![i] = Retarget(@, o)]
    /\ UNCHANGED <<offer, held, removed>>

AdminDeletes(i) ==
    /\ i \in Live
    /\ conns' = [conns EXCEPT ![i] = Deleted]
    /\ removed' = removed \union {i}
    /\ UNCHANGED <<offer, held>>

Next ==
    \/ TrinoChanges \/ Take
    \/ \E o \in held:
          \/ Release(o)
          \/ \E i \in Ids: Update(o, i) \/ \E c \in Catalogs: Add(o, c, i)
    \/ \E i \in Ids: AdminDeletes(i)

Spec == Init /\ [][Next]_vars
=============================================================================
