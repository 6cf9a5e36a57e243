--------------------------- MODULE TrinoCatalogs ---------------------------
(***************************************************************************)
(* The data the synchronisation works on: what Trino publishes on the      *)
(* trino-catalog relation and the connections kept in Superset.  Shared by *)
(* the promise (CatalogConnections) and the code (TrinoSync).              *)
(***************************************************************************)
EXTENDS Naturals

CONSTANTS
    Catalogs,       \* catalogs Trino may offer
    Urls,           \* host:port values Trino may publish
    SslUrls,        \* those on port 443, whose URIs carry the password
    Users,          \* Trino user names
    Passwords,      \* passwords of the credentials secret
    MaxId,          \* bound: connections ever created in Superset
    NoPassword,     \* the URI carries no password
    Deleted         \* there is no such connection, or no longer

Ids == 1..MaxId

Offer == [url: Urls, user: Users, password: Passwords, catalogs: SUBSET Catalogs]

\* A connection has the display name of its catalog until it is renamed.
Connection == [catalog: Catalogs, named: BOOLEAN, url: Urls, user: Users,
               password: Passwords \union {NoPassword}]

ASSUME CatalogsAssumption ==
    /\ SslUrls \subseteq Urls
    /\ MaxId \in Nat
    /\ Deleted \notin Connection

\* An empty password is written where there is none.
EmptyPassword(o) == IF o.url \in SslUrls THEN o.password ELSE ""

\* _use_ssl and _build_trino_connection_string: the password only goes over SSL.
UriPassword(o) == IF o.url \in SslUrls THEN o.password ELSE NoPassword

NewConnection(o, c) ==
    [catalog |-> c, named |-> TRUE, url |-> o.url, user |-> o.user,
     password |-> UriPassword(o)]

\* The PUT of update_trino_database replaces the URI and nothing else.
Retarget(conn, o) ==
    [conn EXCEPT !.url = o.url, !.user = o.user, !.password = UriPassword(o)]
=============================================================================
