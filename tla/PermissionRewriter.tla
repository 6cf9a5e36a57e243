------------------------- MODULE PermissionRewriter -------------------------
(***************************************************************************)
(* The after-request hook that turns permission errors of Trino into       *)
(* messages for users (templates/permission_error_messages.py).            *)
(*                                                                         *)
(* A body is JSON: a function from the paths of its leaves to what stands  *)
(* there, a text or something else.  Of a text only the patterns it        *)
(* matches are kept, of a response only what the hook looks at.            *)
(***************************************************************************)
EXTENDS Naturals, FiniteSets

CONSTANTS
    Places,         \* paths of leaves in a JSON body
    Unparsable      \* a body that is no JSON, or the JSON value null

VARIABLES
    response,       \* the response to a request, or NoResponse
    body,           \* what its body was before the hook
    handled         \* the hook has run

rewriterVars == <<response, body, handled>>

\* Patterns a text can match.  Every denial of a column or a catalog also says
\* "Access Denied".
Texts == {"plain", "blank", "denied", "denied_catalog", "denied_columns",
          "denied_both"}
Friendly == {"no_access", "restricted_catalog", "restricted_columns"}
Leaves == Texts \union {"number"}

NoResponse == [type |-> "none"]

Responses ==
    [type: {"json", "html"}, path: {"api", "async_event", "superset", "other"},
     status: {"ok", "error"}, passthrough: BOOLEAN,
     body: [Places -> Leaves] \union {Unparsable}]

RewriterUnused == response = NoResponse /\ body = Unparsable /\ handled = FALSE

RewriterInit ==
    /\ response \in Responses
    /\ body = response.body
    /\ handled = FALSE

\* _rewrite_permission_denied_string: columns before catalogs before the rest.
Rewritten(leaf) ==
    CASE leaf \in {"denied_columns", "denied_both"} -> "restricted_columns"
      [] leaf = "denied_catalog"                    -> "restricted_catalog"
      [] leaf = "denied"                            -> "no_access"
      [] OTHER                                      -> leaf

\* Mutant: only responses with an error status are considered.
ConsideredErrors ==
    /\ response.type = "json" /\ response.path # "other"
    /\ response.status = "error"
    /\ ~response.passthrough /\ response.body # Unparsable

\* The early returns of the hook, in their order.
Considered ==
    /\ response.type = "json"
    /\ response.path # "other"                      \* _should_consider_path
    /\ response.status = "error" \/ response.path = "async_event"
    /\ ~response.passthrough
    /\ response.body # Unparsable

\* _rewrite_response; anything that raises leaves the response as it was.
RewriteResponse ==
    /\ response # NoResponse /\ ~handled
    /\ handled' = TRUE
    /\ \/ /\ Considered
          /\ response' = [response EXCEPT !.body =
                            [p \in Places |-> Rewritten(response.body[p])]]
       \/ ~Considered /\ UNCHANGED response
    /\ UNCHANGED body

(* No denial reaches a user in Trino's words through an API route, neither  *)
(* in an error nor in the event of an asynchronous query that arrives with  *)
(* status 200 (lines 7-9, 140-146), and the most specific one is named.     *)
(* Everything else arrives as Superset sent it: other texts, numbers, the   *)
(* results of queries, pages, downloads.                                    *)
DenialsReworded ==
    handled =>
        /\ (/\ response.type = "json" /\ response.path # "other"
            /\ ~response.passthrough /\ response.body # Unparsable
            /\ response.status = "error" \/ response.path = "async_event") =>
              \A p \in Places :
                  /\ response.body[p] \notin Texts \ {"plain", "blank"}
                  /\ body[p] \in {"denied_columns", "denied_both"} =>
                         response.body[p] = "restricted_columns"
        /\ response.body # body =>
              /\ response.type = "json" /\ response.path # "other" /\ ~response.passthrough
              /\ response.status = "ok" => response.path = "async_event"
              /\ \A p \in Places : body[p] \in {"plain", "blank", "number"} =>
                     response.body[p] = body[p]
=============================================================================
