------------------------- MODULE SupersetApiClient -------------------------
(***************************************************************************)
(* The session of the Superset REST client (src/superset_api.py): access   *)
(* and refresh token, the expiry it read from the access token, the CSRF   *)
(* token, and the paginated listing every lookup is made with.             *)
(*                                                                         *)
(* A client lives for one synchronisation, which makes call after call on  *)
(* it and goes on after a call that failed.  Every HTTP request is a step, *)
(* so tokens may expire and rows may come and go between two of them.      *)
(* Superset runs in the same pod, so both sides share one clock.           *)
(***************************************************************************)
EXTENDS Naturals, Sequences, FiniteSets

CONSTANTS
    Rows,           \* the rows the listed resource may have
    PageSize,       \* MAX_PAGE_SIZE
    MaxPages        \* MAX_PAGES

ASSUME PagesAssumption ==
    /\ IsFiniteSet(Rows)
    /\ PageSize \in Nat \ {0} /\ MaxPages \in Nat \ {0}

VARIABLES
    faulty,     \* Superset may still refuse requests or answer badly
    readable,   \* Superset's access tokens carry an expiry that can be decoded
    access,     \* the access token held: "none", "live" or "expired"
    refresh,    \* a refresh token is held
    exp,        \* _access_exp against the clock: "unknown", "ahead", "passed"
    csrf,       \* a CSRF token is held
    fresh,      \* the access token was issued during the current call
    call,       \* the current call, or the last one when its step is "idle"
    outcome,    \* of the last call: "none", "done", "rejected" (401), "failed"
                \* (any other SupersetApiError) or "hook_error"
    rows        \* the listed resource, in the order Superset pages it now: the
                \* client asks for none

session == <<access, refresh, exp, csrf, fresh>>
vars == <<faulty, readable, access, refresh, exp, csrf, fresh, call, outcome, rows>>

Steps == {"idle", "login", "refresh", "csrf", "send"}

\* branch: what _ensure_authenticated found.  owed: rows that have been there
\* since the listing began.  disturbed: what has happened to the listing, rows
\* deleted or in another order, or an answer without one of its fields.
Call == [step: Steps, kind: {"write", "list"}, branch: {"login", "refresh", "cached"},
         page: 0 .. MaxPages - 1, results: SUBSET Rows, count: Nat,
         owed: SUBSET Rows, disturbed: SUBSET {"rows", "answer"}]

TypeOK ==
    /\ faulty \in BOOLEAN /\ readable \in BOOLEAN
    /\ access \in {"none", "live", "expired"}
    /\ refresh \in BOOLEAN /\ csrf \in BOOLEAN /\ fresh \in BOOLEAN
    /\ exp \in {"unknown", "ahead", "passed"}
    /\ call \in Call
    /\ outcome \in {"none", "done", "rejected", "failed", "hook_error"}
    /\ rows \in Seq(Rows)

Idle == [step |-> "idle", kind |-> "write", branch |-> "login", page |-> 0,
         results |-> {}, count |-> 0, owed |-> {}, disturbed |-> {}]

Listed(s) == {s[i] : i \in DOMAIN s}

NewSession ==
    /\ access' = "none" /\ exp' = "unknown"
    /\ refresh' = FALSE /\ csrf' = FALSE /\ fresh' = FALSE
    /\ call' = Idle /\ outcome' = "none"

Init ==
    /\ faulty \in BOOLEAN /\ readable \in BOOLEAN
    /\ access = "none" /\ exp = "unknown"
    /\ refresh = FALSE /\ csrf = FALSE /\ fresh = FALSE
    /\ call = Idle /\ outcome = "none"
    /\ rows \in {s \in UNION {[1 .. n -> Rows] : n \in 0 .. Cardinality(Rows)} :
                    \A i, j \in DOMAIN s : s[i] = s[j] => i = j}

-----------------------------------------------------------------------------
(* _ensure_authenticated: the branch a request takes before it is sent.     *)
\* Mutant: the expiry read from the token is not consulted.
BranchTrusting == IF access = "none" THEN "login" ELSE "cached"

Branch ==
    CASE access = "none"                    -> "login"
      [] access # "none" /\ exp = "passed"  -> "refresh"
      [] OTHER                              -> "cached"

FirstStep(branch) == IF branch = "cached" THEN "send" ELSE branch

End(result) ==
    /\ call' = [call EXCEPT !.step = "idle"]
    /\ outcome' = result

\* Mutants: no fall-back on a login; the refresh is tried again instead.
NoFallBack == End("failed")

RefreshAgain ==
    IF call.branch = "refresh" /\ ~refresh
    THEN call' = [call EXCEPT !.step = "refresh"] /\ UNCHANGED outcome
    ELSE End("failed")

\* SupersetApiError in the authentication of a call: a refresh falls back on a
\* full login, a login fails the call.
AuthenticationFails ==
    IF call.branch = "refresh"
    THEN call' = [call EXCEPT !.branch = "login", !.step = "login"] /\ UNCHANGED outcome
    ELSE End("failed")

\* _update_access_expiry: an expiry that cannot be decoded keeps the old one.
UpdateAccessExpiry == exp' = IF readable THEN "ahead" ELSE exp

\* A job calls a method of the client: a listing from its first page, or a
\* request that creates, updates or grants.
Begin(kind) ==
    /\ call.step = "idle" /\ outcome # "hook_error"
    /\ call' = [step |-> FirstStep(Branch), kind |-> kind, branch |-> Branch,
                page |-> 0, results |-> {}, count |-> 0,
                owed |-> IF kind = "list" THEN Listed(rows) ELSE {},
                disturbed |-> {}]
    /\ fresh' = FALSE
    /\ UNCHANGED <<faulty, readable, access, refresh, exp, csrf, outcome, rows>>

-----------------------------------------------------------------------------
(* _authenticate: the tokens are stored before they are examined, and the   *)
(* body is parsed outside the try statement.                                *)
Authenticate ==
    /\ call.step = "login"
    /\ \/ /\ access' = "live" /\ refresh' = TRUE /\ fresh' = TRUE
          /\ UpdateAccessExpiry
          /\ call' = [call EXCEPT !.step = "csrf"]
          /\ UNCHANGED outcome
       \/ /\ faulty                             \* an answer that lacks a token
          /\ \E a, r \in BOOLEAN :
                /\ ~(a /\ r)
                /\ access' = IF a THEN "live" ELSE "none"
                /\ refresh' = r
          /\ fresh' = TRUE
          /\ End("failed") /\ UNCHANGED exp
       \/ /\ faulty                             \* refused, or timed out
          /\ End("failed") /\ UNCHANGED <<access, refresh, exp, fresh>>
       \/ /\ faulty                             \* a body that is no JSON
          /\ End("hook_error") /\ UNCHANGED <<access, refresh, exp, fresh>>
    /\ UNCHANGED <<faulty, readable, csrf, rows>>

\* _refresh_access_token.  It raises when there is no refresh token, and then
\* the same exception that a refused request raises.
RefreshAccessToken ==
    /\ call.step = "refresh"
    /\ \/ /\ refresh
          /\ access' = "live" /\ fresh' = TRUE
          /\ UpdateAccessExpiry
          /\ call' = [call EXCEPT !.step = "csrf"]
          /\ UNCHANGED outcome
       \/ /\ refresh /\ faulty                  \* an answer without a token
          /\ access' = "none"
          /\ AuthenticationFails /\ UNCHANGED <<exp, fresh>>
       \/ /\ ~refresh \/ faulty
          /\ AuthenticationFails /\ UNCHANGED <<access, exp, fresh>>
       \/ /\ refresh /\ faulty                  \* a body that is no JSON
          /\ End("hook_error") /\ UNCHANGED <<access, exp, fresh>>
    /\ UNCHANGED <<faulty, readable, refresh, csrf, rows>>

\* _fetch_csrf_token.  A failed request keeps the CSRF token of before, an
\* answer without one overwrites it.
FetchCsrfToken ==
    /\ call.step = "csrf"
    /\ \/ /\ csrf' = TRUE
          /\ call' = [call EXCEPT !.step = "send"]
          /\ UNCHANGED outcome
       \/ /\ faulty
          /\ csrf' = FALSE
          /\ AuthenticationFails
       \/ /\ faulty
          /\ AuthenticationFails /\ UNCHANGED csrf
    /\ UNCHANGED <<faulty, readable, access, refresh, exp, fresh, rows>>

-----------------------------------------------------------------------------
(* The request itself.  Superset answers 401 to a token that is not live,   *)
(* and 400 to a write without a CSRF token; the client repeats neither.  A  *)
(* listing whose answer is no object, or has no list as its result, raises  *)
(* out of the hook.                                                         *)
SendFails ==
    /\ call.step = "send"
    /\ \/ access # "live" /\ End("rejected")
       \/ access = "live" /\ call.kind = "write" /\ ~csrf /\ End("failed")
       \/ faulty /\ End("failed")
       \/ faulty /\ call.kind = "list" /\ End("hook_error")
    /\ UNCHANGED <<faulty, readable, access, refresh, exp, csrf, fresh, rows>>

Accepted == call.step = "send" /\ access = "live"

SendWrite ==
    /\ Accepted /\ call.kind = "write" /\ csrf
    /\ End("done")
    /\ UNCHANGED <<faulty, readable, access, refresh, exp, csrf, fresh, rows>>

\* The rows of a page, as Superset holds them now.
PageRows(page) == {rows[i] : i \in {j \in DOMAIN rows :
                        page * PageSize < j /\ j <= (page + 1) * PageSize}}

\* Mutant: the page just read is counted twice.
LastPageOffByOne(page, total) == (page + 2) * PageSize >= total \/ page + 1 = MaxPages

\* Mutant: no limit on the pages.
LastPageUnlimited(page, total) == (page + 1) * PageSize >= total

\* _paginated_get stops when the pages fetched hold as many rows as the count
\* of the answer, or after max_pages.
LastPage(page, total) == (page + 1) * PageSize >= total \/ page + 1 = MaxPages

\* A successful answer that lacks its result counts as an empty page, one that
\* lacks its count as the last page: no error either way.
SendPage ==
    /\ Accepted /\ call.kind = "list"
    /\ \E result \in {PageRows(call.page)} \union (IF faulty THEN {{}} ELSE {}),
          total \in {Len(rows)} \union (IF faulty THEN {0} ELSE {}) :
          LET got == [call EXCEPT
                        !.results = @ \union result, !.count = total,
                        !.disturbed = IF result = PageRows(call.page) /\ total = Len(rows)
                                      THEN @ ELSE @ \union {"answer"}]
          IN  IF LastPage(call.page, total)
              THEN call' = [got EXCEPT !.step = "idle"] /\ outcome' = "done"
              ELSE /\ call' = [got EXCEPT !.page = @ + 1, !.branch = Branch,
                                          !.step = FirstStep(Branch)]
                   /\ UNCHANGED outcome
    /\ UNCHANGED <<faulty, readable, access, refresh, exp, csrf, fresh, rows>>

-----------------------------------------------------------------------------
(* The environment.                                                         *)

\* An access token lives for many times the length of a call, so one that was
\* issued during a call outlives it.
Expire ==
    /\ access = "live" /\ ~fresh
    /\ access' = "expired"
    /\ exp' = IF exp = "ahead" THEN "passed" ELSE exp
    /\ UNCHANGED <<faulty, readable, refresh, csrf, fresh, call, outcome, rows>>

\* The job ends or its hook dies; the next job makes a client of its own.
NewClient ==
    /\ call.step = "idle" /\ outcome # "none"
    /\ NewSession
    /\ UNCHANGED <<faulty, readable, rows>>

FaultsEnd ==
    /\ faulty /\ faulty' = FALSE
    /\ UNCHANGED <<readable, session, call, outcome, rows>>

\* A new row may come anywhere in the order.
AddRow ==
    /\ \E r \in Rows \ Listed(rows), k \in 1 .. Len(rows) + 1 :
          rows' = [i \in 1 .. Len(rows) + 1 |->
                      IF i = k THEN r ELSE IF i < k THEN rows[i] ELSE rows[i - 1]]
    /\ UNCHANGED <<faulty, readable, session, call, outcome>>

\* Rows behind those that go or change places may come to lie on pages read.
Disturb(gone) ==
    call' = IF call.step = "idle" THEN call
            ELSE [call EXCEPT !.owed = @ \ gone, !.disturbed = @ \union {"rows"}]

DeleteRow ==
    /\ \E i \in DOMAIN rows :
          /\ rows' = SubSeq(rows, 1, i - 1) \o SubSeq(rows, i + 1, Len(rows))
          /\ Disturb({rows[i]})
    /\ UNCHANGED <<faulty, readable, session, outcome>>

\* Without an ORDER BY the database may give the rows in another order.
MoveRow ==
    /\ \E i, j \in DOMAIN rows :
          i < j /\ rows' = [rows EXCEPT ![i] = rows[j], ![j] = rows[i]]
    /\ Disturb({})
    /\ UNCHANGED <<faulty, readable, session, outcome>>

Next ==
    \/ \E kind \in {"write", "list"} : Begin(kind)
    \/ Authenticate \/ RefreshAccessToken \/ FetchCsrfToken
    \/ SendFails \/ SendWrite \/ SendPage
    \/ Expire \/ NewClient \/ FaultsEnd \/ AddRow \/ DeleteRow \/ MoveRow

\* A job makes its requests one after the other, each with a timeout, and
\* starts its next call when one returns; nothing makes tokens expire in time.
Fairness ==
    /\ WF_vars(Authenticate) /\ WF_vars(RefreshAccessToken) /\ WF_vars(FetchCsrfToken)
    /\ WF_vars(SendFails \/ SendWrite \/ SendPage)

Spec == Init /\ [][Next]_vars
FairSpec == Spec /\ Fairness

-----------------------------------------------------------------------------
(* A token that expires costs one call.  Superset may reject a request      *)
(* whose token ran out after _ensure_authenticated looked at it; the next   *)
(* call notices and renews it, or fails before it is sent (lines 198-212).  *)
(* A client that could not read an expiry has no such defence.              *)
RejectedOnce ==
    [][(call.step = "send" /\ call'.step = "idle" /\ outcome' = "rejected"
          /\ exp # "unknown") => outcome # "rejected"]_vars

(* Faults leave nothing behind that outlives the access token: once they    *)
(* have ended, a call that has to log in or to refresh is served, also      *)
(* by a client that lost its refresh or its CSRF token to a bad answer      *)
(* (lines 206-212: a refresh that cannot succeed ends in a full login).     *)
RecoversAtExpiry ==
    [][(call.step # "idle" /\ call'.step = "idle" /\ call.branch # "cached"
          /\ ~faulty) => outcome' = "done"]_vars

(* A listing is complete: what was there from its beginning to its end is   *)
(* in the result, although pages are read one by one and rows are added     *)
(* meanwhile, in any place (lines 290-309).  A role or a permission that    *)
(* such a lookup misses is never granted.  The code cannot promise more:    *)
(* a deletion or a change of order moves rows to pages already read, an     *)
(* answer without result or count ends the listing as if it were complete,  *)
(* and a list longer than MAX_PAGES pages is not read to its end.           *)
CompleteListing ==
    (/\ call.step = "idle" /\ call.kind = "list" /\ outcome = "done"
     /\ call.disturbed = {} /\ call.count <= PageSize * MaxPages)
        => call.owed \subseteq call.results

(* Every call returns: a failing refresh falls back on a login once, and a  *)
(* growing list cannot keep a listing from ending (lines 206-212, 290).     *)
CallReturns == call.step # "idle" ~> call.step = "idle"
=============================================================================
