---------------------- MODULE SupersetApiClient_proofs ----------------------
(***************************************************************************)
(* Theorems about the session of the REST client, for any set of rows, any *)
(* page size and any limit of pages: what a failed login, refresh or CSRF  *)
(* request leaves behind, and that a listing is complete.                  *)
(***************************************************************************)
EXTENDS SupersetApiClient, FiniteSetTheorems, TLAPS

Environment == Expire \/ NewClient \/ FaultsEnd \/ AddRow \/ DeleteRow \/ MoveRow

LEMMA Bounds ==
    /\ MaxPages \in Nat /\ MaxPages >= 1
    /\ PageSize \in Nat /\ PageSize >= 1
    /\ 0 \in 0 .. MaxPages - 1
BY PagesAssumption

-----------------------------------------------------------------------------
(***************************************************************************)
(* Type correctness.                                                       *)
(***************************************************************************)
Branches == {"login", "refresh", "cached"}

LEMMA BranchType == Branch \in Branches
BY DEF Branch, Branches

LEMMA CallFields ==
    ASSUME NEW c \in Call
    PROVE  /\ c.step \in Steps /\ c.kind \in {"write", "list"}
           /\ c.branch \in Branches
           /\ c.page \in 0 .. MaxPages - 1 /\ c.count \in Nat
           /\ c.results \subseteq Rows /\ c.owed \subseteq Rows
           /\ c.disturbed \subseteq {"rows", "answer"}
BY DEF Call, Branches

LEMMA NewCall ==
    ASSUME NEW s \in Steps, NEW k \in {"write", "list"}, NEW b \in Branches,
           NEW o \in SUBSET Rows
    PROVE  [step |-> s, kind |-> k, branch |-> b, page |-> 0, results |-> {},
            count |-> 0, owed |-> o, disturbed |-> {}] \in Call
BY Bounds DEF Call, Branches

\* The fields of a call that a step replaces are replaced by their types.
LEMMA StepUpdate ==
    ASSUME NEW c \in Call, NEW s \in Steps, NEW b \in Branches
    PROVE  [c EXCEPT !.step = s] \in Call /\ [c EXCEPT !.branch = b, !.step = s] \in Call
BY DEF Call, Branches

LEMMA OwedUpdate ==
    ASSUME NEW c \in Call, NEW gone
    PROVE  [c EXCEPT !.owed = @ \ gone, !.disturbed = @ \union {"rows"}] \in Call
BY DEF Call

LEMMA ResultsUpdate ==
    ASSUME NEW c \in Call, NEW r \in SUBSET Rows, NEW n \in Nat,
           NEW d \in SUBSET {"rows", "answer"}
    PROVE  [c EXCEPT !.results = @ \union r, !.count = n, !.disturbed = d] \in Call
BY DEF Call

LEMMA PageUpdate ==
    ASSUME NEW c \in Call, c.page + 1 # MaxPages, NEW s \in Steps, NEW b \in Branches
    PROVE  [c EXCEPT !.page = @ + 1, !.branch = b, !.step = s] \in Call
<1>1. c.page \in 0 .. MaxPages - 1
  BY DEF Call
<1>2. c.page + 1 \in 0 .. MaxPages - 1
  BY <1>1, Bounds
<1>3. QED
  BY <1>2 DEF Call, Branches

LEMMA FirstStepType ==
    ASSUME NEW b \in Branches PROVE FirstStep(b) \in Steps
BY DEF FirstStep, Steps, Branches

LEMMA ReadRows ==
    ASSUME NEW s \in Seq(Rows)
    PROVE  /\ Len(s) \in Nat /\ DOMAIN s = 1 .. Len(s)
           /\ \A i \in DOMAIN s : s[i] \in Rows
           /\ Listed(s) \subseteq Rows
<1>1. Len(s) \in Nat /\ DOMAIN s = 1 .. Len(s) /\ \A i \in DOMAIN s : s[i] \in Rows
  OBVIOUS
<1>2. QED
  BY <1>1 DEF Listed

\* t is s with r at place k: nothing is lost and no row comes to an earlier place.
Inserted(s, k, r, t) ==
    /\ DOMAIN t = 1 .. Len(s) + 1 /\ t[k] = r
    /\ \A i \in DOMAIN s : \E j \in DOMAIN t : t[j] = s[i]
    /\ \A i \in DOMAIN t : i # k => \E j \in DOMAIN s : j <= i /\ t[i] = s[j]

LEMMA InsertType ==
    ASSUME NEW s \in Seq(Rows), NEW r \in Rows, NEW k \in 1 .. Len(s) + 1, NEW t,
           t = [i \in 1 .. Len(s) + 1 |-> IF i = k THEN r ELSE IF i < k THEN s[i] ELSE s[i - 1]]
    PROVE  t \in Seq(Rows) /\ Inserted(s, k, r, t)
<1>1. Len(s) \in Nat /\ DOMAIN s = 1 .. Len(s) /\ \A i \in DOMAIN s : s[i] \in Rows
  OBVIOUS
<1>2. DOMAIN t = 1 .. Len(s) + 1
  OBVIOUS
<1>3. \A i \in 1 .. Len(s) + 1 : t[i] = IF i = k THEN r ELSE IF i < k THEN s[i] ELSE s[i - 1]
  OBVIOUS
<1>4. \A i \in 1 .. Len(s) + 1 : t[i] \in Rows
  BY <1>1, <1>3
<1>5. t \in Seq(Rows)
  BY <1>1, <1>2, <1>4
<1>6. ASSUME NEW i \in DOMAIN s
      PROVE  \E j \in DOMAIN t : t[j] = s[i]
  <2>1. CASE i < k
    BY <1>1, <1>2, <1>3, <2>1
  <2>2. CASE ~ (i < k)
    <3>1. i + 1 \in DOMAIN t /\ t[i + 1] = s[i]
      BY <1>1, <1>2, <1>3, <2>2
    <3>2. QED
      BY <3>1
  <2>3. QED
    BY <2>1, <2>2
<1>7. ASSUME NEW i \in DOMAIN t, i # k
      PROVE  \E j \in DOMAIN s : j <= i /\ t[i] = s[j]
  <2>1. CASE i < k
    BY <1>1, <1>2, <1>3, <2>1
  <2>2. CASE ~ (i < k)
    <3>1. i - 1 \in DOMAIN s /\ i - 1 <= i /\ t[i] = s[i - 1]
      BY <1>1, <1>2, <1>3, <1>7, <2>2
    <3>2. QED
      BY <3>1
  <2>3. QED
    BY <2>1, <2>2
<1>8. QED
  BY <1>2, <1>3, <1>5, <1>6, <1>7 DEF Inserted

LEMMA SwapType ==
    ASSUME NEW s \in Seq(Rows), NEW i \in DOMAIN s, NEW j \in DOMAIN s
    PROVE  /\ [s EXCEPT ![i] = s[j], ![j] = s[i]] \in Seq(Rows)
           /\ Listed([s EXCEPT ![i] = s[j], ![j] = s[i]]) = Listed(s)
<1> DEFINE t == [s EXCEPT ![i] = s[j], ![j] = s[i]]
<1>1. Len(s) \in Nat /\ DOMAIN s = 1 .. Len(s) /\ \A k \in DOMAIN s : s[k] \in Rows
  OBVIOUS
<1>2. DOMAIN t = DOMAIN s
  OBVIOUS
<1>3. \A k \in DOMAIN s : t[k] = IF k = j THEN s[i] ELSE IF k = i THEN s[j] ELSE s[k]
  OBVIOUS
<1> HIDE DEF t
<1>4. t \in Seq(Rows)
  <2>1. \A k \in 1 .. Len(s) : t[k] \in Rows
    BY <1>1, <1>3
  <2>2. DOMAIN t = 1 .. Len(s)
    BY <1>1, <1>2
  <2>3. t \in [1 .. Len(s) -> Rows]
    <3>1. t = [k \in 1 .. Len(s) |-> t[k]]
      BY <2>2 DEF t
    <3>2. QED
      BY <2>1, <3>1
  <2>4. QED
    BY <1>1, <2>3
<1>5. Listed(t) = Listed(s)
  <2>1. ASSUME NEW k \in DOMAIN t PROVE t[k] \in Listed(s)
    BY <1>2, <1>3, <2>1 DEF Listed
  <2>2. ASSUME NEW k \in DOMAIN s PROVE s[k] \in Listed(t)
    <3>1. CASE k = i
      <4>1. j \in DOMAIN t /\ t[j] = s[k]
        BY <1>2, <1>3, <3>1
      <4>2. QED
        BY <4>1 DEF Listed
    <3>2. CASE k = j
      <4>1. i \in DOMAIN t /\ t[i] = s[k]
        BY <1>2, <1>3, <3>2
      <4>2. QED
        BY <4>1 DEF Listed
    <3>3. CASE k # i /\ k # j
      BY <1>2, <1>3, <3>3 DEF Listed
    <3>4. QED
      BY <3>1, <3>2, <3>3
  <2>3. QED
    BY <2>1, <2>2 DEF Listed
<1>6. QED
  BY <1>4, <1>5 DEF t

LEMMA ConcatType ==
    ASSUME NEW a \in Seq(Rows), NEW b \in Seq(Rows)
    PROVE  /\ a \o b \in Seq(Rows) /\ Len(a \o b) = Len(a) + Len(b)
           /\ DOMAIN (a \o b) = 1 .. Len(a \o b)
OBVIOUS

\* Without the row at a place, the others are still listed.
LEMMA RemoveType ==
    ASSUME NEW s \in Seq(Rows), NEW i \in DOMAIN s
    PROVE  /\ SubSeq(s, 1, i - 1) \o SubSeq(s, i + 1, Len(s)) \in Seq(Rows)
           /\ Listed(s) \ {s[i]} \subseteq Listed(SubSeq(s, 1, i - 1) \o SubSeq(s, i + 1, Len(s)))
<1> DEFINE a == SubSeq(s, 1, i - 1)
           b == SubSeq(s, i + 1, Len(s))
<1>1. i \in 1 .. Len(s) /\ Len(s) \in Nat /\ DOMAIN s = 1 .. Len(s)
  OBVIOUS
<1>2. a \in Seq(Rows) /\ Len(a) = i - 1 /\ \A k \in 1 .. i - 1 : a[k] = s[k]
  BY <1>1
<1>3. /\ b \in Seq(Rows) /\ Len(b) = Len(s) - i
      /\ \A k \in 1 .. Len(s) - i : b[k] = s[i + k]
  BY <1>1
<1> HIDE DEF a, b
<1>4. a \o b \in Seq(Rows) /\ DOMAIN (a \o b) = 1 .. Len(s) - 1
  <2>1. a \in Seq(Rows) /\ b \in Seq(Rows)
    BY <1>2, <1>3
  <2>2. /\ a \o b \in Seq(Rows) /\ Len(a \o b) = Len(a) + Len(b)
        /\ DOMAIN (a \o b) = 1 .. Len(a \o b)
    BY <2>1, ConcatType
  <2>3. Len(a \o b) = Len(s) - 1
    BY <1>1, <1>2, <1>3, <2>2
  <2>4. QED
    BY <2>2, <2>3
<1>5. ASSUME NEW k \in DOMAIN s, s[k] # s[i]
      PROVE  \E m \in DOMAIN (a \o b) : (a \o b)[m] = s[k]
  <2>1. CASE k < i
    <3>1. k \in 1 .. Len(s) - 1 /\ (a \o b)[k] = s[k]
      BY <1>1, <1>2, <1>3, <2>1
    <3>2. QED
      BY <1>4, <3>1
  <2>2. CASE k > i
    <3>1. k - 1 \in 1 .. Len(s) - 1 /\ k - i \in 1 .. Len(s) - i
      BY <1>1, <2>2
    <3>2. (a \o b)[k - 1] = b[k - i]
      BY <1>1, <1>2, <1>3, <2>2, <3>1
    <3>3. b[k - i] = s[k]
      BY <1>1, <1>3, <3>1
    <3>4. QED
      BY <1>4, <3>1, <3>2, <3>3
  <2>3. QED
    BY <1>1, <1>5, <2>1, <2>2
<1>6. Listed(s) \ {s[i]} \subseteq Listed(a \o b)
  BY <1>5 DEF Listed
<1>7. QED
  BY <1>4, <1>6 DEF a, b

\* A listing takes the page of an answer and either ends or goes on to the next.
PageTaken ==
    /\ call.step = "send" /\ call.kind = "list" /\ rows' = rows
    /\ call' \in Call /\ call'.owed = call.owed /\ call'.kind = "list"
    /\ call.disturbed \subseteq call'.disturbed
    /\ "answer" \notin call'.disturbed =>
          /\ call'.results = call.results \union PageRows(call.page)
          /\ call'.count = Len(rows)
    /\ \/ /\ call'.step = "idle" /\ outcome' = "done"
          /\ "answer" \notin call'.disturbed => LastPage(call.page, Len(rows))
       \/ /\ call'.step = FirstStep(Branch) /\ call'.branch = Branch
          /\ call'.page = call.page + 1 /\ outcome' = outcome

LEMMA PageSteps ==
    ASSUME call \in Call, rows \in Seq(Rows), SendPage
    PROVE  PageTaken
<1> USE DEF PageTaken
<1>1. PICK result \in {PageRows(call.page)} \union {{}}, total \in {Len(rows)} \union {0},
           d \in SUBSET {"rows", "answer"} :
           /\ d = IF result = PageRows(call.page) /\ total = Len(rows)
                  THEN call.disturbed ELSE call.disturbed \union {"answer"}
           /\ LET got == [call EXCEPT !.results = @ \union result, !.count = total,
                                      !.disturbed = d]
              IN  IF LastPage(call.page, total)
                  THEN call' = [got EXCEPT !.step = "idle"] /\ outcome' = "done"
                  ELSE /\ call' = [got EXCEPT !.page = @ + 1, !.branch = Branch,
                                              !.step = FirstStep(Branch)]
                       /\ UNCHANGED outcome
  <2>1. PICK result \in {PageRows(call.page)} \union (IF faulty THEN {{}} ELSE {}),
             total \in {Len(rows)} \union (IF faulty THEN {0} ELSE {}) :
          LET got == [call EXCEPT
                        !.results = @ \union result, !.count = total,
                        !.disturbed = IF result = PageRows(call.page) /\ total = Len(rows)
                                      THEN @ ELSE @ \union {"answer"}]
          IN  IF LastPage(call.page, total)
              THEN call' = [got EXCEPT !.step = "idle"] /\ outcome' = "done"
              ELSE /\ call' = [got EXCEPT !.page = @ + 1, !.branch = Branch,
                                          !.step = FirstStep(Branch)]
                   /\ UNCHANGED outcome
    BY DEF SendPage
  <2>2. (IF result = PageRows(call.page) /\ total = Len(rows)
         THEN call.disturbed ELSE call.disturbed \union {"answer"}) \in SUBSET {"rows", "answer"}
    BY CallFields
  <2>3. QED
    BY <2>1, <2>2
<1> DEFINE got == [call EXCEPT !.results = @ \union result, !.count = total, !.disturbed = d]
<1>2. result \in SUBSET Rows /\ total \in Nat
  BY ReadRows DEF PageRows
<1>3. got \in Call
  BY <1>2, ResultsUpdate
<1>4. /\ got.page = call.page /\ got.owed = call.owed /\ got.kind = call.kind
      /\ got.results = call.results \union result /\ got.count = total /\ got.disturbed = d
  BY DEF Call
<1> HIDE DEF got
<1>5. call.step = "send" /\ call.kind = "list" /\ rows' = rows
  BY DEF SendPage, Accepted
<1>6. /\ call.disturbed \subseteq d
      /\ "answer" \notin d => result = PageRows(call.page) /\ total = Len(rows)
  BY <1>1
<1>7. CASE LastPage(call.page, total)
  <2>1. call' = [got EXCEPT !.step = "idle"] /\ outcome' = "done"
    BY <1>1, <1>7 DEF got
  <2>2. call' \in Call
    BY <1>3, <2>1, StepUpdate, CallFields DEF Steps
  <2>3. /\ call'.owed = got.owed /\ call'.kind = got.kind /\ call'.results = got.results
        /\ call'.count = got.count /\ call'.disturbed = got.disturbed /\ call'.step = "idle"
    BY <1>3, <2>1 DEF Call
  <2>4. QED
    BY <1>4, <1>5, <1>6, <1>7, <2>1, <2>2, <2>3
<1>8. CASE ~ LastPage(call.page, total)
  <2>1. /\ call' = [got EXCEPT !.page = @ + 1, !.branch = Branch, !.step = FirstStep(Branch)]
        /\ outcome' = outcome
    BY <1>1, <1>8 DEF got
  <2>2. call' \in Call
    BY <1>3, <1>4, <1>8, <2>1, BranchType, FirstStepType, PageUpdate DEF LastPage
  <2>3. /\ call'.owed = got.owed /\ call'.kind = got.kind /\ call'.results = got.results
        /\ call'.count = got.count /\ call'.disturbed = got.disturbed
        /\ call'.step = FirstStep(Branch) /\ call'.branch = Branch
        /\ call'.page = got.page + 1
    BY <1>3, <2>1 DEF Call
  <2>4. QED
    BY <1>4, <1>5, <1>6, <1>8, <2>1, <2>2, <2>3
<1>9. QED
  BY <1>7, <1>8

(* Every variable keeps its type; in particular a listing never asks for a  *)
(* page beyond MAX_PAGES, however many rows there are (line 290).           *)
THEOREM TypeCorrect == Spec => []TypeOK
<1>1. Init => TypeOK
  <2> SUFFICES ASSUME Init PROVE TypeOK
    OBVIOUS
  <2>1. call \in Call
    BY Bounds DEF Init, Idle, Call, Steps
  <2>2. rows \in Seq(Rows)
    <3>1. PICK n \in 0 .. Cardinality(Rows) : rows \in [1 .. n -> Rows]
      BY DEF Init
    <3>2. n \in Nat
      BY FS_CardinalityType, PagesAssumption
    <3>3. QED
      BY <3>1, <3>2
  <2>3. QED
    BY <2>1, <2>2 DEF Init, TypeOK
<1>2. TypeOK /\ [Next]_vars => TypeOK'
  <2> SUFFICES ASSUME TypeOK, [Next]_vars
               PROVE  TypeOK'
    OBVIOUS
  <2>0. call \in Call /\ rows \in Seq(Rows) /\ "idle" \in Steps
    BY DEF TypeOK, Steps
  <2>e. ASSUME NEW result \in {"done", "rejected", "failed", "hook_error"}, End(result)
        PROVE  call' \in Call /\ outcome' \in {"done", "rejected", "failed", "hook_error"}
    BY <2>0, <2>e, StepUpdate, CallFields DEF End
  <2>a. AuthenticationFails =>
          call' \in Call /\ outcome' \in {"none", "done", "rejected", "failed", "hook_error"}
    <3>1. [call EXCEPT !.branch = "login", !.step = "login"] \in Call
      BY <2>0, StepUpdate DEF Steps, Branches
    <3>2. QED
      BY <3>1, <2>e DEF AuthenticationFails, TypeOK
  <2>b. \A s \in Steps : [call EXCEPT !.step = s] \in Call
    BY <2>0, StepUpdate, CallFields
  <2>1. ASSUME NEW kind \in {"write", "list"}, Begin(kind)
        PROVE  TypeOK'
    <3>1. FirstStep(Branch) \in Steps /\ Listed(rows) \in SUBSET Rows
      BY <2>0, BranchType, FirstStepType, ReadRows
    <3>2. (IF kind = "list" THEN Listed(rows) ELSE {}) \in SUBSET Rows
      BY <3>1
    <3>3. call' \in Call
      BY <2>1, <3>1, <3>2, BranchType, NewCall DEF Begin
    <3>4. QED
      BY <2>1, <3>3 DEF Begin, TypeOK
  <2>2. CASE Authenticate
    BY <2>2, <2>e, <2>b DEF Authenticate, UpdateAccessExpiry, TypeOK, Steps
  <2>3. CASE RefreshAccessToken
    BY <2>3, <2>a, <2>e, <2>b DEF RefreshAccessToken, UpdateAccessExpiry, TypeOK, Steps
  <2>4. CASE FetchCsrfToken
    BY <2>4, <2>a, <2>b DEF FetchCsrfToken, TypeOK, Steps
  <2>5. CASE SendFails
    BY <2>5, <2>e DEF SendFails, TypeOK
  <2>6. CASE SendWrite
    BY <2>6, <2>e DEF SendWrite, TypeOK
  <2>7. CASE SendPage
    <3>1. call' \in Call /\ outcome' \in {"done", outcome}
      <4>1. PageTaken
        BY <2>0, <2>7, PageSteps
      <4>2. QED
        BY <4>1 DEF PageTaken
    <3>2. QED
      BY <2>7, <3>1 DEF SendPage, TypeOK
  <2>8. CASE Environment
    <3>1. CASE Expire \/ FaultsEnd
      BY <3>1 DEF Expire, FaultsEnd, session, TypeOK
    <3>2. CASE NewClient
      <4>1. Idle \in Call
        BY NewCall DEF Idle, Steps, Branches
      <4>2. QED
        BY <3>2, <4>1 DEF NewClient, NewSession, TypeOK
    <3>3. CASE AddRow
      <4>1. PICK r \in Rows, k \in 1 .. Len(rows) + 1 :
               rows' = [i \in 1 .. Len(rows) + 1 |->
                           IF i = k THEN r ELSE IF i < k THEN rows[i] ELSE rows[i - 1]]
        BY <3>3 DEF AddRow
      <4>2. rows' \in Seq(Rows)
        BY <2>0, <4>1, InsertType
      <4>3. QED
        BY <3>3, <4>2 DEF AddRow, session, TypeOK
    <3>4. CASE DeleteRow
      BY <3>4, <2>0, RemoveType, OwedUpdate DEF DeleteRow, Disturb, session, TypeOK
    <3>5. CASE MoveRow
      <4>1. PICK i \in DOMAIN rows, j \in DOMAIN rows :
               rows' = [rows EXCEPT ![i] = rows[j], ![j] = rows[i]]
        BY <3>5 DEF MoveRow
      <4>2. rows' \in Seq(Rows)
        BY <2>0, <4>1, SwapType
      <4>3. call' \in Call
        BY <2>0, <3>5, OwedUpdate DEF MoveRow, Disturb
      <4>4. QED
        BY <3>5, <4>2, <4>3 DEF MoveRow, session, TypeOK
    <3>6. QED
      BY <2>8, <3>1, <3>2, <3>3, <3>4, <3>5 DEF Environment
  <2>9. CASE UNCHANGED vars
    BY <2>9 DEF vars, TypeOK
  <2>10. QED
    BY <2>1, <2>2, <2>3, <2>4, <2>5, <2>6, <2>7, <2>8, <2>9 DEF Next, Environment
<1>3. QED
  BY <1>1, <1>2, PTL DEF Spec

-----------------------------------------------------------------------------
(***************************************************************************)
(* The session.                                                            *)
(***************************************************************************)

\* What the tokens are at each step of a call.  RejectedCalls is what makes a
\* rejection cost one call: a client that was rejected knows that its token
\* expired, or never knew an expiry.
TokensInv ==
    /\ call.step \in {"csrf", "send"} => access # "none"
    /\ exp = "ahead" => access # "expired"
    /\ call.step = "csrf" => access = "live" /\ fresh
    /\ call.step = "refresh" => call.branch = "refresh"
    /\ call.step = "send" /\ call.branch # "cached" => access = "live" /\ fresh /\ csrf

RejectedCalls ==
    outcome = "rejected" =>
        /\ call.step = "idle" => access = "expired" /\ exp # "ahead"
        /\ call.step = "send" => exp = "unknown" \/ (access = "live" /\ fresh)

SessionInv == TokensInv /\ RejectedCalls

\* What a step of a call does to its step and branch.
LEMMA CallSteps ==
    ASSUME call \in Call
    PROVE  /\ \A result : End(result) => call'.step = "idle" /\ outcome' = result
           /\ AuthenticationFails =>
                 \/ call.branch = "refresh" /\ call'.step = "login" /\ outcome' = outcome
                 \/ call.branch # "refresh" /\ call'.step = "idle" /\ outcome' = "failed"
           /\ \A s : call' = [call EXCEPT !.step = s]
                        => call'.step = s /\ call'.branch = call.branch
BY DEF Call, End, AuthenticationFails

LEMMA PageCall ==
    ASSUME call \in Call, rows \in Seq(Rows), SendPage
    PROVE  \/ call'.step = "idle" /\ outcome' = "done"
           \/ call'.step = FirstStep(Branch) /\ call'.branch = Branch /\ outcome' = outcome
<1>1. PageTaken
  BY PageSteps
<1>2. QED
  BY <1>1 DEF PageTaken

LEMMA DisturbedCall ==
    ASSUME call \in Call, NEW gone, Disturb(gone)
    PROVE  call'.step = call.step /\ call'.branch = call.branch
BY DEF Call, Disturb

LEMMA Branching ==
    /\ Branch = "login" => FirstStep(Branch) = "login" /\ access = "none"
    /\ Branch = "refresh" => FirstStep(Branch) = "refresh" /\ exp = "passed"
    /\ Branch = "cached" => FirstStep(Branch) = "send" /\ access # "none" /\ exp # "passed"
    /\ Branch \in {"login", "refresh", "cached"}
BY DEF Branch, FirstStep

LEMMA SessionInvariant == Spec => []SessionInv
<1>1. Init => SessionInv
  BY DEF Init, Idle, SessionInv, TokensInv, RejectedCalls
<1>2. TypeOK /\ SessionInv /\ [Next]_vars => SessionInv'
  <2> SUFFICES ASSUME TypeOK, SessionInv, [Next]_vars
               PROVE  SessionInv'
    OBVIOUS
  <2>0. call \in Call /\ rows \in Seq(Rows)
    BY DEF TypeOK
  <2>c. call \in Call
    BY DEF TypeOK
  <2>1. ASSUME NEW kind \in {"write", "list"}, Begin(kind)
        PROVE  SessionInv'
    <3>1. call'.step = FirstStep(Branch) /\ call'.branch = Branch
      BY <2>1 DEF Begin
    <3>2. QED
      BY <2>1, <3>1, Branching DEF Begin, SessionInv, TokensInv, RejectedCalls, TypeOK
  <2>2. CASE Authenticate
    BY <2>c, <2>2, CallSteps
    DEF Authenticate, UpdateAccessExpiry, SessionInv, TokensInv, RejectedCalls
  <2>3. CASE RefreshAccessToken
    BY <2>c, <2>3, CallSteps
    DEF RefreshAccessToken, UpdateAccessExpiry, SessionInv, TokensInv, RejectedCalls
  <2>4. CASE FetchCsrfToken
    BY <2>0, <2>4, CallSteps DEF FetchCsrfToken, SessionInv, TokensInv, RejectedCalls
  <2>5. CASE SendFails
    BY <2>0, <2>5, CallSteps DEF SendFails, SessionInv, TokensInv, RejectedCalls, TypeOK
  <2>6. CASE SendWrite
    BY <2>0, <2>6, CallSteps DEF SendWrite, SessionInv, TokensInv, RejectedCalls
  <2>7. CASE SendPage
    <3>1. access = "live" /\ UNCHANGED <<access, exp, csrf, fresh>> /\ call.step = "send"
      BY <2>7 DEF SendPage, Accepted
    <3>2. CASE call'.step = "idle" /\ outcome' = "done"
      BY <3>1, <3>2 DEF SessionInv, TokensInv, RejectedCalls
    <3>3. CASE call'.step = FirstStep(Branch) /\ call'.branch = Branch /\ outcome' = outcome
      BY <3>1, <3>3, Branching DEF SessionInv, TokensInv, RejectedCalls
    <3>4. QED
      BY <2>0, <2>7, <3>2, <3>3, PageCall
  <2>8. CASE Environment
    <3>1. CASE Expire
      BY <3>1 DEF Expire, SessionInv, TokensInv, RejectedCalls
    <3>2. CASE NewClient
      BY <3>2 DEF NewClient, NewSession, Idle, SessionInv, TokensInv, RejectedCalls
    <3>3. CASE FaultsEnd \/ AddRow \/ DeleteRow \/ MoveRow
      <4>1. /\ UNCHANGED <<session, outcome>>
            /\ call'.step = call.step /\ call'.branch = call.branch
        BY <2>0, <3>3, DisturbedCall DEF FaultsEnd, AddRow, DeleteRow, MoveRow
      <4>2. QED
        BY <4>1 DEF session, SessionInv, TokensInv, RejectedCalls
    <3>4. QED
      BY <2>8, <3>1, <3>2, <3>3 DEF Environment
  <2>9. CASE UNCHANGED vars
    BY <2>9 DEF vars, SessionInv, TokensInv, RejectedCalls
  <2>10. QED
    BY <2>1, <2>2, <2>3, <2>4, <2>5, <2>6, <2>7, <2>8, <2>9 DEF Next, Environment
<1>3. QED
  BY <1>1, <1>2, TypeCorrect, PTL DEF Spec

(* A token that expires costs one call: a client that knows an expiry is    *)
(* never rejected twice in a row (lines 198-212).                           *)
THEOREM OneRejection == Spec => RejectedOnce
<1>1. TypeOK /\ SessionInv /\ [Next]_vars =>
        [(call.step = "send" /\ call'.step = "idle" /\ outcome' = "rejected"
            /\ exp # "unknown") => outcome # "rejected"]_vars
  <2> SUFFICES ASSUME TypeOK, SessionInv, Next, call.step = "send",
                      call'.step = "idle", outcome' = "rejected", exp # "unknown",
                      outcome = "rejected"
               PROVE  FALSE
    OBVIOUS
  <2>0. call \in Call /\ rows \in Seq(Rows)
    BY DEF TypeOK
  <2>1. access = "live"
    BY DEF SessionInv, RejectedCalls
  <2>2. CASE SendFails \/ SendWrite \/ SendPage
    <3>1. ~ SendFails /\ ~ SendWrite
      BY <2>0, <2>1, CallSteps DEF SendFails, SendWrite
    <3>2. ~ SendPage
      BY <2>0, <2>1, PageCall, Branching
    <3>3. QED
      BY <2>2, <3>1, <3>2
  <2>3. CASE Environment
    BY <2>0, <2>3, DisturbedCall
    DEF Environment, Expire, NewClient, FaultsEnd, AddRow, DeleteRow, MoveRow, session
  <2>4. QED
    BY <2>2, <2>3 DEF Next, Environment, Begin, Authenticate, RefreshAccessToken,
                      FetchCsrfToken
<1>2. QED
  BY <1>1, TypeCorrect, SessionInvariant, PTL DEF Spec, RejectedOnce

(* Once Superset answers, a call that logs in or refreshes is served,       *)
(* whatever faults left of the session (lines 206-212).                     *)
THEOREM RecoveryAtExpiry == Spec => RecoversAtExpiry
<1>1. TypeOK /\ SessionInv /\ [Next]_vars =>
        [(call.step # "idle" /\ call'.step = "idle" /\ call.branch # "cached"
            /\ ~faulty) => outcome' = "done"]_vars
  <2> SUFFICES ASSUME TypeOK, SessionInv, Next, call.step # "idle",
                      call'.step = "idle", call.branch # "cached", ~faulty
               PROVE  outcome' = "done"
    OBVIOUS
  <2>0. call \in Call /\ rows \in Seq(Rows)
    BY DEF TypeOK
  <2>1. CASE Authenticate \/ RefreshAccessToken \/ FetchCsrfToken
    BY <2>0, <2>1, CallSteps
    DEF Authenticate, RefreshAccessToken, FetchCsrfToken, SessionInv, TokensInv
  <2>2. CASE SendFails \/ SendWrite
    BY <2>0, <2>2, CallSteps DEF SendFails, SendWrite, SessionInv, TokensInv
  <2>3. CASE SendPage
    BY <2>0, <2>3, PageCall, Branching
  <2>4. CASE Environment
    BY <2>0, <2>4, DisturbedCall
    DEF Environment, Expire, NewClient, FaultsEnd, AddRow, DeleteRow, MoveRow, session
  <2>5. QED
    BY <2>1, <2>2, <2>3, <2>4 DEF Next, Environment, Begin
<1>2. QED
  BY <1>1, TypeCorrect, SessionInvariant, PTL DEF Spec, RecoversAtExpiry

-----------------------------------------------------------------------------
(***************************************************************************)
(* Pagination.                                                             *)
(***************************************************************************)

\* What is owed is still listed, and, unless the listing was disturbed, is in the
\* result if its place is on a page already read.
PagesRead ==
    /\ call.owed \subseteq Listed(rows)
    /\ call.disturbed = {} => \A i \in DOMAIN rows :
          i <= call.page * PageSize /\ rows[i] \in call.owed => rows[i] \in call.results

ListingInv ==
    /\ call.step # "idle" /\ call.kind = "list" => PagesRead
    /\ CompleteListing

\* A page holds the rows at its places, wherever the next page begins.
LEMMA PagesBound ==
    ASSUME NEW page \in Nat
    PROVE  /\ page * PageSize \in Nat /\ (page + 1) * PageSize \in Nat
           /\ page + 1 = MaxPages => (page + 1) * PageSize = PageSize * MaxPages
           /\ 0 * PageSize = 0
BY Bounds

\* After page call.page was read, what is owed and lies up to its end is there.
LEMMA PageIsRead ==
    ASSUME TypeOK, PagesRead, call.disturbed = {}, NEW i \in DOMAIN rows,
           i <= (call.page + 1) * PageSize, rows[i] \in call.owed
    PROVE  rows[i] \in call.results \union PageRows(call.page)
<1>1. call.page \in Nat /\ i \in Nat
  <2>1. call \in Call /\ rows \in Seq(Rows)
    BY DEF TypeOK
  <2>2. call.page \in 0 .. MaxPages - 1 /\ i \in 1 .. Len(rows) /\ Len(rows) \in Nat
    BY <2>1, CallFields, ReadRows
  <2>3. QED
    BY <2>2, Bounds
<1>2. CASE i <= call.page * PageSize
  BY <1>2 DEF PagesRead
<1>3. CASE call.page * PageSize < i
  BY <1>3 DEF PageRows
<1>4. QED
  BY <1>1, <1>2, <1>3, PagesBound

LEMMA ListingInvariant == Spec => []ListingInv
<1>1. Init => ListingInv
  BY DEF Init, Idle, ListingInv, CompleteListing
<1>2. TypeOK /\ ListingInv /\ [Next]_vars => ListingInv'
  <2> SUFFICES ASSUME TypeOK, ListingInv, [Next]_vars
               PROVE  ListingInv'
    OBVIOUS
  <2>0. /\ call \in Call /\ rows \in Seq(Rows)
        /\ Len(rows) \in Nat /\ DOMAIN rows = 1 .. Len(rows)
        /\ \A i \in DOMAIN rows : rows[i] \in Rows
    <3>1. call \in Call /\ rows \in Seq(Rows)
      BY DEF TypeOK
    <3>2. QED
      BY <3>1, ReadRows
  <2>1. ASSUME NEW kind \in {"write", "list"}, Begin(kind)
        PROVE  ListingInv'
    <3>1. /\ call' = [step |-> FirstStep(Branch), kind |-> kind, branch |-> Branch,
                      page |-> 0, results |-> {}, count |-> 0,
                      owed |-> IF kind = "list" THEN Listed(rows) ELSE {},
                      disturbed |-> {}]
          /\ rows' = rows
      BY <2>1 DEF Begin
    <3>2. call'.kind = kind /\ call'.page = 0 /\ call'.step # "idle"
      BY <3>1, Branching
    <3>3. kind = "list" => call'.owed = Listed(rows)
      BY <3>1
    <3>4. \A i \in DOMAIN rows : ~ (i <= call'.page * PageSize)
      BY <3>2, <2>0, PagesBound
    <3>5. QED
      BY <3>1, <3>2, <3>3, <3>4 DEF ListingInv, PagesRead, CompleteListing, Listed
  <2>2. CASE Authenticate \/ RefreshAccessToken \/ FetchCsrfToken \/ SendFails
    <3>1. /\ rows' = rows /\ call.step # "idle"
          /\ call'.step = "idle" => outcome' # "done"
      BY <2>0, <2>2, CallSteps
      DEF Authenticate, RefreshAccessToken, FetchCsrfToken, SendFails
    <3>2. /\ call'.kind = call.kind /\ call'.page = call.page /\ call'.owed = call.owed
          /\ call'.results = call.results /\ call'.disturbed = call.disturbed
      BY <2>0, <2>2
      DEF Authenticate, RefreshAccessToken, FetchCsrfToken, SendFails, End,
          AuthenticationFails, Call
    <3>3. QED
      BY <3>1, <3>2 DEF ListingInv, PagesRead, CompleteListing, Listed
  <2>3. CASE SendWrite
    BY <2>0, <2>3 DEF SendWrite, End, Call, ListingInv, CompleteListing
  <2>4. CASE SendPage
    <3>1. /\ call.step = "send" /\ call.kind = "list" /\ rows' = rows
      BY <2>0, <2>4, PageSteps DEF PageTaken
    <3>2. /\ call'.owed = call.owed /\ call'.kind = "list"
          /\ call'.disturbed = {} =>
                /\ call.disturbed = {}
                /\ call'.results = call.results \union PageRows(call.page)
                /\ call'.count = Len(rows)
          /\ \/ /\ call'.step = "idle"
                /\ call'.disturbed = {} => LastPage(call.page, Len(rows))
             \/ call'.step # "idle" /\ call'.page = call.page + 1
      <4>1. PageTaken
        BY <2>0, <2>4, PageSteps
      <4>2. call.disturbed \subseteq call'.disturbed
        BY <4>1 DEF PageTaken
      <4>3. FirstStep(Branch) # "idle"
        BY Branching
      <4>4. QED
        BY <4>1, <4>2, <4>3 DEF PageTaken
    <3>3. PagesRead
      BY <3>1 DEF ListingInv
    <3>4. CASE /\ call'.step = "idle"
               /\ call'.disturbed = {} => LastPage(call.page, Len(rows))
      <4>2. call'.disturbed = {} /\ call'.count <= PageSize * MaxPages
               => call'.owed \subseteq call'.results
        <5> SUFFICES ASSUME call'.disturbed = {}, call'.count <= PageSize * MaxPages,
                            NEW r \in call.owed
                     PROVE  r \in call'.results
          BY <3>2
        <5>1. PICK i \in DOMAIN rows : r = rows[i]
          BY <3>3 DEF PagesRead, Listed
        <5>2. i <= (call.page + 1) * PageSize
          <6>1. call.page \in Nat
            BY <2>0, CallFields, Bounds
          <6>0. LastPage(call.page, Len(rows)) /\ Len(rows) <= PageSize * MaxPages
            BY <3>2, <3>4
          <6>2. Len(rows) <= (call.page + 1) * PageSize
            BY <6>0, <6>1, <2>0, PagesBound DEF LastPage
          <6>3. /\ (call.page + 1) * PageSize \in Nat
                /\ i \in Nat /\ i <= Len(rows) /\ Len(rows) \in Nat
            <7>1. (call.page + 1) * PageSize \in Nat
              BY <6>1, PagesBound
            <7>2. Len(rows) \in Nat /\ i \in 1 .. Len(rows)
              BY <2>0
            <7>3. QED
              BY <7>1, <7>2
          <6>4. \A k \in Nat : Len(rows) <= k => i <= k
            BY <6>3
          <6>5. QED
            BY <6>2, <6>3, <6>4
        <5>3. QED
          BY <3>2, <3>3, <5>1, <5>2, PageIsRead
      <4>3. QED
        BY <3>4, <4>2 DEF ListingInv, CompleteListing
    <3>5. CASE call'.step # "idle" /\ call'.page = call.page + 1
      <4>2. call'.disturbed = {} =>
              \A i \in DOMAIN rows : i <= call'.page * PageSize /\ rows[i] \in call'.owed
                 => rows[i] \in call'.results
        BY <3>2, <3>3, <3>5, PageIsRead
      <4>3. QED
        BY <3>1, <3>2, <3>3, <3>5, <4>2
        DEF ListingInv, PagesRead, CompleteListing, Listed
    <3>6. QED
      BY <3>2, <3>4, <3>5
  <2>5. CASE Expire \/ FaultsEnd \/ UNCHANGED vars
    BY <2>5
    DEF Expire, FaultsEnd, vars, session, ListingInv, PagesRead, CompleteListing, Listed
  <2>6. CASE NewClient
    BY <2>6 DEF NewClient, NewSession, Idle, ListingInv, CompleteListing
  <2>7. CASE AddRow
    <3>1. UNCHANGED <<call, outcome>>
      BY <2>7 DEF AddRow
    <3>2. PICK r \in Rows \ Listed(rows), k \in 1 .. Len(rows) + 1 :
             rows' = [i \in 1 .. Len(rows) + 1 |->
                         IF i = k THEN r ELSE IF i < k THEN rows[i] ELSE rows[i - 1]]
      BY <2>7 DEF AddRow
    <3>0. Inserted(rows, k, r, rows')
      BY <2>0, <3>2, InsertType
    <3>3. /\ DOMAIN rows' = 1 .. Len(rows) + 1 /\ rows'[k] = r
          /\ \A i \in DOMAIN rows : \E j \in DOMAIN rows' : rows'[j] = rows[i]
          /\ \A i \in DOMAIN rows' : i # k =>
                \E j \in DOMAIN rows : j <= i /\ rows'[i] = rows[j]
      BY <3>0 DEF Inserted
    <3>4. Listed(rows) \subseteq Listed(rows')
      BY <3>3 DEF Listed
    <3>5. PagesRead => PagesRead'
      <4> SUFFICES ASSUME PagesRead PROVE PagesRead'
        OBVIOUS
      <4>1. ASSUME NEW i \in DOMAIN rows', i <= call.page * PageSize,
                   rows'[i] \in call.owed, call.disturbed = {}
            PROVE  rows'[i] \in call.results
        <5>1. i # k
          BY <3>2, <3>3, <4>1 DEF PagesRead
        <5>2. PICK j \in DOMAIN rows : j <= i /\ rows'[i] = rows[j]
          BY <3>3, <5>1
        <5>3. j <= call.page * PageSize
          <6>1. /\ i \in 1 .. Len(rows) + 1 /\ j \in 1 .. Len(rows) /\ Len(rows) \in Nat
            BY <2>0, <3>3
          <6>2. call.page * PageSize \in Nat
            BY <2>0, CallFields, Bounds, PagesBound
          <6>3. i \in Nat /\ j \in Nat
            BY <6>1
          <6>4. \A n \in Nat : i <= n => j <= n
            BY <5>2, <6>3
          <6>5. QED
            BY <4>1, <6>2, <6>4
        <5>4. QED
          BY <4>1, <5>2, <5>3 DEF PagesRead
      <4>2. QED
        BY <3>1, <3>4, <4>1 DEF PagesRead
    <3>6. QED
      BY <3>1, <3>5 DEF ListingInv, CompleteListing
  <2>8. CASE DeleteRow \/ MoveRow
    <3>1. PICK gone : /\ Disturb(gone) /\ outcome' = outcome
                      /\ Listed(rows) \ gone \subseteq Listed(rows')
      <4>1. CASE DeleteRow
        <5>1. PICK i \in DOMAIN rows :
                 /\ rows' = SubSeq(rows, 1, i - 1) \o SubSeq(rows, i + 1, Len(rows))
                 /\ Disturb({rows[i]})
          BY <4>1 DEF DeleteRow
        <5>2. QED
          BY <2>0, <4>1, <5>1, RemoveType DEF DeleteRow
      <4>2. CASE MoveRow
        <5>1. PICK i \in DOMAIN rows, j \in DOMAIN rows :
                 rows' = [rows EXCEPT ![i] = rows[j], ![j] = rows[i]]
          BY <4>2 DEF MoveRow
        <5>2. Listed(rows') = Listed(rows)
          BY <2>0, <5>1, SwapType
        <5>3. QED
          BY <4>2, <5>2 DEF MoveRow
      <4>3. QED
        BY <2>8, <4>1, <4>2
    <3>2. CASE call.step = "idle"
      BY <3>1, <3>2 DEF Disturb, ListingInv, CompleteListing
    <3>3. CASE call.step # "idle"
      <4>1. /\ call'.step = call.step /\ call'.kind = call.kind
            /\ call'.owed = call.owed \ gone /\ "rows" \in call'.disturbed
        BY <2>0, <3>1, <3>3 DEF Disturb, Call
      <4>2. QED
        BY <3>1, <3>3, <4>1 DEF ListingInv, PagesRead, CompleteListing
    <3>4. QED
      BY <3>2, <3>3
  <2>9. QED
    BY <2>1, <2>2, <2>3, <2>4, <2>5, <2>6, <2>7, <2>8 DEF Next
<1>3. QED
  BY <1>1, <1>2, TypeCorrect, PTL DEF Spec

(* A listing misses nothing: what was there from its beginning to its end   *)
(* is in the result, although it is read page by page and rows are added in *)
(* any place meanwhile (lines 290-309).  That no row is deleted or changes  *)
(* its place, that every answer has its result and its count, and that      *)
(* MAX_PAGES pages hold the list, are conditions of CompleteListing, not    *)
(* assumptions about the specification.                                     *)
THEOREM ListingComplete == Spec => []CompleteListing
<1>1. ListingInv => CompleteListing
  BY DEF ListingInv
<1>2. QED
  BY <1>1, ListingInvariant, PTL
=============================================================================
