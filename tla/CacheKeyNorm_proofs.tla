------------------------- MODULE CacheKeyNorm_proofs -------------------------
(***************************************************************************)
(* Proofs about the cache-key normalisation: what a key is made from has   *)
(* the pieces of the SQL as it was written, two queries with one key have  *)
(* one meaning, and white space that changes no piece changes no key, for  *)
(* SQL of any length over any characters.                                  *)
(***************************************************************************)
EXTENDS CacheKeyNorm, FiniteSetTheorems, SequenceTheorems, WellFoundedInduction, TLAPS

-----------------------------------------------------------------------------
(* Induction, by the least counterexample.                                  *)

LEMMA Least ==
    ASSUME NEW T \in SUBSET Nat, T # {}
    PROVE  \E m \in T : \A k \in T : m <= k
<1> DEFINE U == {1 .. n : n \in T}
<1>1. IsWellFoundedOn(StrictSubsetOrdering(Nat), FiniteSubsetsOf(Nat))
  BY FS_StrictSubsetOrderingWellFounded
<1>2. U \subseteq FiniteSubsetsOf(Nat)
  <2> SUFFICES ASSUME NEW n \in T PROVE 1 .. n \in FiniteSubsetsOf(Nat)
    OBVIOUS
  <2>1. n \in Nat /\ IsFiniteSet(1 .. n)
    BY FS_Interval
  <2> QED BY <2>1 DEF FiniteSubsetsOf
<1>3. U # {}
  OBVIOUS
<1> HIDE DEF U
<1>4. \E x \in U : \A y \in U : ~ (<<y, x>> \in StrictSubsetOrdering(Nat))
  BY <1>1, <1>2, <1>3, WFMin
<1>5. PICK m \in T : \A k \in T : ~ (<<1 .. k, 1 .. m>> \in StrictSubsetOrdering(Nat))
  BY <1>4 DEF U
<1>6. ASSUME NEW k \in T, k < m PROVE FALSE
  <2>1. <<1 .. k, 1 .. m>> \in StrictSubsetOrdering(Nat)
    BY <1>6 DEF StrictSubsetOrdering
  <2> QED BY <2>1, <1>5
<1> QED BY <1>6

\* A set of numbers that holds 0 and, with a number, the next one holds them all.
LEMMA Induct ==
    ASSUME NEW T, 0 \in T, \A n \in Nat : n \in T => n + 1 \in T
    PROVE  \A n \in Nat : n \in T
<1> SUFFICES ASSUME Nat \ T # {} PROVE FALSE
  OBVIOUS
<1>1. PICK m \in Nat \ T : \A k \in Nat \ T : m <= k
  BY Least
<1>2. m - 1 \in Nat /\ m - 1 \in T
  BY <1>1
<1> QED BY <1>1, <1>2

-----------------------------------------------------------------------------
(* The recursive functions of the model are what their equations say.       *)

\* The states of the lexer along u.
LexerStates(u) ==
    CHOOSE read : read = [k \in 0 .. Len(u) |->
                             IF k = 0 THEN Lexer ELSE Read(read[k - 1], u[k])]

LEMMA LexerStatesExist ==
    ASSUME NEW u, Len(u) \in Nat
    PROVE  LexerStates(u) = [k \in 0 .. Len(u) |->
                                IF k = 0 THEN Lexer ELSE Read(LexerStates(u)[k - 1], u[k])]
<1> DEFINE Upto(n, f) == f = [k \in 0 .. n |-> IF k = 0 THEN Lexer ELSE Read(f[k - 1], u[k])]
           T == {n \in Nat : \E f : Upto(n, f)}
<1>1. 0 \in T
  <2>1. Upto(0, [k \in 0 .. 0 |-> Lexer])
    OBVIOUS
  <2> QED BY Zenon, <2>1
<1>2. ASSUME NEW n \in Nat, n \in T PROVE n + 1 \in T
  <2>1. PICK f : Upto(n, f)
    BY <1>2
  <2> DEFINE g == [k \in 0 .. n + 1 |-> IF k = n + 1 THEN Read(f[n], u[n + 1]) ELSE f[k]]
  <2>2. ASSUME NEW k \in 0 .. n + 1
        PROVE  g[k] = IF k = 0 THEN Lexer ELSE Read(g[k - 1], u[k])
    BY <2>1
  <2>3. Upto(n + 1, g)
    BY <2>2
  <2>4. n + 1 \in Nat
    OBVIOUS
  <2> HIDE DEF g
  <2> QED BY Zenon, <2>3, <2>4
<1> HIDE DEF T
<1>3. Len(u) \in T
  BY <1>1, <1>2, Induct
<1>4. \E f : Upto(Len(u), f)
  BY <1>3 DEF T
<1> QED BY <1>4 DEF LexerStates

LEMMA ReadingIs == ASSUME NEW u PROVE ReadAll(u) = LexerStates(u)[Len(u)]
BY DEF ReadAll, Reading, LexerStates

LEMMA LexerStep ==
    ASSUME NEW S, NEW u \in Seq(S)
    PROVE  /\ LexerStates(u)[0] = Lexer
           /\ \A k \in 1 .. Len(u) : LexerStates(u)[k] = Read(LexerStates(u)[k - 1], u[k])
<1>1. Len(u) \in Nat
  OBVIOUS
<1> QED BY <1>1, LexerStatesExist

\* The lexer is in the same state after the same characters.
LEMMA SameStart ==
    ASSUME NEW S, NEW u \in Seq(S), NEW v \in Seq(S), NEW n \in Nat,
           n <= Len(u), n <= Len(v), \A k \in 1 .. n : u[k] = v[k]
    PROVE  LexerStates(u)[n] = LexerStates(v)[n]
<1> DEFINE T == {k \in Nat : k <= n => LexerStates(u)[k] = LexerStates(v)[k]}
<1>1. 0 \in T
  BY LexerStep
<1>2. ASSUME NEW k \in Nat, k \in T PROVE k + 1 \in T
  <2> SUFFICES ASSUME k + 1 <= n PROVE LexerStates(u)[k + 1] = LexerStates(v)[k + 1]
    OBVIOUS
  <2>1. /\ LexerStates(u)[k + 1] = Read(LexerStates(u)[k], u[k + 1])
        /\ LexerStates(v)[k + 1] = Read(LexerStates(v)[k], v[k + 1])
    BY LexerStep
  <2>2. LexerStates(u)[k] = LexerStates(v)[k] /\ u[k + 1] = v[k + 1]
    BY <1>2
  <2> QED BY <2>1, <2>2
<1> HIDE DEF T
<1>3. n \in T
  BY <1>1, <1>2, Induct
<1> QED BY <1>3 DEF T

LEMMA ReadAllAppend ==
    ASSUME NEW S, NEW u \in Seq(S), NEW c \in S
    PROVE  ReadAll(Append(u, c)) = Read(ReadAll(u), c)
<1> DEFINE v == Append(u, c)
<1>1. v \in Seq(S) /\ Len(v) = Len(u) + 1 /\ v[Len(u) + 1] = c /\ Len(u) \in Nat
      /\ \A k \in 1 .. Len(u) : u[k] = v[k]
  OBVIOUS
<1> HIDE DEF v
<1>2. LexerStates(u)[Len(u)] = LexerStates(v)[Len(u)]
  BY <1>1, SameStart
<1>3. LexerStates(v)[Len(u) + 1] = Read(LexerStates(v)[Len(u)], c)
  BY <1>1, LexerStep
<1> QED BY <1>1, <1>2, <1>3, ReadingIs DEF v

LEMMA ReadAllEmpty == ReadAll(<< >>) = Lexer
<1>1. << >> \in Seq({}) /\ Len(<< >>) = 0
  OBVIOUS
<1> QED BY <1>1, LexerStep, ReadingIs

\* Once reading one piece of t has brought the lexer to the same state after o
\* and after the first characters of t, it stays there.
LEMMA SameTail ==
    ASSUME NEW S, NEW t \in Seq(S), NEW o \in Seq(S),
           NEW p \in 1 .. Len(t), NEW e \in p .. Len(t),
           Read(LexerStates(t)[p - 1], t[p]) = Read(ReadAll(o), t[p])
    PROVE  ReadAll(o \o SubSeq(t, p, e)) = LexerStates(t)[e]
<1> DEFINE piece(k) == o \o SubSeq(t, p, p + k)
           T == {k \in Nat : p + k <= Len(t) => ReadAll(piece(k)) = LexerStates(t)[p + k]}
<1>1. 0 \in T
  <2>1. piece(0) = Append(o, t[p])
    OBVIOUS
  <2>2. t[p] \in S
    OBVIOUS
  <2>4. ReadAll(piece(0)) = Read(ReadAll(o), t[p])
    BY <2>1, <2>2, ReadAllAppend
  <2>3. LexerStates(t)[p] = Read(LexerStates(t)[p - 1], t[p])
    BY LexerStep
  <2> QED BY <2>4, <2>3
<1>2. ASSUME NEW k \in Nat, k \in T PROVE k + 1 \in T
  <2> SUFFICES ASSUME p + (k + 1) <= Len(t)
               PROVE  ReadAll(piece(k + 1)) = LexerStates(t)[p + (k + 1)]
    OBVIOUS
  <2>1. piece(k) \in Seq(S) /\ t[p + (k + 1)] \in S
    OBVIOUS
  <2>2. piece(k + 1) = Append(piece(k), t[p + (k + 1)])
    <3> DEFINE a == SubSeq(t, p, p + k)
               b == SubSeq(t, p, p + (k + 1))
               c == t[p + (k + 1)]
    <3>1. b = a \o <<c>>
      BY SubSeqRecursiveSecond
    <3>2. a \in Seq(S) /\ c \in S /\ <<c>> \in Seq(S)
      OBVIOUS
    <3> HIDE DEF a, b, c
    <3>3. o \o b = (o \o a) \o <<c>>
      BY <3>1, <3>2, ConcatAssociative
    <3>4. o \o a \in Seq(S)
      BY <3>2, ConcatProperties
    <3>5. Append(o \o a, c) = (o \o a) \o <<c>>
      BY <3>2, <3>4, AppendIsConcat
    <3> QED BY <3>3, <3>5 DEF a, b, c
  <2>3. ReadAll(piece(k + 1)) = Read(ReadAll(piece(k)), t[p + (k + 1)])
    BY <2>1, <2>2, ReadAllAppend
  <2>4. LexerStates(t)[p + (k + 1)] = Read(LexerStates(t)[p + k], t[p + (k + 1)])
    BY LexerStep
  <2>5. ReadAll(piece(k)) = LexerStates(t)[p + k]
    BY <1>2
  <2> QED BY <2>3, <2>4, <2>5
<1> HIDE DEF T
<1>3. e - p \in T
  BY <1>1, <1>2, Induct
<1> QED BY <1>3 DEF T

-----------------------------------------------------------------------------
(* The lexer, character by character.                                       *)

LexerState(S) ==
    [mode: {"code", "quote", "closing", "line", "block"},
     tokens: Seq(Seq(S)), token: Seq(S), before: S \union {"none"},
     delimiter: Quotes \union {"none"},
     lineComment: BOOLEAN, quotedCR: BOOLEAN, comment: BOOLEAN]

\* lx with these four fields.
With(lx, mode, tokens, token, before) ==
    [mode |-> mode, tokens |-> tokens, token |-> token, before |-> before,
     delimiter |-> lx.delimiter, lineComment |-> lx.lineComment,
     quotedCR |-> lx.quotedCR, comment |-> lx.comment]

\* Outside of comments and quoted regions; a quote that may be doubled is.
InCode(lx) == lx.mode \in {"code", "closing"}

\* The tokens with the one that is being read.
Done(lx) == IF lx.token = << >> THEN lx.tokens ELSE Append(lx.tokens, lx.token)

\* A line comment is noted, and a region is delimited by a quote.
Sane(S, lx) ==
    /\ lx \in LexerState(S)
    /\ lx.mode = "line" => lx.lineComment
    /\ lx.mode \in {"quote", "closing"} => lx.delimiter \in Quotes

LEMMA Shape ==
    ASSUME NEW S, NEW lx \in LexerState(S)
    PROVE  lx = With(lx, lx.mode, lx.tokens, lx.token, lx.before)
BY DEF LexerState, With

LEMMA WithFields ==
    ASSUME NEW lx, NEW a, NEW b, NEW c, NEW d
    PROVE  /\ With(lx, a, b, c, d).mode = a /\ With(lx, a, b, c, d).tokens = b
           /\ With(lx, a, b, c, d).token = c /\ With(lx, a, b, c, d).before = d
           /\ With(lx, a, b, c, d).delimiter = lx.delimiter
BY DEF With

LEMMA FlushWith ==
    ASSUME NEW lx, NEW y, NEW a, NEW b, NEW c, NEW d, y = With(lx, a, b, c, d)
    PROVE  Flush(y) = With(lx, a, Done(y), << >>, d)
<1>1. y.tokens = b /\ y.token = c
  BY WithFields
<1>2. CASE c = << >>
  BY <1>1, <1>2 DEF Flush, Done
<1>3. CASE c # << >>
  <2> DEFINE more == Append(b, c)
             z == [y EXCEPT !.tokens = more]
             w == [z EXCEPT !.token = << >>]
  <2>1. z = With(lx, a, more, c, d)
    BY DEF With
  <2>2. Flush(y) = w
    BY <1>1, <1>3 DEF Flush
  <2> HIDE DEF more, z
  <2>3. w = With(lx, a, more, << >>, d)
    BY <2>1 DEF With
  <2>4. Done(y) = more
    BY <1>1, <1>3 DEF Done, more
  <2> QED BY <2>2, <2>3, <2>4
<1> QED BY <1>2, <1>3

LEMMA DoneType == ASSUME NEW S, NEW lx \in LexerState(S) PROVE Done(lx) \in Seq(Seq(S))
<1>1. lx.tokens \in Seq(Seq(S)) /\ lx.token \in Seq(S)
  BY DEF LexerState
<1> QED BY <1>1, AppendProperties DEF Done

\* White space ends a token, and an operator is one.
SpaceRead(lx) == With(lx, "code", Done(lx), << >>, "none")
TightRead(lx, c) == With(lx, "code", Append(Done(lx), <<c>>), << >>, c)

\* c does not open a comment after the operator before.
OpensNone(before, c) == ~(before = "-" /\ c = "-") /\ ~(before = "/" /\ c = "*")

LEMMA CodeSpace ==
    ASSUME NEW lx, NEW y, NEW b, NEW c, NEW d, y = With(lx, "code", b, c, d),
           NEW ch \in Space \union {"cr"}
    PROVE  ReadCode(y, ch) = With(lx, "code", Done(y), << >>, "none")
<1> DEFINE z == Flush(y)
<1>1. z = With(lx, "code", Done(y), << >>, d)
  BY FlushWith
<1>2. ReadCode(y, ch) = [z EXCEPT !.before = "none"]
  BY DEF ReadCode, Space, Quotes, Tight
<1> HIDE DEF z
<1> QED BY <1>1, <1>2 DEF With

LEMMA CodeTight ==
    ASSUME NEW lx, NEW y, NEW b, NEW c, NEW d, y = With(lx, "code", b, c, d),
           NEW ch \in Tight, OpensNone(d, ch)
    PROVE  ReadCode(y, ch) = With(lx, "code", Append(Done(y), <<ch>>), << >>, ch)
<1> DEFINE z == Flush(y)
           n == [z EXCEPT !.token = <<ch>>]
           o == Flush(n)
<1>1. z = With(lx, "code", Done(y), << >>, d)
  BY FlushWith
<1>2. ReadCode(y, ch) = [o EXCEPT !.before = ch]
  <2>1. y.before = d
    BY WithFields
  <2>2. ch \notin Quotes /\ ch \notin Space \union {"cr"} /\ ch # "w"
    BY DEF Space, Quotes, Tight
  <2> QED BY <2>1, <2>2 DEF ReadCode, OpensNone
<1> HIDE DEF z
<1>3. n = With(lx, "code", Done(y), <<ch>>, d)
  BY <1>1 DEF With
<1> HIDE DEF n
<1>4. Done(n) = Append(Done(y), <<ch>>)
  <2>1. n.token = <<ch>> /\ n.tokens = Done(y)
    BY <1>3, WithFields
  <2>2. <<ch>> # << >>
    OBVIOUS
  <2> QED BY <2>1, <2>2 DEF Done
<1>5. o = With(lx, "code", Append(Done(y), <<ch>>), << >>, d)
  BY <1>3, <1>4, FlushWith
<1> HIDE DEF o
<1> QED BY <1>2, <1>5 DEF With

\* A quote that was closed and not doubled: what follows it is code.
LEMMA AfterQuote ==
    ASSUME NEW S, NEW lx, Sane(S, lx), lx.mode = "closing", NEW c, c # lx.delimiter
    PROVE  \E m : /\ Read(lx, c) = ReadCode(m, c)
                  /\ m = With(lx, "code", Done(lx), << >>, lx.before)
                  /\ Done(m) = Done(lx)
<1> DEFINE f == Flush(lx)
           m == [f EXCEPT !.mode = "code"]
<1>1. Read(lx, c) = ReadCode(m, c)
  BY DEF Read
<1>2. lx = With(lx, "closing", lx.tokens, lx.token, lx.before)
  BY Shape DEF Sane
<1>3. f = With(lx, "closing", Done(lx), << >>, lx.before)
  BY <1>2, FlushWith
<1> HIDE DEF f
<1>4. m = With(lx, "code", Done(lx), << >>, lx.before)
  BY <1>3 DEF With
<1> HIDE DEF m
<1>5. Done(m) = Done(lx)
  <2>1. m.token = << >> /\ m.tokens = Done(lx)
    BY <1>4, WithFields
  <2> QED BY <2>1 DEF Done
<1> QED BY Zenon, <1>1, <1>4, <1>5

LEMMA ReadSpace ==
    ASSUME NEW S, NEW lx, Sane(S, lx), InCode(lx), NEW c \in Space \union {"cr"}
    PROVE  Read(lx, c) = SpaceRead(lx)
<1>1. CASE lx.mode = "code"
  <2>1. lx = With(lx, "code", lx.tokens, lx.token, lx.before)
    BY <1>1, Shape DEF Sane
  <2>2. Read(lx, c) = ReadCode(lx, c)
    BY <1>1 DEF Read
  <2> QED BY <2>1, <2>2, CodeSpace DEF SpaceRead
<1>2. CASE lx.mode = "closing"
  <2>1. c # lx.delimiter
    BY <1>2 DEF Sane, Space, Quotes
  <2>2. PICK m : /\ Read(lx, c) = ReadCode(m, c)
                 /\ m = With(lx, "code", Done(lx), << >>, lx.before)
                 /\ Done(m) = Done(lx)
    BY <1>2, <2>1, AfterQuote
  <2>3. ReadCode(m, c) = With(lx, "code", Done(m), << >>, "none")
    BY <2>2, CodeSpace
  <2> QED BY <2>2, <2>3 DEF SpaceRead
<1> QED BY <1>1, <1>2 DEF InCode

LEMMA ReadTight ==
    ASSUME NEW S, NEW lx, Sane(S, lx), InCode(lx), NEW c \in Tight, OpensNone(lx.before, c)
    PROVE  Read(lx, c) = TightRead(lx, c)
<1>1. CASE lx.mode = "code"
  <2>1. lx = With(lx, "code", lx.tokens, lx.token, lx.before)
    BY <1>1, Shape DEF Sane
  <2>2. Read(lx, c) = ReadCode(lx, c)
    BY <1>1 DEF Read
  <2> QED BY <2>1, <2>2, CodeTight DEF TightRead
<1>2. CASE lx.mode = "closing"
  <2>1. c # lx.delimiter
    BY <1>2 DEF Sane, Tight, Quotes
  <2>2. PICK m : /\ Read(lx, c) = ReadCode(m, c)
                 /\ m = With(lx, "code", Done(lx), << >>, lx.before)
                 /\ Done(m) = Done(lx)
    BY <1>2, <2>1, AfterQuote
  <2>3. ReadCode(m, c) = With(lx, "code", Append(Done(m), <<c>>), << >>, c)
    BY <2>2, CodeTight
  <2> QED BY <2>2, <2>3 DEF TightRead
<1> QED BY <1>1, <1>2 DEF InCode

\* The lexer stays sane.
LEMMA FlushType ==
    ASSUME NEW S, NEW lx \in LexerState(S)
    PROVE  /\ Flush(lx) \in LexerState(S) /\ Flush(lx).mode = lx.mode
           /\ Flush(lx).delimiter = lx.delimiter /\ Flush(lx).lineComment = lx.lineComment
           /\ Flush(lx).quotedCR = lx.quotedCR
<1>1. Flush(lx) = With(lx, lx.mode, Done(lx), << >>, lx.before)
  BY Shape, FlushWith
<1> QED BY <1>1, DoneType DEF With, LexerState

LEMMA OpenCommentType ==
    ASSUME NEW S, NEW lx \in LexerState(S), NEW mode \in {"line", "block"}
    PROVE  LET m == OpenComment(lx, mode)
           IN  /\ m \in LexerState(S) /\ m.mode = mode /\ m.before = "none"
               /\ m.lineComment = (lx.lineComment \/ mode = "line")
               /\ m.quotedCR = lx.quotedCR
<1>1. SubSeq(lx.tokens, 1, Len(lx.tokens) - 1) \in Seq(Seq(S))
  <2>1. lx.tokens \in Seq(Seq(S))
    BY DEF LexerState
  <2> QED BY <2>1
<1> QED BY <1>1 DEF OpenComment, LexerState

LEMMA ReadCodeSane ==
    ASSUME NEW S, NEW lx \in LexerState(S), lx.mode = "code", NEW c \in S
    PROVE  LET m == ReadCode(lx, c)
           IN  /\ Sane(S, m) /\ m.quotedCR = lx.quotedCR
               /\ lx.lineComment => m.lineComment
<1> DEFINE m == ReadCode(lx, c)
<1>1. CASE ~OpensNone(lx.before, c)
  <2>1. \/ m = OpenComment(lx, "line") /\ lx.before = "-" /\ c = "-"
        \/ m = OpenComment(lx, "block") /\ lx.before = "/" /\ c = "*"
    BY <1>1 DEF OpensNone, ReadCode, Quotes, Space, Tight
  <2> HIDE DEF m
  <2>2. CASE m = OpenComment(lx, "line")
    <3>1. /\ m \in LexerState(S) /\ m.mode = "line" /\ m.quotedCR = lx.quotedCR
          /\ m.lineComment = (lx.lineComment \/ "line" = "line")
      BY <2>2, OpenCommentType
    <3>2. m.lineComment = TRUE
      BY Zenon, <3>1
    <3> QED BY <3>1, <3>2 DEF Sane, m
  <2>3. CASE m = OpenComment(lx, "block")
    <3>1. /\ m \in LexerState(S) /\ m.mode = "block" /\ m.quotedCR = lx.quotedCR
          /\ m.lineComment = (lx.lineComment \/ "block" = "line")
      BY <2>3, OpenCommentType
    <3>2. lx.lineComment => m.lineComment
      BY Zenon, <3>1
    <3> QED BY <3>1, <3>2 DEF Sane, m
  <2> QED BY <2>1, <2>2, <2>3
<1> DEFINE f == Flush(lx)
<1>2. /\ f \in LexerState(S) /\ f.mode = "code" /\ f.lineComment = lx.lineComment
      /\ f.quotedCR = lx.quotedCR
  BY FlushType
<1>3. CASE OpensNone(lx.before, c) /\ c \in Quotes
  <2>1. m = [f EXCEPT !.mode = "quote", !.delimiter = c, !.token = <<c>>, !.before = "none"]
    BY <1>3 DEF ReadCode, OpensNone, Quotes, Space, Tight
  <2> HIDE DEF m, f
  <2>2. <<c>> \in Seq(S)
    OBVIOUS
  <2>3. m \in LexerState(S) /\ m.mode = "quote" /\ m.delimiter = c
        /\ m.lineComment = lx.lineComment /\ m.quotedCR = lx.quotedCR
    BY <1>2, <1>3, <2>1, <2>2 DEF LexerState
  <2> QED BY <1>3, <2>3 DEF Sane, m
<1>4. CASE c \in Space \union {"cr"}
  <2>1. m = [f EXCEPT !.before = "none"]
    BY <1>4 DEF ReadCode, Space, Quotes, Tight
  <2> HIDE DEF m, f
  <2>2. m \in LexerState(S) /\ m.mode = "code" /\ m.lineComment = lx.lineComment
        /\ m.quotedCR = lx.quotedCR
    BY <1>2, <2>1 DEF LexerState
  <2> QED BY <2>2 DEF Sane, m
<1>5. CASE c \in Tight /\ OpensNone(lx.before, c)
  <2>1. m = With(lx, "code", Append(Done(lx), <<c>>), << >>, c)
    BY <1>5, Shape, CodeTight
  <2> HIDE DEF m
  <2>2. Append(Done(lx), <<c>>) \in Seq(Seq(S))
    BY DoneType, AppendProperties
  <2>3. m \in LexerState(S) /\ m.mode = "code" /\ m.lineComment = lx.lineComment
        /\ m.quotedCR = lx.quotedCR
    BY <2>1, <2>2 DEF LexerState, With
  <2> QED BY <2>3 DEF Sane, m
<1>6. CASE OpensNone(lx.before, c) /\ c \notin Quotes \union Space \union {"cr"} \union Tight
  <2>1. m = [lx EXCEPT !.token = Append(@, c), !.before = "none"]
    BY <1>6 DEF ReadCode, OpensNone, Quotes, Space, Tight
  <2>2. Append(lx.token, c) \in Seq(S)
    BY DEF LexerState
  <2> HIDE DEF m
  <2>3. m \in LexerState(S) /\ m.mode = "code" /\ m.lineComment = lx.lineComment
        /\ m.quotedCR = lx.quotedCR
    BY <2>1, <2>2 DEF LexerState
  <2> QED BY <2>3 DEF Sane, m
<1> QED BY <1>1, <1>3, <1>4, <1>5, <1>6

\* What the lexer has noted of comments and quoted carriage returns it keeps.
LEMMA ReadSane ==
    ASSUME NEW S, NEW lx, Sane(S, lx), NEW c \in S
    PROVE  /\ Sane(S, Read(lx, c))
           /\ lx.lineComment => Read(lx, c).lineComment
           /\ lx.quotedCR => Read(lx, c).quotedCR
<1> DEFINE m == Read(lx, c)
<1>0. lx \in LexerState(S)
  BY DEF Sane
<1>1. CASE lx.mode = "code"
  <2>1. m = ReadCode(lx, c)
    BY <1>1 DEF Read
  <2> QED BY <1>0, <1>1, <2>1, ReadCodeSane
<1>2. CASE lx.mode = "closing" /\ c # lx.delimiter
  <2>1. PICK n : m = ReadCode(n, c) /\ n = With(lx, "code", Done(lx), << >>, lx.before)
    BY <1>2, AfterQuote
  <2>2. n \in LexerState(S) /\ n.mode = "code" /\ n.lineComment = lx.lineComment
        /\ n.quotedCR = lx.quotedCR
    BY <1>0, <2>1, DoneType DEF LexerState, With
  <2> QED BY <2>1, <2>2, ReadCodeSane
<1>3. CASE lx.mode = "closing" /\ c = lx.delimiter
  <2>1. m = [lx EXCEPT !.token = Append(@, c), !.mode = "quote"]
    BY <1>3 DEF Read
  <2>2. Append(lx.token, c) \in Seq(S)
    BY <1>0 DEF LexerState
  <2> HIDE DEF m
  <2>3. m \in LexerState(S) /\ m.mode = "quote" /\ m.delimiter = lx.delimiter
        /\ m.lineComment = lx.lineComment /\ m.quotedCR = lx.quotedCR
    BY <1>0, <2>1, <2>2 DEF LexerState
  <2> QED BY <1>3, <2>3 DEF Sane, m
<1>4. CASE lx.mode = "quote"
  <2>1. m = [lx EXCEPT !.token = Append(@, c), !.quotedCR = @ \/ c = "cr",
                       !.mode = IF c = lx.delimiter THEN "closing" ELSE @]
    BY <1>4 DEF Read
  <2>2. Append(lx.token, c) \in Seq(S)
    BY <1>0 DEF LexerState
  <2> HIDE DEF m
  <2>3. m \in LexerState(S) /\ m.mode \in {"quote", "closing"} /\ m.delimiter = lx.delimiter
        /\ m.lineComment = lx.lineComment
    BY <1>0, <1>4, <2>1, <2>2 DEF LexerState
  <2>4. lx.quotedCR => m.quotedCR
    BY <1>0, <2>1 DEF LexerState
  <2> QED BY <1>4, <2>3, <2>4 DEF Sane, m
<1>5. CASE lx.mode = "line"
  <2>1. m = IF c \in {"nl", "cr"} THEN [lx EXCEPT !.mode = "code"] ELSE lx
    BY <1>5 DEF Read
  <2> HIDE DEF m
  <2>2. m \in LexerState(S) /\ m.mode \in {"line", "code"} /\ m.lineComment = lx.lineComment
        /\ m.quotedCR = lx.quotedCR
    BY <1>0, <1>5, <2>1 DEF LexerState
  <2>3. lx.lineComment
    BY <1>5 DEF Sane
  <2> QED BY <2>2, <2>3 DEF Sane, m
<1>6. CASE lx.mode = "block"
  <2>1. m = IF lx.before = "*" /\ c = "/" THEN [lx EXCEPT !.mode = "code", !.before = "none"]
            ELSE [lx EXCEPT !.before = c]
    BY <1>6 DEF Read
  <2> HIDE DEF m
  <2>2. m \in LexerState(S) /\ m.mode \in {"block", "code"} /\ m.lineComment = lx.lineComment
        /\ m.quotedCR = lx.quotedCR
    BY <1>0, <1>6, <2>1 DEF LexerState
  <2> QED BY <2>2 DEF Sane, m
<1> QED BY <1>0, <1>1, <1>2, <1>3, <1>4, <1>5, <1>6 DEF LexerState

LEMMA StatesSane ==
    ASSUME NEW S, NEW u \in Seq(S), NEW n \in Nat, n <= Len(u)
    PROVE  Sane(S, LexerStates(u)[n])
<1> DEFINE T == {k \in Nat : k <= Len(u) => Sane(S, LexerStates(u)[k])}
<1>1. 0 \in T
  <2>1. Sane(S, Lexer)
    BY DEF Sane, Lexer, LexerState
  <2> QED BY <2>1, LexerStep
<1>2. ASSUME NEW k \in Nat, k \in T PROVE k + 1 \in T
  <2> SUFFICES ASSUME k + 1 <= Len(u) PROVE Sane(S, LexerStates(u)[k + 1])
    OBVIOUS
  <2>1. Sane(S, LexerStates(u)[k])
    BY <1>2
  <2>2. LexerStates(u)[k + 1] = Read(LexerStates(u)[k], u[k + 1]) /\ u[k + 1] \in S
    BY LexerStep
  <2> QED BY <2>1, <2>2, ReadSane
<1> HIDE DEF T
<1>3. n \in T
  BY <1>1, <1>2, Induct
<1> QED BY <1>3 DEF T

\* A line comment or a quoted carriage return that was read is noted at the end.
LEMMA NotedToTheEnd ==
    ASSUME NEW S, NEW u \in Seq(S), NEW n \in 0 .. Len(u)
    PROVE  /\ LexerStates(u)[n].lineComment => LexerStates(u)[Len(u)].lineComment
           /\ LexerStates(u)[n].quotedCR => LexerStates(u)[Len(u)].quotedCR
<1> DEFINE Noted(k) ==
               /\ LexerStates(u)[n].lineComment => LexerStates(u)[k].lineComment
               /\ LexerStates(u)[n].quotedCR => LexerStates(u)[k].quotedCR
           T == {k \in Nat : n + k <= Len(u) => Noted(n + k)}
<1>1. 0 \in T
  OBVIOUS
<1>2. ASSUME NEW k \in Nat, k \in T PROVE k + 1 \in T
  <2> SUFFICES ASSUME n + (k + 1) <= Len(u) PROVE Noted(n + (k + 1))
    OBVIOUS
  <2>1. Sane(S, LexerStates(u)[n + k])
    BY StatesSane
  <2>2. /\ LexerStates(u)[n + (k + 1)] = Read(LexerStates(u)[n + k], u[n + (k + 1)])
        /\ u[n + (k + 1)] \in S
    BY LexerStep
  <2>3. Noted(n + k)
    BY <1>2
  <2> QED BY <2>1, <2>2, <2>3, ReadSane
<1> HIDE DEF T
<1>3. Len(u) - n \in T
  BY <1>1, <1>2, Induct
<1> QED BY <1>3 DEF T

-----------------------------------------------------------------------------
(* White space that makes no difference to the lexer.                       *)

LEMMA SpaceReadFields ==
    ASSUME NEW S, NEW lx, Sane(S, lx)
    PROVE  /\ Sane(S, SpaceRead(lx)) /\ InCode(SpaceRead(lx))
           /\ Done(SpaceRead(lx)) = Done(lx) /\ SpaceRead(lx).before = "none"
           /\ SpaceRead(lx).mode = "code" /\ SpaceRead(lx).token = << >>
           /\ SpaceRead(lx).lineComment = lx.lineComment
<1> DEFINE m == SpaceRead(lx)
<1>1. lx \in LexerState(S) /\ Done(lx) \in Seq(Seq(S))
  BY DoneType DEF Sane
<1>2. m = With(lx, "code", Done(lx), << >>, "none")
  BY DEF SpaceRead
<1>3. m \in LexerState(S) /\ m.mode = "code" /\ m.token = << >> /\ m.before = "none"
      /\ m.tokens = Done(lx) /\ m.lineComment = lx.lineComment
  BY <1>1, <1>2 DEF With, LexerState
<1> HIDE DEF m
<1>4. Sane(S, m) /\ InCode(m) /\ Done(m) = Done(lx)
  BY <1>3 DEF Sane, InCode, Done
<1> QED BY <1>3, <1>4 DEF m

LEMMA WithWith ==
    ASSUME NEW lx, NEW a, NEW b, NEW c, NEW d, NEW e, NEW f, NEW g, NEW h
    PROVE  With(With(lx, a, b, c, d), e, f, g, h) = With(lx, e, f, g, h)
BY DEF With

\* More white space.
LEMMA SpaceAfterSpace ==
    ASSUME NEW S, NEW lx, Sane(S, lx), NEW c \in Space \union {"cr"}
    PROVE  Read(SpaceRead(lx), c) = SpaceRead(lx)
<1>1. Read(SpaceRead(lx), c) = SpaceRead(SpaceRead(lx))
  BY SpaceReadFields, ReadSpace
<1>2. SpaceRead(SpaceRead(lx)) = With(SpaceRead(lx), "code", Done(lx), << >>, "none")
  BY SpaceReadFields DEF SpaceRead
<1>3. With(SpaceRead(lx), "code", Done(lx), << >>, "none") = SpaceRead(lx)
  BY WithWith DEF SpaceRead
<1> QED BY <1>1, <1>2, <1>3

\* White space before an operator.
LEMMA TightAfterSpace ==
    ASSUME NEW S, NEW lx, Sane(S, lx), InCode(lx), NEW c \in Tight, OpensNone(lx.before, c)
    PROVE  Read(SpaceRead(lx), c) = Read(lx, c)
<1>1. Read(SpaceRead(lx), c) = TightRead(SpaceRead(lx), c)
  <2>1. OpensNone("none", c)
    BY DEF OpensNone
  <2> QED BY <2>1, SpaceReadFields, ReadTight
<1>2. TightRead(SpaceRead(lx), c) =
          With(SpaceRead(lx), "code", Append(Done(lx), <<c>>), << >>, c)
  BY SpaceReadFields DEF TightRead
<1>3. With(SpaceRead(lx), "code", Append(Done(lx), <<c>>), << >>, c) = TightRead(lx, c)
  BY WithWith DEF SpaceRead, TightRead
<1> QED BY <1>1, <1>2, <1>3, ReadTight

\* White space after an operator, or at the beginning.
LEMMA OtherAfterSpace ==
    ASSUME NEW S, NEW lx, Sane(S, lx), lx.mode = "code", lx.token = << >>,
           NEW c, c \notin Tight
    PROVE  Read(SpaceRead(lx), c) = Read(lx, c)
<1> DEFINE tokens == lx.tokens
           spaced == SpaceRead(lx)
<1>1. /\ lx = With(lx, "code", tokens, << >>, lx.before)
      /\ spaced = With(lx, "code", tokens, << >>, "none")
  <2>1. Done(lx) = tokens
    BY DEF Done
  <2> QED BY <2>1, Shape DEF Sane, SpaceRead
<1>2. /\ Read(lx, c) = ReadCode(lx, c) /\ Read(spaced, c) = ReadCode(spaced, c)
  <2>1. spaced.mode = "code"
    BY SpaceReadFields
  <2> HIDE DEF spaced
  <2> QED BY <2>1 DEF Read
<1> HIDE DEF spaced
<1>3. /\ Flush(lx) = lx /\ Flush(spaced) = spaced /\ spaced.token = << >>
  <2>1. spaced.token = << >>
    BY <1>1, WithFields
  <2> QED BY <2>1 DEF Flush
<1>4. CASE c \in Space \union {"cr"}
  BY <1>4, SpaceAfterSpace, ReadSpace DEF InCode, spaced
<1>5. CASE c \in Quotes
  <2> DEFINE result(m) == [m EXCEPT !.mode = "quote", !.delimiter = c, !.token = <<c>>,
                                    !.before = "none"]
  <2>1. ReadCode(lx, c) = result(lx) /\ ReadCode(spaced, c) = result(spaced)
    BY <1>3, <1>5 DEF ReadCode, Quotes, Space, Tight
  <2>2. result(lx) = result(spaced)
    <3>1. lx \in LexerState(S) /\ spaced = [lx EXCEPT !.before = "none"]
      BY <1>1 DEF With, Sane
    <3> QED BY <3>1 DEF LexerState
  <2> QED BY <1>2, <2>1, <2>2 DEF spaced
<1>6. CASE c \notin Space \union {"cr"} \union Quotes
  <2> DEFINE result(m) == [m EXCEPT !.token = <<c>>, !.before = "none"]
  <2>1. ReadCode(lx, c) = result(lx) /\ ReadCode(spaced, c) = result(spaced)
    <3>1. Append(lx.token, c) = <<c>> /\ Append(spaced.token, c) = <<c>>
      BY <1>3
    <3> QED BY <1>6, <3>1 DEF ReadCode, Tight
  <2>2. result(lx) = result(spaced)
    <3>1. lx \in LexerState(S) /\ spaced = [lx EXCEPT !.before = "none"]
      BY <1>1 DEF With, Sane
    <3> QED BY <3>1 DEF LexerState
  <2> QED BY <1>2, <2>1, <2>2 DEF spaced
<1> QED BY <1>4, <1>5, <1>6 DEF spaced

-----------------------------------------------------------------------------
(* The scanner's chunks are the regions of the lexer.                       *)

LEMMA FirstIs ==
    ASSUME NEW found \in SUBSET Nat, found # {}, NEW default
    PROVE  First(found, default) \in found /\ \A j \in found : First(found, default) <= j
<1>1. \E x \in found : \A y \in found : x <= y
  BY Least
<1>2. Min(found) \in found /\ \A j \in found : Min(found) <= j
  BY <1>1 DEF Min
<1> QED BY <1>2 DEF First

\* A character of a word.
Letter(c) == IsWord(c) /\ c # "cr"

LEMMA ReadLetter ==
    ASSUME NEW S, NEW lx, Sane(S, lx), InCode(lx), NEW c \in S, Letter(c)
    PROVE  Read(lx, c).mode = "code" /\ Read(lx, c).before = "none"
<1>1. c \notin Space \union {"cr"} \union Tight \union Quotes
  BY DEF Letter, IsWord
<1>2. ASSUME NEW m \in LexerState(S), m.mode = "code"
      PROVE  ReadCode(m, c).mode = "code" /\ ReadCode(m, c).before = "none"
  <2>1. ReadCode(m, c) = [m EXCEPT !.token = Append(@, c), !.before = "none"]
    BY <1>1 DEF ReadCode, Tight
  <2> QED BY <1>2, <2>1 DEF LexerState
<1>3. CASE lx.mode = "code"
  <2>1. Read(lx, c) = ReadCode(lx, c)
    BY <1>3 DEF Read
  <2> QED BY <1>2, <1>3, <2>1 DEF Sane
<1>4. CASE lx.mode = "closing"
  <2>1. c # lx.delimiter
    BY <1>1, <1>4 DEF Sane
  <2>2. PICK m : Read(lx, c) = ReadCode(m, c) /\ m = With(lx, "code", Done(lx), << >>, lx.before)
    BY <1>4, <2>1, AfterQuote
  <2>3. m \in LexerState(S) /\ m.mode = "code"
    BY <2>2, DoneType DEF Sane, LexerState, With
  <2> QED BY <1>2, <2>2, <2>3
<1> QED BY <1>3, <1>4 DEF InCode

LEMMA WordRegion ==
    ASSUME NEW S, NEW t \in Seq(S), NEW p \in 1 .. Len(t), NEW e \in p .. Len(t),
           InCode(LexerStates(t)[p - 1]), \A j \in p .. e : Letter(t[j])
    PROVE  LexerStates(t)[e].mode = "code" /\ LexerStates(t)[e].before = "none"
<1> DEFINE Here(j) == LexerStates(t)[j].mode = "code" /\ LexerStates(t)[j].before = "none"
           T == {k \in Nat : p + k <= e => Here(p + k)}
<1>1. ASSUME NEW j \in p .. e, InCode(LexerStates(t)[j - 1]) PROVE Here(j)
  <2>1. LexerStates(t)[j] = Read(LexerStates(t)[j - 1], t[j]) /\ t[j] \in S
    BY LexerStep
  <2>2. Sane(S, LexerStates(t)[j - 1])
    BY StatesSane
  <2>3. Letter(t[j])
    OBVIOUS
  <2> QED BY <1>1, <2>1, <2>2, <2>3, ReadLetter
<1>2. 0 \in T
  BY <1>1
<1>3. ASSUME NEW k \in Nat, k \in T PROVE k + 1 \in T
  <2> SUFFICES ASSUME p + (k + 1) <= e PROVE Here(p + (k + 1))
    OBVIOUS
  <2>1. InCode(LexerStates(t)[p + k])
    BY <1>3 DEF InCode
  <2>2. p + (k + 1) \in p .. e /\ (p + (k + 1)) - 1 = p + k
    OBVIOUS
  <2> QED BY <1>1, <2>1, <2>2
<1> HIDE DEF T
<1>4. e - p \in T
  BY <1>2, <1>3, Induct
<1> QED BY <1>4 DEF T

\* Two operators that open a comment, read in code.
LEMMA ReadOpening ==
    ASSUME NEW S, NEW t \in Seq(S), NEW p \in 1 .. Len(t), p < Len(t),
           InCode(LexerStates(t)[p - 1]), NEW c \in {"-", "/"}, t[p] = c,
           OpensNone(LexerStates(t)[p - 1].before, c),
           t[p + 1] = IF c = "-" THEN "-" ELSE "*"
    PROVE  LET m == LexerStates(t)[p + 1]
           IN  /\ c = "-" => m.lineComment
               /\ c = "/" => m.mode = "block" /\ m.before = "none"
<1> DEFINE lx == LexerStates(t)[p - 1]
           n == LexerStates(t)[p]
           m == LexerStates(t)[p + 1]
<1>1. Sane(S, lx) /\ n = Read(lx, c) /\ c \in Tight
  <2>1. Sane(S, lx) /\ n = Read(lx, c)
    BY LexerStep, StatesSane
  <2>2. c \in Tight
    BY DEF Tight
  <2> QED BY <2>1, <2>2
<1>2. n = TightRead(lx, c)
  BY <1>1, ReadTight
<1>3. n.mode = "code" /\ n.before = c
  BY <1>2, WithFields DEF TightRead
<1>4. m = Read(n, t[p + 1]) /\ Sane(S, n)
  BY LexerStep, StatesSane
<1> HIDE DEF n, m, lx
<1>5. m = ReadCode(n, t[p + 1])
  BY <1>3, <1>4 DEF Read
<1>6. m = OpenComment(n, IF c = "-" THEN "line" ELSE "block")
  BY <1>3, <1>5 DEF ReadCode, Quotes, Space, Tight
<1>7. n \in LexerState(S)
  BY <1>4 DEF Sane
<1>8. CASE c = "-"
  <2>1. m.lineComment = (n.lineComment \/ "line" = "line")
    BY <1>6, <1>7, <1>8, OpenCommentType
  <2>2. m.lineComment
    BY Zenon, <2>1
  <2> QED BY <1>8, <2>2 DEF m
<1>9. CASE c = "/"
  BY <1>6, <1>7, <1>9, OpenCommentType DEF m
<1> QED BY <1>8, <1>9

LEMMA LineRegion ==
    ASSUME NEW S, NEW t \in Seq(S), NEW p \in 1 .. Len(t), Pair(t, p, "-", "-"),
           InCode(LexerStates(t)[p - 1])
    PROVE  LexerStates(t)[Len(t)].lineComment
<1> DEFINE lx == LexerStates(t)[p - 1]
<1>1. p < Len(t) /\ t[p] = "-" /\ t[p + 1] = "-"
  BY DEF Pair
<1>2. CASE OpensNone(lx.before, "-")
  <2>1. LexerStates(t)[p + 1].lineComment
    BY <1>1, <1>2, ReadOpening
  <2> QED BY <1>1, <2>1, NotedToTheEnd
<1>3. CASE ~OpensNone(lx.before, "-")
  <2>1. lx.before = "-" /\ LexerStates(t)[p] = Read(lx, "-") /\ Sane(S, lx)
    BY <1>1, <1>3, LexerStep, StatesSane DEF OpensNone
  <2>2. PICK n \in LexerState(S) : n.before = "-" /\ n.mode = "code"
                                   /\ LexerStates(t)[p] = ReadCode(n, "-")
    <3> HIDE DEF lx
    <3>1. CASE lx.mode = "code"
      BY <2>1, <3>1 DEF Read, Sane
    <3>2. CASE lx.mode = "closing"
      <4>1. "-" # lx.delimiter
        BY <2>1, <3>2 DEF Sane, Quotes
      <4>2. PICK n : Read(lx, "-") = ReadCode(n, "-")
                     /\ n = With(lx, "code", Done(lx), << >>, lx.before)
        BY <2>1, <3>2, <4>1, AfterQuote
      <4>3. n \in LexerState(S) /\ n.mode = "code" /\ n.before = "-"
        BY <2>1, <4>2, DoneType DEF Sane, LexerState, With
      <4> QED BY <2>1, <4>2, <4>3
    <3> QED BY <3>1, <3>2 DEF InCode, lx
  <2>3. ReadCode(n, "-") = OpenComment(n, "line")
    BY <2>2 DEF ReadCode, Quotes, Space, Tight
  <2>4. OpenComment(n, "line").lineComment = (n.lineComment \/ "line" = "line")
    BY OpenCommentType
  <2>5. LexerStates(t)[p].lineComment
    BY Zenon, <2>2, <2>3, <2>4
  <2> QED BY <2>5, NotedToTheEnd
<1> QED BY <1>2, <1>3

\* A comment from p to the marker at f ends in code.
LEMMA BlockRegion ==
    ASSUME NEW S, NEW t \in Seq(S), NEW p \in 1 .. Len(t), Pair(t, p, "/", "*"),
           InCode(LexerStates(t)[p - 1]),
           NEW f \in p + 2 .. Len(t), Pair(t, f, "*", "/"),
           \A j \in p + 2 .. f - 1 : ~Pair(t, j, "*", "/")
    PROVE  /\ f + 1 <= Len(t)
           /\ LexerStates(t)[f + 1].mode = "code" /\ LexerStates(t)[f + 1].before = "none"
<1> DEFINE Inside(q) == /\ LexerStates(t)[q].mode = "block"
                        /\ LexerStates(t)[q].before = IF q = p + 1 THEN "none" ELSE t[q]
           T == {k \in Nat : p + 1 + k <= f => Inside(p + 1 + k)}
<1>0. /\ p < Len(t) /\ t[p] = "/" /\ t[p + 1] = "*"
      /\ f < Len(t) /\ t[f] = "*" /\ t[f + 1] = "/"
  BY DEF Pair
<1>1. 0 \in T
  <2>1. OpensNone(LexerStates(t)[p - 1].before, "/")
    BY DEF OpensNone
  <2>2. LexerStates(t)[p + 1].mode = "block" /\ LexerStates(t)[p + 1].before = "none"
    BY <1>0, <2>1, ReadOpening
  <2> QED BY <2>2
<1>2. ASSUME NEW q \in p + 1 .. Len(t) - 1, Inside(q)
      PROVE  IF LexerStates(t)[q].before = "*" /\ t[q + 1] = "/"
             THEN LexerStates(t)[q + 1].mode = "code" /\ LexerStates(t)[q + 1].before = "none"
             ELSE LexerStates(t)[q + 1].mode = "block" /\ LexerStates(t)[q + 1].before = t[q + 1]
  <2> DEFINE lx == LexerStates(t)[q]
             m == LexerStates(t)[q + 1]
  <2>1. m = Read(lx, t[q + 1]) /\ t[q + 1] \in S /\ lx \in LexerState(S)
    BY LexerStep, StatesSane DEF Sane
  <2>2. lx.mode = "block"
    BY <1>2
  <2> HIDE DEF lx, m
  <2>3. m = IF lx.before = "*" /\ t[q + 1] = "/"
            THEN [lx EXCEPT !.mode = "code", !.before = "none"]
            ELSE [lx EXCEPT !.before = t[q + 1]]
    BY <2>1, <2>2 DEF Read
  <2> QED BY <2>1, <2>2, <2>3 DEF LexerState, lx, m
<1>3. ASSUME NEW k \in Nat, k \in T PROVE k + 1 \in T
  <2> SUFFICES ASSUME p + 1 + (k + 1) <= f PROVE Inside(p + 1 + (k + 1))
    OBVIOUS
  <2>1. Inside(p + 1 + k)
    BY <1>3
  <2>2. ~(LexerStates(t)[p + 1 + k].before = "*" /\ t[p + 1 + k + 1] = "/")
    <3>1. CASE k = 0
      BY <2>1, <3>1
    <3>2. CASE k # 0
      <4>1. p + 1 + k \in p + 2 .. f - 1
        BY <3>2
      <4>2. LexerStates(t)[p + 1 + k].before = t[p + 1 + k] /\ p + 1 + k < Len(t)
        BY <1>0, <2>1, <3>2
      <4> QED BY <4>1, <4>2 DEF Pair
    <3> QED BY <3>1, <3>2
  <2>3. p + 1 + k \in p + 1 .. Len(t) - 1
    BY <1>0
  <2>4. LexerStates(t)[p + 1 + k + 1].mode = "block"
        /\ LexerStates(t)[p + 1 + k + 1].before = t[p + 1 + k + 1]
    BY <1>2, <2>1, <2>2, <2>3
  <2> QED BY <2>4
<1>4. Inside(f)
  <2> HIDE DEF T
  <2>1. f - (p + 1) \in T
    BY <1>1, <1>3, Induct
  <2> QED BY <2>1 DEF T
<1>5. LexerStates(t)[f].before = "*" /\ f \in p + 1 .. Len(t) - 1
  BY <1>0, <1>4
<1> QED BY <1>0, <1>2, <1>4, <1>5

\* Where the region that opens at i closes, seen from j.
Closing(s, i) ==
    CHOOSE close : close =
        [j \in i + 1 .. Len(s) + 2 |->
            IF j > Len(s) THEN Len(s)
            ELSE IF Pair(s, j, s[i], s[i]) THEN close[j + 2]
            ELSE IF s[j] = s[i] THEN j
            ELSE close[j + 1]]

LEMMA QuoteEndIs == ASSUME NEW s, NEW i PROVE QuoteEnd(s, i) = Closing(s, i)[i + 1]
BY DEF QuoteEnd, Closing

LEMMA ClosingExists ==
    ASSUME NEW s, NEW i \in Nat, Len(s) \in Nat, i <= Len(s)
    PROVE  \A j \in i + 1 .. Len(s) + 2 :
               Closing(s, i)[j] =
                   IF j > Len(s) THEN Len(s)
                   ELSE IF Pair(s, j, s[i], s[i]) THEN Closing(s, i)[j + 2]
                   ELSE IF s[j] = s[i] THEN j
                   ELSE Closing(s, i)[j + 1]
<1> DEFINE N == Len(s) + 2
           At(close, j) == IF j > Len(s) THEN Len(s)
                           ELSE IF Pair(s, j, s[i], s[i]) THEN close[j + 2]
                           ELSE IF s[j] = s[i] THEN j
                           ELSE close[j + 1]
           From(n, f) == f = [j \in N - n .. N |-> At(f, j)]
           T == {n \in Nat : \E f : From(n, f)}
<1>1. 0 \in T
  <2> DEFINE g == [j \in N - 0 .. N |-> Len(s)]
  <2>1. From(0, g)
    OBVIOUS
  <2> HIDE DEF g, From
  <2> QED BY Zenon, <2>1
<1>2. ASSUME NEW n \in Nat, n \in T PROVE n + 1 \in T
  <2>1. PICK f : From(n, f)
    BY <1>2
  <2> DEFINE g == [j \in N - (n + 1) .. N |-> IF j = N - (n + 1) THEN At(f, j) ELSE f[j]]
  <2>2. ASSUME NEW j \in N - (n + 1) .. N PROVE g[j] = At(g, j)
    <3>1. /\ j + 1 \in N - (n + 1) .. N \/ j > Len(s)
          /\ j + 2 \in N - (n + 1) .. N \/ j > Len(s)
      OBVIOUS
    <3>2. At(g, j) = At(f, j)
      BY <3>1
    <3>3. g[j] = At(f, j)
      <4>1. CASE j = N - (n + 1)
        BY <4>1
      <4>2. CASE j # N - (n + 1)
        <5>1. j \in N - n .. N /\ g[j] = f[j]
          BY <4>2
        <5> HIDE DEF g, At
        <5>2. f[j] = At(f, j)
          BY <2>1, <5>1
        <5> QED BY <5>1, <5>2
      <4> QED BY <4>1, <4>2
    <3> QED BY <3>2, <3>3
  <2>3. From(n + 1, g)
    BY <2>2
  <2>4. n + 1 \in Nat
    OBVIOUS
  <2> HIDE DEF g, From
  <2> QED BY Zenon, <2>3, <2>4
<1> HIDE DEF T
<1>3. N - (i + 1) \in T
  BY <1>1, <1>2, Induct
<1>4. \E f : f = [j \in i + 1 .. N |-> At(f, j)]
  <2>1. N - (N - (i + 1)) = i + 1 /\ N - (i + 1) \in Nat
    OBVIOUS
  <2> QED BY <1>3, <2>1 DEF T
<1>5. Closing(s, i) = [j \in i + 1 .. N |-> At(Closing(s, i), j)]
  BY <1>4 DEF Closing
<1> QED BY <1>5

\* A quote opens a quoted region, unless it doubles the one before it.
LEMMA ReadQuote ==
    ASSUME NEW S, NEW lx, Sane(S, lx), InCode(lx), NEW c \in S, c \in Quotes,
           lx.mode = "closing" => c # lx.delimiter
    PROVE  LET m == Read(lx, c)
           IN  m.mode = "quote" /\ m.delimiter = c /\ m.before = "none"
<1>1. ASSUME NEW n \in LexerState(S), n.mode = "code"
      PROVE  LET m == ReadCode(n, c)
             IN  m.mode = "quote" /\ m.delimiter = c /\ m.before = "none"
  <2> DEFINE f == Flush(n)
  <2>1. ReadCode(n, c) = [f EXCEPT !.mode = "quote", !.delimiter = c, !.token = <<c>>,
                                   !.before = "none"]
    BY DEF ReadCode, Quotes, Space, Tight
  <2>2. f \in LexerState(S)
    BY <1>1, FlushType
  <2> HIDE DEF f
  <2> QED BY <2>1, <2>2 DEF LexerState
<1>2. CASE lx.mode = "code"
  <2>1. Read(lx, c) = ReadCode(lx, c)
    BY <1>2 DEF Read
  <2> QED BY <1>1, <1>2, <2>1 DEF Sane
<1>3. CASE lx.mode = "closing"
  <2>1. PICK m : Read(lx, c) = ReadCode(m, c) /\ m = With(lx, "code", Done(lx), << >>, lx.before)
    BY <1>3, AfterQuote
  <2>2. m \in LexerState(S) /\ m.mode = "code"
    BY <2>1, DoneType DEF Sane, LexerState, With
  <2> QED BY <1>1, <2>1, <2>2
<1> QED BY <1>2, <1>3 DEF InCode

LEMMA ReadQuoted ==
    ASSUME NEW S, NEW lx \in LexerState(S), NEW c \in S,
           lx.mode = "quote" \/ (lx.mode = "closing" /\ c = lx.delimiter)
    PROVE  /\ lx.mode = "quote" /\ c = lx.delimiter => Read(lx, c).mode = "closing"
           /\ lx.mode = "closing" \/ c # lx.delimiter => Read(lx, c).mode = "quote"
           /\ Read(lx, c).delimiter = lx.delimiter /\ Read(lx, c).before = lx.before
<1>1. CASE lx.mode = "quote"
  <2>1. Read(lx, c) = [lx EXCEPT !.token = Append(@, c), !.quotedCR = @ \/ c = "cr",
                                 !.mode = IF c = lx.delimiter THEN "closing" ELSE @]
    BY <1>1 DEF Read
  <2> QED BY <1>1, <2>1 DEF LexerState
<1>2. CASE lx.mode = "closing" /\ c = lx.delimiter
  <2>1. Read(lx, c) = [lx EXCEPT !.token = Append(@, c), !.mode = "quote"]
    BY <1>2 DEF Read
  <2> QED BY <1>2, <2>1 DEF LexerState
<1> QED BY <1>1, <1>2

\* The region opened at p is open at j, and is closed at j.
Quoted(t, p, j) ==
    LET lx == LexerStates(t)[j]
    IN  lx.mode = "quote" /\ lx.delimiter = t[p] /\ lx.before = "none"

Closed(t, p, j) ==
    LET lx == LexerStates(t)[j]
    IN  lx.mode = "closing" /\ lx.delimiter = t[p] /\ lx.before = "none" /\ t[j + 1] # t[p]

\* From i to j only quotes that are doubled close the region.
Inside(t, p, i, j) == \A m \in i .. j : LexerStates(t)[m - 1].mode = "quote" \/ t[m] = t[p]

LEMMA QuoteRegion ==
    ASSUME NEW S, NEW t \in Seq(S), NEW p \in 1 .. Len(t)
    PROVE  /\ QuoteEnd(t, p) \in p .. Len(t)
           /\ Quoted(t, p, p) /\ QuoteEnd(t, p) < Len(t) => Closed(t, p, QuoteEnd(t, p))
           /\ Quoted(t, p, p) => Inside(t, p, p + 1, QuoteEnd(t, p))
<1> DEFINE N == Len(t) + 2
           close == Closing(t, p)
           Ends(j) == /\ close[j] \in p .. Len(t)
                      /\ j <= Len(t) /\ Quoted(t, p, j - 1) /\ close[j] < Len(t)
                            => Closed(t, p, close[j])
                      /\ j <= Len(t) /\ Quoted(t, p, j - 1) => Inside(t, p, j, close[j])
           T == {n \in Nat : \A j \in p + 1 .. N : N - n <= j => Ends(j)}
<1>1. Len(t) \in Nat /\ p \in Nat /\ p <= Len(t)
  OBVIOUS
<1>2. \A j \in p + 1 .. N :
          close[j] = IF j > Len(t) THEN Len(t)
                     ELSE IF Pair(t, j, t[p], t[p]) THEN close[j + 2]
                     ELSE IF t[j] = t[p] THEN j
                     ELSE close[j + 1]
  BY <1>1, ClosingExists
<1> HIDE DEF close
<1>3. ASSUME NEW j \in p + 1 .. Len(t), Quoted(t, p, j - 1)
      PROVE  /\ t[j] # t[p] => Quoted(t, p, j)
             /\ Pair(t, j, t[p], t[p]) => Quoted(t, p, j + 1)
             /\ t[j] = t[p] /\ ~Pair(t, j, t[p], t[p]) /\ j < Len(t) => Closed(t, p, j)
  <2> DEFINE lx == LexerStates(t)[j - 1]
             m == LexerStates(t)[j]
  <2>0. /\ t[j] \in S /\ m = Read(lx, t[j])
    BY LexerStep
  <2>1. lx \in LexerState(S) /\ m \in LexerState(S)
    <3>1. j - 1 \in Nat /\ j - 1 <= Len(t) /\ j \in Nat /\ j <= Len(t)
      BY <1>1
    <3> QED BY <3>1, StatesSane DEF Sane
  <2>2. /\ m.mode = IF t[j] = t[p] THEN "closing" ELSE "quote"
        /\ m.delimiter = t[p] /\ m.before = "none"
    <3>1. lx.mode = "quote" /\ lx.delimiter = t[p] /\ lx.before = "none"
      BY <1>3 DEF Quoted
    <3> HIDE DEF lx, m
    <3>2. lx.mode = "quote" \/ (lx.mode = "closing" /\ t[j] = lx.delimiter)
      BY <3>1
    <3>3. /\ lx.mode = "quote" /\ t[j] = lx.delimiter => m.mode = "closing"
          /\ lx.mode = "closing" \/ t[j] # lx.delimiter => m.mode = "quote"
          /\ m.delimiter = lx.delimiter /\ m.before = lx.before
      BY <2>0, <2>1, <3>2, ReadQuoted
    <3> QED BY <3>1, <3>3
  <2>3. ASSUME Pair(t, j, t[p], t[p]) PROVE Quoted(t, p, j + 1)
    <3>1. /\ j + 1 \in 1 .. Len(t) /\ t[j + 1] = t[p] /\ t[j] = t[p] /\ t[j + 1] \in S
      BY <2>3 DEF Pair
    <3>2. LexerStates(t)[j + 1] = Read(LexerStates(t)[j], t[j + 1])
      BY <3>1, LexerStep
    <3> QED BY <2>1, <2>2, <3>1, <3>2, ReadQuoted DEF Quoted
  <2> QED BY <2>2, <2>3 DEF Quoted, Closed, Pair
<1>4. ASSUME NEW j \in p + 1 .. N, \A i \in p + 1 .. N : j < i => Ends(i) PROVE Ends(j)
  <2>1. CASE j > Len(t)
    BY <1>1, <1>2, <2>1
  <2>2. CASE j <= Len(t) /\ Pair(t, j, t[p], t[p])
    <3>1. j + 1 <= Len(t) /\ j + 2 \in p + 1 .. N /\ close[j] = close[j + 2]
      BY <1>2, <2>2 DEF Pair
    <3>2. Ends(j + 2) /\ (Quoted(t, p, j - 1) => Quoted(t, p, (j + 2) - 1))
      BY <1>3, <1>4, <2>2, <3>1
    <3>3. CASE j + 2 <= Len(t)
      <4>1. ASSUME Quoted(t, p, j - 1), Inside(t, p, j + 2, close[j + 2])
            PROVE  Inside(t, p, j, close[j])
        <5> SUFFICES ASSUME NEW m \in j .. close[j]
                     PROVE  LexerStates(t)[m - 1].mode = "quote" \/ t[m] = t[p]
          BY DEF Inside
        <5>1. LexerStates(t)[j - 1].mode = "quote" /\ t[j + 1] = t[p]
          BY <2>2, <4>1 DEF Pair, Quoted
        <5>2. m = j \/ m = j + 1 \/ m \in j + 2 .. close[j + 2]
          BY <3>1, <3>2
        <5> QED BY <4>1, <5>1, <5>2 DEF Inside
      <4> QED BY <3>1, <3>2, <3>3, <4>1
    <3>4. CASE j + 2 > Len(t)
      <4>1. close[j + 2] = Len(t)
        BY <1>2, <3>1, <3>4
      <4>2. Quoted(t, p, j - 1) => Inside(t, p, j, close[j])
        BY <1>1, <2>2, <3>1, <3>4, <4>1 DEF Pair, Inside, Quoted
      <4> QED BY <1>1, <3>1, <4>1, <4>2
    <3> QED BY <3>1, <3>3, <3>4
  <2>3. CASE j <= Len(t) /\ ~Pair(t, j, t[p], t[p]) /\ t[j] = t[p]
    <3>1. close[j] = j
      BY <1>2, <2>3
    <3>2. Quoted(t, p, j - 1) => Inside(t, p, j, close[j])
      BY <1>1, <2>3, <3>1 DEF Inside
    <3> QED BY <1>3, <2>3, <3>1, <3>2
  <2>4. CASE j <= Len(t) /\ t[j] # t[p]
    <3>1. j + 1 \in p + 1 .. N /\ close[j] = close[j + 1]
      BY <1>2, <2>4 DEF Pair
    <3>2. Ends(j + 1) /\ (Quoted(t, p, j - 1) => Quoted(t, p, (j + 1) - 1))
      BY <1>3, <1>4, <2>4, <3>1
    <3>3. CASE j + 1 <= Len(t)
      <4>1. ASSUME Quoted(t, p, j - 1), Inside(t, p, j + 1, close[j + 1])
            PROVE  Inside(t, p, j, close[j])
        <5> SUFFICES ASSUME NEW m \in j .. close[j]
                     PROVE  LexerStates(t)[m - 1].mode = "quote" \/ t[m] = t[p]
          BY DEF Inside
        <5>1. LexerStates(t)[j - 1].mode = "quote"
          BY <4>1 DEF Quoted
        <5>2. m = j \/ m \in j + 1 .. close[j + 1]
          BY <3>1, <3>2
        <5> QED BY <4>1, <5>1, <5>2 DEF Inside
      <4> QED BY <3>1, <3>2, <3>3, <4>1
    <3>4. CASE j + 1 > Len(t)
      <4>1. close[j + 1] = Len(t)
        BY <1>2, <3>1, <3>4
      <4>2. Quoted(t, p, j - 1) => Inside(t, p, j, close[j])
        BY <1>1, <3>1, <3>4, <4>1 DEF Inside, Quoted
      <4> QED BY <1>1, <3>1, <4>1, <4>2
    <3> QED BY <3>1, <3>3, <3>4
  <2> QED BY <2>1, <2>2, <2>3, <2>4
<1> HIDE DEF Ends
<1>5. 0 \in T
  <2> SUFFICES ASSUME NEW j \in p + 1 .. N, N - 0 <= j PROVE Ends(j)
    OBVIOUS
  <2> QED BY <1>4
<1>6. ASSUME NEW n \in Nat, n \in T PROVE n + 1 \in T
  <2> SUFFICES ASSUME NEW j \in p + 1 .. N, N - (n + 1) <= j PROVE Ends(j)
    OBVIOUS
  <2>1. \A i \in p + 1 .. N : j < i => Ends(i)
    BY <1>6
  <2> QED BY <1>4, <2>1
<1> HIDE DEF T
<1>7. N \in T
  BY <1>1, <1>5, <1>6, Induct
<1>8. p + 1 \in p + 1 .. N /\ N - N <= p + 1
  BY <1>1
<1>9. Ends(p + 1)
  BY <1>7, <1>8 DEF T
<1>10. QuoteEnd(t, p) = close[p + 1]
  BY QuoteEndIs DEF close
<1>11. CASE p + 1 <= Len(t)
  BY <1>9, <1>10, <1>11 DEF Ends
<1>12. CASE p + 1 > Len(t)
  <2>1. close[p + 1] = Len(t)
    BY <1>2, <1>8, <1>12
  <2>2. Inside(t, p, p + 1, Len(t))
    BY <1>1, <1>12 DEF Inside
  <2> QED BY <1>1, <1>10, <2>1, <2>2
<1> QED BY <1>11, <1>12

-----------------------------------------------------------------------------
(* The scanner takes chunk after chunk, to the end of the SQL.              *)

LineEnds(t, p) == {j \in p .. Len(t) : t[j] = "nl"}
CommentEnds(t, p) == {j \in p + 2 .. Len(t) : Pair(t, j, "*", "/")}
WordEnds(t, p) == {j \in p .. Len(t) : ~IsWord(t[j])}

\* The arms of ChunkEnd exclude each other.
LEMMA ChunkEndIs ==
    ASSUME NEW t, NEW p
    PROVE  /\ Pair(t, p, "-", "-") => ChunkEnd(t, p) = First(LineEnds(t, p), Len(t) + 1) - 1
           /\ Pair(t, p, "/", "*") => ChunkEnd(t, p) = First(CommentEnds(t, p), Len(t) - 1) + 1
           /\ t[p] \in Quotes => ChunkEnd(t, p) = QuoteEnd(t, p)
           /\ IsWord(t[p]) => ChunkEnd(t, p) = First(WordEnds(t, p), Len(t) + 1) - 1
           /\ ~Pair(t, p, "-", "-") /\ ~Pair(t, p, "/", "*") /\ t[p] \notin Quotes /\ ~IsWord(t[p])
                => ChunkEnd(t, p) = p
<1> DEFINE line == First(LineEnds(t, p), Len(t) + 1) - 1
           block == First(CommentEnds(t, p), Len(t) - 1) + 1
           word == First(WordEnds(t, p), Len(t) + 1) - 1
<1>1. ChunkEnd(t, p) = CASE Pair(t, p, "-", "-") -> line
                         [] Pair(t, p, "/", "*") -> block
                         [] t[p] \in Quotes      -> QuoteEnd(t, p)
                         [] IsWord(t[p])         -> word
                         [] OTHER                -> p
  BY DEF ChunkEnd, LineEnds, CommentEnds, WordEnds
<1>2. /\ Pair(t, p, "-", "-") => t[p] = "-"
      /\ Pair(t, p, "/", "*") => t[p] = "/"
      /\ t[p] \in Quotes => t[p] \in {"'", "id"}
      /\ IsWord(t[p]) => t[p] \notin {"-", "/", "'", "id"}
  BY DEF Pair, Quotes, IsWord, Tight
<1> HIDE DEF line, block, word
<1>3. Pair(t, p, "-", "-") => ChunkEnd(t, p) = line
  BY <1>1, <1>2
<1>4. Pair(t, p, "/", "*") => ChunkEnd(t, p) = block
  BY <1>1, <1>2
<1>5. t[p] \in Quotes => ChunkEnd(t, p) = QuoteEnd(t, p)
  BY <1>1, <1>2
<1>6. IsWord(t[p]) => ChunkEnd(t, p) = word
  BY <1>1, <1>2
<1>7. ~Pair(t, p, "-", "-") /\ ~Pair(t, p, "/", "*") /\ t[p] \notin Quotes /\ ~IsWord(t[p])
        => ChunkEnd(t, p) = p
  BY <1>1
<1> QED BY <1>3, <1>4, <1>5, <1>6, <1>7 DEF line, block, word

LEMMA ChunkEndRange ==
    ASSUME NEW S, NEW t \in Seq(S), NEW p \in 1 .. Len(t)
    PROVE  ChunkEnd(t, p) \in p .. Len(t)
<1> DEFINE N == Len(t)
           e == ChunkEnd(t, p)
           breaks == LineEnds(t, p)
           markers == CommentEnds(t, p)
           others == WordEnds(t, p)
<1>1. /\ N \in Nat /\ p \in 1 .. N
      /\ breaks \in SUBSET Nat /\ markers \in SUBSET Nat /\ others \in SUBSET Nat
      /\ \A j \in breaks : j \in p .. N /\ t[j] = "nl"
      /\ \A j \in markers : j \in p + 2 .. N /\ j < N
      /\ \A j \in others : j \in p .. N /\ ~IsWord(t[j])
  BY DEF LineEnds, CommentEnds, WordEnds, Pair
<1> HIDE DEF breaks, markers, others
<1>2. CASE Pair(t, p, "-", "-")
  <2>1. e = First(breaks, N + 1) - 1 /\ t[p] = "-"
    BY <1>2, ChunkEndIs DEF Pair, breaks
  <2>2. CASE breaks = {}
    <3>1. First(breaks, N + 1) = N + 1
      BY <2>2 DEF First
    <3> QED BY <1>1, <2>1, <3>1
  <2>3. CASE breaks # {}
    <3> DEFINE x == First(breaks, N + 1)
    <3>1. x \in breaks
      BY <1>1, <2>3, FirstIs
    <3> HIDE DEF x
    <3>2. x \in p .. N /\ t[x] = "nl"
      BY <1>1, <3>1
    <3>3. x \in p + 1 .. N
      BY <1>1, <2>1, <3>2
    <3> QED BY <1>1, <2>1, <3>3 DEF x
  <2> QED BY <2>2, <2>3
<1>3. CASE Pair(t, p, "/", "*")
  <2>1. e = First(markers, N - 1) + 1 /\ p < N
    BY <1>3, ChunkEndIs DEF Pair, markers
  <2>2. CASE markers = {}
    <3>1. First(markers, N - 1) = N - 1
      BY <2>2 DEF First
    <3> QED BY <1>1, <2>1, <3>1
  <2>3. CASE markers # {}
    <3> DEFINE x == First(markers, N - 1)
    <3>1. x \in markers
      BY <1>1, <2>3, FirstIs
    <3> HIDE DEF x
    <3>2. x \in p + 2 .. N /\ x < N
      BY <1>1, <3>1
    <3>3. x \in p + 2 .. N - 1
      BY <1>1, <2>1, <3>2
    <3> QED BY <1>1, <2>1, <3>3 DEF x
  <2> QED BY <2>2, <2>3
<1>4. CASE t[p] \in Quotes
  BY <1>4, ChunkEndIs, QuoteRegion
<1>5. CASE IsWord(t[p])
  <2>1. e = First(others, N + 1) - 1
    BY <1>5, ChunkEndIs DEF others
  <2>2. CASE others = {}
    <3>1. First(others, N + 1) = N + 1
      BY <2>2 DEF First
    <3> QED BY <1>1, <2>1, <3>1
  <2>3. CASE others # {}
    <3> DEFINE x == First(others, N + 1)
    <3>1. x \in others
      BY <1>1, <2>3, FirstIs
    <3> HIDE DEF x
    <3>2. x \in p .. N /\ ~IsWord(t[x])
      BY <1>1, <3>1
    <3>3. x \in p + 1 .. N
      BY <1>1, <2>1, <3>2, <1>5
    <3> QED BY <1>1, <2>1, <3>3 DEF x
  <2> QED BY <2>2, <2>3
<1>6. CASE /\ ~Pair(t, p, "-", "-") /\ ~Pair(t, p, "/", "*")
           /\ t[p] \notin Quotes /\ ~IsWord(t[p])
  BY <1>1, <1>6, ChunkEndIs
<1> QED BY <1>2, <1>3, <1>4, <1>5, <1>6

\* The chunks of s from i on.
ChunksFrom(s) ==
    CHOOSE from : from =
        [i \in 1 .. Len(s) + 1 |->
            IF i > Len(s) THEN << >>
            ELSE <<SubSeq(s, i, ChunkEnd(s, i))>> \o from[ChunkEnd(s, i) + 1]]

LEMMA ChunksIs == ASSUME NEW s PROVE Chunks(s) = ChunksFrom(s)[1]
BY DEF Chunks, ChunksFrom

LEMMA ChunksExist ==
    ASSUME NEW S, NEW t \in Seq(S)
    PROVE  /\ ChunksFrom(t)[Len(t) + 1] = << >>
           /\ \A i \in 1 .. Len(t) :
                  ChunksFrom(t)[i] = <<SubSeq(t, i, ChunkEnd(t, i))>>
                                         \o ChunksFrom(t)[ChunkEnd(t, i) + 1]
<1> DEFINE N == Len(t) + 1
           At(f, i) == IF i > Len(t) THEN << >>
                       ELSE <<SubSeq(t, i, ChunkEnd(t, i))>> \o f[ChunkEnd(t, i) + 1]
           From(n, f) == f = [i \in N - n .. N |-> IF i < 1 THEN << >> ELSE At(f, i)]
           T == {n \in Nat : \E f : From(n, f)}
<1>0. Len(t) \in Nat
  OBVIOUS
<1>1. 0 \in T
  <2> DEFINE g == [i \in N - 0 .. N |-> << >>]
  <2>1. From(0, g)
    OBVIOUS
  <2> HIDE DEF g, From
  <2> QED BY Zenon, <2>1
<1>2. ASSUME NEW n \in Nat, n \in T PROVE n + 1 \in T
  <2>1. PICK f : From(n, f)
    BY <1>2
  <2> DEFINE m == N - (n + 1)
             g == [i \in N - (n + 1) .. N |->
                      IF i = m THEN (IF i < 1 THEN << >> ELSE At(f, i)) ELSE f[i]]
  <2>2. ASSUME NEW i \in N - (n + 1) .. N
        PROVE  g[i] = IF i < 1 THEN << >> ELSE At(g, i)
    <3>1. CASE i < 1
      BY <2>1, <3>1
    <3>2. CASE i >= 1
      <4>1. At(g, i) = At(f, i)
        <5>1. CASE i > Len(t)
          BY <5>1
        <5>2. CASE i <= Len(t)
          <6>1. ChunkEnd(t, i) \in i .. Len(t)
            BY <3>2, <5>2, ChunkEndRange
          <6>2. g[ChunkEnd(t, i) + 1] = f[ChunkEnd(t, i) + 1]
            BY <1>0, <3>2, <5>2, <6>1
          <6> HIDE DEF g
          <6> QED BY <6>2
        <5> QED BY <5>1, <5>2
      <4>2. CASE i = m
        BY <3>2, <4>1, <4>2
      <4>3. CASE i # m
        <5>1. i \in N - n .. N /\ g[i] = f[i]
          BY <4>3
        <5> HIDE DEF g, At
        <5>2. f[i] = At(f, i)
          BY <2>1, <3>2, <5>1
        <5> QED BY <3>2, <4>1, <5>1, <5>2
      <4> QED BY <4>2, <4>3
    <3> QED BY <1>0, <3>1, <3>2
  <2>3. From(n + 1, g)
    BY <2>2
  <2>4. n + 1 \in Nat
    OBVIOUS
  <2> HIDE DEF g, From
  <2> QED BY Zenon, <2>3, <2>4
<1> HIDE DEF T
<1>3. Len(t) \in T
  BY <1>0, <1>1, <1>2, Induct
<1>4. \E f : f = [i \in 1 .. N |-> At(f, i)]
  <2>1. PICK f : From(Len(t), f)
    BY <1>3 DEF T
  <2>2. N - Len(t) = 1
    BY <1>0
  <2>3. f = [i \in 1 .. N |-> At(f, i)]
    <3> HIDE DEF At
    <3>1. f = [i \in 1 .. N |-> IF i < 1 THEN << >> ELSE At(f, i)]
      BY <2>1, <2>2
    <3> QED BY <3>1
  <2> HIDE DEF At
  <2> QED BY <2>3
<1>5. ChunksFrom(t) = [i \in 1 .. N |-> At(ChunksFrom(t), i)]
  BY <1>4 DEF ChunksFrom
<1>6. \A i \in 1 .. N : ChunksFrom(t)[i] = At(ChunksFrom(t), i)
  <2> HIDE DEF At
  <2> QED BY <1>5
<1>7. N \in 1 .. N /\ N > Len(t) /\ \A i \in 1 .. Len(t) : i \in 1 .. N /\ ~(i > Len(t))
  BY <1>0
<1> QED BY Zenon, <1>6, <1>7

LEMMA ChunksType ==
    ASSUME NEW S, NEW t \in Seq(S), NEW i \in 1 .. Len(t) + 1
    PROVE  ChunksFrom(t)[i] \in Seq(Seq(S))
<1> DEFINE N == Len(t) + 1
           T == {n \in Nat : \A j \in 1 .. N : N - n <= j => ChunksFrom(t)[j] \in Seq(Seq(S))}
<1>0. Len(t) \in Nat
  OBVIOUS
<1>1. 0 \in T
  <2>1. ChunksFrom(t)[N] \in Seq(Seq(S))
    <3>1. ChunksFrom(t)[N] = << >>
      BY ChunksExist
    <3>2. << >> \in Seq(Seq(S))
      OBVIOUS
    <3> QED BY <3>1, <3>2
  <2>2. \A j \in 1 .. N : N - 0 <= j => j = N
    BY <1>0
  <2> QED BY <2>1, <2>2
<1>2. ASSUME NEW n \in Nat, n \in T PROVE n + 1 \in T
  <2> SUFFICES ASSUME NEW j \in 1 .. N, N - (n + 1) <= j
               PROVE  ChunksFrom(t)[j] \in Seq(Seq(S))
    OBVIOUS
  <2>1. CASE N - n <= j
    BY <1>2, <2>1
  <2>2. CASE j < N - n
    <3> DEFINE e == ChunkEnd(t, j)
               chunk == SubSeq(t, j, e)
               rest == ChunksFrom(t)[e + 1]
    <3>1. j \in 1 .. Len(t)
      BY <1>0, <2>2
    <3>2. e \in j .. Len(t)
      BY <3>1, ChunkEndRange
    <3>3. rest \in Seq(Seq(S))
      <4>1. e + 1 \in 1 .. N /\ N - n <= e + 1
        BY <1>0, <2>2, <3>2
      <4> HIDE DEF e
      <4> QED BY <1>2, <4>1
    <3>4. ChunksFrom(t)[j] = <<chunk>> \o rest
      BY <3>1, ChunksExist
    <3>5. chunk \in Seq(S)
      BY <3>1, <3>2
    <3> HIDE DEF chunk, rest
    <3>6. <<chunk>> \in Seq(Seq(S))
      BY <3>5
    <3> QED BY <3>3, <3>4, <3>6, ConcatProperties
  <2> QED BY <1>0, <2>1, <2>2
<1> HIDE DEF T
<1>3. N \in T
  BY <1>0, <1>1, <1>2, Induct
<1> QED BY <1>0, <1>3 DEF T

\* After its first k chunks the scanner is at i.
ReachedBy(S, t, k, i) ==
    \E done \in Seq(Seq(S)) : Len(done) = k /\ Chunks(t) = done \o ChunksFrom(t)[i]

LEMMA FirstChunk ==
    ASSUME NEW S, NEW t \in Seq(S)
    PROVE  ReachedBy(S, t, 0, 1) /\ Chunks(t) \in Seq(Seq(S))
<1> DEFINE all == ChunksFrom(t)[1]
<1>1. all \in Seq(Seq(S)) /\ Chunks(t) = all
  BY ChunksType, ChunksIs
<1> HIDE DEF all
<1>2. << >> \in Seq(Seq(S)) /\ Len(<< >>) = 0 /\ all = << >> \o all
  BY <1>1
<1> QED BY <1>1, <1>2 DEF ReachedBy, all

LEMMA NextChunk ==
    ASSUME NEW S, NEW t \in Seq(S), NEW k \in Nat, k < Len(Chunks(t)),
           NEW i \in 1 .. Len(t) + 1, ReachedBy(S, t, k, i)
    PROVE  /\ i <= Len(t) /\ Chunks(t)[k + 1] = SubSeq(t, i, ChunkEnd(t, i))
           /\ ReachedBy(S, t, k + 1, ChunkEnd(t, i) + 1)
<1> DEFINE all == Chunks(t)
           here == ChunksFrom(t)[i]
           chunk == SubSeq(t, i, ChunkEnd(t, i))
           rest == ChunksFrom(t)[ChunkEnd(t, i) + 1]
<1>1. PICK done \in Seq(Seq(S)) : Len(done) = k /\ all = done \o here
  BY DEF ReachedBy
<1>2. i <= Len(t)
  <2> SUFFICES ASSUME i = Len(t) + 1 PROVE FALSE
    OBVIOUS
  <2>1. here = << >>
    BY ChunksExist
  <2> HIDE DEF here, all
  <2>2. Len(all) = k
    BY <1>1, <2>1
  <2> QED BY <2>2 DEF all
<1>3. here = <<chunk>> \o rest
  BY <1>2, ChunksExist
<1>4. rest \in Seq(Seq(S)) /\ chunk \in Seq(S)
  <2>1. ChunkEnd(t, i) \in i .. Len(t)
    BY <1>2, ChunkEndRange
  <2>2. ChunkEnd(t, i) + 1 \in 1 .. Len(t) + 1
    BY <2>1
  <2> QED BY <2>1, <2>2, ChunksType
<1> HIDE DEF all, here, chunk, rest
<1>5. <<chunk>> \in Seq(Seq(S)) /\ Len(<<chunk>>) = 1 /\ <<chunk>>[1] = chunk
  BY <1>4
<1>6. all = (done \o <<chunk>>) \o rest
  <2> DEFINE one == <<chunk>>
             R == Seq(S)
  <2>1. done \in Seq(R) /\ one \in Seq(R) /\ rest \in Seq(R)
    BY <1>4, <1>5
  <2>2. all = done \o (one \o rest)
    BY <1>1, <1>3
  <2> HIDE DEF one, R
  <2>3. (done \o one) \o rest = done \o (one \o rest)
    BY <2>1, ConcatAssociative
  <2> QED BY <2>2, <2>3 DEF one
<1>7. /\ done \o <<chunk>> \in Seq(Seq(S)) /\ Len(done \o <<chunk>>) = k + 1
      /\ (done \o <<chunk>>)[k + 1] = chunk
  BY <1>1, <1>5
<1>8. all[k + 1] = chunk
  <2> DEFINE more == done \o <<chunk>>
  <2> HIDE DEF more
  <2>1. more \in Seq(Seq(S)) /\ Len(more) = k + 1 /\ more[k + 1] = chunk /\ all = more \o rest
    BY <1>6, <1>7 DEF more
  <2> QED BY <1>4, <2>1
<1>9. ReachedBy(S, t, k + 1, ChunkEnd(t, i) + 1)
  BY <1>6, <1>7 DEF ReachedBy, all, rest
<1> QED BY <1>2, <1>8, <1>9 DEF all, chunk

LEMMA LastChunk ==
    ASSUME NEW S, NEW t \in Seq(S), NEW i \in 1 .. Len(t) + 1,
           ReachedBy(S, t, Len(Chunks(t)), i)
    PROVE  i = Len(t) + 1
<1> SUFFICES ASSUME i <= Len(t) PROVE FALSE
  OBVIOUS
<1> DEFINE all == Chunks(t)
           here == ChunksFrom(t)[i]
           chunk == SubSeq(t, i, ChunkEnd(t, i))
           rest == ChunksFrom(t)[ChunkEnd(t, i) + 1]
<1>1. PICK done \in Seq(Seq(S)) : Len(done) = Len(all) /\ all = done \o here
  BY DEF ReachedBy
<1>2. here = <<chunk>> \o rest
  <2>1. i \in 1 .. Len(t)
    OBVIOUS
  <2> QED BY <2>1, ChunksExist
<1>3. rest \in Seq(Seq(S)) /\ chunk \in Seq(S)
  <2>1. ChunkEnd(t, i) \in i .. Len(t)
    BY ChunkEndRange
  <2>2. ChunkEnd(t, i) + 1 \in 1 .. Len(t) + 1
    BY <2>1
  <2> QED BY <2>1, <2>2, ChunksType
<1> HIDE DEF all, here, chunk, rest
<1>4. here \in Seq(Seq(S)) /\ Len(here) = 1 + Len(rest) /\ Len(rest) \in Nat
  BY <1>2, <1>3
<1>5. Len(all) = Len(done) + Len(here) /\ Len(done) \in Nat
  BY <1>1, <1>4
<1> QED BY <1>1, <1>4, <1>5

-----------------------------------------------------------------------------
(* What the scanner has emitted, for the lexer.                             *)

\* The states of the scanner along the chunks.
ScanStates(chunks) ==
    CHOOSE scan : scan = [k \in 0 .. Len(chunks) |->
                             IF k = 0 THEN Nothing ELSE Emit(scan[k - 1], chunks[k])]

LEMMA ScannedIs == ASSUME NEW chunks PROVE Scanned(chunks) = ScanStates(chunks)[Len(chunks)]
BY DEF Scanned, ScanStates

LEMMA ScanStatesExist ==
    ASSUME NEW chunks, Len(chunks) \in Nat
    PROVE  /\ ScanStates(chunks)[0] = Nothing
           /\ \A k \in 1 .. Len(chunks) :
                  ScanStates(chunks)[k] = Emit(ScanStates(chunks)[k - 1], chunks[k])
<1> DEFINE Upto(n, f) == f = [k \in 0 .. n |->
                                 IF k = 0 THEN Nothing ELSE Emit(f[k - 1], chunks[k])]
           T == {n \in Nat : \E f : Upto(n, f)}
<1>1. 0 \in T
  <2>1. Upto(0, [k \in 0 .. 0 |-> Nothing])
    OBVIOUS
  <2> QED BY Zenon, <2>1
<1>2. ASSUME NEW n \in Nat, n \in T PROVE n + 1 \in T
  <2>1. PICK f : Upto(n, f)
    BY <1>2
  <2> DEFINE g == [k \in 0 .. n + 1 |-> IF k = n + 1 THEN Emit(f[n], chunks[n + 1]) ELSE f[k]]
  <2>2. ASSUME NEW k \in 0 .. n + 1
        PROVE  g[k] = IF k = 0 THEN Nothing ELSE Emit(g[k - 1], chunks[k])
    BY <2>1
  <2>3. Upto(n + 1, g)
    BY <2>2
  <2>4. n + 1 \in Nat
    OBVIOUS
  <2> HIDE DEF g
  <2> QED BY Zenon, <2>3, <2>4
<1> HIDE DEF T
<1>3. Len(chunks) \in T
  BY <1>1, <1>2, Induct
<1>4. \E f : Upto(Len(chunks), f)
  BY <1>3 DEF T
<1>5. ScanStates(chunks) = [k \in 0 .. Len(chunks) |->
          IF k = 0 THEN Nothing ELSE Emit(ScanStates(chunks)[k - 1], chunks[k])]
  BY <1>4 DEF ScanStates
<1> QED BY <1>5

ScanState(S) == [out: Seq(S), last: Seq(S), ws: BOOLEAN]

LEMMA EmitIs ==
    ASSUME NEW em, NEW chunk
    PROVE  /\ IsSpace(chunk) => Emit(em, chunk) = [em EXCEPT !.ws = TRUE]
           /\ IsTight(chunk) => Emit(em, chunk) =
                  Emitted(em, em.last \o chunk \in CommentMarkers, chunk)
           /\ ~IsSpace(chunk) /\ ~IsTight(chunk) => Emit(em, chunk) =
                  Emitted(em, em.ws /\ em.last # << >> /\ ~IsTight(em.last), chunk)
<1> DEFINE spaced == [em EXCEPT !.ws = TRUE]
           tight == Emitted(em, em.last \o chunk \in CommentMarkers, chunk)
           value == Emitted(em, em.ws /\ em.last # << >> /\ ~IsTight(em.last), chunk)
<1>1. Emit(em, chunk) = CASE IsSpace(chunk) -> spaced [] IsTight(chunk) -> tight [] OTHER -> value
  BY DEF Emit
<1>2. ~(IsSpace(chunk) /\ IsTight(chunk))
  BY DEF IsSpace, IsTight, Space, Tight
<1> HIDE DEF spaced, tight, value
<1>3. IsSpace(chunk) => Emit(em, chunk) = spaced
  BY <1>1, <1>2
<1>4. IsTight(chunk) => Emit(em, chunk) = tight
  BY <1>1, <1>2
<1>5. ~IsSpace(chunk) /\ ~IsTight(chunk) => Emit(em, chunk) = value
  BY <1>1
<1> QED BY <1>3, <1>4, <1>5 DEF spaced, tight, value

LEMMA MarkerIs ==
    ASSUME NEW S, NEW last \in Seq(S), NEW c \in S
    PROVE  last \o <<c>> \in CommentMarkers =>
               \/ last = <<"-">> /\ c = "-"
               \/ last = <<"/">> /\ c = "*"
               \/ last = <<"*">> /\ c = "/"
<1> DEFINE both == last \o <<c>>
           n == Len(last)
<1>1. both \in Seq(S) /\ Len(both) = n + 1 /\ n \in Nat /\ both[n + 1] = c
  OBVIOUS
<1>2. n = 1 => both[1] = last[1] /\ last = <<last[1]>>
  OBVIOUS
<1> HIDE DEF both, n
<1>3. ASSUME both \in CommentMarkers
      PROVE  /\ n = 1
             /\ \/ both[1] = "-" /\ both[2] = "-"
                \/ both[1] = "/" /\ both[2] = "*"
                \/ both[1] = "*" /\ both[2] = "/"
  <2>1. /\ Len(both) = 2
        /\ \/ both[1] = "-" /\ both[2] = "-"
           \/ both[1] = "/" /\ both[2] = "*"
           \/ both[1] = "*" /\ both[2] = "/"
    BY <1>3 DEF CommentMarkers
  <2> DEFINE l == Len(both)
  <2>2. l = 2 /\ l = n + 1 /\ n \in Nat
    BY <1>1, <2>1
  <2> HIDE DEF l
  <2>3. n = 1
    BY <2>2
  <2> QED BY <2>1, <2>3
<1> QED BY <1>1, <1>2, <1>3 DEF both

LEMMA TwoElements ==
    ASSUME NEW S, NEW x \in S, NEW y \in S
    PROVE  <<x>> \o <<y>> = <<x, y>>
<1> DEFINE b == <<x>> \o <<y>>
           c == <<x, y>>
<1>1. b \in Seq(S) /\ Len(b) = 2 /\ b[1] = x /\ b[2] = y
  OBVIOUS
<1>2. c \in Seq(S) /\ Len(c) = 2 /\ c[1] = x /\ c[2] = y
  OBVIOUS
<1> HIDE DEF b, c
<1>3. \A i \in 1 .. Len(b) : b[i] = c[i]
  BY <1>1, <1>2
<1>4. b = c
  BY <1>1, <1>2, <1>3, SeqEqual
<1> QED BY <1>4 DEF b, c

LEMMA MarkerIsOne ==
    /\ <<"-">> \o <<"-">> \in CommentMarkers
    /\ <<"/">> \o <<"*">> \in CommentMarkers
<1>1. "-" \in Tight /\ "/" \in Tight /\ "*" \in Tight
  BY DEF Tight
<1>2. <<"-">> \o <<"-">> = <<"-", "-">> /\ <<"/">> \o <<"*">> = <<"/", "*">>
  BY <1>1, TwoElements
<1> QED BY <1>2 DEF CommentMarkers

LEMMA ReadAllSane == ASSUME NEW S, NEW u \in Seq(S) PROVE Sane(S, ReadAll(u))
<1>1. Len(u) \in Nat
  OBVIOUS
<1> QED BY <1>1, ReadingIs, StatesSane

\* At i starts a comment, a quoted region or a word.
Value(t, i) == t[i] \notin Space /\ (t[i] \in Tight => Pair(t, i, "-", "-") \/ Pair(t, i, "/", "*"))

LEMMA ChunkKinds ==
    ASSUME NEW S, NEW t \in Seq(S), NEW i \in 1 .. Len(t)
    PROVE  LET e == ChunkEnd(t, i)
               chunk == SubSeq(t, i, e)
           IN  /\ e \in i .. Len(t) /\ chunk \in Seq(S)
               /\ t[i] \in Space => e = i /\ chunk = <<t[i]>> /\ IsSpace(chunk)
               /\ ~Value(t, i) /\ t[i] \notin Space =>
                      e = i /\ chunk = <<t[i]>> /\ IsTight(chunk) /\ t[i] \in Tight
               /\ Value(t, i) => chunk # << >> /\ ~IsSpace(chunk) /\ ~IsTight(chunk)
<1> DEFINE e == ChunkEnd(t, i)
           chunk == SubSeq(t, i, e)
<1>1. e \in i .. Len(t) /\ Len(t) \in Nat
  BY ChunkEndRange
<1>2. t[i] \in Space => e = i
  BY ChunkEndIs DEF Space, Pair, Quotes, IsWord, Tight, Value
<1>3. ~Value(t, i) /\ t[i] \notin Space => e = i /\ t[i] \in Tight
  BY ChunkEndIs DEF Space, Pair, Quotes, IsWord, Tight, Value
<1>4. Value(t, i) /\ t[i] \in Tight => e # i
  <2> SUFFICES ASSUME Value(t, i), t[i] \in Tight PROVE e # i
    OBVIOUS
  <2>1. CASE Pair(t, i, "-", "-")
    <3> DEFINE x == First(LineEnds(t, i), Len(t) + 1)
    <3>1. e = x - 1 /\ i < Len(t) /\ t[i] = "-" /\ t[i + 1] = "-"
      BY <2>1, ChunkEndIs DEF Pair
    <3>2. CASE LineEnds(t, i) = {}
      <4>1. x = Len(t) + 1
        BY <3>2 DEF First
      <4> HIDE DEF x
      <4> QED BY <1>1, <3>1, <4>1
    <3>3. CASE LineEnds(t, i) # {}
      <4>1. LineEnds(t, i) \in SUBSET Nat
        BY DEF LineEnds
      <4>2. x \in LineEnds(t, i)
        BY <3>3, <4>1, FirstIs
      <4> HIDE DEF x
      <4>3. x \in i .. Len(t) /\ t[x] = "nl"
        BY <4>2 DEF LineEnds
      <4>4. x # i /\ x # i + 1
        BY <3>1, <4>3
      <4> QED BY <1>1, <3>1, <4>3, <4>4
    <3> QED BY <3>2, <3>3
  <2>2. CASE Pair(t, i, "/", "*")
    <3> DEFINE x == First(CommentEnds(t, i), Len(t) - 1)
    <3>1. e = x + 1 /\ i < Len(t)
      BY <2>2, ChunkEndIs DEF Pair
    <3>2. CASE CommentEnds(t, i) = {}
      <4>1. x = Len(t) - 1
        BY <3>2 DEF First
      <4> HIDE DEF x
      <4> QED BY <1>1, <3>1, <4>1
    <3>3. CASE CommentEnds(t, i) # {}
      <4>1. CommentEnds(t, i) \in SUBSET Nat
        BY DEF CommentEnds
      <4>2. x \in CommentEnds(t, i)
        BY <3>3, <4>1, FirstIs
      <4> HIDE DEF x
      <4>3. x \in i + 2 .. Len(t)
        BY <4>2 DEF CommentEnds
      <4> QED BY <1>1, <3>1, <4>3
    <3> QED BY <3>2, <3>3
  <2> QED BY <2>1, <2>2 DEF Value
<1> HIDE DEF e
<1>5. chunk \in Seq(S) /\ Len(chunk) = e - i + 1 /\ chunk[1] = t[i]
  BY <1>1
<1>6. e = i => chunk = <<t[i]>>
  <2>1. SubSeq(t, i, i) = <<t[i]>> \o SubSeq(t, i + 1, i)
    BY SubSeqRecursiveFirst
  <2>2. SubSeq(t, i + 1, i) = << >> /\ <<t[i]>> \o << >> = <<t[i]>>
    OBVIOUS
  <2> QED BY <2>1, <2>2
<1> HIDE DEF chunk
<1>7. t[i] \in Space => IsSpace(chunk)
  BY <1>1, <1>2, <1>5 DEF IsSpace
<1>8. ~Value(t, i) /\ t[i] \notin Space => IsTight(chunk)
  BY <1>1, <1>3, <1>5 DEF IsTight
<1>9. Value(t, i) => ~IsSpace(chunk) /\ ~IsTight(chunk) /\ chunk # << >>
  BY <1>1, <1>4, <1>5 DEF IsSpace, IsTight, Value
<1> QED BY <1>1, <1>2, <1>3, <1>5, <1>6, <1>7, <1>8, <1>9 DEF e, chunk

\* After the chunk the lexer is outside of it.
LEMMA ValueRegion ==
    ASSUME NEW S, NEW t \in Seq(S), \A j \in 1 .. Len(t) : t[j] # "cr",
           ~LexerStates(t)[Len(t)].lineComment,
           NEW i \in 1 .. Len(t), Value(t, i), InCode(LexerStates(t)[i - 1]),
           LexerStates(t)[i - 1].mode = "closing" => LexerStates(t)[i - 1].delimiter # t[i],
           ChunkEnd(t, i) < Len(t)
    PROVE  LET e == ChunkEnd(t, i)
               m == LexerStates(t)[e]
           IN  InCode(m) /\ m.before = "none" /\ (m.mode = "closing" => m.delimiter # t[e + 1])
<1> DEFINE e == ChunkEnd(t, i)
           m == LexerStates(t)[e]
<1>0. e \in i .. Len(t) /\ e < Len(t)
  BY ChunkEndRange
<1>1. ~Pair(t, i, "-", "-")
  BY LineRegion
<1>2. CASE Pair(t, i, "/", "*")
  <2> DEFINE x == First(CommentEnds(t, i), Len(t) - 1)
  <2>1. e = x + 1
    BY <1>2, ChunkEndIs
  <2>2. CASE CommentEnds(t, i) = {}
    <3>1. x = Len(t) - 1
      BY <2>2 DEF First
    <3> HIDE DEF x
    <3> QED BY <1>0, <2>1, <3>1
  <2>3. CASE CommentEnds(t, i) # {}
    <3>1. CommentEnds(t, i) \in SUBSET Nat
      BY DEF CommentEnds
    <3>2. x \in CommentEnds(t, i) /\ \A j \in CommentEnds(t, i) : x <= j
      BY <2>3, <3>1, FirstIs
    <3> HIDE DEF x
    <3>3. x \in i + 2 .. Len(t) /\ Pair(t, x, "*", "/")
      BY <3>2 DEF CommentEnds
    <3>4. \A j \in i + 2 .. x - 1 : ~Pair(t, j, "*", "/")
      BY <3>2, <3>3 DEF CommentEnds
    <3>5. LexerStates(t)[x + 1].mode = "code" /\ LexerStates(t)[x + 1].before = "none"
      BY <1>2, <3>3, <3>4, BlockRegion
    <3>6. m.mode = "code" /\ m.before = "none"
      BY <2>1, <3>5
    <3> QED BY <3>6 DEF InCode
  <2> QED BY <2>2, <2>3
<1>3. CASE t[i] \in Quotes
  <2>1. e = QuoteEnd(t, i)
    BY <1>3, ChunkEndIs
  <2>2. Quoted(t, i, i)
    <3>1. /\ LexerStates(t)[i] = Read(LexerStates(t)[i - 1], t[i]) /\ t[i] \in S
          /\ Sane(S, LexerStates(t)[i - 1])
      BY LexerStep, StatesSane
    <3> QED BY <1>3, <3>1, ReadQuote DEF Quoted
  <2>3. Closed(t, i, e)
    BY <1>0, <2>1, <2>2, QuoteRegion
  <2> QED BY <2>3 DEF Closed, InCode
<1>4. CASE IsWord(t[i])
  <2> DEFINE x == First(WordEnds(t, i), Len(t) + 1)
  <2>1. e = x - 1
    BY <1>4, ChunkEndIs
  <2>2. CASE WordEnds(t, i) = {}
    <3>1. x = Len(t) + 1
      BY <2>2 DEF First
    <3> HIDE DEF x
    <3> QED BY <1>0, <2>1, <3>1
  <2>3. CASE WordEnds(t, i) # {}
    <3>1. WordEnds(t, i) \in SUBSET Nat
      BY DEF WordEnds
    <3>2. x \in WordEnds(t, i) /\ \A j \in WordEnds(t, i) : x <= j
      BY <2>3, <3>1, FirstIs
    <3> HIDE DEF x
    <3>3. x \in i .. Len(t)
      BY <3>2 DEF WordEnds
    <3>4. \A j \in i .. e : Letter(t[j])
      BY <1>0, <2>1, <3>2, <3>3 DEF WordEnds, Letter
    <3>5. m.mode = "code" /\ m.before = "none"
      <4> HIDE DEF e
      <4> QED BY <1>0, <3>4, WordRegion
    <3> QED BY <3>5 DEF InCode
  <2> QED BY <2>2, <2>3
<1>5. Pair(t, i, "-", "-") \/ Pair(t, i, "/", "*") \/ t[i] \in Quotes \/ IsWord(t[i])
  BY DEF Value, IsWord
<1> QED BY <1>1, <1>2, <1>3, <1>4, <1>5

\* What the lexer made of the chunks that were emitted, before c is read: it is
\* outside of comments and quoted regions, and knows of an operator only when
\* that was the last chunk.
Ready(em, c) ==
    LET M == ReadAll(em.out)
    IN  /\ InCode(M)
        /\ M.mode = "closing" => M.before = "none" /\ (~em.ws => M.delimiter # c)
        /\ M.mode = "code" /\ M.before # "none" => em.last = <<M.before>>
        /\ IsTight(em.last) => M.mode = "code" /\ M.token = << >> /\ em.last = <<M.before>>
        /\ em.last = << >> => M.mode = "code" /\ M.token = << >>
        /\ ~em.ws => (em.last = <<"-">> => c # "-") /\ (em.last = <<"/">> => c # "*")

\* The lexer has made the same of the chunks and of the SQL before i, but for the
\* white space the scanner still holds back.
Follows(S, t, i, em) ==
    /\ em \in ScanState(S)
    /\ ~em.ws => LexerStates(t)[i - 1] = ReadAll(em.out)
    /\ em.ws => InCode(ReadAll(em.out)) /\ LexerStates(t)[i - 1] = SpaceRead(ReadAll(em.out))
    /\ i <= Len(t) => Ready(em, t[i])

LEMMA FollowsAtFirst ==
    ASSUME NEW S, NEW t \in Seq(S)
    PROVE  Follows(S, t, 1, Nothing)
<1>1. Nothing \in ScanState(S) /\ ~Nothing.ws /\ Nothing.out = << >> /\ Nothing.last = << >>
  BY DEF Nothing, ScanState
<1>2. ReadAll(Nothing.out) = Lexer /\ LexerStates(t)[1 - 1] = Lexer
  BY <1>1, ReadAllEmpty, LexerStep
<1>3. Lexer.mode = "code" /\ Lexer.before = "none" /\ Lexer.token = << >>
  BY DEF Lexer
<1>4. ~IsTight(<< >>) /\ << >> # <<"-">> /\ << >> # <<"/">>
  BY DEF IsTight
<1>5. ASSUME NEW c PROVE Ready(Nothing, c)
  BY <1>1, <1>2, <1>3, <1>4 DEF Ready, InCode
<1> QED BY <1>1, <1>2, <1>5 DEF Follows

LEMMA SpaceChunk ==
    ASSUME NEW S, NEW t \in Seq(S), NEW i \in 1 .. Len(t), NEW em, Follows(S, t, i, em),
           t[i] \in Space
    PROVE  Follows(S, t, i + 1, Emit(em, <<t[i]>>))
<1> DEFINE c == t[i]
           M == ReadAll(em.out)
           L == LexerStates(t)[i - 1]
           next == Emit(em, <<c>>)
<1>1. em \in ScanState(S) /\ Ready(em, c) /\ InCode(M) /\ Sane(S, M)
  BY ReadAllSane DEF Follows, Ready, ScanState
<1>2. next = [em EXCEPT !.ws = TRUE]
  <2>1. IsSpace(<<c>>)
    BY DEF IsSpace
  <2> QED BY <2>1, EmitIs
<1>3. next \in ScanState(S) /\ next.ws /\ next.out = em.out /\ next.last = em.last
  BY <1>1, <1>2 DEF ScanState
<1>4. LexerStates(t)[i] = Read(L, c)
  BY LexerStep
<1>5. Read(L, c) = SpaceRead(M)
  <2>1. CASE em.ws
    <3>1. L = SpaceRead(M)
      BY <2>1 DEF Follows
    <3> QED BY <1>1, <3>1, SpaceAfterSpace
  <2>2. CASE ~em.ws
    <3>1. L = M
      BY <2>2 DEF Follows
    <3> QED BY <1>1, <3>1, ReadSpace
  <2> QED BY <2>1, <2>2
<1> HIDE DEF M, next, L
<1>6. ASSUME NEW d PROVE Ready(next, d)
  BY <1>1, <1>3 DEF Ready, M
<1>7. (i + 1) - 1 = i /\ ReadAll(next.out) = M
  BY <1>3 DEF M
<1> QED BY <1>1, <1>3, <1>4, <1>5, <1>6, <1>7 DEF Follows, next

\* What was emitted, with a space that was held back or without.
Spaced(em, blank) == em.out \o (IF blank THEN <<"sp">> ELSE << >>)

LEMMA EmittedIs ==
    ASSUME NEW S, "sp" \in S, NEW em, em \in ScanState(S), InCode(ReadAll(em.out)),
           NEW blank \in BOOLEAN, NEW chunk, chunk \in Seq(S)
    PROVE  /\ Spaced(em, blank) \in Seq(S)
           /\ blank => ReadAll(Spaced(em, blank)) = SpaceRead(ReadAll(em.out))
           /\ ~blank => ReadAll(Spaced(em, blank)) = ReadAll(em.out)
           /\ Emitted(em, blank, chunk) \in ScanState(S)
           /\ Emitted(em, blank, chunk).out = Spaced(em, blank) \o chunk
           /\ Emitted(em, blank, chunk).last = chunk /\ ~Emitted(em, blank, chunk).ws
<1> DEFINE next == Emitted(em, blank, chunk)
           o == Spaced(em, blank)
<1>1. em.out \in Seq(S) /\ Sane(S, ReadAll(em.out))
  BY ReadAllSane DEF ScanState
<1>2. /\ o \in Seq(S)
      /\ blank => ReadAll(o) = SpaceRead(ReadAll(em.out))
      /\ ~blank => ReadAll(o) = ReadAll(em.out)
  <2>1. CASE blank
    <3>1. o = em.out \o <<"sp">> /\ em.out \o <<"sp">> = Append(em.out, "sp")
      BY <1>1, <2>1, AppendIsConcat DEF Spaced
    <3>2. o \in Seq(S)
      BY <1>1, <3>1
    <3> HIDE DEF o
    <3>3. ReadAll(o) = Read(ReadAll(em.out), "sp")
      BY <1>1, <3>1, ReadAllAppend
    <3>4. Read(ReadAll(em.out), "sp") = SpaceRead(ReadAll(em.out))
      BY <1>1, ReadSpace DEF Space
    <3> QED BY <2>1, <3>2, <3>3, <3>4
  <2>2. CASE ~blank
    <3>1. o = em.out
      BY <1>1, <2>2 DEF Spaced
    <3> QED BY <1>1, <2>2, <3>1
  <2> QED BY <2>1, <2>2
<1>3. next = [out |-> o \o chunk, last |-> chunk, ws |-> FALSE]
  BY DEF Emitted, Spaced
<1> HIDE DEF o, next
<1>4. next \in ScanState(S)
  BY <1>2, <1>3, ConcatProperties DEF ScanState
<1>5. next.out = o \o chunk /\ next.last = chunk /\ ~next.ws
  BY <1>3
<1> QED BY <1>2, <1>4, <1>5 DEF o, next

LEMMA TightChunk ==
    ASSUME NEW S, "sp" \in S, NEW t \in Seq(S), NEW i \in 1 .. Len(t), NEW em,
           Follows(S, t, i, em), ~Value(t, i), t[i] \notin Space
    PROVE  Follows(S, t, i + 1, Emit(em, <<t[i]>>))
<1> DEFINE c == t[i]
           M == ReadAll(em.out)
           L == LexerStates(t)[i - 1]
           blank == em.last \o <<c>> \in CommentMarkers
           next == Emit(em, <<c>>)
           spaced == SpaceRead(M)
<1>1. em \in ScanState(S) /\ Ready(em, c) /\ InCode(M) /\ Sane(S, M) /\ em.last \in Seq(S)
  BY ReadAllSane DEF Follows, Ready, ScanState
<1>2. c \in Tight /\ c \in S /\ <<c>> \in Seq(S) /\ IsTight(<<c>>)
  BY DEF Value, IsTight
<1>3. next = Emitted(em, blank, <<c>>) /\ blank \in BOOLEAN
  BY <1>2, EmitIs
<1> DEFINE o == Spaced(em, blank)
<1>4. /\ o \in Seq(S)
      /\ next.out = o \o <<c>> /\ next.last = <<c>> /\ ~next.ws
      /\ next \in ScanState(S)
      /\ blank => ReadAll(o) = spaced
      /\ ~blank => ReadAll(o) = M
  <2> DEFINE one == <<c>>
             put == Emitted(em, blank, one)
  <2>1. /\ "sp" \in S /\ em \in ScanState(S) /\ InCode(ReadAll(em.out)) /\ blank \in BOOLEAN
        /\ one \in Seq(S) /\ next = put
    BY <1>1, <1>2, <1>3
  <2> HIDE DEF blank, one, next
  <2>2. put.last = one
    BY <2>1, EmittedIs
  <2>3. o \in Seq(S)
    BY <2>1, EmittedIs
  <2>4. blank => ReadAll(o) = spaced
    BY <2>1, EmittedIs
  <2>5. ~blank => ReadAll(o) = M
    BY <2>1, EmittedIs
  <2>6. put \in ScanState(S) /\ put.out = o \o one /\ ~put.ws
    BY <2>1, EmittedIs
  <2> QED BY <2>1, <2>2, <2>3, <2>4, <2>5, <2>6 DEF one
<1>5. OpensNone(M.before, c) \/ (blank /\ em.ws)
  <2> SUFFICES ASSUME ~OpensNone(M.before, c) PROVE blank /\ em.ws
    OBVIOUS
  <2>1. (M.before = "-" /\ c = "-") \/ (M.before = "/" /\ c = "*")
    BY DEF OpensNone
  <2>2. em.last = <<M.before>>
    BY <1>1, <2>1 DEF Ready, InCode
  <2>3. blank
    BY <2>1, <2>2, MarkerIsOne
  <2>4. em.ws
    BY <1>1, <2>1, <2>2 DEF Ready
  <2> QED BY <2>3, <2>4
<1>6. Sane(S, spaced) /\ InCode(spaced) /\ spaced.before = "none" /\ OpensNone("none", c)
  BY <1>1, SpaceReadFields DEF OpensNone
<1> HIDE DEF M, L, blank, next, spaced, c, o
<1>7. OpensNone(M.before, c) => Read(spaced, c) = Read(M, c)
  BY <1>1, <1>2, TightAfterSpace DEF spaced
<1>8. Read(L, c) = Read(spaced, c)
  <2>1. CASE em.ws
    BY <2>1 DEF Follows, spaced, L, M
  <2>2. CASE ~em.ws
    <3>1. L = M
      BY <2>2 DEF Follows, L, M
    <3> QED BY <1>5, <1>7, <2>2, <3>1
  <2> QED BY <2>1, <2>2
<1>9. ReadAll(next.out) = Read(spaced, c)
  <2>1. next.out = Append(o, c)
    BY <1>2, <1>4, AppendIsConcat
  <2>2. ReadAll(next.out) = Read(ReadAll(o), c)
    BY <1>2, <1>4, <2>1, ReadAllAppend
  <2>3. CASE blank
    BY <1>4, <2>2, <2>3
  <2>4. CASE ~blank
    BY <1>4, <1>5, <1>7, <2>2, <2>4
  <2> QED BY <2>3, <2>4
<1>10. LexerStates(t)[i] = ReadAll(next.out)
  <2>1. LexerStates(t)[i] = Read(L, c)
    BY LexerStep DEF L, c
  <2> QED BY <1>8, <1>9, <2>1
<1>11. /\ ReadAll(next.out).mode = "code" /\ ReadAll(next.out).token = << >>
       /\ ReadAll(next.out).before = c
  <2>1. Read(spaced, c) = TightRead(spaced, c)
    BY <1>2, <1>6, ReadTight
  <2> QED BY <1>9, <2>1, WithFields DEF TightRead
<1>12. ASSUME i + 1 <= Len(t) PROVE Ready(next, t[i + 1])
  <2>1. /\ c = "-" => t[i + 1] # "-"
        /\ c = "/" => t[i + 1] # "*"
    <3>1. i < Len(t)
      BY <1>12
    <3>2. ~Pair(t, i, "-", "-") /\ ~Pair(t, i, "/", "*")
      BY DEF Value
    <3> QED BY <3>1, <3>2 DEF Pair, c
  <2>2. <<c>> # << >> /\ (<<c>> = <<"-">> => c = "-") /\ (<<c>> = <<"/">> => c = "/")
    BY <1>2
  <2> QED BY <1>4, <1>11, <2>1, <2>2 DEF Ready, InCode
<1>13. (i + 1) - 1 = i
  OBVIOUS
<1> QED BY <1>4, <1>10, <1>12, <1>13 DEF Follows, next, c

LEMMA ValueChunk ==
    ASSUME NEW S, "sp" \in S, NEW t \in Seq(S), \A j \in 1 .. Len(t) : t[j] # "cr",
           ~LexerStates(t)[Len(t)].lineComment, NEW i \in 1 .. Len(t), NEW em,
           Follows(S, t, i, em), Value(t, i)
    PROVE  LET e == ChunkEnd(t, i)
           IN  Follows(S, t, e + 1, Emit(em, SubSeq(t, i, e)))
<1> DEFINE c == t[i]
           e == ChunkEnd(t, i)
           chunk == SubSeq(t, i, e)
           M == ReadAll(em.out)
           L == LexerStates(t)[i - 1]
           blank == em.ws /\ em.last # << >> /\ ~IsTight(em.last)
           next == Emit(em, chunk)
           spaced == SpaceRead(M)
           o == Spaced(em, blank)
<1>1. em \in ScanState(S) /\ Ready(em, c) /\ InCode(M) /\ Sane(S, M) /\ em.last \in Seq(S)
  BY ReadAllSane DEF Follows, Ready, ScanState
<1>2. /\ e \in i .. Len(t) /\ chunk \in Seq(S)
      /\ chunk # << >> /\ ~IsSpace(chunk) /\ ~IsTight(chunk)
  BY ChunkKinds
<1>3. next = Emitted(em, blank, chunk) /\ blank \in BOOLEAN
  BY <1>2, EmitIs
<1>4. /\ o \in Seq(S)
      /\ next.out = o \o chunk /\ next.last = chunk /\ ~next.ws
      /\ next \in ScanState(S)
      /\ blank => ReadAll(o) = spaced
      /\ ~blank => ReadAll(o) = M
  <2> DEFINE put == Emitted(em, blank, chunk)
  <2>1. /\ "sp" \in S /\ em \in ScanState(S) /\ InCode(ReadAll(em.out)) /\ blank \in BOOLEAN
        /\ chunk \in Seq(S) /\ next = put
    BY <1>1, <1>2, <1>3
  <2> HIDE DEF blank, chunk, next
  <2>2. put.last = chunk
    BY <2>1, EmittedIs
  <2>3. o \in Seq(S)
    BY <2>1, EmittedIs
  <2>4. blank => ReadAll(o) = spaced
    BY <2>1, EmittedIs
  <2>5. ~blank => ReadAll(o) = M
    BY <2>1, EmittedIs
  <2>6. put \in ScanState(S) /\ put.out = o \o chunk /\ ~put.ws
    BY <2>1, EmittedIs
  <2> QED BY <2>1, <2>2, <2>3, <2>4, <2>5, <2>6
<1>5. InCode(spaced) /\ spaced.mode = "code"
  BY <1>1, SpaceReadFields
<1>6. InCode(L) /\ (L.mode = "closing" => L.delimiter # c)
  <2> HIDE DEF spaced, M, L, c
  <2>1. CASE em.ws
    <3>1. L = spaced
      BY <2>1 DEF Follows, spaced, L, M
    <3> QED BY <1>5, <3>1
  <2>2. CASE ~em.ws
    <3>1. L = M
      BY <2>2 DEF Follows, L, M
    <3>2. M.mode = "closing" => M.delimiter # c
      BY <1>1, <2>2 DEF Ready, M
    <3> QED BY <1>1, <3>1, <3>2
  <2> QED BY <2>1, <2>2
<1>7. ~Pair(t, i, "-", "-")
  BY <1>6, LineRegion
<1>8. c \in Tight => c = "/"
  BY <1>7 DEF Value, Pair
<1> HIDE DEF M, L, next, spaced, c, o
<1>9. Read(L, c) = Read(ReadAll(o), c)
  <2>1. CASE ~em.ws
    <3>1. L = M /\ ~blank
      BY <2>1 DEF Follows, L, M
    <3> QED BY <1>4, <3>1
  <2>2. CASE em.ws /\ blank
    <3>1. L = spaced
      BY <2>2 DEF Follows, L, M, spaced
    <3> QED BY <1>4, <2>2, <3>1
  <2>3. CASE em.ws /\ ~blank
    <3>1. L = spaced /\ ReadAll(o) = M
      BY <1>4, <2>3 DEF Follows, L, M, spaced
    <3>2. M.mode = "code" /\ M.token = << >>
      BY <1>1, <2>3 DEF Ready, M
    <3>3. CASE c \notin Tight
      <4>1. Read(spaced, c) = Read(M, c)
        BY <1>1, <3>2, <3>3, OtherAfterSpace DEF spaced
      <4> QED BY <3>1, <4>1
    <3>4. CASE c \in Tight
      <4>1. OpensNone(M.before, c)
        BY <1>8, <3>4 DEF OpensNone
      <4>2. Read(spaced, c) = Read(M, c)
        BY <1>1, <3>4, <4>1, TightAfterSpace DEF spaced
      <4> QED BY <3>1, <4>2
    <3> QED BY <3>3, <3>4
  <2> QED BY <2>1, <2>2, <2>3
<1>10. ReadAll(next.out) = LexerStates(t)[e]
  <2>1. next.out = o \o SubSeq(t, i, e) /\ o \in Seq(S)
    BY <1>4
  <2>2. Read(LexerStates(t)[i - 1], t[i]) = Read(ReadAll(o), t[i])
    BY <1>9 DEF L, c
  <2> HIDE DEF e
  <2>3. ReadAll(o \o SubSeq(t, i, e)) = LexerStates(t)[e]
    BY <1>2, <2>1, <2>2, SameTail
  <2> QED BY <2>1, <2>3
<1>11. ASSUME e + 1 <= Len(t) PROVE Ready(next, t[e + 1])
  <2> DEFINE m == LexerStates(t)[e]
  <2>1. e < Len(t)
    BY <1>2, <1>11
  <2>2. InCode(m) /\ m.before = "none" /\ (m.mode = "closing" => m.delimiter # t[e + 1])
    BY <1>6, <2>1, ValueRegion DEF L, c
  <2>3. chunk # <<"-">> /\ chunk # <<"/">>
    <3>1. IsTight(<<"-">>) /\ IsTight(<<"/">>)
      BY DEF IsTight, Tight
    <3> HIDE DEF chunk
    <3> QED BY <1>2, <3>1
  <2> HIDE DEF e, chunk, m
  <2>4. ReadAll(next.out) = m
    BY <1>10 DEF m
  <2> QED BY <1>2, <1>4, <2>2, <2>3, <2>4 DEF Ready
<1>12. (e + 1) - 1 = e
  BY <1>2
<1> QED BY <1>4, <1>10, <1>11, <1>12 DEF Follows, next

\* The scanner follows the lexer to the end.
LEMMA ScannerFollows ==
    ASSUME NEW S, "sp" \in S, NEW t \in Seq(S), \A j \in 1 .. Len(t) : t[j] # "cr",
           ~LexerStates(t)[Len(t)].lineComment
    PROVE  Follows(S, t, Len(t) + 1, Scanned(Chunks(t)))
<1> DEFINE chunks == Chunks(t)
           scan == ScanStates(chunks)
           At(k, i) == ReachedBy(S, t, k, i) /\ Follows(S, t, i, scan[k])
           T == {k \in Nat : k <= Len(chunks) => \E i \in 1 .. Len(t) + 1 : At(k, i)}
<1>1. Len(chunks) \in Nat
  BY FirstChunk
<1>2. /\ scan[0] = Nothing
      /\ \A k \in 1 .. Len(chunks) : scan[k] = Emit(scan[k - 1], chunks[k])
  BY <1>1, ScanStatesExist
<1> HIDE DEF scan, chunks
<1>3. 0 \in T
  <2>1. ReachedBy(S, t, 0, 1) /\ Follows(S, t, 1, scan[0])
    BY <1>2, FirstChunk, FollowsAtFirst
  <2> QED BY <2>1
<1>4. ASSUME NEW k \in Nat, k \in T PROVE k + 1 \in T
  <2> SUFFICES ASSUME k + 1 <= Len(chunks) PROVE \E i \in 1 .. Len(t) + 1 : At(k + 1, i)
    OBVIOUS
  <2>1. k <= Len(chunks) /\ k < Len(chunks) /\ k + 1 \in 1 .. Len(chunks) /\ (k + 1) - 1 = k
    BY <1>1
  <2>2. PICK i \in 1 .. Len(t) + 1 : At(k, i)
    BY <1>4, <2>1
  <2> DEFINE e == ChunkEnd(t, i)
             em == scan[k]
             chunk == SubSeq(t, i, e)
  <2>3. i <= Len(t) /\ chunks[k + 1] = chunk /\ ReachedBy(S, t, k + 1, e + 1)
    BY <2>1, <2>2, NextChunk DEF chunks
  <2>4. i \in 1 .. Len(t) /\ e \in i .. Len(t)
    BY <2>3, ChunkEndRange
  <2>5. scan[k + 1] = Emit(em, chunk)
    BY <1>2, <2>1, <2>3
  <2>6. Follows(S, t, e + 1, scan[k + 1])
    <3>1. CASE t[i] \in Space
      <4>1. e = i /\ chunk = <<t[i]>>
        BY <2>4, <3>1, ChunkKinds
      <4> QED BY <2>2, <2>4, <2>5, <3>1, <4>1, SpaceChunk
    <3>2. CASE ~Value(t, i) /\ t[i] \notin Space
      <4>1. e = i /\ chunk = <<t[i]>>
        BY <2>4, <3>2, ChunkKinds
      <4> QED BY <2>2, <2>4, <2>5, <3>2, <4>1, TightChunk
    <3>3. CASE Value(t, i)
      BY <2>2, <2>4, <2>5, <3>3, ValueChunk
    <3> QED BY <3>1, <3>2, <3>3
  <2>7. e + 1 \in 1 .. Len(t) + 1
    BY <2>4
  <2> HIDE DEF e
  <2> QED BY <2>3, <2>6, <2>7
<1> HIDE DEF T
<1>5. Len(chunks) \in T
  BY <1>1, <1>3, <1>4, Induct
<1>6. PICK i \in 1 .. Len(t) + 1 : At(Len(chunks), i)
  BY <1>1, <1>5 DEF T
<1>7. i = Len(t) + 1
  BY <1>6, LastChunk DEF chunks
<1>8. Scanned(Chunks(t)) = scan[Len(chunks)]
  BY ScannedIs DEF scan, chunks
<1> QED BY <1>6, <1>7, <1>8

LEMMA FlushedTokens ==
    ASSUME NEW S, NEW lx \in LexerState(S)
    PROVE  Flush(lx).tokens = Done(lx)
<1>1. Flush(lx) = With(lx, lx.mode, Done(lx), << >>, lx.before)
  BY Shape, FlushWith
<1> QED BY <1>1, WithFields

LEMMA PiecesAre ==
    ASSUME NEW S, NEW u \in Seq(S)
    PROVE  /\ Pieces(u) = Done(ReadAll(u))
           /\ Lexed(u).lineComment = ReadAll(u).lineComment
           /\ Lexed(u).quotedCR = ReadAll(u).quotedCR
<1>1. ReadAll(u) \in LexerState(S)
  BY ReadAllSane DEF Sane
<1> QED BY <1>1, FlushedTokens, FlushType DEF Pieces, Lexed

\* Of SQL with LF for its line ends.
LEMMA ScannerKeepsPieces ==
    ASSUME NEW S, "sp" \in S, NEW t \in Seq(S), \A j \in 1 .. Len(t) : t[j] # "cr",
           ~ReadAll(t).lineComment
    PROVE  Pieces(Scanned(Chunks(t)).out) = Pieces(t)
<1> DEFINE em == Scanned(Chunks(t))
           L == LexerStates(t)[Len(t)]
<1>1. L = ReadAll(t) /\ Len(t) \in Nat
  BY ReadingIs
<1>2. Follows(S, t, Len(t) + 1, em)
  BY <1>1, ScannerFollows
<1>3. em.out \in Seq(S) /\ (Len(t) + 1) - 1 = Len(t)
  BY <1>2 DEF Follows, ScanState
<1> HIDE DEF em
<1>4. Sane(S, ReadAll(em.out))
  BY <1>3, ReadAllSane
<1>5. Done(L) = Done(ReadAll(em.out))
  <2>1. CASE em.ws
    <3>1. L = SpaceRead(ReadAll(em.out))
      BY <1>2, <1>3, <2>1 DEF Follows
    <3> QED BY <1>4, <3>1, SpaceReadFields
  <2>2. CASE ~em.ws
    <3>1. L = ReadAll(em.out)
      BY <1>2, <1>3, <2>2 DEF Follows
    <3> QED BY <3>1
  <2> QED BY <2>1, <2>2
<1> QED BY <1>1, <1>3, <1>5, PiecesAre DEF em

-----------------------------------------------------------------------------
(* Line ends.                                                               *)

\* The SQL up to k with LF for its line ends, from what it is before k.
Line(s, k, before) ==
    IF Pair(s, k, "cr", "nl") THEN before
    ELSE Append(before, IF s[k] = "cr" THEN "nl" ELSE s[k])

LinesUpto(s) ==
    CHOOSE lines : lines =
        [k \in 0 .. Len(s) |-> IF k = 0 THEN << >> ELSE Line(s, k, lines[k - 1])]

LEMMA NewlinesIs == ASSUME NEW s PROVE Newlines(s) = LinesUpto(s)[Len(s)]
BY DEF Newlines, LinesUpto, Line

LEMMA LinesExist ==
    ASSUME NEW s, Len(s) \in Nat
    PROVE  /\ LinesUpto(s)[0] = << >>
           /\ \A k \in 1 .. Len(s) : LinesUpto(s)[k] = Line(s, k, LinesUpto(s)[k - 1])
<1> DEFINE Upto(n, f) == f = [k \in 0 .. n |-> IF k = 0 THEN << >> ELSE Line(s, k, f[k - 1])]
           T == {n \in Nat : \E f : Upto(n, f)}
<1>1. 0 \in T
  <2>1. Upto(0, [k \in 0 .. 0 |-> << >>])
    OBVIOUS
  <2> QED BY Zenon, <2>1
<1>2. ASSUME NEW n \in Nat, n \in T PROVE n + 1 \in T
  <2>1. PICK f : Upto(n, f)
    BY <1>2
  <2> DEFINE g == [k \in 0 .. n + 1 |-> IF k = n + 1 THEN Line(s, n + 1, f[n]) ELSE f[k]]
  <2>2. ASSUME NEW k \in 0 .. n + 1
        PROVE  g[k] = IF k = 0 THEN << >> ELSE Line(s, k, g[k - 1])
    BY <2>1
  <2>3. Upto(n + 1, g)
    BY <2>2
  <2>4. n + 1 \in Nat
    OBVIOUS
  <2> HIDE DEF g
  <2> QED BY Zenon, <2>3, <2>4
<1> HIDE DEF T
<1>3. Len(s) \in T
  BY <1>1, <1>2, Induct
<1>4. \E f : Upto(Len(s), f)
  BY <1>3 DEF T
<1>5. LinesUpto(s) =
          [k \in 0 .. Len(s) |-> IF k = 0 THEN << >> ELSE Line(s, k, LinesUpto(s)[k - 1])]
  BY <1>4 DEF LinesUpto
<1> QED BY <1>5

\* The two lexers are in the same state, but that of the SQL as it was written may
\* have read a CR, in a block comment, where the other has read the LF for it.
Alike(x, y) ==
    \/ y = x
    \/ x.mode = "block" /\ x.before = "cr" /\ y = [x EXCEPT !.before = "nl"]

LEMMA BlockRead ==
    ASSUME NEW S, NEW lx \in LexerState(S), lx.mode = "block", NEW c
    PROVE  lx.before # "*" \/ c # "/" => Read(lx, c) = [lx EXCEPT !.before = c]
BY DEF Read

LEMMA AlikeRead ==
    ASSUME NEW S, NEW x, NEW y, Sane(S, x), Alike(x, y), x.mode # "line", NEW c \in S,
           ~(x.mode = "quote" /\ c = "cr")
    PROVE  Alike(Read(x, c), Read(y, IF c = "cr" THEN "nl" ELSE c))
<1>1. x \in LexerState(S)
  BY DEF Sane
<1>2. CASE y = x /\ c # "cr"
  BY <1>2 DEF Alike
<1>3. CASE y = x /\ c = "cr" /\ InCode(x)
  <2>1. Read(x, "cr") = SpaceRead(x) /\ Read(x, "nl") = SpaceRead(x)
    BY <1>3, ReadSpace DEF Space
  <2> QED BY <1>3, <2>1 DEF Alike
<1>4. CASE y = x /\ c = "cr" /\ x.mode = "block"
  <2>1. Read(x, "cr") = [x EXCEPT !.before = "cr"] /\ Read(x, "nl") = [x EXCEPT !.before = "nl"]
    BY <1>1, <1>4, BlockRead
  <2>2. /\ [x EXCEPT !.before = "cr"].mode = "block" /\ [x EXCEPT !.before = "cr"].before = "cr"
        /\ [x EXCEPT !.before = "nl"] = [[x EXCEPT !.before = "cr"] EXCEPT !.before = "nl"]
    BY <1>1, <1>4 DEF LexerState
  <2> QED BY <1>4, <2>1, <2>2 DEF Alike
<1>5. CASE y # x
  <2> DEFINE d == IF c = "cr" THEN "nl" ELSE c
  <2>1. x.mode = "block" /\ x.before = "cr" /\ y = [x EXCEPT !.before = "nl"]
    BY <1>5 DEF Alike
  <2>2. y.mode = "block" /\ y.before = "nl"
    BY <1>1, <2>1 DEF LexerState
  <2>3. Read(x, c) = [x EXCEPT !.before = c]
    BY <1>1, <2>1, BlockRead
  <2>4. Read(y, d) = [y EXCEPT !.before = d]
    BY <2>2 DEF Read
  <2>5. [y EXCEPT !.before = d] = [x EXCEPT !.before = d]
    BY <1>1, <2>1 DEF LexerState
  <2>6. CASE c # "cr"
    BY <2>3, <2>4, <2>5, <2>6 DEF Alike
  <2>7. CASE c = "cr"
    <3>1. /\ [x EXCEPT !.before = "cr"].mode = "block" /\ [x EXCEPT !.before = "cr"].before = "cr"
          /\ [x EXCEPT !.before = "nl"] = [[x EXCEPT !.before = "cr"] EXCEPT !.before = "nl"]
      BY <1>1, <2>1 DEF LexerState
    <3> QED BY <2>3, <2>4, <2>5, <2>7, <3>1 DEF Alike
  <2> QED BY <2>6, <2>7
<1> QED BY <1>1, <1>2, <1>3, <1>4, <1>5 DEF LexerState, InCode

LEMMA AlikeAfterPair ==
    ASSUME NEW S, NEW x, NEW y, Sane(S, x), Alike(x, y), x.mode \notin {"line", "quote"}
    PROVE  Read(Read(x, "cr"), "nl") = Read(y, "nl")
<1>1. x \in LexerState(S)
  BY DEF Sane
<1>2. CASE InCode(x)
  <2>1. y = x
    BY <1>2 DEF Alike, InCode
  <2>2. Read(x, "cr") = SpaceRead(x) /\ Read(x, "nl") = SpaceRead(x)
    BY <1>2, ReadSpace DEF Space
  <2>3. Read(SpaceRead(x), "nl") = SpaceRead(x)
    BY SpaceAfterSpace DEF Space
  <2> QED BY <2>1, <2>2, <2>3
<1>3. CASE x.mode = "block"
  <2> DEFINE m == [x EXCEPT !.before = "cr"]
  <2>1. Read(x, "cr") = m
    BY <1>1, <1>3, BlockRead
  <2>2. m \in [mode: {"block"}, tokens: Seq(Seq(S)), token: Seq(S), before: {"cr"},
               delimiter: Quotes \union {"none"},
               lineComment: BOOLEAN, quotedCR: BOOLEAN, comment: BOOLEAN]
    BY <1>1, <1>3 DEF LexerState
  <2>3. Read(m, "nl") = [m EXCEPT !.before = "nl"]
    BY <2>2 DEF Read
  <2>4. [m EXCEPT !.before = "nl"] = [x EXCEPT !.before = "nl"]
    BY <1>1 DEF LexerState
  <2>5. Read(y, "nl") = [x EXCEPT !.before = "nl"]
    <3>1. CASE y = x
      BY <1>1, <1>3, <3>1, BlockRead
    <3>2. CASE y # x
      <4>1. y = [x EXCEPT !.before = "nl"]
        BY <3>2 DEF Alike
      <4>2. y.mode = "block" /\ y.before = "nl" /\ [y EXCEPT !.before = "nl"] = y
        BY <1>1, <1>3, <4>1 DEF LexerState
      <4>3. Read(y, "nl") = [y EXCEPT !.before = "nl"]
        BY <4>2 DEF Read
      <4> QED BY <4>1, <4>2, <4>3
    <3> QED BY <3>1, <3>2
  <2> QED BY <2>1, <2>3, <2>4, <2>5
<1> QED BY <1>1, <1>2, <1>3 DEF LexerState, InCode

NoCR(u) == \A j \in 1 .. Len(u) : u[j] # "cr"

LEMMA LinesType ==
    ASSUME NEW S, "nl" \in S, NEW s \in Seq(S), NEW n \in 0 .. Len(s)
    PROVE  LinesUpto(s)[n] \in Seq(S) /\ NoCR(LinesUpto(s)[n])
<1> DEFINE Fine(u) == u \in Seq(S) /\ NoCR(u)
           T == {k \in Nat : k <= Len(s) => Fine(LinesUpto(s)[k])}
<1>0. Len(s) \in Nat
  OBVIOUS
<1>1. 0 \in T
  <2>1. Fine(<< >>)
    BY DEF NoCR
  <2> QED BY <1>0, <2>1, LinesExist
<1>2. ASSUME NEW k \in Nat, k \in T PROVE k + 1 \in T
  <2> SUFFICES ASSUME k + 1 <= Len(s) PROVE Fine(LinesUpto(s)[k + 1])
    OBVIOUS
  <2> DEFINE before == LinesUpto(s)[k]
             c == IF s[k + 1] = "cr" THEN "nl" ELSE s[k + 1]
  <2>1. before \in Seq(S) /\ NoCR(before) /\ c \in S /\ c # "cr"
    BY <1>2
  <2>2. LinesUpto(s)[k + 1] = Line(s, k + 1, before)
    <3>1. k + 1 \in 1 .. Len(s) /\ (k + 1) - 1 = k
      OBVIOUS
    <3> QED BY <1>0, <3>1, LinesExist
  <2>3. Line(s, k + 1, before) = before \/ Line(s, k + 1, before) = Append(before, c)
    BY DEF Line
  <2> HIDE DEF before, c
  <2>4. Append(before, c) \in Seq(S) /\ NoCR(Append(before, c))
    BY <2>1 DEF NoCR
  <2> QED BY <2>1, <2>2, <2>3, <2>4
<1> HIDE DEF T
<1>3. n \in T
  BY <1>1, <1>2, Induct
<1> QED BY <1>3 DEF T

LEMMA NewlinesKeepPieces ==
    ASSUME NEW S, "nl" \in S, NEW s \in Seq(S), ~ReadAll(s).lineComment, ~ReadAll(s).quotedCR
    PROVE  /\ Newlines(s) \in Seq(S) /\ NoCR(Newlines(s))
           /\ ~ReadAll(Newlines(s)).lineComment
           /\ Pieces(Newlines(s)) = Pieces(s)
<1> DEFINE N == Len(s)
           A(k) == LexerStates(s)[k]
           B(k) == ReadAll(LinesUpto(s)[k])
           Paired(k) == k > 0 /\ Pair(s, k, "cr", "nl")
           Together(k) == /\ Paired(k) => Alike(A(k - 1), B(k))
                          /\ ~Paired(k) => Alike(A(k), B(k))
           T == {k \in Nat : k <= N => Together(k)}
<1>1. N \in Nat /\ ReadAll(s) = LexerStates(s)[N]
  BY ReadingIs
<1>2. ASSUME NEW k \in Nat, k <= N
      PROVE  Sane(S, A(k)) /\ A(k).mode # "line" /\ ~A(k).quotedCR
  <2>1. Sane(S, A(k)) /\ k \in 0 .. N
    BY <1>1, <1>2, StatesSane
  <2>2. ~A(k).lineComment /\ ~A(k).quotedCR
    BY <1>1, <2>1, NotedToTheEnd
  <2> QED BY <2>1, <2>2 DEF Sane
<1>3. ASSUME NEW k \in Nat, k + 1 <= N
      PROVE  /\ s[k + 1] \in S /\ A(k + 1) = Read(A(k), s[k + 1])
             /\ s[k + 1] = "cr" => A(k).mode # "quote"
  <2>1. s[k + 1] \in S /\ A(k + 1) = Read(A(k), s[k + 1])
    BY <1>3, LexerStep
  <2>2. ASSUME A(k).mode = "quote", s[k + 1] = "cr" PROVE FALSE
    <3> DEFINE x == A(k)
    <3>1. x \in LexerState(S)
      BY <1>2, <1>3 DEF Sane
    <3>2. ~A(k + 1).quotedCR
      BY <1>2, <1>3
    <3>3. A(k + 1) = Read(x, "cr")
      BY <2>1, <2>2
    <3> HIDE DEF x
    <3>4. Read(x, "cr") = [x EXCEPT !.token = Append(@, "cr"), !.quotedCR = TRUE,
                                    !.mode = IF "cr" = x.delimiter THEN "closing" ELSE @]
      BY <2>2 DEF Read, x
    <3>5. Read(x, "cr").quotedCR
      BY <3>1, <3>4 DEF LexerState
    <3> QED BY <3>2, <3>3, <3>5
  <2> QED BY <2>1, <2>2
<1>4. LinesUpto(s)[0] = << >>
      /\ \A k \in 1 .. N : LinesUpto(s)[k] = Line(s, k, LinesUpto(s)[k - 1])
  BY <1>1, LinesExist
<1>5. ASSUME NEW k \in Nat, k + 1 <= N, ~Pair(s, k + 1, "cr", "nl")
      PROVE  B(k + 1) = Read(B(k), IF s[k + 1] = "cr" THEN "nl" ELSE s[k + 1])
  <2> DEFINE c == IF s[k + 1] = "cr" THEN "nl" ELSE s[k + 1]
             before == LinesUpto(s)[k]
  <2>1. k + 1 \in 1 .. N /\ (k + 1) - 1 = k /\ k \in 0 .. N
    BY <1>1, <1>5
  <2>2. LinesUpto(s)[k + 1] = Append(before, c)
    BY <1>4, <1>5, <2>1 DEF Line
  <2>3. before \in Seq(S) /\ c \in S
    BY <1>3, <1>5, <2>1, LinesType
  <2> HIDE DEF c, before
  <2>4. ReadAll(Append(before, c)) = Read(ReadAll(before), c)
    BY <2>3, ReadAllAppend
  <2> QED BY <2>2, <2>4 DEF c, before
<1>6. ASSUME NEW k \in Nat, k + 1 <= N, Pair(s, k + 1, "cr", "nl")
      PROVE  B(k + 1) = B(k)
  <2>1. k + 1 \in 1 .. N /\ (k + 1) - 1 = k
    BY <1>1, <1>6
  <2> QED BY <1>4, <1>6, <2>1 DEF Line
<1>7. 0 \in T
  <2>1. A(0) = Lexer /\ B(0) = Lexer
    BY <1>4, LexerStep, ReadAllEmpty
  <2> QED BY <2>1 DEF Alike
<1>8. ASSUME NEW k \in Nat, k \in T PROVE k + 1 \in T
  <2> SUFFICES ASSUME k + 1 <= N PROVE Together(k + 1)
    OBVIOUS
  <2>1. Together(k) /\ k <= N /\ (k + 1) - 1 = k
    BY <1>1, <1>8
  <2> HIDE DEF A, B
  <2>2. CASE Paired(k)
    <3>1. /\ k > 0 /\ k - 1 \in Nat /\ (k - 1) + 1 = k /\ k - 1 <= N
          /\ s[k] = "cr" /\ s[k + 1] = "nl" /\ ~Pair(s, k + 1, "cr", "nl")
      BY <1>1, <2>2 DEF Pair
    <3>2. Alike(A(k - 1), B(k))
      BY <2>1, <2>2
    <3>3. A(k) = Read(A(k - 1), "cr") /\ A(k - 1).mode # "quote"
      BY <1>3, <2>1, <3>1
    <3>4. A(k + 1) = Read(A(k), "nl")
      BY <1>3, <3>1
    <3>5. B(k + 1) = Read(B(k), "nl")
      BY <1>5, <3>1
    <3>6. Sane(S, A(k - 1)) /\ A(k - 1).mode \notin {"line", "quote"}
      BY <1>2, <3>1, <3>3
    <3>7. A(k + 1) = B(k + 1)
      BY <3>2, <3>3, <3>4, <3>5, <3>6, AlikeAfterPair
    <3> QED BY <3>1, <3>7 DEF Alike
  <2>3. CASE ~Paired(k) /\ Paired(k + 1)
    BY <1>6, <2>1, <2>3
  <2>4. CASE ~Paired(k) /\ ~Paired(k + 1)
    <3> DEFINE c == s[k + 1]
    <3>1. Alike(A(k), B(k)) /\ ~Pair(s, k + 1, "cr", "nl")
      BY <2>1, <2>4
    <3>2. B(k + 1) = Read(B(k), IF c = "cr" THEN "nl" ELSE c)
      BY <1>5, <3>1
    <3>3. /\ c \in S /\ A(k + 1) = Read(A(k), c) /\ ~(A(k).mode = "quote" /\ c = "cr")
          /\ Sane(S, A(k)) /\ A(k).mode # "line"
      BY <1>2, <1>3, <2>1
    <3> HIDE DEF c
    <3>4. Alike(Read(A(k), c), Read(B(k), IF c = "cr" THEN "nl" ELSE c))
      BY <3>1, <3>3, AlikeRead
    <3> QED BY <2>4, <3>2, <3>3, <3>4
  <2> QED BY <2>2, <2>3, <2>4
<1> HIDE DEF T
<1>9. N \in T
  BY <1>1, <1>7, <1>8, Induct
<1>10. Alike(A(N), B(N))
  <2>1. ~Paired(N)
    BY <1>1 DEF Pair
  <2> QED BY <1>1, <1>9, <2>1 DEF T
<1>11. Newlines(s) = LinesUpto(s)[N] /\ N \in 0 .. N
  BY <1>1, NewlinesIs
<1>12. Newlines(s) \in Seq(S) /\ NoCR(Newlines(s))
  BY <1>11, LinesType
<1>13. A(N) = ReadAll(s) /\ B(N) = ReadAll(Newlines(s)) /\ A(N) \in LexerState(S)
  BY <1>1, <1>2, <1>11 DEF Sane
<1> HIDE DEF A, B
<1>14. B(N).lineComment = A(N).lineComment /\ Done(B(N)) = Done(A(N))
  <2>1. /\ B(N).tokens = A(N).tokens /\ B(N).token = A(N).token
        /\ B(N).lineComment = A(N).lineComment
    BY <1>10, <1>13 DEF Alike, LexerState
  <2> QED BY <2>1 DEF Done
<1> QED BY <1>12, <1>13, <1>14, PiecesAre

-----------------------------------------------------------------------------
(* The key.                                                                 *)

(* What a key is made from has the words, quoted regions and operator       *)
(* characters of the SQL as it was written (_qo_norm_sql_str): of any SQL,  *)
(* over any characters, with no line comment and no CR in a quoted region.  *)
THEOREM NormKeepsPieces ==
    ASSUME NEW S, NEW sql \in Seq(S), ~Lexed(sql).lineComment, ~Lexed(sql).quotedCR
    PROVE  Pieces(Norm(sql)) = Pieces(sql)
<1> DEFINE C == S \union {"sp", "nl"}
           t == Newlines(sql)
<1>1. sql \in Seq(C) /\ "sp" \in C /\ "nl" \in C
  <2>1. S \subseteq C
    OBVIOUS
  <2> QED BY <2>1, SeqMonotonic
<1> HIDE DEF C, t
<1>2. ~ReadAll(sql).lineComment /\ ~ReadAll(sql).quotedCR
  BY <1>1, PiecesAre
<1>3. t \in Seq(C) /\ NoCR(t) /\ ~ReadAll(t).lineComment /\ Pieces(t) = Pieces(sql)
  BY <1>1, <1>2, NewlinesKeepPieces DEF t
<1>4. Pieces(Scanned(Chunks(t)).out) = Pieces(t)
  BY <1>1, <1>3, ScannerKeepsPieces DEF NoCR
<1> QED BY <1>3, <1>4 DEF Norm, t

(* Two queries that share a key are the same query, the compound operators  *)
(* and all, whichever characters SQL makes one token of: two pieces of such *)
(* SQL with one normalised form, neither with an operator kept apart by     *)
(* white space or a comment inside it, have one meaning.                    *)
THEOREM OneKeyOneMeaning ==
    ASSUME NEW S,
           NEW a \in Seq(S), ~Lexed(a).lineComment, ~Lexed(a).quotedCR, Compact(a),
           NEW b \in Seq(S), ~Lexed(b).lineComment, ~Lexed(b).quotedCR, Compact(b),
           Norm(a) = Norm(b)
    PROVE  Meaning(a) = Meaning(b)
<1>1. Pieces(a) = Pieces(b)
  BY NormKeepsPieces
<1>2. Joints(a) = Joints(b)
  BY <1>1 DEF Compact
<1> QED BY <1>1, <1>2 DEF Meaning

-----------------------------------------------------------------------------
(* SQL without comments.                                                    *)

\* The lexer has read no comment, and is in code or in a quoted region.
Plain(lx) ==
    /\ ~lx.comment /\ ~lx.lineComment
    /\ lx.mode \in {"code", "quote", "closing"}
    /\ lx.mode # "code" => lx.before = "none" /\ lx.token # << >>

\* c goes on with the quoted region.
Quoting(lx, c) == lx.mode = "quote" \/ (lx.mode = "closing" /\ c = lx.delimiter)

LEMMA FlushKeepsComment ==
    ASSUME NEW S, NEW x \in LexerState(S), x.comment
    PROVE  Flush(x) \in LexerState(S) /\ Flush(x).comment
<1>1. Flush(x) = With(x, x.mode, Done(x), << >>, x.before)
  BY Shape, FlushWith
<1>2. With(x, x.mode, Done(x), << >>, x.before).comment = x.comment
  BY DEF With
<1>3. Flush(x).comment
  BY Zenon, <1>1, <1>2
<1> QED BY <1>3, FlushType

\* A comment that was read is noted for good.
LEMMA CommentKept ==
    ASSUME NEW S, NEW lx, Sane(S, lx), NEW c \in S, lx.comment
    PROVE  Read(lx, c).comment
<1>0. lx \in LexerState(S)
  BY DEF Sane
<1>1. ASSUME NEW x \in LexerState(S), x.comment PROVE ReadCode(x, c).comment
  <2> DEFINE f == Flush(x)
             m == ReadCode(x, c)
             tight == [f EXCEPT !.token = <<c>>]
             g == Flush(tight)
  <2>1. f \in LexerState(S) /\ f.comment
    BY <1>1, FlushKeepsComment
  <2>2. tight \in LexerState(S) /\ tight.comment
    <3>1. <<c>> \in Seq(S)
      OBVIOUS
    <3> HIDE DEF f
    <3> QED BY <2>1, <3>1 DEF LexerState
  <2>3. g \in LexerState(S) /\ g.comment
    <3> HIDE DEF tight
    <3> QED BY <2>2, FlushKeepsComment
  <2>4. OpenComment(x, "line").comment /\ OpenComment(x, "block").comment
    BY <1>1 DEF OpenComment, LexerState
  <2>5. CASE ~OpensNone(x.before, c)
    <3>1. m = OpenComment(x, "line") \/ m = OpenComment(x, "block")
      BY <2>5 DEF OpensNone, ReadCode, Quotes, Space, Tight
    <3> HIDE DEF m
    <3> QED BY <2>4, <3>1 DEF m
  <2>6. CASE OpensNone(x.before, c)
    <3>1. \/ m = [f EXCEPT !.mode = "quote", !.delimiter = c, !.token = <<c>>, !.before = "none"]
          \/ m = [f EXCEPT !.before = "none"]
          \/ m = [g EXCEPT !.before = c]
          \/ m = [x EXCEPT !.token = Append(@, c), !.before = "none"]
      <4>1. CASE c \in Quotes
        BY <2>6, <4>1 DEF OpensNone, ReadCode, Quotes, Space, Tight
      <4>2. CASE c \in Space \union {"cr"}
        BY <2>6, <4>2 DEF OpensNone, ReadCode, Quotes, Space, Tight
      <4>3. CASE c \in Tight
        BY <2>6, <4>3 DEF OpensNone, ReadCode, Quotes, Space, Tight
      <4>4. CASE c \notin Quotes \union Space \union {"cr"} \union Tight
        BY <2>6, <4>4 DEF OpensNone, ReadCode, Quotes, Space, Tight
      <4> QED BY <4>1, <4>2, <4>3, <4>4
    <3> HIDE DEF f, g, m, tight
    <3> QED BY <1>1, <2>1, <2>3, <3>1 DEF LexerState, m
  <2> QED BY <2>5, <2>6
<1>2. CASE lx.mode = "code"
  BY <1>0, <1>1, <1>2 DEF Read
<1>3. CASE lx.mode = "closing" /\ c # lx.delimiter
  <2>1. PICK n : Read(lx, c) = ReadCode(n, c) /\ n = With(lx, "code", Done(lx), << >>, lx.before)
    BY <1>3, AfterQuote
  <2>2. n \in LexerState(S) /\ n.comment
    BY <1>0, <2>1, DoneType DEF LexerState, With
  <2> QED BY <1>1, <2>1, <2>2
<1>4. CASE lx.mode \in {"quote", "line", "block"} \/ (lx.mode = "closing" /\ c = lx.delimiter)
  BY <1>0, <1>4 DEF Read, LexerState
<1> QED BY <1>0, <1>2, <1>3, <1>4 DEF LexerState

\* Two operators that open a comment.
LEMMA OpeningNoted ==
    ASSUME NEW S, NEW lx, Sane(S, lx), Plain(lx), NEW c \in S,
           ~Quoting(lx, c), ~OpensNone(lx.before, c)
    PROVE  Read(lx, c).comment
<1>1. lx.mode = "code" /\ lx \in LexerState(S)
  BY DEF Sane, Plain, Quoting, OpensNone
<1>2. Read(lx, c) = ReadCode(lx, c)
  BY <1>1 DEF Read
<1>3. ReadCode(lx, c) = OpenComment(lx, "line") \/ ReadCode(lx, c) = OpenComment(lx, "block")
  BY DEF OpensNone, ReadCode, Quotes, Space, Tight
<1>4. OpenComment(lx, "line").comment /\ OpenComment(lx, "block").comment
  BY <1>1 DEF OpenComment, LexerState
<1> QED BY <1>2, <1>3, <1>4

\* What the lexer makes of c in SQL without comments.
LEMMA ReadGoingOn ==
    ASSUME NEW S, NEW lx, Sane(S, lx), Plain(lx), NEW c \in S, Quoting(lx, c)
    PROVE  LET y == Read(lx, c)
           IN  /\ Plain(y) /\ Sane(S, y)
               /\ y.mode = IF lx.mode = "quote" /\ c = lx.delimiter THEN "closing" ELSE "quote"
               /\ y.delimiter = lx.delimiter /\ y.before = "none"
               /\ y.tokens = lx.tokens /\ y.token = Append(lx.token, c)
<1> DEFINE y == Read(lx, c)
           more == Append(lx.token, c)
<1>1. lx \in LexerState(S) /\ lx.token \in Seq(S) /\ Sane(S, y)
  BY ReadSane DEF Sane, LexerState
<1>2. more # << >>
  BY <1>1
<1>3. lx.before = "none" /\ ~lx.comment /\ ~lx.lineComment
  BY DEF Plain, Quoting
<1>4. CASE lx.mode = "quote"
  <2>1. y = [lx EXCEPT !.token = more, !.quotedCR = @ \/ c = "cr",
                       !.mode = IF c = lx.delimiter THEN "closing" ELSE @]
    BY <1>4 DEF Read
  <2> HIDE DEF y, more
  <2>2. /\ y.mode = IF c = lx.delimiter THEN "closing" ELSE "quote"
        /\ y.delimiter = lx.delimiter /\ y.before = "none"
        /\ y.tokens = lx.tokens /\ y.token = more
        /\ y.comment = lx.comment /\ y.lineComment = lx.lineComment
    BY <1>1, <1>3, <1>4, <2>1 DEF LexerState
  <2>3. Plain(y)
    BY <1>2, <1>3, <2>2 DEF Plain
  <2> QED BY <1>1, <1>4, <2>2, <2>3 DEF y, more
<1>5. CASE lx.mode = "closing" /\ c = lx.delimiter
  <2>1. y = [lx EXCEPT !.token = more, !.mode = "quote"]
    BY <1>5 DEF Read
  <2> HIDE DEF y, more
  <2>2. /\ y.mode = "quote"
        /\ y.delimiter = lx.delimiter /\ y.before = "none"
        /\ y.tokens = lx.tokens /\ y.token = more
        /\ y.comment = lx.comment /\ y.lineComment = lx.lineComment
    BY <1>1, <1>3, <1>5, <2>1 DEF LexerState
  <2>3. Plain(y)
    BY <1>2, <1>3, <2>2 DEF Plain
  <2> QED BY <1>1, <1>5, <2>2, <2>3 DEF y, more
<1> QED BY <1>4, <1>5 DEF Quoting

LEMMA ReadCodeOf ==
    ASSUME NEW S, NEW lx, lx \in LexerState(S), lx.mode = "code",
           ~lx.comment, ~lx.lineComment, NEW c \in S, OpensNone(lx.before, c)
    PROVE  LET y == ReadCode(lx, c)
           IN  /\ Plain(y)
               /\ y.mode = IF c \in Quotes THEN "quote" ELSE "code"
               /\ y.delimiter = IF c \in Quotes THEN c ELSE lx.delimiter
               /\ y.before = IF c \in Tight THEN c ELSE "none"
               /\ c \in Space \union {"cr"} => y.tokens = Done(lx) /\ y.token = << >>
               /\ c \in Tight => y.tokens = Append(Done(lx), <<c>>) /\ y.token = << >>
               /\ c \in Quotes => y.tokens = Done(lx) /\ y.token = <<c>>
               /\ Letter(c) => y.tokens = lx.tokens /\ y.token = Append(lx.token, c)
<1> DEFINE y == ReadCode(lx, c)
           f == Flush(lx)
           Same(z) == z.comment = lx.comment /\ z.lineComment = lx.lineComment
<1>1. lx = With(lx, "code", lx.tokens, lx.token, lx.before) /\ lx.token \in Seq(S)
  BY Shape DEF LexerState
<1>2. f = With(lx, "code", Done(lx), << >>, lx.before)
  BY <1>1, FlushWith
<1>3. <<c>> # << >>
  OBVIOUS
<1> HIDE DEF f
<1>4. CASE c \in Quotes
  <2>1. y = [f EXCEPT !.mode = "quote", !.delimiter = c, !.token = <<c>>, !.before = "none"]
    BY <1>4 DEF f, ReadCode, OpensNone, Quotes, Space, Tight
  <2>2. c \notin Tight /\ c \notin Space \union {"cr"} /\ ~Letter(c)
    BY <1>4 DEF Letter, IsWord, Quotes, Tight, Space
  <2> HIDE DEF y
  <2>3. /\ y.mode = "quote" /\ y.delimiter = c /\ y.before = "none" /\ y.tokens = Done(lx)
        /\ y.token = <<c>> /\ Same(y)
    BY <1>2, <2>1 DEF With
  <2>4. Plain(y)
    BY <1>3, <2>3 DEF Plain
  <2> QED BY <1>4, <2>2, <2>3, <2>4 DEF y
<1>5. CASE c \in Space \union {"cr"}
  <2>1. y = With(lx, "code", Done(lx), << >>, "none")
    BY <1>1, <1>5, CodeSpace
  <2>2. c \notin Tight /\ c \notin Quotes /\ ~Letter(c)
    BY <1>5 DEF Letter, IsWord, Quotes, Tight, Space
  <2> HIDE DEF y
  <2>3. /\ y.mode = "code" /\ y.delimiter = lx.delimiter /\ y.before = "none"
        /\ y.tokens = Done(lx) /\ y.token = << >> /\ Same(y)
    BY <2>1 DEF With
  <2>4. Plain(y)
    BY <2>3 DEF Plain
  <2> QED BY <1>5, <2>2, <2>3, <2>4 DEF y
<1>6. CASE c \in Tight
  <2>1. y = With(lx, "code", Append(Done(lx), <<c>>), << >>, c)
    BY <1>1, <1>6, CodeTight
  <2>2. c \notin Space \union {"cr"} /\ c \notin Quotes /\ ~Letter(c)
    BY <1>6 DEF Letter, IsWord, Quotes, Tight, Space
  <2> DEFINE more == Append(Done(lx), <<c>>)
  <2> HIDE DEF y, more
  <2>3. /\ y.mode = "code" /\ y.delimiter = lx.delimiter /\ y.before = c
        /\ y.tokens = more /\ y.token = << >> /\ Same(y)
    BY <2>1 DEF With, more
  <2>4. Plain(y)
    BY <2>3 DEF Plain
  <2> QED BY <1>6, <2>2, <2>3, <2>4 DEF y, more
<1>7. CASE Letter(c)
  <2>1. c \notin Space \union {"cr"} /\ c \notin Quotes /\ c \notin Tight
    BY <1>7 DEF Letter, IsWord
  <2> DEFINE more == Append(lx.token, c)
  <2>2. y = [lx EXCEPT !.token = more, !.before = "none"]
    BY <2>1 DEF ReadCode, OpensNone, Quotes, Space, Tight
  <2> HIDE DEF y, more
  <2>3. /\ y.mode = "code" /\ y.delimiter = lx.delimiter /\ y.before = "none"
        /\ y.tokens = lx.tokens /\ y.token = more /\ Same(y)
    BY <2>2 DEF LexerState
  <2>4. Plain(y)
    BY <2>3 DEF Plain
  <2> QED BY <1>7, <2>1, <2>3, <2>4 DEF y, more
<1>8. c \in Quotes \/ c \in Space \union {"cr"} \/ c \in Tight \/ Letter(c)
  BY DEF Letter, IsWord
<1> QED BY <1>4, <1>5, <1>6, <1>7, <1>8

LEMMA ReadInCode ==
    ASSUME NEW S, NEW lx, Sane(S, lx), Plain(lx), NEW c \in S,
           ~Quoting(lx, c), OpensNone(lx.before, c)
    PROVE  LET y == Read(lx, c)
           IN  /\ Plain(y) /\ Sane(S, y)
               /\ y.mode = IF c \in Quotes THEN "quote" ELSE "code"
               /\ y.delimiter = IF c \in Quotes THEN c ELSE lx.delimiter
               /\ y.before = IF c \in Tight THEN c ELSE "none"
               /\ c \in Space \union {"cr"} => y.tokens = Done(lx) /\ y.token = << >>
               /\ c \in Tight => y.tokens = Append(Done(lx), <<c>>) /\ y.token = << >>
               /\ c \in Quotes => y.tokens = Done(lx) /\ y.token = <<c>>
               /\ Letter(c) /\ lx.mode = "code" =>
                      y.tokens = lx.tokens /\ y.token = Append(lx.token, c)
               /\ Letter(c) /\ lx.mode = "closing" => y.tokens = Done(lx) /\ y.token = <<c>>
<1>0. lx \in LexerState(S) /\ Sane(S, Read(lx, c))
  BY ReadSane DEF Sane
<1>1. CASE lx.mode = "code"
  <2>1. Read(lx, c) = ReadCode(lx, c)
    BY <1>1 DEF Read
  <2>2. ~lx.comment /\ ~lx.lineComment /\ lx.mode # "closing"
    BY <1>1 DEF Plain
  <2> DEFINE y == Read(lx, c)
  <2>3. /\ Plain(y)
        /\ y.mode = IF c \in Quotes THEN "quote" ELSE "code"
        /\ y.delimiter = IF c \in Quotes THEN c ELSE lx.delimiter
        /\ y.before = IF c \in Tight THEN c ELSE "none"
        /\ c \in Space \union {"cr"} => y.tokens = Done(lx) /\ y.token = << >>
        /\ c \in Tight => y.tokens = Append(Done(lx), <<c>>) /\ y.token = << >>
        /\ c \in Quotes => y.tokens = Done(lx) /\ y.token = <<c>>
        /\ Letter(c) => y.tokens = lx.tokens /\ y.token = Append(lx.token, c)
    BY <1>0, <1>1, <2>1, <2>2, ReadCodeOf
  <2> HIDE DEF y
  <2> QED BY <1>0, <2>2, <2>3 DEF y
<1>2. CASE lx.mode = "closing"
  <2>1. c # lx.delimiter
    BY <1>2 DEF Quoting
  <2>2. PICK m : /\ Read(lx, c) = ReadCode(m, c)
                 /\ m = With(lx, "code", Done(lx), << >>, lx.before)
                 /\ Done(m) = Done(lx)
    BY <1>2, <2>1, AfterQuote
  <2>3. /\ m \in LexerState(S) /\ m.mode = "code" /\ ~m.comment /\ ~m.lineComment
        /\ m.before = lx.before /\ m.delimiter = lx.delimiter
        /\ m.tokens = Done(lx) /\ m.token = << >>
    BY <1>0, <2>2, DoneType DEF LexerState, With, Plain
  <2>4. Append(m.token, c) = <<c>>
    BY <2>3
  <2> DEFINE y == Read(lx, c)
  <2>5. /\ Plain(y)
        /\ y.mode = IF c \in Quotes THEN "quote" ELSE "code"
        /\ y.delimiter = IF c \in Quotes THEN c ELSE m.delimiter
        /\ y.before = IF c \in Tight THEN c ELSE "none"
        /\ c \in Space \union {"cr"} => y.tokens = Done(m) /\ y.token = << >>
        /\ c \in Tight => y.tokens = Append(Done(m), <<c>>) /\ y.token = << >>
        /\ c \in Quotes => y.tokens = Done(m) /\ y.token = <<c>>
        /\ Letter(c) => y.tokens = m.tokens /\ y.token = Append(m.token, c)
    BY <2>2, <2>3, ReadCodeOf
  <2> HIDE DEF y
  <2> QED BY <1>0, <1>2, <2>2, <2>3, <2>4, <2>5 DEF y
<1> QED BY <1>1, <1>2 DEF Plain, Quoting

\* Without a comment at the end there is none before.
LEMMA CommentFree ==
    ASSUME NEW S, NEW s \in Seq(S), ~ReadAll(s).comment
    PROVE  \A k \in 0 .. Len(s) :
               /\ Sane(S, LexerStates(s)[k]) /\ Plain(LexerStates(s)[k])
               /\ k < Len(s) => /\ s[k + 1] \in S
                                /\ LexerStates(s)[k + 1] = Read(LexerStates(s)[k], s[k + 1])
                                /\ \/ Quoting(LexerStates(s)[k], s[k + 1])
                                   \/ OpensNone(LexerStates(s)[k].before, s[k + 1])
<1> DEFINE N == Len(s)
           A(k) == LexerStates(s)[k]
<1>0. N \in Nat /\ ReadAll(s) = A(N)
  BY ReadingIs
<1>1. ASSUME NEW k \in 0 .. N
      PROVE  /\ Sane(S, A(k))
             /\ k < N => s[k + 1] \in S /\ A(k + 1) = Read(A(k), s[k + 1])
  <2>1. Sane(S, A(k))
    BY <1>0, StatesSane
  <2>2. ASSUME k < N PROVE s[k + 1] \in S /\ A(k + 1) = Read(A(k), s[k + 1])
    <3>1. k + 1 \in 1 .. N /\ (k + 1) - 1 = k
      BY <1>0, <2>2
    <3> QED BY <3>1, LexerStep
  <2> QED BY <2>1, <2>2
<1> HIDE DEF A, N
<1>2. \A k \in 0 .. N : ~A(k).comment
  <2> DEFINE T == {n \in Nat : n <= N => ~A(N - n).comment}
  <2>1. 0 \in T
    BY <1>0
  <2>2. ASSUME NEW n \in Nat, n \in T PROVE n + 1 \in T
    <3> SUFFICES ASSUME n + 1 <= N, A(N - (n + 1)).comment PROVE FALSE
      OBVIOUS
    <3> DEFINE k == N - (n + 1)
    <3>1. k \in 0 .. N /\ k < N /\ k + 1 = N - n /\ ~A(N - n).comment
      BY <1>0, <2>2
    <3>2. Sane(S, A(k)) /\ s[k + 1] \in S /\ A(k + 1) = Read(A(k), s[k + 1]) /\ A(k).comment
      BY <1>1, <3>1
    <3> HIDE DEF k
    <3> QED BY <3>1, <3>2, CommentKept
  <2> HIDE DEF T
  <2>3. \A n \in Nat : n \in T
    BY <2>1, <2>2, Induct
  <2> SUFFICES ASSUME NEW k \in 0 .. N PROVE ~A(k).comment
    OBVIOUS
  <2>4. N - k \in Nat /\ N - k <= N /\ N - (N - k) = k
    BY <1>0
  <2> QED BY <2>3, <2>4 DEF T
<1>3. ASSUME NEW k \in 0 .. N, Plain(A(k)), k < N
      PROVE  /\ Quoting(A(k), s[k + 1]) \/ OpensNone(A(k).before, s[k + 1])
             /\ Plain(A(k + 1))
  <2> DEFINE x == A(k)
             c == s[k + 1]
  <2>1. Sane(S, x) /\ c \in S /\ A(k + 1) = Read(x, c) /\ k + 1 \in 0 .. N
    BY <1>0, <1>1, <1>3
  <2>2. ~A(k + 1).comment /\ Plain(x)
    BY <1>2, <1>3, <2>1
  <2> HIDE DEF x, c
  <2>3. Quoting(x, c) \/ OpensNone(x.before, c)
    BY <2>1, <2>2, OpeningNoted
  <2>4. Plain(Read(x, c))
    <3>1. CASE Quoting(x, c)
      BY <2>1, <2>2, <3>1, ReadGoingOn
    <3>2. CASE ~Quoting(x, c)
      BY <2>1, <2>2, <2>3, <3>2, ReadInCode
    <3> QED BY <3>1, <3>2
  <2> QED BY <2>1, <2>3, <2>4 DEF x, c
<1>4. \A k \in 0 .. N : Plain(A(k))
  <2> DEFINE T == {n \in Nat : n <= N => Plain(A(n))}
  <2>1. 0 \in T
    <3>1. A(0) = Lexer
      BY LexerStep DEF A
    <3>2. Plain(Lexer)
      BY DEF Plain, Lexer
    <3> QED BY <3>1, <3>2
  <2>2. ASSUME NEW n \in Nat, n \in T PROVE n + 1 \in T
    <3> SUFFICES ASSUME n + 1 <= N PROVE Plain(A(n + 1))
      OBVIOUS
    <3>1. n \in 0 .. N /\ n < N /\ Plain(A(n))
      BY <1>0, <2>2
    <3> QED BY <1>3, <3>1
  <2> HIDE DEF T
  <2>3. \A n \in Nat : n \in T
    BY <2>1, <2>2, Induct
  <2> QED BY <1>0, <2>3 DEF T
<1> QED BY <1>1, <1>3, <1>4 DEF A, N

\* The two lexers will read what follows alike.
Sync(x, y) == x.mode = y.mode /\ x.before = y.before /\ x.delimiter = y.delimiter

\* A CR is as good as a LF.
LF(c) == IF c = "cr" THEN "nl" ELSE c

LEMMA SyncRead ==
    ASSUME NEW S, NEW x, Sane(S, x), Plain(x), NEW y, Sane(S, y), Plain(y), Sync(x, y),
           NEW c \in S, NEW d \in S, d \in {c, LF(c)}, Quoting(x, c) \/ OpensNone(x.before, c)
    PROVE  /\ Quoting(y, d) <=> Quoting(x, c)
           /\ Quoting(y, d) \/ OpensNone(y.before, d)
           /\ Sane(S, Read(x, c)) /\ Plain(Read(x, c))
           /\ Sane(S, Read(y, d)) /\ Plain(Read(y, d))
           /\ Sync(Read(x, c), Read(y, d))
<1>1. c = d \/ (c = "cr" /\ d = "nl")
  BY DEF LF
<1>2. x.mode \in {"quote", "closing"} => x.delimiter \notin {"cr", "nl"}
  BY DEF Sane, Quotes
<1>3. Quoting(y, d) <=> Quoting(x, c)
  BY <1>1, <1>2 DEF Quoting, Sync
<1>4. (d \in Quotes <=> c \in Quotes) /\ (d \in Tight <=> c \in Tight)
      /\ (c \in Quotes \union Tight => d = c) /\ (x.mode = "quote" => (c = x.delimiter <=> d = x.delimiter))
  BY <1>1, <1>2 DEF Quotes, Tight
<1>5. CASE Quoting(x, c)
  <2> DEFINE u == Read(x, c)
             v == Read(y, d)
  <2>1. /\ Plain(u) /\ Sane(S, u) /\ u.delimiter = x.delimiter /\ u.before = "none"
        /\ u.mode = IF x.mode = "quote" /\ c = x.delimiter THEN "closing" ELSE "quote"
    BY <1>5, ReadGoingOn
  <2>2. /\ Plain(v) /\ Sane(S, v) /\ v.delimiter = y.delimiter /\ v.before = "none"
        /\ v.mode = IF y.mode = "quote" /\ d = y.delimiter THEN "closing" ELSE "quote"
    BY <1>3, <1>5, ReadGoingOn
  <2> HIDE DEF u, v
  <2>3. Sync(u, v)
    BY <1>4, <2>1, <2>2 DEF Sync
  <2> QED BY <1>3, <1>5, <2>1, <2>2, <2>3 DEF u, v
<1>6. CASE ~Quoting(x, c)
  <2> DEFINE u == Read(x, c)
             v == Read(y, d)
  <2>1. OpensNone(x.before, c) /\ OpensNone(y.before, d)
    BY <1>1, <1>6 DEF OpensNone, Sync
  <2>2. /\ Plain(u) /\ Sane(S, u)
        /\ u.mode = IF c \in Quotes THEN "quote" ELSE "code"
        /\ u.delimiter = IF c \in Quotes THEN c ELSE x.delimiter
        /\ u.before = IF c \in Tight THEN c ELSE "none"
    BY <1>6, <2>1, ReadInCode
  <2>3. /\ Plain(v) /\ Sane(S, v)
        /\ v.mode = IF d \in Quotes THEN "quote" ELSE "code"
        /\ v.delimiter = IF d \in Quotes THEN d ELSE y.delimiter
        /\ v.before = IF d \in Tight THEN d ELSE "none"
    BY <1>3, <1>6, <2>1, ReadInCode
  <2> HIDE DEF u, v
  <2>4. Sync(u, v)
    BY <1>4, <2>2, <2>3 DEF Sync
  <2> QED BY <1>3, <1>6, <2>1, <2>2, <2>3, <2>4 DEF u, v
<1> QED BY <1>5, <1>6

-----------------------------------------------------------------------------
(* The scanner, character by character: in a quoted region it keeps what it *)
(* hears, elsewhere a character is a chunk.  Of CR LF it hears one.         *)

Hear(z, mode, c) == IF mode = "quote" THEN Emitted(z, FALSE, <<c>>) ELSE Emit(z, <<c>>)

Skipping(s, k) == k > 1 /\ s[k - 1] = "cr" /\ s[k] = "nl"

HeardNext(s, k, z) ==
    IF Skipping(s, k) THEN z ELSE Hear(z, LexerStates(s)[k - 1].mode, LF(s[k]))

Heard(s) ==
    CHOOSE heard : heard = [k \in 0 .. Len(s) |->
                               IF k = 0 THEN Nothing ELSE HeardNext(s, k, heard[k - 1])]

LEMMA HeardExists ==
    ASSUME NEW s, Len(s) \in Nat
    PROVE  /\ Heard(s)[0] = Nothing
           /\ \A k \in 1 .. Len(s) : Heard(s)[k] = HeardNext(s, k, Heard(s)[k - 1])
<1> DEFINE Upto(n, f) == f = [k \in 0 .. n |-> IF k = 0 THEN Nothing ELSE HeardNext(s, k, f[k - 1])]
           T == {n \in Nat : \E f : Upto(n, f)}
<1>1. 0 \in T
  <2>1. Upto(0, [k \in 0 .. 0 |-> Nothing])
    OBVIOUS
  <2> QED BY Zenon, <2>1
<1>2. ASSUME NEW n \in Nat, n \in T PROVE n + 1 \in T
  <2>1. PICK f : Upto(n, f)
    BY <1>2
  <2> DEFINE g == [k \in 0 .. n + 1 |-> IF k = n + 1 THEN HeardNext(s, n + 1, f[n]) ELSE f[k]]
  <2>2. ASSUME NEW k \in 0 .. n + 1
        PROVE  g[k] = IF k = 0 THEN Nothing ELSE HeardNext(s, k, g[k - 1])
    BY <2>1
  <2>3. Upto(n + 1, g)
    BY <2>2
  <2>4. n + 1 \in Nat
    OBVIOUS
  <2> HIDE DEF g
  <2> QED BY Zenon, <2>3, <2>4
<1> HIDE DEF T
<1>3. Len(s) \in T
  BY <1>1, <1>2, Induct
<1>4. \E f : Upto(Len(s), f)
  BY <1>3 DEF T
<1>5. Heard(s) = [k \in 0 .. Len(s) |-> IF k = 0 THEN Nothing ELSE HeardNext(s, k, Heard(s)[k - 1])]
  BY <1>4 DEF Heard
<1> QED BY <1>5

\* The same after the same characters.
LEMMA HeardSameStart ==
    ASSUME NEW S, NEW u \in Seq(S), NEW v \in Seq(S), NEW n \in Nat,
           n <= Len(u), n <= Len(v), \A k \in 1 .. n : u[k] = v[k]
    PROVE  Heard(u)[n] = Heard(v)[n]
<1> DEFINE T == {k \in Nat : k <= n => Heard(u)[k] = Heard(v)[k]}
<1>0. Len(u) \in Nat /\ Len(v) \in Nat
  OBVIOUS
<1>1. 0 \in T
  BY <1>0, HeardExists
<1>2. ASSUME NEW k \in Nat, k \in T PROVE k + 1 \in T
  <2> SUFFICES ASSUME k + 1 <= n PROVE Heard(u)[k + 1] = Heard(v)[k + 1]
    OBVIOUS
  <2>1. k + 1 \in 1 .. Len(u) /\ k + 1 \in 1 .. Len(v) /\ (k + 1) - 1 = k
    BY <1>0
  <2>2. /\ Heard(u)[k + 1] = HeardNext(u, k + 1, Heard(u)[k])
        /\ Heard(v)[k + 1] = HeardNext(v, k + 1, Heard(v)[k])
    BY <1>0, <2>1, HeardExists
  <2>3. LexerStates(u)[k] = LexerStates(v)[k]
    BY SameStart
  <2>4. u[k + 1] = v[k + 1] /\ (k + 1 > 1 => u[k] = v[k])
    OBVIOUS
  <2>5. Heard(u)[k] = Heard(v)[k]
    BY <1>2
  <2> QED BY <2>1, <2>2, <2>3, <2>4, <2>5 DEF HeardNext, Skipping
<1> HIDE DEF T
<1>3. n \in T
  BY <1>1, <1>2, Induct
<1> QED BY <1>3 DEF T

HeardAll(u) == Heard(u)[Len(u)]

LEMMA HeardAppend ==
    ASSUME NEW S, NEW u \in Seq(S), NEW c \in S, c # "cr", NoCR(u)
    PROVE  HeardAll(Append(u, c)) = Hear(HeardAll(u), ReadAll(u).mode, c)
<1> DEFINE v == Append(u, c)
           n == Len(u)
<1>1. v \in Seq(S) /\ Len(v) = n + 1 /\ v[n + 1] = c /\ n \in Nat
      /\ \A k \in 1 .. n : u[k] = v[k]
  OBVIOUS
<1> HIDE DEF v
<1>2. LexerStates(u)[n] = LexerStates(v)[n] /\ Heard(u)[n] = Heard(v)[n]
  BY <1>1, SameStart, HeardSameStart
<1>3. Heard(v)[n + 1] = HeardNext(v, n + 1, Heard(v)[n])
  <2>1. n + 1 \in 1 .. Len(v) /\ Len(v) \in Nat /\ (n + 1) - 1 = n
    BY <1>1
  <2> QED BY <2>1, HeardExists
<1>4. ~Skipping(v, n + 1) /\ LF(c) = c /\ (n + 1) - 1 = n
  BY <1>1 DEF Skipping, NoCR, LF
<1>5. ReadAll(u) = LexerStates(u)[n]
  BY ReadingIs
<1> HIDE DEF n
<1>6. HeardNext(v, n + 1, Heard(v)[n]) = Hear(Heard(v)[n], LexerStates(v)[n].mode, c)
  BY <1>1, <1>4 DEF HeardNext
<1> QED BY <1>1, <1>2, <1>3, <1>5, <1>6 DEF HeardAll, v, n

-----------------------------------------------------------------------------
(* Line ends make no difference to what is heard.                           *)

LEMMA LinesHeard ==
    ASSUME NEW S, "nl" \in S, NEW s \in Seq(S), ~ReadAll(s).comment
    PROVE  /\ Newlines(s) \in Seq(S) /\ NoCR(Newlines(s)) /\ Plain(ReadAll(Newlines(s)))
           /\ HeardAll(Newlines(s)) = HeardAll(s)
<1> DEFINE N == Len(s)
           A(k) == LexerStates(s)[k]
           L(k) == LinesUpto(s)[k]
           Paired(k) == k > 0 /\ Pair(s, k, "cr", "nl")
           V(k) == IF Paired(k) THEN Append(L(k), "nl") ELSE L(k)
           Together(k) == /\ Plain(ReadAll(V(k))) /\ Sync(A(k), ReadAll(V(k)))
                          /\ Heard(s)[k] = HeardAll(V(k))
           T == {k \in Nat : k <= N => Together(k)}
<1>1. N \in Nat
  OBVIOUS
<1>2. L(0) = << >> /\ \A k \in 1 .. N : L(k) = Line(s, k, L(k - 1))
  BY <1>1, LinesExist
<1>3. ASSUME NEW k \in 0 .. N PROVE L(k) \in Seq(S) /\ NoCR(L(k))
  BY LinesType
<1>4. ASSUME NEW k \in 0 .. N
      PROVE  /\ Sane(S, A(k)) /\ Plain(A(k))
             /\ k < N => /\ s[k + 1] \in S /\ A(k + 1) = Read(A(k), s[k + 1])
                         /\ Quoting(A(k), s[k + 1]) \/ OpensNone(A(k).before, s[k + 1])
  BY CommentFree
<1>5. /\ Heard(s)[0] = Nothing
      /\ \A k \in 1 .. N : Heard(s)[k] = HeardNext(s, k, Heard(s)[k - 1])
  BY <1>1, HeardExists
<1> HIDE DEF N, L
<1>6. ASSUME NEW k \in 0 .. N PROVE V(k) \in Seq(S) /\ NoCR(V(k))
  <2>1. ASSUME NEW u \in Seq(S), NoCR(u) PROVE NoCR(Append(u, "nl")) /\ Append(u, "nl") \in Seq(S)
    BY <2>1 DEF NoCR
  <2> QED BY <1>3, <2>1
<1>7. ASSUME NEW k \in Nat, k + 1 <= N
      PROVE  V(k + 1) = IF Skipping(s, k + 1) THEN V(k) ELSE Append(V(k), LF(s[k + 1]))
  <2>1. k + 1 \in 1 .. N /\ (k + 1) - 1 = k /\ L(k + 1) = Line(s, k + 1, L(k))
    BY <1>1, <1>2, <1>7
  <2>2. Skipping(s, k + 1) <=> Paired(k)
    BY <1>1, <1>7 DEF Skipping, Pair, N
  <2>3. CASE Paired(k)
    <3>1. ~Paired(k + 1) /\ s[k + 1] = "nl" /\ ~Pair(s, k + 1, "cr", "nl")
      BY <2>3 DEF Pair
    <3>2. L(k + 1) = Append(L(k), "nl")
      BY <2>1, <3>1 DEF Line
    <3> QED BY <2>2, <2>3, <3>1, <3>2
  <2>4. CASE ~Paired(k) /\ Paired(k + 1)
    <3>1. L(k + 1) = L(k) /\ LF(s[k + 1]) = "nl"
      BY <2>1, <2>4 DEF Line, LF, Pair
    <3> QED BY <2>2, <2>4, <3>1
  <2>5. CASE ~Paired(k) /\ ~Paired(k + 1)
    <3>0. ~Pair(s, k + 1, "cr", "nl")
      BY <2>5
    <3>1. L(k + 1) = Append(L(k), LF(s[k + 1]))
      BY <2>1, <3>0 DEF Line, LF
    <3>2. ~Skipping(s, k + 1) /\ V(k) = L(k) /\ V(k + 1) = L(k + 1)
      BY <2>2, <2>5
    <3> HIDE DEF V
    <3> QED BY <3>1, <3>2
  <2> QED BY <2>3, <2>4, <2>5
<1> HIDE DEF V
<1>8. 0 \in T
  <2>1. V(0) = << >>
    BY <1>2 DEF V
  <2>2. A(0) = Lexer /\ ReadAll(V(0)) = Lexer /\ Plain(Lexer)
    <3>1. Plain(Lexer)
      BY DEF Plain, Lexer
    <3>2. A(0) = Lexer
      BY LexerStep
    <3> QED BY <2>1, <3>1, <3>2, ReadAllEmpty
  <2>3. HeardAll(<< >>) = Nothing
    <3>1. Len(<< >>) = 0
      OBVIOUS
    <3> QED BY <3>1, HeardExists DEF HeardAll
  <2> QED BY <1>5, <2>1, <2>2, <2>3 DEF Sync
<1>9. ASSUME NEW k \in Nat, k \in T PROVE k + 1 \in T
  <2> SUFFICES ASSUME k + 1 <= N PROVE Together(k + 1)
    OBVIOUS
  <2> DEFINE x == A(k)
             y == ReadAll(V(k))
             c == s[k + 1]
             z == Heard(s)[k]
             v == V(k)
  <2>1. k \in 0 .. N /\ k < N /\ (k + 1) - 1 = k /\ k + 1 \in 1 .. N /\ k + 1 \in 0 .. N
    BY <1>1
  <2>2. Plain(y) /\ Sync(x, y) /\ z = HeardAll(v)
    BY <1>9, <2>1
  <2>3. v \in Seq(S) /\ NoCR(v) /\ Sane(S, y)
    BY <1>6, <2>1, ReadAllSane
  <2>4. /\ Sane(S, x) /\ Plain(x) /\ c \in S /\ A(k + 1) = Read(x, c)
        /\ Quoting(x, c) \/ OpensNone(x.before, c)
    BY <1>4, <2>1
  <2>5. Heard(s)[k + 1] = HeardNext(s, k + 1, z)
    BY <1>5, <2>1
  <2>6. V(k + 1) = IF Skipping(s, k + 1) THEN v ELSE Append(v, LF(c))
    BY <1>7
  <2>7. CASE Skipping(s, k + 1)
    <3>1. k > 0 /\ s[k] = "cr" /\ c = "nl"
      BY <2>1, <2>7 DEF Skipping
    <3>2. Sync(Read(x, "nl"), x)
      <4>1. k - 1 \in 0 .. N /\ k - 1 < N /\ (k - 1) + 1 = k
        BY <1>1, <2>1, <3>1
      <4>2. /\ Sane(S, A(k - 1)) /\ Plain(A(k - 1)) /\ x = Read(A(k - 1), "cr") /\ "cr" \in S
            /\ Quoting(A(k - 1), "cr") \/ OpensNone(A(k - 1).before, "cr")
        BY <1>4, <3>1, <4>1
      <4>3. A(k - 1).mode \in {"quote", "closing"} => A(k - 1).delimiter \notin {"cr", "nl"}
        BY <4>2 DEF Sane, Quotes
      <4>4. CASE A(k - 1).mode = "quote"
        <5>1. Quoting(A(k - 1), "cr")
          BY <4>4 DEF Quoting
        <5>2. x.mode = "quote" /\ x.delimiter \notin {"cr", "nl"} /\ x.before = "none"
          BY <4>2, <4>3, <4>4, <5>1, ReadGoingOn
        <5>3. Quoting(x, "nl")
          BY <5>2 DEF Quoting
        <5> QED BY <2>4, <3>1, <5>2, <5>3, ReadGoingOn DEF Sync
      <4>5. CASE A(k - 1).mode # "quote"
        <5>1. ~Quoting(A(k - 1), "cr") /\ "cr" \notin Quotes /\ "cr" \notin Tight
              /\ "nl" \notin Quotes /\ "nl" \notin Tight
          BY <4>3, <4>5 DEF Quoting, Quotes, Tight
        <5>2. OpensNone(A(k - 1).before, "cr")
          BY <4>2, <5>1
        <5>3. x.mode = "code" /\ x.before = "none"
          BY <4>2, <5>1, <5>2, ReadInCode
        <5>4. ~Quoting(x, "nl") /\ OpensNone(x.before, "nl")
          BY <5>3 DEF Quoting, OpensNone
        <5> HIDE DEF x
        <5> QED BY <2>4, <3>1, <5>1, <5>3, <5>4, ReadInCode DEF Sync
      <4> QED BY <4>4, <4>5
    <3>3. V(k + 1) = v /\ Heard(s)[k + 1] = z
      BY <2>5, <2>6, <2>7 DEF HeardNext
    <3>4. Sync(A(k + 1), y)
      <4>1. A(k + 1) = Read(x, "nl")
        BY <2>4, <3>1
      <4> HIDE DEF x, y
      <4> QED BY <2>2, <3>2, <4>1 DEF Sync
    <3> QED BY <2>2, <3>3, <3>4
  <2>8. CASE ~Skipping(s, k + 1)
    <3> DEFINE d == LF(c)
    <3>1. d \in S /\ d # "cr" /\ d \in {c, LF(c)}
      BY <2>4 DEF LF
    <3>2. V(k + 1) = Append(v, d)
      BY <2>6, <2>8
    <3>3. Heard(s)[k + 1] = Hear(z, x.mode, d)
      BY <2>1, <2>5, <2>8 DEF HeardNext
    <3> HIDE DEF d, z, v, x, c
    <3>4. ReadAll(Append(v, d)) = Read(ReadAll(v), d)
      BY <2>3, <3>1, ReadAllAppend
    <3>5. HeardAll(Append(v, d)) = Hear(HeardAll(v), ReadAll(v).mode, d)
      BY <2>3, <3>1, HeardAppend
    <3>6. y = ReadAll(v)
      BY DEF v
    <3> HIDE DEF y
    <3>7. Plain(Read(y, d)) /\ Sync(Read(x, c), Read(y, d))
      BY <2>2, <2>3, <2>4, <3>1, SyncRead
    <3>8. x.mode = y.mode
      BY <2>2 DEF Sync
    <3>9. Heard(s)[k + 1] = HeardAll(V(k + 1))
      BY <2>2, <3>2, <3>3, <3>5, <3>6, <3>8
    <3>10. Plain(ReadAll(V(k + 1))) /\ Sync(A(k + 1), ReadAll(V(k + 1)))
      BY <2>4, <3>2, <3>4, <3>6, <3>7
    <3> QED BY <3>9, <3>10
  <2> QED BY <2>7, <2>8
<1> HIDE DEF T
<1>10. N \in T
  BY <1>1, <1>8, <1>9, Induct
<1>11. V(N) = L(N) /\ Newlines(s) = L(N) /\ N \in 0 .. N
  BY <1>1, NewlinesIs DEF V, L, N, Pair
<1>12. Together(N)
  BY <1>1, <1>10 DEF T
<1>13. HeardAll(s) = Heard(s)[N]
  BY DEF HeardAll, N
<1> QED BY <1>3, <1>11, <1>12, <1>13

-----------------------------------------------------------------------------
(* What is heard of SQL without comments is what the scanner emits.         *)

LEMMA OneCharacter ==
    ASSUME NEW c
    PROVE  (IsTight(<<c>>) <=> c \in Tight) /\ (IsSpace(<<c>>) <=> c \in Space) /\ <<c>> # << >>
BY DEF IsTight, IsSpace

\* Whether a value is emitted with the space that was held back.
HoldsSpace(em) == em.ws /\ em.last # << >> /\ ~IsTight(em.last)

LEMMA EmittedFields ==
    ASSUME NEW S, "sp" \in S, NEW em, em \in ScanState(S),
           NEW blank \in BOOLEAN, NEW chunk, chunk \in Seq(S)
    PROVE  /\ Spaced(em, blank) \in Seq(S)
           /\ Emitted(em, blank, chunk) \in ScanState(S)
           /\ Emitted(em, blank, chunk).out = Spaced(em, blank) \o chunk
           /\ Emitted(em, blank, chunk).last = chunk /\ ~Emitted(em, blank, chunk).ws
<1> DEFINE o == Spaced(em, blank)
           next == Emitted(em, blank, chunk)
<1>1. o \in Seq(S)
  <2>1. em.out \in Seq(S) /\ <<"sp">> \in Seq(S) /\ << >> \in Seq(S)
    BY DEF ScanState
  <2> QED BY <2>1, ConcatProperties DEF Spaced
<1>2. next = [out |-> o \o chunk, last |-> chunk, ws |-> FALSE]
  BY DEF Emitted, Spaced
<1> HIDE DEF o, next
<1>3. next \in ScanState(S)
  BY <1>1, <1>2, ConcatProperties DEF ScanState
<1> QED BY <1>1, <1>2, <1>3 DEF o, next

LEMMA EmitType ==
    ASSUME NEW S, "sp" \in S, NEW em, em \in ScanState(S),
           NEW chunk, chunk \in Seq(S)
    PROVE  /\ Emit(em, chunk) \in ScanState(S)
           /\ IsSpace(chunk) => /\ Emit(em, chunk).ws /\ Emit(em, chunk).out = em.out
                                /\ Emit(em, chunk).last = em.last
<1>1. CASE IsSpace(chunk)
  <2> DEFINE next == [out |-> em.out, last |-> em.last, ws |-> TRUE]
  <2>1. Emit(em, chunk) = [em EXCEPT !.ws = TRUE]
    BY <1>1, EmitIs
  <2>2. [em EXCEPT !.ws = TRUE] = next
    <3> DEFINE new == [em EXCEPT !.ws = TRUE]
    <3>1. em \in ScanState(S)
      OBVIOUS
    <3>2. new \in ScanState(S) /\ new.ws /\ new.out = em.out /\ new.last = em.last
      BY <3>1 DEF ScanState
    <3>3. new.ws = TRUE
      BY Zenon, <3>2 DEF ScanState
    <3>4. new = [out |-> new.out, last |-> new.last, ws |-> new.ws]
      <4> HIDE DEF new
      <4> QED BY <3>2 DEF ScanState
    <3> HIDE DEF new
    <3>5. new = [out |-> em.out, last |-> em.last, ws |-> TRUE]
      BY Zenon, <3>2, <3>3, <3>4
    <3> QED BY <3>5 DEF new
  <2>3. TRUE \in BOOLEAN /\ em.out \in Seq(S) /\ em.last \in Seq(S)
    BY DEF ScanState
  <2>4. next \in ScanState(S)
    BY <2>3 DEF ScanState
  <2>5. Emit(em, chunk) = next
    BY <2>1, <2>2
  <2>6. next.ws /\ next.out = em.out /\ next.last = em.last
    OBVIOUS
  <2> HIDE DEF next
  <2> QED BY <2>4, <2>5, <2>6
<1>2. CASE IsTight(chunk)
  <2>1. Emit(em, chunk) = Emitted(em, em.last \o chunk \in CommentMarkers, chunk)
    BY <1>2, EmitIs
  <2> DEFINE blank == em.last \o chunk \in CommentMarkers
  <2>2. blank \in BOOLEAN /\ Emit(em, chunk) = Emitted(em, blank, chunk)
    BY <2>1
  <2>3. ~IsSpace(chunk)
    BY <1>2 DEF IsSpace, IsTight, Space, Tight
  <2> HIDE DEF blank
  <2> QED BY <2>2, <2>3, EmittedFields
<1>3. CASE ~IsSpace(chunk) /\ ~IsTight(chunk)
  <2>1. Emit(em, chunk) = Emitted(em, HoldsSpace(em), chunk)
    BY <1>3, EmitIs DEF HoldsSpace
  <2>2. HoldsSpace(em) \in BOOLEAN
    BY DEF HoldsSpace
  <2> QED BY <1>3, <2>1, <2>2, EmittedFields
<1> QED BY <1>1, <1>2, <1>3

\* What is heard at k, beyond the first CR of CR LF.
LEMMA HeardStep ==
    ASSUME NEW S, NEW t \in Seq(S), NoCR(t), NEW k \in 1 .. Len(t)
    PROVE  Heard(t)[k] = Hear(Heard(t)[k - 1], LexerStates(t)[k - 1].mode, t[k])
<1>1. Heard(t)[k] = HeardNext(t, k, Heard(t)[k - 1])
  BY HeardExists
<1>2. t[k] # "cr" /\ (k > 1 => t[k - 1] # "cr")
  BY DEF NoCR
<1> QED BY <1>1, <1>2 DEF HeardNext, Skipping, LF

LEMMA HeardType ==
    ASSUME NEW S, "sp" \in S, "nl" \in S, NEW s \in Seq(S), NEW n \in 0 .. Len(s)
    PROVE  Heard(s)[n] \in ScanState(S)
<1> DEFINE T == {k \in Nat : k <= Len(s) => Heard(s)[k] \in ScanState(S)}
<1>0. Len(s) \in Nat
  OBVIOUS
<1>1. 0 \in T
  <2>1. Nothing \in ScanState(S)
    BY DEF Nothing, ScanState
  <2> QED BY <1>0, <2>1, HeardExists
<1>2. ASSUME NEW k \in Nat, k \in T PROVE k + 1 \in T
  <2> SUFFICES ASSUME k + 1 <= Len(s) PROVE Heard(s)[k + 1] \in ScanState(S)
    OBVIOUS
  <2> DEFINE z == Heard(s)[k]
             c == LF(s[k + 1])
             mode == LexerStates(s)[k].mode
  <2>1. z \in ScanState(S) /\ <<c>> \in Seq(S)
    BY <1>2 DEF LF
  <2>2. Heard(s)[k + 1] = z \/ Heard(s)[k + 1] = Hear(z, mode, c)
    <3>1. k + 1 \in 1 .. Len(s) /\ (k + 1) - 1 = k
      BY <1>0
    <3> QED BY <1>0, <3>1, HeardExists DEF HeardNext
  <2> HIDE DEF z, c
  <2>3. Emit(z, <<c>>) \in ScanState(S) /\ Emitted(z, FALSE, <<c>>) \in ScanState(S)
    <3>1. FALSE \in BOOLEAN
      OBVIOUS
    <3> QED BY <2>1, <3>1, EmitType, EmittedFields
  <2> QED BY <2>1, <2>2, <2>3 DEF Hear
<1> HIDE DEF T
<1>3. n \in T
  BY <1>1, <1>2, Induct
<1> QED BY <1>3 DEF T

\* The two go on alike with another chunk.
Same(em, z) ==
    /\ em.out = z.out /\ em.ws = z.ws /\ (em.last = << >> <=> z.last = << >>)
    /\ IsTight(em.last) \/ IsTight(z.last) => em.last = z.last

LEMMA SameBlank ==
    ASSUME NEW S, NEW em \in ScanState(S), NEW z \in ScanState(S), Same(em, z)
    PROVE  /\ HoldsSpace(em) = HoldsSpace(z)
           /\ \A c \in Tight : (em.last \o <<c>> \in CommentMarkers) =
                                   (z.last \o <<c>> \in CommentMarkers)
<1>1. HoldsSpace(em) = HoldsSpace(z)
  BY Zenon DEF HoldsSpace, Same
<1>2. ASSUME NEW c \in Tight
      PROVE  (em.last \o <<c>> \in CommentMarkers) = (z.last \o <<c>> \in CommentMarkers)
  <2>1. CASE em.last = z.last
    BY <2>1
  <2>2. CASE em.last # z.last
    <3>1. ~IsTight(em.last) /\ ~IsTight(z.last)
      BY <2>2 DEF Same
    <3>2. ASSUME NEW l \in Seq(S \union Tight), ~IsTight(l) PROVE l \o <<c>> \notin CommentMarkers
      <4>1. IsTight(<<"-">>) /\ IsTight(<<"/">>) /\ IsTight(<<"*">>)
        BY OneCharacter DEF Tight
      <4>2. c \in S \union Tight
        OBVIOUS
      <4> QED BY <3>2, <4>1, <4>2, MarkerIs
    <3>3. em.last \in Seq(S \union Tight) /\ z.last \in Seq(S \union Tight)
      <4>1. S \subseteq S \union Tight
        OBVIOUS
      <4> QED BY <4>1, SeqMonotonic DEF ScanState
    <3> QED BY <3>1, <3>2, <3>3
  <2> QED BY <2>1, <2>2
<1> QED BY <1>1, <1>2

LEMMA EmitSame ==
    ASSUME NEW S, "sp" \in S, NEW em \in ScanState(S), NEW z \in ScanState(S), Same(em, z),
           NEW c \in S, c \in Space \union Tight
    PROVE  Same(Emit(em, <<c>>), Emit(z, <<c>>))
<1>1. <<c>> \in Seq(S)
  OBVIOUS
<1>2. CASE c \in Space
  <2> DEFINE a == Emit(em, <<c>>)
             b == Emit(z, <<c>>)
  <2>1. /\ a.ws /\ a.out = em.out /\ a.last = em.last /\ a \in ScanState(S)
        /\ b.ws /\ b.out = z.out /\ b.last = z.last /\ b \in ScanState(S)
    BY <1>1, <1>2, EmitType, OneCharacter
  <2> HIDE DEF a, b
  <2>2. a.ws = b.ws
    BY <2>1 DEF ScanState
  <2>3. Same(a, b)
    BY <2>1, <2>2 DEF Same
  <2> QED BY <2>3 DEF a, b
<1>3. CASE c \in Tight
  <2> DEFINE blank == em.last \o <<c>> \in CommentMarkers
  <2>1. Emit(em, <<c>>) = Emitted(em, blank, <<c>>)
    BY <1>3, EmitIs, OneCharacter
  <2>2. Emit(z, <<c>>) = Emitted(z, z.last \o <<c>> \in CommentMarkers, <<c>>)
    BY <1>3, EmitIs, OneCharacter
  <2>3. blank = (z.last \o <<c>> \in CommentMarkers)
    BY <1>3, SameBlank
  <2>4. Emit(z, <<c>>) = Emitted(z, blank, <<c>>)
    BY Zenon, <2>2, <2>3
  <2>5. em.out = z.out
    BY DEF Same
  <2> HIDE DEF blank
  <2>6. Emitted(em, blank, <<c>>) = Emitted(z, blank, <<c>>)
    BY <2>5 DEF Emitted
  <2> QED BY <2>1, <2>4, <2>6 DEF Same
<1> QED BY <1>2, <1>3

LEMMA OneLong ==
    ASSUME NEW S, NEW t \in Seq(S), NEW i \in 1 .. Len(t)
    PROVE  SubSeq(t, i, i) = <<t[i]>> /\ t[i] \in S /\ <<t[i]>> \in Seq(S)
<1>1. SubSeq(t, i, i) = <<t[i]>> \o SubSeq(t, i + 1, i)
  BY SubSeqRecursiveFirst
<1>2. SubSeq(t, i + 1, i) = << >> /\ <<t[i]>> \o << >> = <<t[i]>>
  OBVIOUS
<1>3. t[i] \in S /\ <<t[i]>> \in Seq(S)
  OBVIOUS
<1> QED BY <1>1, <1>2, <1>3

\* The character after j goes on with what was taken from i to j.
GoesOn(S, t, i, j) ==
    \A o \in Seq(S) : (o \o SubSeq(t, i, j)) \o <<t[j + 1]>> = o \o SubSeq(t, i, j + 1)

LEMMA OneLonger ==
    ASSUME NEW S, NEW t \in Seq(S), NEW i \in 1 .. Len(t), NEW j \in i .. Len(t), j < Len(t)
    PROVE  GoesOn(S, t, i, j)
<1> SUFFICES ASSUME NEW o, o \in Seq(S)
             PROVE  (o \o SubSeq(t, i, j)) \o <<t[j + 1]>> = o \o SubSeq(t, i, j + 1)
  BY DEF GoesOn
<1> DEFINE a == SubSeq(t, i, j)
           b == <<t[j + 1]>>
           n == j + 1
<1>1. n \in i .. Len(t) /\ n - 1 = j /\ n \in 1 .. Len(t)
  OBVIOUS
<1>2. a \in Seq(S) /\ b \in Seq(S)
  OBVIOUS
<1>3. SubSeq(t, i, n) = a \o b
  <2> HIDE DEF n
  <2>1. SubSeq(t, i, n) = SubSeq(t, i, n - 1) \o <<t[n]>>
    BY <1>1, SubSeqRecursiveSecond
  <2> QED BY <1>1, <2>1 DEF n
<1> HIDE DEF a, b, n
<1>4. (o \o a) \o b = o \o (a \o b)
  BY <1>2, SMTT(60), ConcatAssociative
<1> QED BY <1>3, <1>4 DEF a, b, n

\* One more character of a value.
LEMMA ValueGoesOn ==
    ASSUME NEW S, "sp" \in S, NEW y, y \in ScanState(S), ~y.ws, NEW c \in S, NEW mode,
           mode = "quote" \/ c \notin Space \union Tight
    PROVE  LET next == Hear(y, mode, c)
           IN  next.out = y.out \o <<c>> /\ next.last = <<c>> /\ ~next.ws
<1>1. Hear(y, mode, c) = Emitted(y, FALSE, <<c>>)
  <2>1. CASE mode = "quote"
    BY <2>1 DEF Hear
  <2>2. CASE mode # "quote"
    <3>1. Emit(y, <<c>>) = Emitted(y, y.ws /\ y.last # << >> /\ ~IsTight(y.last), <<c>>)
      BY <2>2, EmitIs, OneCharacter
    <3>2. (y.ws /\ y.last # << >> /\ ~IsTight(y.last)) = FALSE
      OBVIOUS
    <3>3. Emit(y, <<c>>) = Emitted(y, FALSE, <<c>>)
      BY Zenon, <3>1, <3>2
    <3> QED BY <2>2, <3>3 DEF Hear
  <2> QED BY <2>1, <2>2
<1>2. FALSE \in BOOLEAN /\ <<c>> \in Seq(S) /\ y.out \in Seq(S)
  BY DEF ScanState
<1>3. Spaced(y, FALSE) = y.out
  BY <1>2 DEF Spaced
<1> DEFINE chunk == <<c>>
<1>4. Emitted(y, FALSE, chunk) = [out |-> Spaced(y, FALSE) \o chunk, last |-> chunk, ws |-> FALSE]
  BY DEF Emitted, Spaced
<1>5. Hear(y, mode, c) = Emitted(y, FALSE, chunk)
  BY <1>1
<1> HIDE DEF chunk
<1> DEFINE next == Hear(y, mode, c)
           o == Spaced(y, FALSE) \o chunk
<1>6. next = [out |-> o, last |-> chunk, ws |-> FALSE] /\ o = y.out \o chunk
  BY <1>3, <1>4, <1>5
<1> HIDE DEF next, o
<1>7. next.out = y.out \o chunk /\ next.last = chunk /\ ~next.ws
  BY <1>6
<1> QED BY <1>7 DEF chunk, next

\* A value, heard character by character.
LEMMA ValueHeard ==
    ASSUME NEW S, "sp" \in S, "nl" \in S, NEW t \in Seq(S), NoCR(t),
           NEW i \in 1 .. Len(t), NEW e \in i .. Len(t),
           t[i] \notin Space \union Tight, LexerStates(t)[i - 1].mode # "quote",
           \A m \in i + 1 .. e : \/ LexerStates(t)[m - 1].mode = "quote"
                                 \/ t[m] \notin Space \union Tight
    PROVE  /\ Heard(t)[e].out = Spaced(Heard(t)[i - 1], HoldsSpace(Heard(t)[i - 1])) \o SubSeq(t, i, e)
           /\ Heard(t)[e].last = <<t[e]>> /\ ~Heard(t)[e].ws
<1> DEFINE z == Heard(t)[i - 1]
           o == Spaced(z, HoldsSpace(z))
           Here(j) == /\ Heard(t)[j].out = o \o SubSeq(t, i, j)
                      /\ Heard(t)[j].last = <<t[j]>> /\ ~Heard(t)[j].ws
           T == {k \in Nat : k <= e - i => Here(i + k)}
<1>0. z \in ScanState(S) /\ HoldsSpace(z) \in BOOLEAN
  <2>1. i - 1 \in 0 .. Len(t)
    OBVIOUS
  <2>2. z \in ScanState(S)
    BY <2>1, HeardType
  <2>3. HoldsSpace(z) \in BOOLEAN
    BY DEF HoldsSpace
  <2> QED BY <2>2, <2>3
<1>1. o \in Seq(S)
  <2> HIDE DEF z
  <2>1. << >> \in Seq(S)
    OBVIOUS
  <2> QED BY <1>0, <2>1, EmittedFields
<1>2. Here(i)
  <2> DEFINE c == t[i]
             mode == LexerStates(t)[i - 1].mode
             blank == HoldsSpace(z)
             chunk == <<c>>
             y == Emitted(z, blank, chunk)
  <2>1. Heard(t)[i] = Hear(z, mode, c)
    BY HeardStep
  <2>2. SubSeq(t, i, i) = <<c>> /\ <<c>> \in Seq(S)
    BY OneLong
  <2>3. c \notin Space \union Tight /\ mode # "quote"
    OBVIOUS
  <2> HIDE DEF c, mode, z
  <2>4. Hear(z, mode, c) = y
    <3>1. Emit(z, <<c>>) = Emitted(z, HoldsSpace(z), <<c>>)
      BY <2>3, EmitIs, OneCharacter DEF HoldsSpace
    <3> QED BY <2>3, <3>1 DEF Hear
  <2>5. y.out = o \o chunk /\ y.last = chunk /\ ~y.ws
    <3>1. y = [out |-> o \o chunk, last |-> chunk, ws |-> FALSE]
      BY DEF Emitted, Spaced
    <3> DEFINE w == o \o chunk
    <3> HIDE DEF y, o, chunk, w
    <3>2. y = [out |-> w, last |-> chunk, ws |-> FALSE]
      BY <3>1 DEF w
    <3>3. y.out = w /\ y.last = chunk /\ ~y.ws
      BY <3>2
    <3> QED BY <3>3 DEF w
  <2> HIDE DEF y, o
  <2> QED BY <2>1, <2>2, <2>4, <2>5 DEF c
<1>3. 0 \in T
  <2>1. i + 0 = i
    OBVIOUS
  <2> HIDE DEF Here
  <2> QED BY <1>2, <2>1
<1> HIDE DEF o
<1>4. ASSUME NEW k \in Nat, k \in T PROVE k + 1 \in T
  <2> SUFFICES ASSUME k + 1 <= e - i PROVE Here(i + (k + 1))
    <3> HIDE DEF Here
    <3> QED OBVIOUS
  <2> DEFINE j == i + k
             y == Heard(t)[j]
             c == t[j + 1]
             mode == LexerStates(t)[j].mode
             a == SubSeq(t, i, j)
  <2>0. i \in Nat /\ e \in Nat /\ Len(t) \in Nat /\ i >= 1 /\ e <= Len(t)
    OBVIOUS
  <2>1. /\ j + 1 = i + (k + 1) /\ j + 1 \in 1 .. Len(t) /\ (j + 1) - 1 = j /\ j \in 0 .. Len(t)
        /\ j + 1 \in i + 1 .. e /\ j \in i .. Len(t) /\ j < Len(t)
    BY <2>0
  <2>2. Here(j)
    <3>1. k <= e - i
      BY <2>0
    <3> HIDE DEF Here
    <3> QED BY <1>4, <3>1
  <2> HIDE DEF j
  <2>3. Heard(t)[j + 1] = Hear(y, mode, c)
    BY <2>1, HeardStep
  <2>4. y \in ScanState(S) /\ c \in S
    BY <2>1, HeardType
  <2>5. ~y.ws /\ y.out = o \o a
    BY <2>2
  <2>6. mode = "quote" \/ c \notin Space \union Tight
    BY <2>1
  <2>7. (o \o a) \o <<c>> = o \o SubSeq(t, i, j + 1)
    <3>1. t \in Seq(S) /\ i \in 1 .. Len(t)
      OBVIOUS
    <3>0. j \in i .. Len(t) /\ j < Len(t)
      BY <2>1
    <3> HIDE DEF Here, T
    <3>2. GoesOn(S, t, i, j)
      BY <3>0, <3>1, OneLonger
    <3> QED BY Zenon, <1>1, <3>2 DEF GoesOn
  <2>8. ASSUME NEW n, n = Hear(y, mode, c)
        PROVE  n.out = y.out \o <<c>> /\ n.last = <<c>> /\ ~n.ws
    <3> HIDE DEF y, c, mode
    <3> QED BY <2>4, <2>5, <2>6, <2>8, ValueGoesOn
  <2> HIDE DEF y, c, mode, a
  <2>9. /\ Heard(t)[j + 1].out = y.out \o <<c>>
        /\ Heard(t)[j + 1].last = <<c>> /\ ~Heard(t)[j + 1].ws
    BY <2>3, <2>8
  <2>11. Here(j + 1)
    BY <2>5, <2>7, <2>9 DEF c
  <2> HIDE DEF Here
  <2> QED BY <2>1, <2>11
<1>5. e - i \in Nat /\ i + (e - i) = e
  OBVIOUS
<1> HIDE DEF T, Here
<1>6. e - i \in T
  BY <1>3, <1>4, <1>5, Induct
<1>7. Here(e)
  <2> USE DEF T
  <2>1. Here(i + (e - i))
    BY <1>5, <1>6
  <2> QED BY <1>5, <2>1
<1> QED BY <1>7 DEF Here, o, z

LEMMA ClosingIs ==
    ASSUME NEW S, NEW t \in Seq(S), ~ReadAll(t).comment, NEW k \in 1 .. Len(t),
           LexerStates(t)[k].mode = "closing"
    PROVE  t[k] = LexerStates(t)[k].delimiter /\ t[k] \in Quotes
<1> DEFINE x == LexerStates(t)[k - 1]
           c == t[k]
           y == LexerStates(t)[k]
<1>1. k - 1 \in 0 .. Len(t) /\ k - 1 < Len(t) /\ (k - 1) + 1 = k
  OBVIOUS
<1>2. /\ Sane(S, x) /\ Plain(x) /\ c \in S /\ y = Read(x, c)
      /\ Quoting(x, c) \/ OpensNone(x.before, c)
  BY <1>1, CommentFree
<1>3. x.mode = "quote" => x.delimiter \in Quotes
  BY <1>2 DEF Sane
<1>4. y.mode = "closing"
  OBVIOUS
<1> HIDE DEF x, y, c
<1>5. CASE Quoting(x, c)
  <2>1. /\ y.mode = IF x.mode = "quote" /\ c = x.delimiter THEN "closing" ELSE "quote"
        /\ y.delimiter = x.delimiter
    BY <1>2, <1>5, ReadGoingOn
  <2>2. x.mode = "quote" /\ c = x.delimiter
    BY <1>4, <2>1
  <2> QED BY <1>3, <2>1, <2>2 DEF c, y
<1>6. CASE ~Quoting(x, c)
  <2>1. y.mode = IF c \in Quotes THEN "quote" ELSE "code"
    BY <1>2, <1>6, ReadInCode
  <2> QED BY <1>4, <2>1
<1> QED BY <1>5, <1>6

LEMMA NoMarker ==
    ASSUME NEW S, NEW t \in Seq(S), ~ReadAll(t).comment, NEW i \in 1 .. Len(t),
           InCode(LexerStates(t)[i - 1]),
           LexerStates(t)[i - 1].mode = "closing" => LexerStates(t)[i - 1].delimiter # t[i]
    PROVE  /\ ~Pair(t, i, "-", "-") /\ ~Pair(t, i, "/", "*")
           /\ t[i] \notin Quotes => LexerStates(t)[i].mode = "code"
<1> DEFINE x == LexerStates(t)[i - 1]
           c == t[i]
           y == LexerStates(t)[i]
<1>1. i - 1 \in 0 .. Len(t) /\ i - 1 < Len(t) /\ (i - 1) + 1 = i /\ i \in 0 .. Len(t)
  OBVIOUS
<1>2. /\ Sane(S, x) /\ Plain(x) /\ c \in S /\ y = Read(x, c)
      /\ Quoting(x, c) \/ OpensNone(x.before, c)
  BY <1>1, CommentFree
<1>3. ~Quoting(x, c)
  BY DEF Quoting, InCode
<1>4. i < Len(t) => Quoting(y, t[i + 1]) \/ OpensNone(y.before, t[i + 1])
  BY <1>1, CommentFree
<1> DEFINE d == t[i + 1]
<1>5. i < Len(t) => Quoting(y, d) \/ OpensNone(y.before, d)
  BY <1>4
<1> HIDE DEF x, y, c, d
<1>6. /\ y.mode = IF c \in Quotes THEN "quote" ELSE "code"
      /\ y.before = IF c \in Tight THEN c ELSE "none"
  BY <1>2, <1>3, ReadInCode
<1>7. ~(c = "-" /\ i < Len(t) /\ d = "-") /\ ~(c = "/" /\ i < Len(t) /\ d = "*")
  BY <1>5, <1>6 DEF OpensNone, Quoting, Tight, Quotes
<1>8. ~Pair(t, i, "-", "-") /\ ~Pair(t, i, "/", "*")
  BY <1>7 DEF Pair, c, d
<1>9. c \notin Quotes => y.mode = "code"
  BY <1>6
<1> QED BY <1>8, <1>9 DEF c, y

\* All of a word is letters.
LEMMA WordLetters ==
    ASSUME NEW S, NEW t \in Seq(S), NoCR(t), NEW i \in 1 .. Len(t), IsWord(t[i])
    PROVE  \A j \in i .. ChunkEnd(t, i) : Letter(t[j])
<1> DEFINE x == First(WordEnds(t, i), Len(t) + 1)
           e == ChunkEnd(t, i)
<1>0. e \in i .. Len(t)
  BY ChunkEndRange
<1>1. e = x - 1
  BY ChunkEndIs
<1>2. \A j \in i .. e : t[j] # "cr"
  BY <1>0 DEF NoCR
<1>3. \A j \in i .. e : IsWord(t[j])
  <2>1. CASE WordEnds(t, i) = {}
    <3> HIDE DEF e
    <3> QED BY <1>0, <2>1 DEF WordEnds
  <2>2. CASE WordEnds(t, i) # {}
    <3>1. WordEnds(t, i) \in SUBSET Nat
      BY DEF WordEnds
    <3>2. \A j \in WordEnds(t, i) : x <= j
      BY <2>2, <3>1, FirstIs
    <3>3. x \in Nat
      BY <2>2, <3>1, FirstIs
    <3> HIDE DEF e, x
    <3> QED BY <1>0, <1>1, <3>2, <3>3 DEF WordEnds
  <2> QED BY <2>1, <2>2
<1> HIDE DEF e
<1>4. \A j \in i .. e : Letter(t[j])
  BY <1>2, <1>3 DEF Letter
<1> QED BY <1>4 DEF e

LEMMA ValueInside ==
    ASSUME NEW S, NEW t \in Seq(S), NoCR(t), ~ReadAll(t).comment, NEW i \in 1 .. Len(t),
           Value(t, i), InCode(LexerStates(t)[i - 1]),
           LexerStates(t)[i - 1].mode = "closing" => LexerStates(t)[i - 1].delimiter # t[i]
    PROVE  LET e == ChunkEnd(t, i)
               m == LexerStates(t)[e]
           IN  /\ e \in i .. Len(t) /\ t[i] \notin Space \union Tight
               /\ \A n \in i + 1 .. e : \/ LexerStates(t)[n - 1].mode = "quote"
                                        \/ t[n] \notin Space \union Tight
               /\ e < Len(t) => /\ t[e] \notin Tight /\ InCode(m)
                                /\ m.mode = "closing" => m.delimiter # t[e + 1]
<1> DEFINE e == ChunkEnd(t, i)
           m == LexerStates(t)[e]
<1>1. e \in i .. Len(t)
  BY ChunkEndRange
<1>2. t[i] \notin Space \union Tight
  BY NoMarker DEF Value
<1>3. ASSUME e < Len(t)
      PROVE  InCode(m) /\ (m.mode = "closing" => m.delimiter # t[e + 1])
  <2>1. ~LexerStates(t)[Len(t)].lineComment
    <3>1. Len(t) \in 0 .. Len(t)
      OBVIOUS
    <3>2. Plain(LexerStates(t)[Len(t)])
      BY <3>1, CommentFree
    <3> QED BY <3>2 DEF Plain
  <2>2. \A j \in 1 .. Len(t) : t[j] # "cr"
    BY DEF NoCR
  <2> QED BY <1>3, <2>1, <2>2, ValueRegion
<1>4. CASE t[i] \in Quotes
  <2>1. e = QuoteEnd(t, i)
    BY <1>4, ChunkEndIs
  <2>2. Quoted(t, i, i)
    <3>1. /\ LexerStates(t)[i] = Read(LexerStates(t)[i - 1], t[i]) /\ t[i] \in S
          /\ Sane(S, LexerStates(t)[i - 1])
      BY LexerStep, StatesSane
    <3> QED BY <1>4, <3>1, ReadQuote DEF Quoted
  <2>3. e < Len(t) => Closed(t, i, e)
    BY <2>1, <2>2, QuoteRegion
  <2>4. Inside(t, i, i + 1, e)
    BY <2>1, <2>2, QuoteRegion
  <2> HIDE DEF e
  <2>5. t[i] \notin Space \union Tight
    BY <1>2
  <2>6. \A n \in i + 1 .. e : LexerStates(t)[n - 1].mode = "quote" \/ t[n] \notin Space \union Tight
    BY <2>4, <2>5 DEF Inside
  <2>7. ASSUME e < Len(t) PROVE t[e] \notin Tight
    <3>1. LexerStates(t)[e].mode = "closing" /\ e \in 1 .. Len(t)
      BY <1>1, <2>3, <2>7 DEF Closed
    <3>2. t[e] \in Quotes
      BY <3>1, ClosingIs
    <3> QED BY <3>2 DEF Quotes, Tight
  <2> QED BY <1>1, <1>2, <1>3, <2>6, <2>7 DEF e
<1>5. CASE IsWord(t[i])
  <2>1. \A j \in i .. e : Letter(t[j])
    BY <1>5, WordLetters
  <2> HIDE DEF e
  <2>2. \A j \in i .. e : t[j] \notin Space \union Tight
    BY <2>1 DEF Letter, IsWord
  <2>3. \A n \in i + 1 .. e : t[n] \notin Space \union Tight
    BY <2>2
  <2>4. t[e] \notin Tight
    BY <1>1, <2>2
  <2> QED BY <1>1, <1>2, <1>3, <2>3, <2>4 DEF e
<1>6. t[i] \in Quotes \/ IsWord(t[i])
  BY <1>2 DEF IsWord
<1> QED BY <1>4, <1>5, <1>6

\* Before the chunk at i the scanner has emitted what was heard.
HeardTo(S, t, i, em) ==
    /\ em \in ScanState(S) /\ em.out = Heard(t)[i - 1].out
    /\ i <= Len(t) =>
           /\ Same(em, Heard(t)[i - 1]) /\ InCode(LexerStates(t)[i - 1])
           /\ LexerStates(t)[i - 1].mode = "closing" => LexerStates(t)[i - 1].delimiter # t[i]

LEMMA OneCharacterHeard ==
    ASSUME NEW S, "sp" \in S, "nl" \in S, NEW t \in Seq(S), NoCR(t), ~ReadAll(t).comment,
           NEW i \in 1 .. Len(t), NEW em, HeardTo(S, t, i, em), t[i] \in Space \union Tight
    PROVE  HeardTo(S, t, i + 1, Emit(em, <<t[i]>>))
<1> DEFINE c == t[i]
           x == LexerStates(t)[i - 1]
           z == Heard(t)[i - 1]
           next == Emit(em, <<c>>)
<1>0. i \in Nat /\ i <= Len(t) /\ i - 1 \in 0 .. Len(t) /\ (i + 1) - 1 = i /\ c \in S
  OBVIOUS
<1>1. em \in ScanState(S) /\ Same(em, z) /\ InCode(x) /\ (x.mode = "closing" => x.delimiter # c)
  BY <1>0 DEF HeardTo
<1>2. z \in ScanState(S)
  BY <1>0, HeardType
<1>3. Heard(t)[i] = Emit(z, <<c>>)
  <2>1. Heard(t)[i] = Hear(z, x.mode, c)
    BY HeardStep
  <2>2. x.mode # "quote"
    BY <1>1 DEF InCode
  <2> QED BY <2>1, <2>2 DEF Hear
<1>4. LexerStates(t)[i].mode = "code"
  <2>1. c \notin Quotes
    BY DEF Space, Tight, Quotes
  <2> QED BY <1>1, <2>1, NoMarker
<1>5. c \in Space \union Tight
  OBVIOUS
<1> HIDE DEF c, x, z
<1>6. next \in ScanState(S)
  <2> DEFINE chunk == <<c>>
  <2>1. chunk \in Seq(S)
    BY <1>0
  <2> HIDE DEF chunk
  <2>2. Emit(em, chunk) \in ScanState(S)
    BY <1>1, <2>1, EmitType
  <2> QED BY <2>2 DEF chunk
<1>7. Same(next, Heard(t)[i])
  <2>1. Same(Emit(em, <<c>>), Emit(z, <<c>>))
    BY <1>0, <1>1, <1>2, <1>5, EmitSame
  <2> QED BY <1>3, <2>1
<1> HIDE DEF next
<1>8. next.out = Heard(t)[i].out
  BY <1>7 DEF Same
<1>9. HeardTo(S, t, i + 1, next)
  BY <1>0, <1>4, <1>6, <1>7, <1>8 DEF HeardTo, InCode
<1> QED BY <1>9 DEF next, c

LEMMA ValueChunkHeard ==
    ASSUME NEW S, "sp" \in S, "nl" \in S, NEW t \in Seq(S), NoCR(t), ~ReadAll(t).comment,
           NEW i \in 1 .. Len(t), NEW em, HeardTo(S, t, i, em), Value(t, i)
    PROVE  HeardTo(S, t, ChunkEnd(t, i) + 1, Emit(em, SubSeq(t, i, ChunkEnd(t, i))))
<1> DEFINE c == t[i]
           x == LexerStates(t)[i - 1]
           z == Heard(t)[i - 1]
           e == ChunkEnd(t, i)
           chunk == SubSeq(t, i, e)
           next == Emit(em, chunk)
           m == LexerStates(t)[e]
           h == Heard(t)[e]
           o == Spaced(z, HoldsSpace(z))
<1>0. i \in Nat /\ i <= Len(t) /\ i - 1 \in 0 .. Len(t) /\ c \in S
  OBVIOUS
<1>1. em \in ScanState(S) /\ Same(em, z) /\ InCode(x) /\ (x.mode = "closing" => x.delimiter # c)
  BY <1>0 DEF HeardTo
<1>2. z \in ScanState(S)
  BY <1>0, HeardType
<1>3. /\ e \in i .. Len(t) /\ c \notin Space \union Tight
      /\ \A n \in i + 1 .. e : \/ LexerStates(t)[n - 1].mode = "quote"
                               \/ t[n] \notin Space \union Tight
      /\ e < Len(t) => t[e] \notin Tight /\ InCode(m) /\ (m.mode = "closing" => m.delimiter # t[e + 1])
  BY <1>1, ValueInside
<1>4. chunk \in Seq(S) /\ chunk # << >> /\ ~IsSpace(chunk) /\ ~IsTight(chunk)
  BY ChunkKinds
<1>5. x.mode # "quote"
  BY <1>1 DEF InCode
<1>6. h.out = o \o chunk /\ h.last = <<t[e]>> /\ ~h.ws
  <2> HIDE DEF e
  <2> QED BY <1>3, <1>5, ValueHeard DEF e
<1>7. h \in ScanState(S)
  <2>1. e \in 0 .. Len(t)
    BY <1>0, <1>3
  <2> QED BY <2>1, HeardType
<1>8. (e + 1) - 1 = e /\ (e + 1 <= Len(t) => e < Len(t)) /\ e \in 1 .. Len(t)
  BY <1>0, <1>3
<1>9. IsTight(<<t[e]>>) <=> t[e] \in Tight
  BY OneCharacter
<1> HIDE DEF c, x, z, e, chunk, m, h
<1>10. HoldsSpace(em) = HoldsSpace(z) /\ em.out = z.out
  BY <1>1, <1>2, SameBlank DEF Same
<1>11. next = [out |-> o \o chunk, last |-> chunk, ws |-> FALSE]
  <2> DEFINE b == HoldsSpace(em)
  <2>1. next = Emitted(em, b, chunk)
    BY <1>4, EmitIs DEF HoldsSpace
  <2>2. Emitted(em, b, chunk) = [out |-> Spaced(em, b) \o chunk, last |-> chunk, ws |-> FALSE]
    BY DEF Emitted, Spaced
  <2> HIDE DEF b, next
  <2>3. Spaced(em, b) = Spaced(z, b)
    BY <1>10 DEF Spaced
  <2>4. b = HoldsSpace(z)
    BY Zenon, <1>10 DEF b
  <2>5. Spaced(em, b) = o
    BY Zenon, <2>3, <2>4
  <2> HIDE DEF o
  <2> QED BY <2>1, <2>2, <2>5
<1>12. o \in Seq(S)
  <2> DEFINE b == HoldsSpace(z)
  <2>1. b \in BOOLEAN /\ << >> \in Seq(S)
    BY DEF HoldsSpace
  <2> HIDE DEF b
  <2>2. Spaced(z, b) \in Seq(S)
    BY <1>2, <2>1, EmittedFields
  <2> QED BY <2>2 DEF b
<1> DEFINE w == o \o chunk
<1>13. w \in Seq(S)
  <2> HIDE DEF o
  <2> QED BY <1>4, <1>12, ConcatProperties
<1>14. h.out = w /\ next = [out |-> w, last |-> chunk, ws |-> FALSE]
  BY <1>6, <1>11
<1> HIDE DEF next, w, o
<1>15. next \in ScanState(S) /\ next.out = w /\ next.last = chunk /\ ~next.ws
  BY <1>4, <1>13, <1>14 DEF ScanState
<1>16. next.ws = h.ws
  <2>1. next.ws \in BOOLEAN /\ h.ws \in BOOLEAN
    BY <1>7, <1>15 DEF ScanState
  <2> QED BY Zenon, <1>6, <1>15, <2>1
<1>17. ASSUME e < Len(t) PROVE Same(next, h)
  <2>1. ~IsTight(<<t[e]>>)
    BY <1>3, <1>9, <1>17
  <2>2. ~IsTight(h.last) /\ ~IsTight(next.last)
    BY <1>4, <1>6, <1>15, <2>1
  <2>3. h.last # << >> /\ next.last # << >>
    BY <1>4, <1>6, <1>15
  <2>4. h.out = next.out
    BY <1>14, <1>15
  <2> QED BY <1>16, <2>2, <2>3, <2>4 DEF Same
<1>18. HeardTo(S, t, e + 1, next)
  <2>1. next \in ScanState(S) /\ next.out = Heard(t)[(e + 1) - 1].out
    BY <1>8, <1>14, <1>15 DEF h
  <2>2. ASSUME e + 1 <= Len(t)
        PROVE  /\ Same(next, Heard(t)[(e + 1) - 1]) /\ InCode(LexerStates(t)[(e + 1) - 1])
               /\ LexerStates(t)[(e + 1) - 1].mode = "closing"
                      => LexerStates(t)[(e + 1) - 1].delimiter # t[e + 1]
    BY <1>3, <1>8, <1>17, <2>2 DEF h, m
  <2> QED BY <2>1, <2>2 DEF HeardTo
<1> QED BY <1>18 DEF next, chunk, e

\* The scanner emits what is heard.
LEMMA ChunksHeard ==
    ASSUME NEW S, "sp" \in S, "nl" \in S, NEW t \in Seq(S), NoCR(t), ~ReadAll(t).comment
    PROVE  Scanned(Chunks(t)).out = HeardAll(t).out
<1> DEFINE chunks == Chunks(t)
           scan == ScanStates(chunks)
           At(k, i) == ReachedBy(S, t, k, i) /\ HeardTo(S, t, i, scan[k])
           T == {k \in Nat : k <= Len(chunks) => \E i \in 1 .. Len(t) + 1 : At(k, i)}
<1>1. Len(chunks) \in Nat
  BY FirstChunk
<1>2. /\ scan[0] = Nothing
      /\ \A k \in 1 .. Len(chunks) : scan[k] = Emit(scan[k - 1], chunks[k])
  BY <1>1, ScanStatesExist
<1> HIDE DEF scan, chunks
<1>3. 0 \in T
  <2>1. ReachedBy(S, t, 0, 1)
    BY FirstChunk
  <2>2. HeardTo(S, t, 1, scan[0])
    <3>1. Nothing \in ScanState(S)
      BY DEF Nothing, ScanState
    <3>2. Heard(t)[0] = Nothing /\ LexerStates(t)[0] = Lexer /\ 1 - 1 = 0
      BY HeardExists, LexerStep
    <3>3. Same(Nothing, Nothing)
      BY DEF Same
    <3>4. Lexer.mode = "code" /\ InCode(Lexer)
      BY DEF Lexer, InCode
    <3> QED BY <1>2, <3>1, <3>2, <3>3, <3>4 DEF HeardTo
  <2> QED BY <2>1, <2>2
<1>4. ASSUME NEW k \in Nat, k \in T PROVE k + 1 \in T
  <2> SUFFICES ASSUME k + 1 <= Len(chunks) PROVE \E i \in 1 .. Len(t) + 1 : At(k + 1, i)
    OBVIOUS
  <2>1. k <= Len(chunks) /\ k < Len(chunks) /\ k + 1 \in 1 .. Len(chunks) /\ (k + 1) - 1 = k
    BY <1>1
  <2>2. PICK i \in 1 .. Len(t) + 1 : At(k, i)
    BY <1>4, <2>1
  <2> DEFINE e == ChunkEnd(t, i)
             em == scan[k]
             chunk == SubSeq(t, i, e)
  <2>3. i <= Len(t) /\ chunks[k + 1] = chunk /\ ReachedBy(S, t, k + 1, e + 1)
    BY <2>1, <2>2, NextChunk DEF chunks
  <2>4. i \in 1 .. Len(t) /\ e \in i .. Len(t)
    BY <2>3, ChunkEndRange
  <2>5. scan[k + 1] = Emit(em, chunk)
    BY <1>2, <2>1, <2>3
  <2>6. HeardTo(S, t, e + 1, scan[k + 1])
    <3>1. CASE ~Value(t, i)
      <4>1. e = i /\ chunk = <<t[i]>> /\ t[i] \in Space \union Tight
        BY <2>4, <3>1, ChunkKinds
      <4> QED BY <2>2, <2>4, <2>5, <4>1, OneCharacterHeard
    <3>2. CASE Value(t, i)
      BY <2>2, <2>4, <2>5, <3>2, ValueChunkHeard
    <3> QED BY <3>1, <3>2
  <2>7. e + 1 \in 1 .. Len(t) + 1
    BY <2>4
  <2> HIDE DEF e
  <2> QED BY <2>3, <2>6, <2>7
<1> HIDE DEF T
<1>5. Len(chunks) \in T
  BY <1>1, <1>3, <1>4, Induct
<1>6. PICK i \in 1 .. Len(t) + 1 : At(Len(chunks), i)
  BY <1>1, <1>5 DEF T
<1>7. i = Len(t) + 1
  BY <1>6, LastChunk DEF chunks
<1>8. Scanned(Chunks(t)) = scan[Len(chunks)]
  BY ScannedIs DEF scan, chunks
<1>9. (Len(t) + 1) - 1 = Len(t)
  OBVIOUS
<1> QED BY <1>6, <1>7, <1>8, <1>9 DEF HeardTo, HeardAll

\* The key is what is heard.
LEMMA NormHeard ==
    ASSUME NEW S, "sp" \in S, "nl" \in S, NEW s \in Seq(S), ~ReadAll(s).comment
    PROVE  Norm(s) = HeardAll(s).out
<1> DEFINE t == Newlines(s)
<1>1. t \in Seq(S) /\ NoCR(t) /\ Plain(ReadAll(t)) /\ HeardAll(t) = HeardAll(s)
  BY LinesHeard
<1>2. ~ReadAll(t).comment
  BY <1>1 DEF Plain
<1> HIDE DEF t
<1>3. Scanned(Chunks(t)).out = HeardAll(t).out
  BY <1>1, <1>2, ChunksHeard
<1> QED BY <1>1, <1>3 DEF Norm, t

-----------------------------------------------------------------------------
(* One space more.                                                          *)

OneMore(S, s, p, c, spaced) ==
    /\ spaced \in Seq(S) /\ Len(spaced) = Len(s) + 1
    /\ \A k \in 1 .. p : spaced[k] = s[k]
    /\ spaced[p + 1] = c
    /\ \A k \in p + 2 .. Len(s) + 1 : spaced[k] = s[k - 1]

LEMMA WithOneMore ==
    ASSUME NEW S, NEW s \in Seq(S), NEW p \in 0 .. Len(s), NEW c \in S,
           NEW spaced, spaced = SpacedAt(s, p, c)
    PROVE  OneMore(S, s, p, c, spaced)
<1> DEFINE a == SubSeq(s, 1, p)
           b == <<c>>
           d == SubSeq(s, p + 1, Len(s))
           N == Len(s)
           w == (a \o b) \o d
<1>0. N \in Nat /\ p \in Nat /\ p <= N
  OBVIOUS
<1>1. a \in Seq(S) /\ Len(a) = p /\ \A k \in 1 .. p : a[k] = s[k]
  OBVIOUS
<1>2. b \in Seq(S) /\ Len(b) = 1 /\ b[1] = c
  OBVIOUS
<1>3. d \in Seq(S) /\ Len(d) = N - p /\ \A k \in 1 .. N - p : d[k] = s[p + k]
  OBVIOUS
<1> HIDE DEF a, b, d, N
<1> DEFINE e == a \o b
<1>4. /\ e \in Seq(S) /\ Len(e) = p + 1
      /\ \A k \in 1 .. p + 1 : e[k] = IF k <= p THEN a[k] ELSE b[k - p]
  <2>1. a \o b \in Seq(S) /\ Len(a \o b) = Len(a) + Len(b)
        /\ \A k \in 1 .. Len(a) + Len(b) : (a \o b)[k] = IF k <= Len(a) THEN a[k] ELSE b[k - Len(a)]
    BY <1>1, <1>2, ConcatProperties
  <2>2. Len(a) + Len(b) = p + 1
    BY <1>0, <1>1, <1>2
  <2> HIDE DEF e
  <2> QED BY <1>1, <2>1, <2>2 DEF e
<1>5. e[p + 1] = c /\ \A k \in 1 .. p : e[k] = s[k]
  <2>1. (p + 1) - p = 1 /\ p + 1 \in 1 .. p + 1 /\ ~(p + 1 <= p)
    BY <1>0
  <2>2. \A k \in 1 .. p : k \in 1 .. p + 1 /\ k <= p
    BY <1>0
  <2> QED BY <1>1, <1>2, <1>4, <2>1, <2>2
<1> HIDE DEF e
<1>6. /\ w \in Seq(S) /\ Len(w) = N + 1
      /\ \A k \in 1 .. N + 1 : w[k] = IF k <= p + 1 THEN e[k] ELSE d[k - (p + 1)]
  <2>1. e \o d \in Seq(S) /\ Len(e \o d) = Len(e) + Len(d)
        /\ \A k \in 1 .. Len(e) + Len(d) : (e \o d)[k] = IF k <= Len(e) THEN e[k] ELSE d[k - Len(e)]
    BY <1>3, <1>4, ConcatProperties
  <2>2. Len(e) + Len(d) = N + 1
    BY <1>0, <1>3, <1>4
  <2> QED BY <1>4, <2>1, <2>2 DEF e
<1> HIDE DEF w
<1>7. w[p + 1] = c /\ \A k \in 1 .. p : w[k] = s[k]
  BY <1>0, <1>5, <1>6
<1>8. ASSUME NEW k \in p + 2 .. N + 1 PROVE w[k] = s[k - 1]
  <2> DEFINE j == k - (p + 1)
  <2>1. k \in 1 .. N + 1 /\ ~(k <= p + 1) /\ j \in 1 .. N - p /\ p + j = k - 1
    BY <1>0
  <2>2. w[k] = d[j]
    BY <1>6, <2>1
  <2> HIDE DEF j
  <2>3. d[j] = s[p + j]
    BY <1>3, <2>1
  <2> QED BY <2>1, <2>2, <2>3
<1>9. spaced = w
  BY DEF SpacedAt, w, e, a, b, d, N
<1> QED BY <1>6, <1>7, <1>8, <1>9 DEF N, OneMore

-----------------------------------------------------------------------------
(* In a quoted region the space makes a token longer.                       *)

Longer(a, b, n) == Len(a) = Len(b) /\ n \in 1 .. Len(a) /\ Len(b[n]) = Len(a[n]) + 1

\* The n-th token of y has one character more than that of x.
Differ(x, y, n) ==
    /\ x.token = << >> <=> y.token = << >>
    /\ \/ Longer(x.tokens, y.tokens, n)
       \/ /\ Len(x.tokens) = n - 1 /\ Len(y.tokens) = n - 1
          /\ x.token # << >> /\ Len(y.token) = Len(x.token) + 1

LEMMA LongerAppend ==
    ASSUME NEW R, NEW a, NEW b, a \in Seq(R), b \in Seq(R), NEW n \in Nat, Longer(a, b, n),
           NEW u \in R, NEW v \in R
    PROVE  Longer(Append(a, u), Append(b, v), n)
<1>1. Len(a) \in Nat /\ Len(a) = Len(b) /\ n \in 1 .. Len(a)
  BY DEF Longer
<1>2. /\ Len(Append(a, u)) = Len(a) + 1 /\ Append(a, u)[n] = a[n]
      /\ Len(Append(b, v)) = Len(b) + 1 /\ Append(b, v)[n] = b[n]
  BY <1>1, AppendProperties
<1> QED BY <1>1, <1>2 DEF Longer

LEMMA DoneLonger ==
    ASSUME NEW S, NEW x \in LexerState(S), NEW y \in LexerState(S), NEW n \in Nat, Differ(x, y, n)
    PROVE  Longer(Done(x), Done(y), n)
<1> DEFINE R == Seq(S)
           a == x.tokens
           b == y.tokens
           u == x.token
           v == y.token
<1>1. a \in Seq(R) /\ b \in Seq(R) /\ u \in R /\ v \in R
  BY DEF LexerState
<1>2. u = << >> <=> v = << >>
  BY DEF Differ
<1>3. \/ Longer(a, b, n)
      \/ Len(a) = n - 1 /\ Len(b) = n - 1 /\ u # << >> /\ Len(v) = Len(u) + 1
  BY DEF Differ
<1>4. /\ Done(x) = IF u = << >> THEN a ELSE Append(a, u)
      /\ Done(y) = IF v = << >> THEN b ELSE Append(b, v)
  BY DEF Done
<1> HIDE DEF R, a, b, u, v
<1>5. CASE u = << >>
  BY <1>2, <1>3, <1>4, <1>5
<1>6. CASE u # << >> /\ Longer(a, b, n)
  <2>1. Longer(Append(a, u), Append(b, v), n)
    BY <1>1, <1>6, LongerAppend
  <2> QED BY <1>2, <1>4, <1>6, <2>1
<1>7. CASE u # << >> /\ ~Longer(a, b, n)
  <2>1. Len(a) = n - 1 /\ Len(b) = n - 1 /\ Len(v) = Len(u) + 1 /\ (n - 1) + 1 = n
    BY <1>3, <1>7
  <2>2. /\ Len(Append(a, u)) = Len(a) + 1 /\ Append(a, u)[Len(a) + 1] = u
        /\ Len(Append(b, v)) = Len(b) + 1 /\ Append(b, v)[Len(b) + 1] = v
    BY <1>1, AppendProperties
  <2>3. Len(a) \in Nat
    BY <1>1
  <2>4. n \in 1 .. n
    BY <2>1, <2>3
  <2>5. Longer(Append(a, u), Append(b, v), n)
    BY <2>1, <2>2, <2>4 DEF Longer
  <2> QED BY <1>2, <1>4, <1>7, <2>5
<1> QED BY <1>5, <1>6, <1>7

LEMMA OneAppended ==
    ASSUME NEW S, NEW a, a \in Seq(S), NEW c \in S, NEW b, b = Append(a, c)
    PROVE  b # << >> /\ Len(b) = Len(a) + 1 /\ Len(a) \in Nat
OBVIOUS

LEMMA DifferGoesOn ==
    ASSUME NEW S, NEW x \in LexerState(S), NEW y \in LexerState(S), NEW n \in Nat, Differ(x, y, n),
           NEW c \in S, NEW u, NEW v,
           u.tokens = x.tokens, u.token = Append(x.token, c),
           v.tokens = y.tokens, v.token = Append(y.token, c),
           Len(x.tokens) = n - 1 => x.token # << >>
    PROVE  Differ(u, v, n)
<1> DEFINE a == x.token
           b == y.token
           aa == Append(a, c)
           bb == Append(b, c)
<1>1. a \in Seq(S) /\ b \in Seq(S)
  BY DEF LexerState
<1>2. /\ aa # << >> /\ Len(aa) = Len(a) + 1 /\ bb # << >> /\ Len(bb) = Len(b) + 1
      /\ Len(a) \in Nat /\ Len(b) \in Nat
  <2>1. aa = Append(a, c) /\ bb = Append(b, c)
    OBVIOUS
  <2> HIDE DEF a, b, aa, bb
  <2>2. aa # << >> /\ Len(aa) = Len(a) + 1 /\ Len(a) \in Nat
    BY <1>1, <2>1, OneAppended
  <2>3. bb # << >> /\ Len(bb) = Len(b) + 1 /\ Len(b) \in Nat
    BY <1>1, <2>1, OneAppended
  <2> QED BY <2>2, <2>3
<1>3. u.token = aa /\ v.token = bb
  OBVIOUS
<1> HIDE DEF aa, bb
<1>4. CASE Longer(x.tokens, y.tokens, n)
  BY <1>2, <1>3, <1>4 DEF Differ
<1>5. CASE ~Longer(x.tokens, y.tokens, n)
  <2>1. Len(x.tokens) = n - 1 /\ Len(y.tokens) = n - 1 /\ Len(b) = Len(a) + 1
    BY <1>5 DEF Differ
  <2>2. Len(bb) = Len(aa) + 1
    BY <1>2, <2>1
  <2> QED BY <1>2, <1>3, <2>1, <2>2 DEF Differ
<1> QED BY <1>4, <1>5

\* A token that is longer stays longer.
LEMMA DifferRead ==
    ASSUME NEW S, NEW x, Sane(S, x), Plain(x), NEW y, Sane(S, y), Plain(y), Sync(x, y),
           NEW c \in S, Quoting(x, c) \/ OpensNone(x.before, c),
           NEW n \in Nat, Differ(x, y, n)
    PROVE  Differ(Read(x, c), Read(y, c), n)
<1> DEFINE u == Read(x, c)
           v == Read(y, c)
           R == Seq(S)
<1>1. x \in LexerState(S) /\ y \in LexerState(S) /\ x.mode = y.mode
  BY DEF Sane, Sync
<1>2. (Quoting(y, c) <=> Quoting(x, c)) /\ (Quoting(y, c) \/ OpensNone(y.before, c))
  BY DEF Quoting, Sync
<1>3. Longer(Done(x), Done(y), n) /\ Done(x) \in Seq(R) /\ Done(y) \in Seq(R) /\ <<c>> \in R
  BY <1>1, DoneLonger, DoneType
<1>4. CASE Quoting(x, c)
  <2>1. u.tokens = x.tokens /\ u.token = Append(x.token, c)
    BY <1>4, ReadGoingOn
  <2>2. v.tokens = y.tokens /\ v.token = Append(y.token, c)
    BY <1>2, <1>4, ReadGoingOn
  <2>3. x.token # << >>
    BY <1>4 DEF Plain, Quoting
  <2> HIDE DEF u, v
  <2>4. Differ(u, v, n)
    BY <1>1, <2>1, <2>2, <2>3, DifferGoesOn
  <2> QED BY <2>4 DEF u, v
<1>5. CASE ~Quoting(x, c)
  <2>1. /\ c \in Space \union {"cr"} => u.tokens = Done(x) /\ u.token = << >>
        /\ c \in Tight => u.tokens = Append(Done(x), <<c>>) /\ u.token = << >>
        /\ c \in Quotes => u.tokens = Done(x) /\ u.token = <<c>>
        /\ Letter(c) /\ x.mode = "code" => u.tokens = x.tokens /\ u.token = Append(x.token, c)
        /\ Letter(c) /\ x.mode = "closing" => u.tokens = Done(x) /\ u.token = <<c>>
    BY <1>5, ReadInCode
  <2>2. /\ c \in Space \union {"cr"} => v.tokens = Done(y) /\ v.token = << >>
        /\ c \in Tight => v.tokens = Append(Done(y), <<c>>) /\ v.token = << >>
        /\ c \in Quotes => v.tokens = Done(y) /\ v.token = <<c>>
        /\ Letter(c) /\ y.mode = "code" => v.tokens = y.tokens /\ v.token = Append(y.token, c)
        /\ Letter(c) /\ y.mode = "closing" => v.tokens = Done(y) /\ v.token = <<c>>
    BY <1>2, <1>5, ReadInCode
  <2> DEFINE one == <<c>>
             a == Done(x)
             b == Done(y)
  <2>3. Longer(a, b, n) /\ a \in Seq(R) /\ b \in Seq(R) /\ one \in R
    BY <1>3
  <2> HIDE DEF u, v
  <2>4. x.mode \in {"code", "closing"}
    BY <1>5 DEF Plain, Quoting
  <2>5. CASE Letter(c) /\ x.mode = "code"
    <3>1. /\ u.tokens = x.tokens /\ u.token = Append(x.token, c)
          /\ v.tokens = y.tokens /\ v.token = Append(y.token, c)
      BY <1>1, <2>1, <2>2, <2>5
    <3>2. Len(x.tokens) = n - 1 => x.token # << >>
      <4>1. CASE Longer(x.tokens, y.tokens, n)
        <5>1. n \in 1 .. Len(x.tokens) /\ Len(x.tokens) \in Nat
          BY <1>1, <4>1 DEF Longer, LexerState
        <5> QED BY <5>1
      <4>2. CASE ~Longer(x.tokens, y.tokens, n)
        BY <4>2 DEF Differ
      <4> QED BY <4>1, <4>2
    <3>3. Differ(u, v, n)
      BY <1>1, <3>1, <3>2, DifferGoesOn
    <3> QED BY <3>3 DEF u, v
  <2> HIDE DEF one, a, b
  <2>6. CASE c \in Tight
    <3>1. Longer(Append(a, one), Append(b, one), n)
      <4> HIDE DEF R
      <4> QED BY <2>3, LongerAppend
    <3>2. /\ u.tokens = Append(a, one) /\ u.token = << >>
          /\ v.tokens = Append(b, one) /\ v.token = << >>
      BY <2>1, <2>2, <2>6 DEF a, b, one
    <3>3. Differ(u, v, n)
      BY <3>1, <3>2 DEF Differ
    <3> QED BY <3>3 DEF u, v
  <2>7. CASE c \in Space \union {"cr"} \/ c \in Quotes \/ (Letter(c) /\ x.mode = "closing")
    <3>1. u.tokens = a /\ v.tokens = b /\ u.token = v.token
      BY <1>1, <2>1, <2>2, <2>7 DEF a, b, one
    <3>2. Differ(u, v, n)
      BY <2>3, <3>1 DEF Differ
    <3> QED BY <3>2 DEF u, v
  <2>8. c \in Quotes \/ c \in Space \union {"cr"} \/ c \in Tight \/ Letter(c)
    BY DEF Letter, IsWord
  <2> QED BY <2>4, <2>5, <2>6, <2>7, <2>8
<1> QED BY <1>4, <1>5

\* The two lexers and what they read, one character apart from p on.
OneApart(S, s, p, c, w) ==
    /\ OneMore(S, s, p, c, w) /\ Len(s) \in Nat
    /\ LexerStates(w)[p] = LexerStates(s)[p] /\ Heard(w)[p] = Heard(s)[p]
    /\ LexerStates(w)[p + 1] = Read(LexerStates(s)[p], c)
    /\ \A k \in p + 2 .. Len(s) + 1 : LexerStates(w)[k] = Read(LexerStates(w)[k - 1], s[k - 1])
    /\ ReadAll(s) = LexerStates(s)[Len(s)] /\ ReadAll(w) = LexerStates(w)[Len(s) + 1]

LEMMA ReadOneApart ==
    ASSUME NEW S, NEW s \in Seq(S), NEW p \in 0 .. Len(s), NEW c \in S,
           NEW w, w = SpacedAt(s, p, c)
    PROVE  OneApart(S, s, p, c, w)
<1> DEFINE N == Len(s)
<1>0. N \in Nat /\ p \in 0 .. N
  OBVIOUS
<1>a. OneMore(S, s, p, c, w)
  BY WithOneMore
<1>1. /\ w \in Seq(S) /\ Len(w) = N + 1 /\ w[p + 1] = c
      /\ \A k \in 1 .. p : w[k] = s[k]
      /\ \A k \in p + 2 .. N + 1 : w[k] = s[k - 1]
  BY <1>a DEF OneMore
<1>2. LexerStates(w)[p] = LexerStates(s)[p] /\ Heard(w)[p] = Heard(s)[p]
  <2>1. p \in Nat /\ p <= Len(w) /\ p <= Len(s) /\ \A k \in 1 .. p : w[k] = s[k]
    BY <1>0, <1>1
  <2> QED BY <1>1, <2>1, SameStart, HeardSameStart
<1>3. ReadAll(s) = LexerStates(s)[N] /\ ReadAll(w) = LexerStates(w)[N + 1]
  BY <1>1, ReadingIs
<1>4. LexerStates(w)[p + 1] = Read(LexerStates(s)[p], c)
  <2>1. p + 1 \in 1 .. Len(w) /\ (p + 1) - 1 = p
    BY <1>0, <1>1
  <2>2. LexerStates(w)[p + 1] = Read(LexerStates(w)[(p + 1) - 1], w[p + 1])
    BY <1>1, <2>1, LexerStep
  <2> QED BY <1>1, <1>2, <2>1, <2>2
<1>5. ASSUME NEW k \in p + 2 .. N + 1
      PROVE  w[k] = s[k - 1] /\ LexerStates(w)[k] = Read(LexerStates(w)[k - 1], s[k - 1])
  <2>1. k \in 1 .. Len(w)
    BY <1>0, <1>1
  <2>2. w[k] = s[k - 1]
    BY <1>1
  <2>3. LexerStates(w)[k] = Read(LexerStates(w)[k - 1], w[k])
    BY <1>1, <2>1, LexerStep
  <2> QED BY <2>2, <2>3
<1> QED BY <1>a, <1>0, <1>2, <1>3, <1>4, <1>5 DEF OneApart

LEMMA SpaceInQuotes ==
    ASSUME NEW S, NEW s \in Seq(S), ~ReadAll(s).comment, NEW p \in 0 .. Len(s),
           NEW c \in S, c \in Space, LexerStates(s)[p].mode = "quote"
    PROVE  Pieces(SpacedAt(s, p, c)) # Pieces(s)
<1>w. PICK w : w = SpacedAt(s, p, c)
  OBVIOUS
<1> DEFINE N == Len(s)
           A(k) == LexerStates(s)[k]
           B(k) == LexerStates(w)[k]
           n == Len(A(p).tokens) + 1
           Apart(k) == /\ Sane(S, B(k + 1)) /\ Plain(B(k + 1))
                       /\ Sync(A(k), B(k + 1)) /\ Differ(A(k), B(k + 1), n)
           T == {j \in Nat : j <= N - p => Apart(p + j)}
<1>0. p \in 0 .. N
  OBVIOUS
<1>1. /\ w \in Seq(S) /\ Len(w) = N + 1 /\ N \in Nat
      /\ B(p + 1) = Read(A(p), c)
      /\ \A k \in p + 2 .. N + 1 : B(k) = Read(B(k - 1), s[k - 1])
      /\ ReadAll(s) = A(N) /\ ReadAll(w) = B(N + 1)
  <2>1. OneApart(S, s, p, c, w)
    BY <1>w, ReadOneApart
  <2> QED BY <2>1 DEF OneApart, OneMore
<1>2. ASSUME NEW k \in 0 .. N
      PROVE  /\ Sane(S, A(k)) /\ Plain(A(k))
             /\ k < N => /\ s[k + 1] \in S /\ A(k + 1) = Read(A(k), s[k + 1])
                         /\ Quoting(A(k), s[k + 1]) \/ OpensNone(A(k).before, s[k + 1])
  BY CommentFree
<1>3. A(p).mode = "quote"
  OBVIOUS
<1>4. ASSUME NEW k \in 0 .. N PROVE A(k) \in LexerState(S) /\ A(k).tokens \in Seq(Seq(S))
  <2>1. A(k) \in LexerState(S)
    BY <1>2 DEF Sane
  <2> HIDE DEF A
  <2> QED BY <2>1 DEF LexerState
<1> HIDE DEF A, N
<1>5. n \in Nat
  BY <1>0, <1>4
<1>6. Apart(p)
  <2> DEFINE x == A(p)
             y == B(p + 1)
             a == x.token
             more == Append(a, c)
  <2>1. Sane(S, x) /\ Plain(x) /\ Quoting(x, c) /\ x.before = "none" /\ x.mode = "quote"
    BY <1>0, <1>2, <1>3 DEF Plain, Quoting
  <2>2. x.delimiter # c
    BY <2>1 DEF Sane, Space, Quotes
  <2>3. y = Read(x, c)
    BY <1>1
  <2> HIDE DEF x, y, more, a
  <2>4. /\ Plain(y) /\ Sane(S, y) /\ y.mode = "quote"
        /\ y.delimiter = x.delimiter /\ y.before = "none"
        /\ y.tokens = x.tokens /\ y.token = Append(x.token, c)
    BY <2>1, <2>2, <2>3, ReadGoingOn
  <2>5. Sync(x, y)
    BY <2>1, <2>4 DEF Sync
  <2>6. a \in Seq(S) /\ a # << >>
    BY <2>1 DEF Plain, Sane, LexerState, a
  <2>7. Len(more) = Len(a) + 1 /\ more # << >> /\ Len(a) \in Nat
    BY <2>6, AppendProperties DEF more
  <2>8. n - 1 = Len(x.tokens) /\ y.token = more /\ x.token = a
    <3>1. Len(x.tokens) \in Nat
      BY <1>0, <1>4 DEF x
    <3> QED BY <2>4, <3>1 DEF x, a, more
  <2> HIDE DEF n
  <2>9. Differ(x, y, n)
    BY <2>4, <2>6, <2>7, <2>8 DEF Differ
  <2> QED BY <2>4, <2>5, <2>9 DEF x, y
<1> HIDE DEF n
<1>7. ASSUME NEW k \in p .. N, k < N, Apart(k) PROVE Apart(k + 1)
  <2> DEFINE x == A(k)
             y == B(k + 1)
             d == s[k + 1]
             u == A(k + 1)
             v == B((k + 1) + 1)
  <2>1. /\ k \in 0 .. N /\ (k + 1) + 1 \in p + 2 .. N + 1
        /\ ((k + 1) + 1) - 1 = k + 1
    BY <1>0, <1>1, <1>7
  <2>2. Sane(S, y) /\ Plain(y) /\ Sync(x, y) /\ Differ(x, y, n)
    BY <1>7
  <2>3. Sane(S, x) /\ Plain(x) /\ d \in S /\ u = Read(x, d) /\ (Quoting(x, d) \/ OpensNone(x.before, d))
    BY <1>2, <1>7, <2>1
  <2>4. v = Read(y, d)
    BY <1>1, <1>7, <2>1
  <2> HIDE DEF x, y, d, u, v
  <2>5. d \in {d, LF(d)}
    OBVIOUS
  <2>6. Sane(S, v) /\ Plain(v) /\ Sync(u, v)
    BY <2>2, <2>3, <2>4, <2>5, SyncRead
  <2>7. Differ(u, v, n)
    BY <1>5, <2>2, <2>3, <2>4, DifferRead
  <2> QED BY <2>6, <2>7 DEF u, v
<1> HIDE DEF Apart, B
<1>8. N - p \in T
  <2>1. 0 \in T
    <3>1. p + 0 = p
      BY <1>0
    <3> QED BY <1>6, <3>1
  <2>2. ASSUME NEW j \in Nat, j \in T PROVE j + 1 \in T
    <3> SUFFICES ASSUME j + 1 <= N - p PROVE Apart(p + (j + 1))
      OBVIOUS
    <3>0. p \in Nat /\ N \in Nat /\ p <= N
      BY <1>0, <1>1
    <3>1. p + j \in p .. N /\ p + j < N /\ (p + j) + 1 = p + (j + 1) /\ j <= N - p
      BY <3>0
    <3>2. Apart(p + j)
      BY <2>2, <3>1
    <3>3. Apart((p + j) + 1)
      BY <1>7, <3>1, <3>2
    <3> QED BY <3>1, <3>3
  <2>3. N - p \in Nat
    BY <1>0, <1>1
  <2> HIDE DEF T
  <2> QED BY <2>1, <2>2, <2>3, Induct
<1>9. Apart(N)
  <2>1. N - p <= N - p /\ p + (N - p) = N
    BY <1>0, <1>1
  <2>2. Apart(p + (N - p))
    BY <1>8, <2>1
  <2> QED BY <2>1, <2>2
<1> DEFINE x == A(N)
           y == B(N + 1)
<1>10. x \in LexerState(S) /\ y \in LexerState(S) /\ Differ(x, y, n)
  <2>1. N \in 0 .. N
    BY <1>1
  <2> QED BY <1>4, <1>9, <2>1 DEF Apart, Sane
<1>11. ReadAll(s) = x /\ ReadAll(w) = y
  BY <1>1 DEF B
<1> HIDE DEF x, y
<1> DEFINE a == Done(x)
           b == Done(y)
<1>12. Longer(a, b, n) /\ a \in Seq(Seq(S))
  BY <1>5, <1>10, DoneLonger, DoneType
<1>13. Pieces(s) = a /\ Pieces(w) = b
  <2>1. s \in Seq(S)
    OBVIOUS
  <2> QED BY <1>1, <1>11, <2>1, PiecesAre
<1> HIDE DEF a, b
<1>14. a # b
  <2> SUFFICES ASSUME a = b PROVE FALSE
    OBVIOUS
  <2>1. n \in 1 .. Len(a) /\ Len(a[n]) = Len(a[n]) + 1
    BY <1>12 DEF Longer
  <2>2. a[n] \in Seq(S)
    BY <1>12, <2>1
  <2>3. Len(a[n]) \in Nat
    BY <2>2
  <2> QED BY <2>1, <2>3
<1> QED BY <1>w, <1>13, <1>14

\* After white space the scanner holds a space back.
LEMMA HeardBlank ==
    ASSUME NEW S, "sp" \in S, "nl" \in S, NEW s \in Seq(S), ~ReadAll(s).comment,
           NEW k \in 1 .. Len(s), InCode(LexerStates(s)[k]), s[k] \in Space \union {"cr"}
    PROVE  Heard(s)[k].ws
<1> DEFINE A(j) == LexerStates(s)[j]
           H(j) == Heard(s)[j]
<1>1. ASSUME NEW j \in 1 .. Len(s), InCode(A(j)), s[j] \in Space \union {"cr"}
      PROVE  InCode(A(j - 1)) /\ (~Skipping(s, j) => H(j).ws)
  <2> DEFINE x == A(j - 1)
             y == A(j)
             d == s[j]
             z == H(j - 1)
             l == LF(d)
             chunk == <<l>>
  <2>1. j - 1 \in 0 .. Len(s) /\ j - 1 < Len(s) /\ (j - 1) + 1 = j /\ Len(s) \in Nat
    OBVIOUS
  <2>2. /\ Sane(S, x) /\ Plain(x) /\ d \in S /\ y = Read(x, d)
        /\ Quoting(x, d) \/ OpensNone(x.before, d)
    BY <2>1, CommentFree
  <2>3. z \in ScanState(S)
    BY <2>1, HeardType
  <2>4. H(j) = HeardNext(s, j, z)
    BY <2>1, HeardExists
  <2>5. d \notin Quotes /\ l \in Space /\ l \in S
    BY <1>1, <2>2 DEF Space, Quotes, LF
  <2>6. ~Skipping(s, j) => H(j) = Hear(z, x.mode, l)
    BY <2>4 DEF HeardNext
  <2> HIDE DEF x, y, d, z, l
  <2>7. x.mode # "quote"
    <3> SUFFICES ASSUME x.mode = "quote" PROVE FALSE
      OBVIOUS
    <3>1. Quoting(x, d) /\ x.delimiter \in Quotes
      BY <2>2 DEF Quoting, Sane
    <3>2. y.mode = "quote"
      BY <2>2, <2>5, <3>1, ReadGoingOn
    <3> QED BY <1>1, <3>2 DEF y, InCode
  <2>8. InCode(x)
    BY <2>2, <2>7 DEF Plain, InCode
  <2>9. Emit(z, chunk).ws
    <3>1. IsSpace(chunk) /\ chunk \in Seq(S)
      BY <2>5, OneCharacter
    <3> HIDE DEF chunk
    <3> QED BY <2>3, <3>1, EmitType
  <2>10. ~Skipping(s, j) => H(j).ws
    BY <2>6, <2>7, <2>9 DEF Hear
  <2> QED BY <2>8, <2>10 DEF x
<1>2. CASE ~Skipping(s, k)
  BY <1>1, <1>2
<1>3. CASE Skipping(s, k)
  <2>1. k - 1 \in 1 .. Len(s) /\ s[k - 1] = "cr" /\ ~Skipping(s, k - 1)
    BY <1>3 DEF Skipping
  <2>2. InCode(A(k - 1))
    BY <1>1
  <2>3. H(k - 1).ws
    BY <1>1, <2>1, <2>2
  <2>4. H(k) = HeardNext(s, k, H(k - 1))
    <3>1. Len(s) \in Nat
      OBVIOUS
    <3> QED BY <3>1, HeardExists
  <2>5. H(k) = H(k - 1)
    BY <1>3, <2>4 DEF HeardNext
  <2> HIDE DEF H
  <2>6. H(k).ws
    BY <2>3, <2>5
  <2> QED BY <2>6 DEF H
<1> QED BY <1>2, <1>3

LEMMA HeardTight ==
    ASSUME NEW S, "sp" \in S, "nl" \in S, NEW s \in Seq(S), ~ReadAll(s).comment,
           NEW k \in 1 .. Len(s), InCode(LexerStates(s)[k]), s[k] \in Tight
    PROVE  IsTight(Heard(s)[k].last)
<1> DEFINE x == LexerStates(s)[k - 1]
           y == LexerStates(s)[k]
           d == s[k]
           z == Heard(s)[k - 1]
           h == Heard(s)[k]
<1>1. k - 1 \in 0 .. Len(s) /\ k - 1 < Len(s) /\ (k - 1) + 1 = k /\ Len(s) \in Nat
  OBVIOUS
<1>2. /\ Sane(S, x) /\ Plain(x) /\ d \in S /\ y = Read(x, d)
      /\ Quoting(x, d) \/ OpensNone(x.before, d)
  BY <1>1, CommentFree
<1>3. h = HeardNext(s, k, z)
  BY <1>1, HeardExists
<1>4. d \notin Quotes /\ LF(d) = d /\ ~Skipping(s, k) /\ d \in Tight
  BY DEF Tight, Quotes, LF, Skipping
<1>5. h = Hear(z, x.mode, d)
  BY <1>3, <1>4 DEF HeardNext
<1>6. InCode(y)
  OBVIOUS
<1> HIDE DEF x, y, d, z, h
<1>7. x.mode # "quote"
  <2> SUFFICES ASSUME x.mode = "quote" PROVE FALSE
    OBVIOUS
  <2>1. Quoting(x, d) /\ x.delimiter \in Quotes
    BY <1>2 DEF Quoting, Sane
  <2>2. y.mode = "quote"
    BY <1>2, <1>4, <2>1, ReadGoingOn
  <2> QED BY <1>6, <2>2 DEF InCode
<1>8. h = Emitted(z, z.last \o <<d>> \in CommentMarkers, <<d>>) /\ IsTight(<<d>>)
  BY <1>4, <1>5, <1>7, EmitIs, OneCharacter DEF Hear
<1>9. h.last = <<d>>
  BY <1>8 DEF Emitted
<1> QED BY <1>8, <1>9 DEF h

LEMMA BlankEqual ==
    ASSUME NEW S, NEW a, a \in ScanState(S), NEW b, b \in ScanState(S),
           a.ws, b.ws, a.out = b.out, a.last = b.last
    PROVE  a = b
<1>1. /\ a = [out |-> a.out, last |-> a.last, ws |-> a.ws]
      /\ b = [out |-> b.out, last |-> b.last, ws |-> b.ws]
  BY DEF ScanState
<1>2. a.ws \in BOOLEAN /\ b.ws \in BOOLEAN
  BY DEF ScanState
<1>3. a.ws = b.ws
  BY Zenon, <1>2
<1> QED BY Zenon, <1>1, <1>3

\* What the space does to the state of the scanner does not show in what
\* follows.
LEMMA EmitBlank ==
    ASSUME NEW S, "sp" \in S, NEW z \in ScanState(S), NEW g \in ScanState(S),
           g.out = z.out, g.last = z.last, g.ws, NEW d \in S,
           \/ d \in Space \union Tight
           \/ z.ws \/ z.last = << >> \/ IsTight(z.last)
    PROVE  Emit(g, <<d>>) = Emit(z, <<d>>)
<1> DEFINE chunk == <<d>>
<1>0. chunk \in Seq(S)
  OBVIOUS
<1>1. (IsTight(chunk) <=> d \in Tight) /\ (IsSpace(chunk) <=> d \in Space)
  BY OneCharacter
<1> HIDE DEF chunk
<1>2. CASE d \in Space
  <2> DEFINE a == Emit(g, chunk)
             b == Emit(z, chunk)
  <2>1. /\ a \in ScanState(S) /\ a.ws /\ a.out = g.out /\ a.last = g.last
        /\ b \in ScanState(S) /\ b.ws /\ b.out = z.out /\ b.last = z.last
    BY <1>0, <1>1, <1>2, EmitType
  <2> HIDE DEF a, b
  <2>6. a = b
    BY <2>1, BlankEqual
  <2> QED BY <2>6 DEF a, b, chunk
<1>3. CASE d \in Tight
  <2>1. /\ Emit(g, chunk) = Emitted(g, g.last \o chunk \in CommentMarkers, chunk)
        /\ Emit(z, chunk) = Emitted(z, z.last \o chunk \in CommentMarkers, chunk)
    BY <1>1, <1>3, EmitIs
  <2> QED BY <2>1 DEF Emitted, chunk
<1>4. CASE d \notin Space \union Tight
  <2>1. Emit(g, chunk) = Emitted(g, HoldsSpace(g), chunk) /\ Emit(z, chunk) = Emitted(z, HoldsSpace(z), chunk)
    BY <1>1, <1>4, EmitIs DEF HoldsSpace
  <2>2. HoldsSpace(g) <=> HoldsSpace(z)
    BY <1>4 DEF HoldsSpace
  <2>3. Emitted(g, HoldsSpace(g), chunk) = Emitted(z, HoldsSpace(z), chunk)
    <3> DEFINE p == HoldsSpace(g)
               q == HoldsSpace(z)
    <3>1. p <=> q
      BY <2>2
    <3> HIDE DEF p, q
    <3>2. Emitted(g, p, chunk) = Emitted(z, q, chunk)
      BY <3>1 DEF Emitted
    <3> QED BY <3>2 DEF p, q
  <2> QED BY <2>1, <2>3 DEF chunk
<1> QED BY <1>2, <1>3, <1>4

\* After k characters, and the space, the same is heard and will be read.
Rejoined(S, s, w, k) ==
    /\ Sane(S, LexerStates(w)[k + 1]) /\ Plain(LexerStates(w)[k + 1])
    /\ Sync(LexerStates(s)[k], LexerStates(w)[k + 1])
    /\ Heard(s)[k] = Heard(w)[k + 1]

LEMMA RejoinedStep ==
    ASSUME NEW S, NEW s \in Seq(S), ~ReadAll(s).comment, NEW p \in 0 .. Len(s), NEW c \in S,
           NEW w, w = SpacedAt(s, p, c), NEW k \in p + 1 .. Len(s), k < Len(s),
           Rejoined(S, s, w, k)
    PROVE  Rejoined(S, s, w, k + 1)
<1> DEFINE N == Len(s)
           x == LexerStates(s)[k]
           y == LexerStates(w)[k + 1]
           d == s[k + 1]
           u == LexerStates(s)[k + 1]
           v == LexerStates(w)[(k + 1) + 1]
           z == Heard(s)[k]
           g == Heard(w)[k + 1]
<1>0. N \in Nat /\ p \in 0 .. N /\ k \in p + 1 .. N /\ k < N
  OBVIOUS
<1>1. OneApart(S, s, p, c, w)
  BY ReadOneApart
<1> DEFINE m == (k + 1) + 1
<1>2. /\ m \in p + 2 .. N + 1 /\ m - 1 = k + 1 /\ k + 1 \in p + 2 .. N + 1 /\ (k + 1) - 1 = k
      /\ k \in 0 .. N /\ k + 1 \in 1 .. N /\ m \in 1 .. N + 1 /\ k + 1 > 1 /\ m > 1
  BY <1>0
<1>3. /\ w \in Seq(S) /\ Len(w) = N + 1
      /\ w[m] = s[m - 1] /\ w[k + 1] = s[(k + 1) - 1]
      /\ LexerStates(w)[m] = Read(LexerStates(w)[m - 1], s[m - 1])
  <2>1. OneMore(S, s, p, c, w)
    BY <1>1 DEF OneApart
  <2> HIDE DEF m
  <2>2. w \in Seq(S) /\ Len(w) = N + 1
    BY <2>1 DEF OneMore
  <2>3. w[m] = s[m - 1]
    BY <1>2, <2>1 DEF OneMore
  <2>4. w[k + 1] = s[(k + 1) - 1]
    BY <1>2, <2>1 DEF OneMore
  <2>5. LexerStates(w)[m] = Read(LexerStates(w)[m - 1], s[m - 1])
    BY <1>1, <1>2 DEF OneApart
  <2> QED BY <2>2, <2>3, <2>4, <2>5
<1>4. /\ Sane(S, x) /\ Plain(x) /\ d \in S /\ u = Read(x, d)
      /\ Quoting(x, d) \/ OpensNone(x.before, d)
  BY <1>2, CommentFree
<1>5. Sane(S, y) /\ Plain(y) /\ Sync(x, y) /\ z = g
  BY DEF Rejoined
<1>6. v = Read(y, d) /\ w[m] = d /\ w[k + 1] = s[k]
  BY <1>2, <1>3
<1>7. Heard(s)[k + 1] = HeardNext(s, k + 1, z)
  <2>1. N \in Nat
    BY <1>0
  <2> QED BY <1>2, <2>1, HeardExists
<1>8. Heard(w)[m] = HeardNext(w, m, g)
  <2> HIDE DEF N
  <2>1. Len(w) \in Nat /\ m \in 1 .. Len(w)
    BY <1>0, <1>2, <1>3
  <2>2. Heard(w)[m] = HeardNext(w, m, Heard(w)[m - 1])
    <3> HIDE DEF m
    <3> QED BY <2>1, HeardExists
  <2> QED BY <1>2, <2>2
<1>9. Skipping(s, k + 1) <=> Skipping(w, m)
  <2>1. Skipping(s, k + 1) <=> s[k] = "cr" /\ s[k + 1] = "nl"
    BY <1>2 DEF Skipping
  <2>2. Skipping(w, m) <=> w[k + 1] = "cr" /\ w[m] = "nl"
    <3> HIDE DEF m
    <3> QED BY <1>2 DEF Skipping
  <2> QED BY <1>6, <2>1, <2>2
<1>10. x.mode = y.mode
  BY <1>5 DEF Sync
<1>11. Heard(s)[k + 1] = Heard(w)[m]
  <2>1. HeardNext(s, k + 1, z) = IF Skipping(s, k + 1) THEN z ELSE Hear(z, x.mode, LF(d))
    BY <1>2 DEF HeardNext
  <2>2. HeardNext(w, m, g) = IF Skipping(w, m) THEN g ELSE Hear(g, y.mode, LF(d))
    BY <1>2, <1>6 DEF HeardNext
  <2> HIDE DEF x, y, z, g, d, m
  <2> QED BY <1>5, <1>7, <1>8, <1>9, <1>10, <2>1, <2>2
<1>12. Sane(S, v) /\ Plain(v) /\ Sync(u, v)
  <2> HIDE DEF x, y, d, u, v
  <2>1. d \in {d, LF(d)}
    OBVIOUS
  <2> QED BY <1>4, <1>5, <1>6, <2>1, SyncRead
<1> QED BY <1>11, <1>12 DEF Rejoined

LEMMA RejoinedToTheEnd ==
    ASSUME NEW S, NEW s \in Seq(S), ~ReadAll(s).comment, NEW p \in 0 .. Len(s), NEW c \in S,
           NEW w, w = SpacedAt(s, p, c), p < Len(s), Rejoined(S, s, w, p + 1)
    PROVE  Rejoined(S, s, w, Len(s))
<1> DEFINE N == Len(s)
           q == p + 1
           T == {j \in Nat : j <= N - q => Rejoined(S, s, w, q + j)}
<1>0. N \in Nat /\ q \in Nat /\ q <= N /\ q = p + 1
  OBVIOUS
<1>1. Rejoined(S, s, w, q)
  OBVIOUS
<1>2. ASSUME NEW k \in q .. N, k < N, Rejoined(S, s, w, k) PROVE Rejoined(S, s, w, k + 1)
  BY <1>2, RejoinedStep
<1> HIDE DEF N, q
<1>3. 0 \in T
  <2>1. q + 0 = q
    BY <1>0
  <2> QED BY <1>1, <2>1
<1>4. ASSUME NEW j \in Nat, j \in T PROVE j + 1 \in T
  <2> SUFFICES ASSUME j + 1 <= N - q PROVE Rejoined(S, s, w, q + (j + 1))
    OBVIOUS
  <2>1. q + j \in q .. N /\ q + j < N /\ (q + j) + 1 = q + (j + 1) /\ j <= N - q
    BY <1>0
  <2>2. Rejoined(S, s, w, q + j)
    BY <1>4, <2>1
  <2>3. Rejoined(S, s, w, (q + j) + 1)
    BY <1>2, <2>1, <2>2
  <2> QED BY <2>1, <2>3
<1>5. N - q \in Nat /\ q + (N - q) = N
  BY <1>0
<1> HIDE DEF T
<1>6. N - q \in T
  BY <1>3, <1>4, <1>5, Induct
<1> USE DEF T
<1>7. Rejoined(S, s, w, q + (N - q))
  BY <1>5, <1>6
<1> QED BY <1>5, <1>7 DEF N

\* A space read in code leaves the lexer between two tokens, and of the
\* scanner it is only known that one was seen.
SpaceSeen(S, x, y, z, g) ==
    /\ Sane(S, y) /\ Plain(y) /\ y.mode = "code" /\ y.before = "none" /\ y.delimiter = x.delimiter
    /\ g \in ScanState(S) /\ g.ws /\ g.out = z.out /\ g.last = z.last

LEMMA SpaceHeard ==
    ASSUME NEW S, "sp" \in S, "nl" \in S, NEW s \in Seq(S), ~ReadAll(s).comment,
           NEW p \in 0 .. Len(s), NEW c \in S, c \in Space, NEW w, w = SpacedAt(s, p, c),
           InCode(LexerStates(s)[p])
    PROVE  SpaceSeen(S, LexerStates(s)[p], LexerStates(w)[p + 1], Heard(s)[p], Heard(w)[p + 1])
<1> DEFINE N == Len(s)
           x == LexerStates(s)[p]
           y == LexerStates(w)[p + 1]
           z == Heard(s)[p]
           g == Heard(w)[p + 1]
           chunk == <<c>>
<1>0. N \in Nat /\ p \in 0 .. N
  OBVIOUS
<1>1. OneApart(S, s, p, c, w)
  BY ReadOneApart
<1>2. /\ w \in Seq(S) /\ Len(w) = N + 1 /\ w[p + 1] = c
      /\ p > 0 => w[p] = s[p]
      /\ LexerStates(w)[p] = x /\ Heard(w)[p] = z /\ y = Read(x, c)
  <2>1. OneMore(S, s, p, c, w)
    BY <1>1 DEF OneApart
  <2>2. p > 0 => w[p] = s[p]
    <3>1. p > 0 => p \in 1 .. p
      BY <1>0
    <3> QED BY <2>1, <3>1 DEF OneMore
  <2> QED BY <1>1, <2>1, <2>2 DEF OneApart, OneMore
<1>3. Sane(S, x) /\ Plain(x) /\ z \in ScanState(S) /\ InCode(x)
  BY CommentFree, HeardType
<1>4. g = HeardNext(w, p + 1, z)
  <2>1. p + 1 \in 1 .. Len(w) /\ (p + 1) - 1 = p /\ Len(w) \in Nat
    BY <1>0, <1>2
  <2>2. Heard(w)[p + 1] = HeardNext(w, p + 1, Heard(w)[(p + 1) - 1])
    BY <2>1, HeardExists
  <2> QED BY <1>2, <2>1, <2>2
<1>5. HeardNext(w, p + 1, z) = IF Skipping(w, p + 1) THEN z ELSE Hear(z, x.mode, LF(c))
  <2>1. (p + 1) - 1 = p
    BY <1>0
  <2> QED BY <1>2, <2>1 DEF HeardNext
<1>6. Skipping(w, p + 1) => p > 0 /\ s[p] = "cr"
  BY <1>0, <1>2 DEF Skipping
<1>7. s[p] = "cr" /\ p > 0 => z.ws
  BY HeardBlank
<1>8. LF(c) = c /\ c \notin Quotes /\ c \notin Tight /\ OpensNone(x.before, c)
  BY DEF LF, Space, Quotes, Tight, OpensNone
<1> HIDE DEF x, y, z, g, chunk
<1>9. ~Quoting(x, c) /\ x.mode # "quote"
  BY <1>3, <1>8 DEF Quoting, InCode, Sane
<1>10. Sane(S, y) /\ Plain(y) /\ y.mode = "code" /\ y.before = "none" /\ y.delimiter = x.delimiter
  BY <1>2, <1>3, <1>8, <1>9, ReadInCode
<1>11. g \in ScanState(S) /\ g.ws /\ g.out = z.out /\ g.last = z.last
  <2>1. CASE Skipping(w, p + 1)
    BY <1>3, <1>4, <1>5, <1>6, <1>7, <2>1
  <2>2. CASE ~Skipping(w, p + 1)
    <3>1. g = Emit(z, chunk)
      BY <1>4, <1>5, <1>8, <1>9, <2>2 DEF Hear, chunk
    <3>2. IsSpace(chunk) /\ chunk \in Seq(S)
      BY OneCharacter DEF chunk
    <3> QED BY <1>3, <3>1, <3>2, EmitType
  <2> QED BY <2>1, <2>2
<1> QED BY <1>10, <1>11 DEF SpaceSeen, x, y, z, g

\* A character next to which white space does not show.
Loose == Tight \union Space \union {"cr"}

\* After the character that follows the space all is as without it.
LEMMA SpaceRejoined ==
    ASSUME NEW S, "sp" \in S, "nl" \in S, NEW s \in Seq(S), ~ReadAll(s).comment,
           NEW p \in 0 .. Len(s), NEW c \in S, c \in Space, NEW w, w = SpacedAt(s, p, c),
           InCode(LexerStates(s)[p]), p < Len(s),
           p = 0 \/ s[p] \in Loose \/ s[p + 1] \in Loose
    PROVE  Rejoined(S, s, w, p + 1)
<1> DEFINE N == Len(s)
           q == p + 1
           m == (p + 1) + 1
           x == LexerStates(s)[p]
           y == LexerStates(w)[p + 1]
           z == Heard(s)[p]
           g == Heard(w)[p + 1]
           d == s[q]
           l == LF(d)
           u == LexerStates(s)[q]
           v == LexerStates(w)[m]
           chunk == <<l>>
<1>0. N \in Nat /\ p \in 0 .. N /\ p < N
  OBVIOUS
<1>1. OneApart(S, s, p, c, w)
  BY ReadOneApart
<1>2. /\ m \in p + 2 .. N + 1 /\ m - 1 = q /\ q \in 1 .. N /\ m \in 1 .. N + 1 /\ m > 1
      /\ q - 1 = p /\ q = p + 1
  BY <1>0
<1>3. /\ w \in Seq(S) /\ Len(w) = N + 1 /\ w[q] = c /\ w[m] = d /\ v = Read(y, d)
  <2>1. OneMore(S, s, p, c, w)
    BY <1>1 DEF OneApart
  <2> HIDE DEF m
  <2>2. w \in Seq(S) /\ Len(w) = N + 1 /\ w[q] = c
    BY <2>1 DEF OneMore
  <2>3. w[m] = d
    BY <1>2, <2>1 DEF OneMore
  <2>4. v = Read(y, d)
    BY <1>1, <1>2 DEF OneApart
  <2> QED BY <2>2, <2>3, <2>4
<1>4. /\ Sane(S, x) /\ Plain(x) /\ d \in S /\ u = Read(x, d) /\ InCode(x)
      /\ Quoting(x, d) \/ OpensNone(x.before, d)
  BY CommentFree
<1>5. z \in ScanState(S)
  BY HeardType
<1>6. SpaceSeen(S, x, y, z, g)
  BY SpaceHeard
<1>7. Heard(s)[q] = HeardNext(s, q, z)
  <2>1. N \in Nat
    BY <1>0
  <2> QED BY <1>2, <2>1, HeardExists
<1>8. Heard(w)[m] = HeardNext(w, m, g)
  <2> HIDE DEF N
  <2>1. Len(w) \in Nat /\ m \in 1 .. Len(w)
    BY <1>0, <1>2, <1>3
  <2>2. Heard(w)[m] = HeardNext(w, m, Heard(w)[m - 1])
    <3> HIDE DEF m
    <3> QED BY <2>1, HeardExists
  <2> QED BY <1>2, <2>2
<1>9. /\ HeardNext(s, q, z) = IF Skipping(s, q) THEN z ELSE Hear(z, x.mode, l)
      /\ HeardNext(w, m, g) = Hear(g, y.mode, l)
  <2>1. ~Skipping(w, m)
    <3> HIDE DEF m
    <3> QED BY <1>2, <1>3 DEF Skipping, Space
  <2>2. HeardNext(s, q, z) = IF Skipping(s, q) THEN z ELSE Hear(z, x.mode, l)
    BY <1>2 DEF HeardNext
  <2>3. HeardNext(w, m, g) = Hear(g, y.mode, l)
    <3> HIDE DEF m
    <3> QED BY <1>2, <1>3, <2>1 DEF HeardNext
  <2> QED BY <2>2, <2>3
<1>10. Skipping(s, q) => p > 0 /\ s[p] = "cr" /\ d = "nl"
  BY <1>2 DEF Skipping
<1>11. p > 0 /\ s[p] \in Space \union {"cr"} => z.ws
  BY HeardBlank
<1>12. p > 0 /\ s[p] \in Tight => IsTight(z.last)
  BY HeardTight
<1>13. p = 0 => z.last = << >> /\ x.mode = "code"
  <2>1. p = 0 => z = Nothing /\ x = Lexer
    BY <1>0, LexerStep, HeardExists
  <2> QED BY <2>1 DEF Nothing, Lexer
<1>14. p > 0 /\ x.mode = "closing" => s[p] = x.delimiter /\ s[p] \in Quotes
  BY ClosingIs
<1>15. l \in S /\ (d \in Loose => l \in Space \union Tight)
  BY <1>4 DEF LF, Loose, Space, Tight
<1>16. p = 0 \/ s[p] \in Loose \/ d \in Loose
  BY DEF Loose
<1>17. Loose \intersect Quotes = {}
  BY DEF Loose, Tight, Space, Quotes
<1> DEFINE b == s[p]
<1> HIDE DEF x, y, z, g, d, l, u, v, chunk, b, m, q
<1>18. ~Quoting(x, d)
  <2> SUFFICES ASSUME x.mode = "closing", d = x.delimiter PROVE FALSE
    BY <1>4 DEF Quoting, InCode
  <2>1. d \in Quotes
    BY <1>4 DEF Sane
  <2>2. p > 0
    BY <1>0, <1>13
  <2> QED BY <1>14, <1>16, <1>17, <2>1, <2>2
<1>19. Sane(S, y) /\ Plain(y) /\ y.mode = "code" /\ y.before = "none" /\ y.delimiter = x.delimiter
  BY <1>6 DEF SpaceSeen
<1>20. ~Quoting(y, d) /\ OpensNone(y.before, d) /\ OpensNone(x.before, d)
  BY <1>4, <1>18, <1>19 DEF Quoting, OpensNone
<1>21. Sane(S, v) /\ Plain(v) /\ Sync(u, v)
  <2>1. /\ u.mode = IF d \in Quotes THEN "quote" ELSE "code"
        /\ u.delimiter = IF d \in Quotes THEN d ELSE x.delimiter
        /\ u.before = IF d \in Tight THEN d ELSE "none"
    BY <1>4, <1>18, <1>20, ReadInCode
  <2>2. /\ Plain(v) /\ Sane(S, v)
        /\ v.mode = IF d \in Quotes THEN "quote" ELSE "code"
        /\ v.delimiter = IF d \in Quotes THEN d ELSE y.delimiter
        /\ v.before = IF d \in Tight THEN d ELSE "none"
    BY <1>3, <1>4, <1>19, <1>20, ReadInCode
  <2> QED BY <1>19, <2>1, <2>2 DEF Sync
<1>22. g \in ScanState(S) /\ g.ws /\ g.out = z.out /\ g.last = z.last
  BY <1>6 DEF SpaceSeen
<1>23. Heard(w)[m] = Emit(g, chunk)
  BY <1>8, <1>9, <1>19 DEF Hear, chunk
<1>24. CASE Skipping(s, q)
  <2>1. z.ws /\ l = "nl"
    BY <1>10, <1>11, <1>24 DEF l, LF
  <2>2. IsSpace(chunk) /\ chunk \in Seq(S)
    BY <1>15, <2>1, OneCharacter DEF chunk, Space
  <2> DEFINE e == Emit(g, chunk)
  <2>3. e \in ScanState(S) /\ e.ws /\ e.out = g.out /\ e.last = g.last
    BY <1>22, <2>2, EmitType
  <2> HIDE DEF e
  <2>4. e = z
    BY <1>5, <1>22, <2>1, <2>3, BlankEqual
  <2>5. Heard(s)[q] = Heard(w)[m]
    BY <1>7, <1>9, <1>23, <1>24, <2>4 DEF e
  <2> QED BY <1>2, <1>21, <2>5 DEF Rejoined, u, v, m, q
<1>25. CASE ~Skipping(s, q)
  <2>1. x.mode # "quote"
    BY <1>4 DEF InCode
  <2>2. Heard(s)[q] = Emit(z, chunk)
    BY <1>7, <1>9, <1>25, <2>1 DEF Hear, chunk
  <2>3. l \in Space \union Tight \/ z.ws \/ z.last = << >> \/ IsTight(z.last)
    <3>1. CASE p = 0
      BY <1>13, <3>1
    <3>2. CASE d \in Loose
      BY <1>15, <3>2
    <3>3. CASE p > 0 /\ s[p] \in Loose
      <4>1. s[p] \in Space \union {"cr"} \/ s[p] \in Tight
        BY <3>3 DEF Loose
      <4> QED BY <1>11, <1>12, <3>3, <4>1
    <3> QED BY <1>0, <1>16, <3>1, <3>2, <3>3
  <2>4. Emit(g, <<l>>) = Emit(z, <<l>>)
    BY <1>5, <1>15, <1>22, <2>3, EmitBlank
  <2>5. Heard(s)[q] = Heard(w)[m]
    BY <1>23, <2>2, <2>4 DEF chunk
  <2> QED BY <1>2, <1>21, <2>5 DEF Rejoined, u, v, m, q
<1> QED BY <1>24, <1>25

LEMMA SpaceInCode ==
    ASSUME NEW S, "sp" \in S, "nl" \in S, NEW s \in Seq(S), ~ReadAll(s).comment,
           NEW p \in 0 .. Len(s), NEW c \in S, c \in Space, NEW w, w = SpacedAt(s, p, c),
           InCode(LexerStates(s)[p]),
           p = 0 \/ p = Len(s) \/ s[p] \in Loose \/ s[p + 1] \in Loose
    PROVE  Norm(w) = Norm(s)
<1> DEFINE N == Len(s)
           y == LexerStates(w)[N + 1]
           z == Heard(s)[N]
           g == Heard(w)[N + 1]
<1>0. N \in Nat /\ p \in 0 .. N
  OBVIOUS
<1>1. w \in Seq(S) /\ Len(w) = N + 1 /\ ReadAll(w) = y
  <2>1. OneApart(S, s, p, c, w)
    BY ReadOneApart
  <2> QED BY <2>1 DEF OneApart, OneMore
<1>2. Plain(y) /\ z.out = g.out
  <2>1. CASE p = N
    <3>1. SpaceSeen(S, LexerStates(s)[p], LexerStates(w)[p + 1], Heard(s)[p], Heard(w)[p + 1])
      BY SpaceHeard
    <3> QED BY <2>1, <3>1 DEF SpaceSeen
  <2>2. CASE p < N
    <3>1. Rejoined(S, s, w, p + 1)
      BY <1>0, <2>2, SpaceRejoined
    <3>2. Rejoined(S, s, w, Len(s))
      BY <2>2, <3>1, RejoinedToTheEnd
    <3> QED BY <3>2 DEF Rejoined
  <2> QED BY <1>0, <2>1, <2>2
<1>3. ~ReadAll(w).comment
  BY <1>1, <1>2 DEF Plain
<1>4. Norm(w) = HeardAll(w).out /\ Norm(s) = HeardAll(s).out
  BY <1>1, <1>3, NormHeard
<1> QED BY <1>1, <1>2, <1>4 DEF HeardAll

\* Flushing the last token notes no comment.
LEMMA CommentNoted ==
    ASSUME NEW S, NEW s \in Seq(S)
    PROVE  Lexed(s).comment = ReadAll(s).comment
<1> DEFINE x == ReadAll(s)
<1>1. x \in LexerState(S)
  BY ReadAllSane DEF Sane
<1> HIDE DEF x
<1>2. Flush(x) = With(x, x.mode, Done(x), << >>, x.before)
  BY <1>1, Shape, FlushWith
<1>3. With(x, x.mode, Done(x), << >>, x.before).comment = x.comment
  BY DEF With
<1>4. Flush(x).comment = x.comment
  BY Zenon, <1>2, <1>3
<1> QED BY <1>4 DEF Lexed, x

(* White space that is put next to an operator, next to other white space,  *)
(* or at either end makes no other key, wherever the SQL keeps its pieces:  *)
(* of any SQL without comments, over any characters (_qo_norm_sql_str).  In *)
(* a quoted region it changes a piece; outside of one the scanner is, from  *)
(* the next character on, in the state it would be in without it.           *)
THEOREM SpacingKeepsKey ==
    ASSUME NEW S, NEW s \in Seq(S), ~Lexed(s).comment, NEW p \in 0 .. Len(s), NEW c \in Space,
           p = 0 \/ p = Len(s) \/ s[p] \in Loose \/ s[p + 1] \in Loose,
           Pieces(SpacedAt(s, p, c)) = Pieces(s)
    PROVE  Norm(SpacedAt(s, p, c)) = Norm(s)
<1> DEFINE C == S \union {"sp", "nl"}
           x == LexerStates(s)[p]
<1>1. s \in Seq(C) /\ "sp" \in C /\ "nl" \in C /\ c \in C
  <2>1. S \subseteq C
    OBVIOUS
  <2>2. c \in C
    BY DEF Space
  <2> QED BY <2>1, <2>2, SeqMonotonic
<1> HIDE DEF C
<1>2. ~ReadAll(s).comment
  BY CommentNoted
<1>3. Plain(x)
  BY <1>2, CommentFree
<1>4. x.mode # "quote"
  BY <1>1, <1>2, SpaceInQuotes
<1>5. InCode(x)
  BY <1>3, <1>4 DEF Plain, InCode
<1> QED BY <1>1, <1>2, <1>5, SpaceInCode
==============================================================================
