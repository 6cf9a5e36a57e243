---------------------------- MODULE CacheKeyNorm ----------------------------
(***************************************************************************)
(* The normalisation of SQL for cache keys (templates/superset_config.py,  *)
(* _qo_norm_sql_str and the patch of QueryObject.cache_key).  UI and       *)
(* worker must compute one key for one query although whitespace differs   *)
(* between their copies, and two keys for two queries.                     *)
(*                                                                         *)
(* SQL is a sequence of characters, one of each kind the scanner tells     *)
(* apart: the operators and punctuation, a string and an identifier quote,  *)
(* three kinds of white space, and word characters, which are all the      *)
(* others.  A chart grows character by character, so that every short SQL  *)
(* is reached.                                                             *)
(***************************************************************************)
EXTENDS Naturals, Sequences, FiniteSetsExt, Folds

CONSTANTS
    Characters,     \* characters SQL is written with in this model
    MaxSql,         \* bound: length of the SQL
    Compound        \* pairs of characters of which SQL makes one token when
                    \* nothing stands between them: "<=", "||", "::", "1."

VARIABLES
    written,    \* the SQL of the chart
    query,      \* QueryObject: field -> the SQL it holds
    saved,      \* the fields as cache_key found them; << >> outside of it
    step        \* "idle", or the field cache_key normalises next, or "hash"

cacheVars == <<written, query, saved, step>>

Tight == {"+", "-", "*", "/", "%", "(", ")", ",", ".", "=", "<", ">", "!",
          "|", "&", "~", "^", ":", "[", "]"}            \* _QO_TIGHT
CommentMarkers == {<<"-", "-">>, <<"/", "*">>, <<"*", "/">>}
Quotes == {"'", "id"}                   \* string, and identifier quote
Space == {"sp", "nl"}                       \* after CR has become LF

\* str.find: the first of the indices that were found, or the default.
First(found, default) == IF found = {} THEN default ELSE Min(found)

Pair(s, i, a, b) == i < Len(s) /\ s[i] = a /\ s[i + 1] = b

\* replace("\r\n", "\n").replace("\r", "\n")
Newlines(s) ==
    LET lines[k \in 0 .. Len(s)] ==
            IF k = 0 THEN << >>
            ELSE IF Pair(s, k, "cr", "nl") THEN lines[k - 1]
            ELSE Append(lines[k - 1], IF s[k] = "cr" THEN "nl" ELSE s[k])
    IN  lines[Len(s)]

\* Where the quoted region that opens at i closes; a doubled quote does not.
QuoteEnd(s, i) ==
    LET close[j \in i + 1 .. Len(s) + 2] ==
            IF j > Len(s) THEN Len(s)
            ELSE IF Pair(s, j, s[i], s[i]) THEN close[j + 2]
            ELSE IF s[j] = s[i] THEN j
            ELSE close[j + 1]
    IN  close[i + 1]

IsWord(c) == c \notin Space \union Tight \union Quotes

\* The last index of the chunk the scanner takes at i.
ChunkEnd(s, i) ==
    CASE Pair(s, i, "-", "-") -> First({j \in i .. Len(s) : s[j] = "nl"}, Len(s) + 1) - 1
      [] Pair(s, i, "/", "*") ->
            First({j \in i + 2 .. Len(s) : Pair(s, j, "*", "/")}, Len(s) - 1) + 1
      [] s[i] \in Quotes      -> QuoteEnd(s, i)
      [] IsWord(s[i])         -> First({j \in i .. Len(s) : ~IsWord(s[j])}, Len(s) + 1) - 1
      [] OTHER                -> i

\* The chunks of s in their order: comments, quoted regions, words, single
\* operators, single spaces.
Chunks(s) ==
    LET from[i \in 1 .. Len(s) + 1] ==
            IF i > Len(s) THEN << >>
            ELSE <<SubSeq(s, i, ChunkEnd(s, i))>> \o from[ChunkEnd(s, i) + 1]
    IN  from[1]

IsTight(chunk) == Len(chunk) = 1 /\ chunk[1] \in Tight
IsSpace(chunk) == Len(chunk) = 1 /\ chunk[1] \in Space

\* State of the scanner: what it has emitted, the last chunk of it, and
\* whether white space was seen since.
Nothing == [out |-> << >>, last |-> << >>, ws |-> FALSE]

Emitted(em, blank, chunk) ==
    [out |-> em.out \o (IF blank THEN <<"sp">> ELSE << >>) \o chunk,
     last |-> chunk, ws |-> FALSE]

\* Mutants: a space is never kept; white space around operators is kept.
EmitFusingWords(em, chunk) ==
    IF IsSpace(chunk) THEN [em EXCEPT !.ws = TRUE]
    ELSE Emitted(em, IsTight(chunk) /\ em.last \o chunk \in CommentMarkers, chunk)

EmitKeepingSpace(em, chunk) ==
    IF IsSpace(chunk) THEN [em EXCEPT !.ws = TRUE]
    ELSE Emitted(em, em.ws /\ em.last # << >>, chunk)

\* emit_value and emit_tight: a value keeps one space of those before it unless
\* it follows an operator; an operator keeps none, except to form no comment.
Emit(em, chunk) ==
    CASE IsSpace(chunk) -> [em EXCEPT !.ws = TRUE]
      [] IsTight(chunk) -> Emitted(em, em.last \o chunk \in CommentMarkers, chunk)
      [] OTHER          -> Emitted(em, em.ws /\ em.last # << >> /\ ~IsTight(em.last), chunk)

Scanned(chunks) ==
    LET scan[k \in 0 .. Len(chunks)] ==
            IF k = 0 THEN Nothing ELSE Emit(scan[k - 1], chunks[k])
    IN  scan[Len(chunks)]

\* _qo_norm_sql_str
Norm(sql) == Scanned(Chunks(Newlines(sql))).out

-----------------------------------------------------------------------------
(* cache_key: normalise field after field, hash, restore.                   *)
Fields == {"metrics", "columns", "orderby", "series_limit_metric"}

FollowingStep ==
    [metrics |-> "columns", columns |-> "orderby",
     orderby |-> "series_limit_metric", series_limit_metric |-> "hash"]

CacheInit ==
    /\ written = << >>
    /\ query = [f \in Fields |-> << >>]
    /\ saved = << >> /\ step = "idle"

\* The cache key is not computed in this behaviour.
CacheUnused == CacheInit

Write ==
    /\ step = "idle" /\ Len(written) < MaxSql
    /\ \E c \in Characters : written' = Append(written, c)
    /\ query' = [f \in Fields |-> written']
    /\ UNCHANGED <<saved, step>>

CacheKey ==
    /\ step = "idle"
    /\ saved' = query /\ step' = "metrics"
    /\ UNCHANGED <<written, query>>

NormaliseField ==
    /\ step \in Fields
    /\ query' = [query EXCEPT ![step] = Norm(@)]
    /\ step' = FollowingStep[step]
    /\ UNCHANGED <<written, saved>>

\* Mutant: series_limit_metric, the field without a list, is not restored.
RestoreLists ==
    /\ step # "idle"
    /\ query' = [saved EXCEPT !.series_limit_metric = query.series_limit_metric]
    /\ saved' = << >> /\ step' = "idle"
    /\ UNCHANGED written

\* The key is computed from the fields as they are now, or any statement of the
\* try block raises; the finally block runs in both cases.
Restore ==
    /\ step # "idle"
    /\ query' = saved
    /\ saved' = << >> /\ step' = "idle"
    /\ UNCHANGED written

CacheNext == Write \/ CacheKey \/ NormaliseField \/ Restore

-----------------------------------------------------------------------------
(* What some SQL means, for a lexer that knows nothing of the scanner above: *)
(* its pieces, words, quoted regions and operators of one character, with    *)
(* comments and white space between them dropped, and which of its pieces    *)
(* are one token, as the two of "<=".  The lexer reads one character at a    *)
(* time; before is the operator just before.                                 *)
Lexer == [mode |-> "code", tokens |-> << >>, token |-> << >>, before |-> "none",
          delimiter |-> "none", lineComment |-> FALSE, quotedCR |-> FALSE,
          comment |-> FALSE]

Flush(lx) == IF lx.token = << >> THEN lx
             ELSE [lx EXCEPT !.tokens = Append(@, lx.token), !.token = << >>]

OpenComment(lx, mode) ==
    [lx EXCEPT !.mode = mode, !.before = "none", !.comment = TRUE,
               !.tokens = SubSeq(@, 1, Len(@) - 1),
               !.lineComment = @ \/ mode = "line"]

ReadCode(lx, c) ==
    CASE lx.before = "-" /\ c = "-" -> OpenComment(lx, "line")
      [] lx.before = "/" /\ c = "*" -> OpenComment(lx, "block")
      [] c \in Quotes -> [Flush(lx) EXCEPT !.mode = "quote", !.delimiter = c,
                                           !.token = <<c>>, !.before = "none"]
      [] c \in Space \union {"cr"} -> [Flush(lx) EXCEPT !.before = "none"]
      [] c \in Tight /\ ~(c = "-" /\ lx.before = "-") /\ ~(c = "*" /\ lx.before = "/")
            -> [Flush([Flush(lx) EXCEPT !.token = <<c>>]) EXCEPT !.before = c]
      [] OTHER -> [lx EXCEPT !.token = Append(@, c), !.before = "none"]

Read(lx, c) ==
    CASE lx.mode = "code"    -> ReadCode(lx, c)
      [] lx.mode = "quote"   ->
            [lx EXCEPT !.token = Append(@, c), !.quotedCR = @ \/ c = "cr",
                       !.mode = IF c = lx.delimiter THEN "closing" ELSE @]
      [] lx.mode = "closing" ->
            IF c = lx.delimiter
            THEN [lx EXCEPT !.token = Append(@, c), !.mode = "quote"]
            ELSE ReadCode([Flush(lx) EXCEPT !.mode = "code"], c)
      [] lx.mode = "line"    ->
            IF c \in {"nl", "cr"} THEN [lx EXCEPT !.mode = "code"] ELSE lx
      [] lx.mode = "block"   ->
            IF lx.before = "*" /\ c = "/"
            THEN [lx EXCEPT !.mode = "code", !.before = "none"]
            ELSE [lx EXCEPT !.before = c]

Reading(sql) ==
    LET read[k \in 0 .. Len(sql)] == IF k = 0 THEN Lexer ELSE Read(read[k - 1], sql[k])
    IN  read

ReadAll(sql) == Reading(sql)[Len(sql)]

Lexed(sql) == Flush(ReadAll(sql))

Pieces(sql) == Lexed(sql).tokens

\* n is here when the pieces n and n + 1 are one token: they end and begin with
\* characters that make one, and nothing stands between these.
Joints(sql) ==
    LET read == Reading(sql)
        Ends(j) == read[j].mode = "code" /\ (read[j].before = sql[j] \/ read[j].token # << >>)
        Opens(j) == Pair(sql, j, "-", "-") \/ Pair(sql, j, "/", "*")
        joined == {j \in 1 .. Len(sql) - 1 : /\ <<sql[j], sql[j + 1]>> \in Compound
                                             /\ Ends(j) /\ Ends(j + 1) /\ ~Opens(j + 1)}
    IN  {Len(Flush(read[j]).tokens) : j \in joined}

Meaning(sql) == [pieces |-> Pieces(sql), joints |-> Joints(sql)]

\* All neighbours that make one token together are one: none of them are kept
\* apart by white space or a comment, as in "< =".
Compact(sql) ==
    LET pieces == Pieces(sql)
    IN  Joints(sql) = {n \in 1 .. Len(pieces) - 1 :
                          <<pieces[n][Len(pieces[n])], pieces[n + 1][1]>> \in Compound}

\* sql with c after its first p characters.
SpacedAt(sql, p, c) == SubSeq(sql, 1, p) \o <<c>> \o SubSeq(sql, p + 1, Len(sql))

(* The key has the words, quoted regions and operator characters of the SQL *)
(* it was made from, in their order: of all SQL but that with line          *)
(* comments, whose newline the scanner turns into a space, and that with CR *)
(* in a quoted region, which it turns to LF.                                *)
KeyKeepsPieces ==
    step = "idle" =>
        LET lexed == Lexed(written)
        IN  ~lexed.lineComment /\ ~lexed.quotedCR => Pieces(Norm(written)) = lexed.tokens

(* Two queries that share a key are the same query (comment at lines        *)
(* 399-401): of SQL in which no operator is written with white space inside *)
(* it the key has the meaning, the compound operators and all.  It is not   *)
(* so of other SQL: "a < = b" gets the key of "a <= b" (emit_tight drops    *)
(* the space), and text on the line after a line comment the key of the     *)
(* same text inside it (line 458).                                          *)
KeyKeepsMeaning ==
    (step = "idle" /\ ~Lexed(written).lineComment /\ ~Lexed(written).quotedCR
        /\ Compact(written))
            => Meaning(Norm(written)) = Meaning(written)

(* Worker and UI agree: white space next to an operator, to other white     *)
(* space, or at either end, makes no other key (the two symptoms at lines   *)
(* 381-386), wherever it is not put into a quoted region.                   *)
WhitespaceIgnored ==
    (step = "idle" /\ ~Lexed(written).comment) =>
        \A p \in 0 .. Len(written) : \A c \in Characters \intersect {"sp", "nl"} :
            LET before == IF p = 0 THEN "sp" ELSE written[p]
                after  == IF p = Len(written) THEN "sp" ELSE written[p + 1]
                spaced == SpacedAt(written, p, c)
            IN  (/\ {before, after} \intersect (Tight \union Space \union {"cr"}) # {}
                 /\ Pieces(spaced) = Pieces(written))
                    => Norm(spaced) = Norm(written)

(* The SQL that is executed is never modified (comment at lines 389-392):   *)
(* outside of cache_key every field holds what was written, also when one   *)
(* of the fields could not be normalised or the key could not be computed.  *)
QueryUntouched == step = "idle" => query = [f \in Fields |-> written]
=============================================================================
