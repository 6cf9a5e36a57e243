------------------------ MODULE PureFunctions_proofs ------------------------
(***************************************************************************)
(* Proofs about what Superset's configuration computes: the behaviours of  *)
(* MCPureFunctions, for SQL of any length over any of the characters, any  *)
(* number of feature-flag entries and any body of a response.              *)
(***************************************************************************)
EXTENDS MCPureFunctions, CacheKeyNorm_proofs, FiniteSetTheorems, WellFoundedInduction, TLAPS

allVars == <<cacheVars, configVars, rewriterVars>>

-----------------------------------------------------------------------------
(* The permission error rewriter.                                           *)

\* Until the hook has run, the response is one of Superset's and body what it
\* holds; afterwards what users are promised holds.
RewriterInv ==
    /\ handled \in BOOLEAN
    /\ handled => DenialsReworded
    /\ ~handled => \/ response = NoResponse
                   \/ response \in Responses /\ body = response.body

\* Rewriting leaves no denial of Trino, names the most specific one, and keeps
\* everything else.
LEMMA RewritingLeaves ==
    ASSUME NEW leaf \in Leaves
    PROVE  /\ Rewritten(leaf) \notin Texts \ {"plain", "blank"}
           /\ leaf \in {"denied_columns", "denied_both"} => Rewritten(leaf) = "restricted_columns"
           /\ leaf \in {"plain", "blank", "number"} => Rewritten(leaf) = leaf
BY DEF Rewritten, Leaves, Texts

LEMMA RewriterStep == RewriterInv /\ [RewriteResponse]_rewriterVars => RewriterInv'
<1> SUFFICES ASSUME RewriterInv, [RewriteResponse]_rewriterVars PROVE RewriterInv'
  OBVIOUS
<1>1. CASE RewriteResponse
  <2>1. response \in Responses /\ body = response.body /\ handled' = TRUE /\ body' = body
    BY <1>1 DEF RewriteResponse, RewriterInv
  <2>2. CASE Considered /\ response' = [response EXCEPT !.body =
                              [p \in Places |-> Rewritten(response.body[p])]]
    <3>1. /\ response.type = "json" /\ response.path # "other" /\ ~response.passthrough
          /\ response.status = "error" \/ response.path = "async_event"
          /\ response.body # Unparsable
      BY <2>2 DEF Considered
    <3>2. response.body \in [Places -> Leaves]
      BY <2>1, <3>1 DEF Responses
    <3>3. /\ response'.type = response.type /\ response'.path = response.path
          /\ response'.status = response.status /\ response'.passthrough = response.passthrough
          /\ response'.body = [p \in Places |-> Rewritten(response.body[p])]
      BY <2>1, <2>2 DEF Responses
    <3>4. \A p \in Places :
              /\ response'.body[p] = Rewritten(body'[p])
              /\ body'[p] \in Leaves
      BY <2>1, <3>2, <3>3
    <3>5. response.status \in {"ok", "error"}
      BY <2>1 DEF Responses
    <3>6. DenialsReworded'
      BY <2>1, <3>1, <3>3, <3>4, <3>5, RewritingLeaves DEF DenialsReworded
    <3> QED BY <2>1, <3>6 DEF RewriterInv
  <2>3. CASE ~Considered /\ UNCHANGED response
    <3>1. response'.body = body'
      BY <2>1, <2>3
    <3>2. ~(/\ response'.type = "json" /\ response'.path # "other"
            /\ ~response'.passthrough /\ response'.body # Unparsable
            /\ response'.status = "error" \/ response'.path = "async_event")
      BY <2>3 DEF Considered
    <3>3. DenialsReworded'
      BY <3>1, <3>2 DEF DenialsReworded
    <3> QED BY <2>1, <3>3 DEF RewriterInv
  <2> QED BY <1>1, <2>2, <2>3 DEF RewriteResponse
<1>2. CASE UNCHANGED rewriterVars
  BY <1>2 DEF rewriterVars, RewriterInv, DenialsReworded
<1> QED BY <1>1, <1>2

(* No denial of Trino passes the rewriter in Trino's words, the most        *)
(* specific one is named, and everything else passes untouched              *)
(* (permission_error_messages.py), for bodies of any shape.                 *)
THEOREM Rewording == Spec => []DenialsReworded
<1>1. Init => RewriterInv
  <2>1. RewriterInit => RewriterInv
    BY DEF RewriterInit, RewriterInv
  <2>2. RewriterUnused => RewriterInv
    BY DEF RewriterUnused, RewriterInv
  <2> QED BY <2>1, <2>2 DEF Init
<1>2. RewriterInv /\ [Next]_<<cacheVars, configVars, rewriterVars>> => RewriterInv'
  BY RewriterStep DEF Next, rewriterVars
<1>3. RewriterInv => DenialsReworded
  BY DEF RewriterInv, DenialsReworded
<1> QED BY <1>1, <1>2, <1>3, PTL DEF Spec

-----------------------------------------------------------------------------
(* The cache key.                                                           *)

\* What is written is SQL; while the fields are normalised one by one, the
\* originals are saved.
CacheInv ==
    /\ written \in Seq(Characters)
    /\ step \in Fields \union {"hash", "idle"}
    /\ IF step = "idle" THEN query = [f \in Fields |-> written]
                        ELSE saved = [f \in Fields |-> written]

LEMMA CacheStep == CacheInv /\ [CacheNext]_cacheVars => CacheInv'
<1> SUFFICES ASSUME CacheInv, [CacheNext]_cacheVars PROVE CacheInv'
  OBVIOUS
<1>1. CASE Write
  BY <1>1 DEF Write, CacheInv
<1>2. CASE CacheKey
  BY <1>2 DEF CacheKey, CacheInv, Fields
<1>3. CASE NormaliseField
  <2>1. FollowingStep[step] \in (Fields \union {"hash"})
    BY <1>3 DEF NormaliseField, Fields, FollowingStep
  <2> QED BY <1>3, <2>1 DEF NormaliseField, CacheInv, Fields
<1>4. CASE Restore
  BY <1>4 DEF Restore, CacheInv
<1>5. CASE UNCHANGED cacheVars
  BY <1>5 DEF cacheVars, CacheInv
<1> QED BY <1>1, <1>2, <1>3, <1>4, <1>5 DEF CacheNext

LEMMA CacheInvariant == Spec => []CacheInv
<1>1. Init => CacheInv
  <2>1. Init => CacheInit
    BY DEF Init, CacheUnused
  <2>2. << >> \in Seq(Characters)
    OBVIOUS
  <2>3. CacheInit => CacheInv
    BY <2>2 DEF CacheInit, CacheInv
  <2> QED BY <2>1, <2>3
<1>2. CacheInv /\ [Next]_<<cacheVars, configVars, rewriterVars>> => CacheInv'
  BY CacheStep DEF Next, cacheVars
<1> QED BY <1>1, <1>2, PTL DEF Spec

(* The SQL that is executed is what was written whatever cache_key did to   *)
(* its copies and wherever it failed (superset_config.py, the try and       *)
(* finally of cache_key).                                                   *)
THEOREM Untouched == Spec => []QueryUntouched
<1>1. CacheInv => QueryUntouched
  BY DEF CacheInv, QueryUntouched
<1> QED BY <1>1, CacheInvariant, PTL

(* What a key is made from has the words, quoted regions and operator       *)
(* characters of the SQL a chart holds (_qo_norm_sql_str), of any length.   *)
THEOREM KeyKeepsItsPieces == Spec => []KeyKeepsPieces
<1>1. CacheInv => KeyKeepsPieces
  BY NormKeepsPieces DEF CacheInv, KeyKeepsPieces, Pieces
<1> QED BY <1>1, CacheInvariant, PTL

(* Worker and UI agree: white space put next to an operator or other white  *)
(* space or at either end, and not into a quoted region, makes no other key *)
(* (_qo_norm_sql_str), for SQL of any length.                               *)
THEOREM SpacingIgnored == Spec => []WhitespaceIgnored
<1>1. CacheInv => WhitespaceIgnored
  <2> SUFFICES ASSUME CacheInv, ~Lexed(written).comment,
                      NEW p \in 0 .. Len(written), NEW c \in Characters \intersect {"sp", "nl"},
                      LET before == IF p = 0 THEN "sp" ELSE written[p]
                          after  == IF p = Len(written) THEN "sp" ELSE written[p + 1]
                      IN  {before, after} \intersect (Tight \union Space \union {"cr"}) # {},
                      Pieces(SpacedAt(written, p, c)) = Pieces(written)
               PROVE  Norm(SpacedAt(written, p, c)) = Norm(written)
    BY DEF WhitespaceIgnored
  <2>1. written \in Seq(Characters) /\ c \in Space
    BY DEF CacheInv, Space
  <2>2. \/ p = 0 \/ p = Len(written)
        \/ written[p] \in Loose \/ written[p + 1] \in Loose
    BY DEF Loose
  <2> QED BY <2>1, <2>2, SpacingKeepsKey
<1> QED BY <1>1, CacheInvariant, PTL

-----------------------------------------------------------------------------
(* The options of the charm.                                                *)

LEMMA OptionNames ==
    /\ Ranged = {"sqlalchemy_pool_size", "sqlalchemy_pool_timeout", "sqlalchemy_max_overflow",
                 "global_async_queries_polling_delay", "sentry_sample_rate",
                 "webserver_timeout", "server_worker_amount", "gunicorn_timeout",
                 "celery_worker_concurrency"}
    /\ DOMAIN Default = {"max_content_length", "max_form_memory_size", "max_form_parts"}
    /\ \A o \in DOMAIN Default : Default[o] \in Int \union {NoValue}
<1>1. Ranged = {"sqlalchemy_pool_size", "sqlalchemy_pool_timeout", "sqlalchemy_max_overflow",
                 "global_async_queries_polling_delay", "sentry_sample_rate",
                 "webserver_timeout", "server_worker_amount", "gunicorn_timeout",
                 "celery_worker_concurrency"}
  BY DEF Ranged, Bounds
<1>2. DOMAIN Default = {"max_content_length", "max_form_memory_size", "max_form_parts"}
  BY DEF Default
<1>3. \A o \in DOMAIN Default : Default[o] \in Int \union {NoValue}
  BY <1>2 DEF Default
<1> QED BY <1>1, <1>2, <1>3

LEMMA BoundsType == \A o \in Ranged : Bounds[o][1] \in Int /\ Bounds[o][2] \in Int
BY OptionNames DEF Bounds

LEMMA NumbersType == Numbers \subseteq Int
BY BoundsType DEF Numbers

\* The last entry for a flag exists, and FlagSet takes its value.
LEMMA LastEntry ==
    ASSUME NEW n \in Nat, NEW entries \in [1 .. n -> Entry], NEW i \in 1 .. n,
           \A j \in 1 .. n : j > i => entries[j].name # entries[i].name
    PROVE  FlagSet(entries)[entries[i].name] = ~entries[i].negated
<1> DEFINE named == {j \in DOMAIN entries : entries[j].name = entries[i].name}
<1>1. i \in named /\ \A j \in named : j <= i
  OBVIOUS
<1>2. (CHOOSE k \in named : \A j \in named : j <= k) = i
  <2>1. \A k \in named : (\A j \in named : j <= k) => k = i
    BY <1>1
  <2> HIDE DEF named
  <2> QED BY <1>1, <2>1
<1>3. entries[i].name \in {entries[j].name : j \in DOMAIN entries}
  OBVIOUS
<1> QED BY <1>2, <1>3 DEF FlagSet

LEMMA FlagsType ==
    ASSUME NEW n \in Nat, NEW entries \in [1 .. n -> Entry],
           \A i \in DOMAIN entries : entries[i].name \in Flags
    PROVE  \E fs \in SUBSET Flags : FlagSet(entries) \in [fs -> BOOLEAN]
<1> DEFINE fs == {entries[i].name : i \in DOMAIN entries}
           last(f) == CHOOSE i \in {i \in DOMAIN entries : entries[i].name = f} :
                          \A j \in {j \in DOMAIN entries : entries[j].name = f} : j <= i
<1>1. FlagSet(entries) = [f \in fs |-> ~entries[last(f)].negated]
  BY DEF FlagSet
<1>2. fs \in SUBSET Flags
  OBVIOUS
<1> HIDE DEF last
<1>3. FlagSet(entries) \in [fs -> BOOLEAN]
  <2> SUFFICES ASSUME NEW f \in fs PROVE (~entries[last(f)].negated) \in BOOLEAN
    BY <1>1
  <2> QED OBVIOUS
<1> QED BY <1>2, <1>3

\* What the charm hands on: the set flags, or the value as it is.
Accepted(o, v) == IF o = "feature_flags" THEN FlagSet(v) ELSE v

\* A value that reached a stage is a legal one, and accepted from the plan on.
ConfigInv ==
    /\ stage \in {"given", "blocked", "planned", "loaded", "crashed"}
    /\ option = "unused" => stage = "given"
    /\ option # "unused" => option \in Options /\ given \in Values(option)
    /\ stage = "planned" => Valid(option, given) /\ carried = Accepted(option, given)
    /\ AcceptedLoads
    /\ LoadedAsGiven

\* An accepted value that is no flag loads, the port of the secret apart: as it
\* is, or as the default when it is None.
LEMMA ValueLoads ==
    ASSUME NEW o \in Options \ {"feature_flags"}, NEW v \in Values(o), Valid(o, v)
    PROVE  LET setting == Setting(o, Env(v))
           IN  /\ setting \in {Blank, Text} => o = "smtp_port" /\ v = Text
               /\ CASE v = NoValue                -> setting = Default[o]
                    [] o = "smtp_port" /\ v = 0   -> setting = NoValue
                    [] OTHER                      -> setting = v
               /\ o \in Ranged => setting \in Bounds[o][1] .. Bounds[o][2]
<1> DEFINE setting == Setting(o, Env(v))
<1> USE OptionNames
<1>1. CASE o \in Ranged
  <2>1. v \in Int
    BY <1>1, NumbersType DEF Values, Valid, Sizes
  <2>2. v # NoValue /\ v # Blank /\ v # Text
    BY <2>1, ValuesAssumption
  <2>3. setting = v
    BY <1>1, <2>2 DEF Setting, Env
  <2>4. Bounds[o][1] <= v /\ v <= Bounds[o][2]
    BY <1>1 DEF Valid, Sizes
  <2>5. v \in Bounds[o][1] .. Bounds[o][2]
    BY <1>1, <2>1, <2>4, BoundsType
  <2> QED BY <1>1, <2>2, <2>3, <2>5
<1>2. CASE o \in DOMAIN Default
  <2>1. v \in Int \union {NoValue}
    BY <1>2, NumbersType DEF Values
  <2>2. v # Blank /\ v # Text
    BY <2>1, ValuesAssumption
  <2>3. Default[o] \notin {Blank, Text}
    BY <1>2, ValuesAssumption
  <2>4. CASE v = NoValue
    <3>1. setting = Default[o]
      BY <1>2, <2>4 DEF Setting, Env
    <3> QED BY <1>2, <2>3, <2>4, <3>1
  <2>5. CASE v # NoValue
    <3>1. setting = v
      BY <1>2, <2>2, <2>5 DEF Setting, Env
    <3> QED BY <1>2, <2>2, <2>5, <3>1
  <2> QED BY <2>4, <2>5
<1>3. CASE o = "dashboard_size_limit"
  <2>1. v \in Int
    BY <1>3, NumbersType DEF Values
  <2>2. v # NoValue /\ v # Blank /\ v # Text
    BY <2>1, ValuesAssumption
  <2>3. setting = v
    BY <1>3, <2>2 DEF Setting, Env
  <2> QED BY <1>3, <2>2, <2>3
<1>4. CASE o = "smtp_port"
  <2>1. v \in {0, 25, Text}
    BY <1>4 DEF Values
  <2>2. v # NoValue /\ v # Blank /\ NoValue \notin {Blank, Text}
    BY <2>1, ValuesAssumption
  <2>3. setting = IF v = 0 THEN NoValue ELSE v
    BY <1>4, <2>2 DEF Setting, Env
  <2>4. Text # 0
    BY ValuesAssumption
  <2> QED BY <1>4, <2>1, <2>2, <2>3, <2>4
<1> QED BY <1>1, <1>2, <1>3, <1>4 DEF Options, Ranged

\* Accepted flags load as a function from flags, which says of each flag what its
\* last entry says, except that reports force screenshots on.
LEMMA FlagsLoad ==
    ASSUME NEW n \in Nat, NEW entries \in [1 .. n -> Entry],
           \A i \in DOMAIN entries : entries[i].name \in Flags
    PROVE  LET setting == FeatureFlags(FlagSet(entries))
           IN  /\ setting \notin {Blank, Text}
               /\ \A i \in DOMAIN entries :
                      (\A j \in DOMAIN entries : j > i => entries[j].name # entries[i].name) =>
                          setting[entries[i].name] =
                              (\/ ~entries[i].negated
                               \/ /\ entries[i].name = "PLAYWRIGHT_REPORTS_AND_THUMBNAILS"
                                  /\ "ALERT_REPORTS" \in DOMAIN setting
                                  /\ setting["ALERT_REPORTS"])
<1> DEFINE env == FlagSet(entries)
           setting == FeatureFlags(env)
           alert == "ALERT_REPORTS" \in DOMAIN env /\ env["ALERT_REPORTS"]
           shots == "PLAYWRIGHT_REPORTS_AND_THUMBNAILS"
<1>1. PICK fs \in SUBSET Flags : env \in [fs -> BOOLEAN]
  BY FlagsType
<1>2. \A i \in DOMAIN entries :
          (\A j \in DOMAIN entries : j > i => entries[j].name # entries[i].name) =>
              env[entries[i].name] = ~entries[i].negated
  BY LastEntry
<1>3. \A i \in DOMAIN entries : entries[i].name \in DOMAIN env
  BY DEF FlagSet
<1> HIDE DEF env
<1>4. setting = [f \in fs \union (IF alert THEN {shots} ELSE {}) |->
                    IF f = shots /\ alert THEN TRUE ELSE env[f]]
  <2>1. DOMAIN env = fs
    BY <1>1
  <2> QED BY Zenon, <2>1 DEF FeatureFlags
<1> HIDE DEF setting
<1>5. setting \notin {Blank, Text}
  <2>1. \E gs \in SUBSET Flags : setting \in [gs -> BOOLEAN]
    <3> DEFINE gs == fs \union (IF alert THEN {shots} ELSE {})
    <3>1. gs \in SUBSET Flags
      BY DEF Flags
    <3>2. \A f \in gs : (IF f = shots /\ alert THEN TRUE ELSE env[f]) \in BOOLEAN
      BY <1>1
    <3>3. setting \in [gs -> BOOLEAN]
      BY <1>4, <3>2
    <3> QED BY <3>1, <3>3
  <2> QED BY <2>1, ValuesAssumption DEF Flags
<1>6. ("ALERT_REPORTS" \in DOMAIN setting /\ setting["ALERT_REPORTS"]) <=> alert
  BY <1>1, <1>4
<1>7. ASSUME NEW i \in DOMAIN entries,
             \A j \in DOMAIN entries : j > i => entries[j].name # entries[i].name
      PROVE  setting[entries[i].name] =
                 (\/ ~entries[i].negated
                  \/ /\ entries[i].name = shots
                     /\ "ALERT_REPORTS" \in DOMAIN setting
                     /\ setting["ALERT_REPORTS"])
  <2>1. entries[i].name \in fs /\ env[entries[i].name] = ~entries[i].negated
    BY <1>1, <1>2, <1>3, <1>7
  <2>2. setting[entries[i].name] = IF entries[i].name = shots /\ alert THEN TRUE
                                   ELSE ~entries[i].negated
    BY Zenon, <1>4, <2>1
  <2>3. entries[i].negated \in BOOLEAN
    BY DEF Entry
  <2> QED BY <1>6, <2>2, <2>3
<1> QED BY <1>5, <1>7 DEF setting, env

LEMMA FlagValues ==
    ASSUME NEW v, v \in Values("feature_flags")
    PROVE  \E n \in Nat : v \in [1 .. n -> Entry]
BY ValuesAssumption, OptionNames DEF Values

LEMMA ConfigStep == ConfigInv /\ [ConfigNext]_configVars => ConfigInv'
<1> SUFFICES ASSUME ConfigInv, [ConfigNext]_configVars PROVE ConfigInv'
  OBVIOUS
<1>1. CASE Validate
  <2>1. /\ option' = option /\ given' = given /\ option \in Options
        /\ given \in Values(option)
    BY <1>1 DEF Validate, ConfigInv
  <2>2. \/ stage' = "planned" /\ Valid(option, given) /\ carried' = Accepted(option, given)
        \/ stage' = "blocked"
    BY <1>1 DEF Validate, Accepted
  <2>3. (stage' = "planned" => Valid(option', given') /\ carried' = Accepted(option', given'))
    BY <2>1, <2>2
  <2>4. AcceptedLoads' /\ LoadedAsGiven'
    BY <2>2 DEF AcceptedLoads, LoadedAsGiven
  <2>5. option # "unused"
    BY <1>1 DEF Validate
  <2> QED BY <2>1, <2>2, <2>3, <2>4, <2>5 DEF ConfigInv
<1>2. CASE Load
  <2> DEFINE setting == Setting(option, IF option = "feature_flags" THEN carried
                                        ELSE Env(carried))
  <2>1. /\ option' = option /\ given' = given /\ option # "unused" /\ option \in Options
        /\ given \in Values(option) /\ Valid(option, given)
        /\ carried = Accepted(option, given)
    BY <1>2 DEF Load, ConfigInv
  <2>2. \/ setting \in {Blank, Text} /\ stage' = "crashed"
        \/ setting \notin {Blank, Text} /\ stage' = "loaded" /\ carried' = setting
    BY <1>2 DEF Load
  <2> HIDE DEF setting
  <2>3. CASE option = "feature_flags"
    <3>1. PICK n \in Nat : given \in [1 .. n -> Entry]
      BY <2>1, <2>3, FlagValues
    <3>2. \A i \in DOMAIN given : given[i].name \in Flags
      BY <2>1, <2>3, OptionNames DEF Valid, Sizes
    <3>3. setting = FeatureFlags(FlagSet(given))
      BY <2>1, <2>3, OptionNames DEF setting, Setting, Accepted
    <3>4. stage' = "loaded" /\ carried' = FeatureFlags(FlagSet(given))
      BY <2>2, <3>1, <3>2, <3>3, FlagsLoad
    <3>5. AcceptedLoads'
      BY <3>4 DEF AcceptedLoads
    <3>6. LoadedAsGiven'
      BY <2>1, <2>3, <3>1, <3>2, <3>4, FlagsLoad DEF LoadedAsGiven
    <3> QED BY <2>1, <3>4, <3>5, <3>6 DEF ConfigInv
  <2>4. CASE option # "feature_flags"
    <3>1. setting = Setting(option, Env(given))
      BY <2>1, <2>4 DEF setting, Accepted
    <3>2. /\ setting \in {Blank, Text} => option = "smtp_port" /\ given = Text
          /\ CASE given = NoValue                  -> setting = Default[option]
               [] option = "smtp_port" /\ given = 0 -> setting = NoValue
               [] OTHER                             -> setting = given
          /\ option \in Ranged => setting \in Bounds[option][1] .. Bounds[option][2]
      BY <2>1, <2>4, <3>1, ValueLoads
    <3>3. AcceptedLoads'
      BY <2>1, <2>2, <3>2 DEF AcceptedLoads
    <3>4. LoadedAsGiven'
      BY <2>1, <2>2, <2>4, <3>2 DEF LoadedAsGiven
    <3> QED BY <2>1, <2>2, <3>3, <3>4 DEF ConfigInv
  <2> QED BY <2>3, <2>4
<1>3. CASE UNCHANGED configVars
  BY <1>3 DEF configVars, ConfigInv, AcceptedLoads, LoadedAsGiven
<1> QED BY <1>1, <1>2, <1>3 DEF ConfigNext

LEMMA ConfigInvariant == Spec => []ConfigInv
<1>1. Init => ConfigInv
  <2>1. "unused" \notin Options
    BY OptionNames DEF Options, Ranged
  <2>2. ConfigInit => ConfigInv
    BY <2>1 DEF ConfigInit, ConfigInv, AcceptedLoads, LoadedAsGiven
  <2>3. ConfigUnused => ConfigInv
    BY DEF ConfigUnused, ConfigInv, AcceptedLoads, LoadedAsGiven
  <2> QED BY <2>2, <2>3 DEF Init
<1>2. ConfigInv /\ [Next]_<<cacheVars, configVars, rewriterVars>> => ConfigInv'
  BY ConfigStep DEF Next, configVars
<1> QED BY <1>1, <1>2, PTL DEF Spec

(* An option the charm accepts never keeps Superset from starting, whatever *)
(* it is set to and however many feature flags it lists; the port of the    *)
(* SMTP secret, which nothing validates, is the one exception.              *)
THEOREM Loading == Spec => []AcceptedLoads
<1>1. ConfigInv => AcceptedLoads
  BY DEF ConfigInv
<1> QED BY <1>1, ConfigInvariant, PTL

(* Superset runs with what the user set, inside of the documented range,    *)
(* and every flag has the value of its last entry.                          *)
THEOREM LoadedFaithfully == Spec => []LoadedAsGiven
<1>1. ConfigInv => LoadedAsGiven
  BY DEF ConfigInv
<1> QED BY <1>1, ConfigInvariant, PTL
=============================================================================
