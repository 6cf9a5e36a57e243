--------------------------- MODULE WorkloadConfig ---------------------------
(***************************************************************************)
(* The way of a config option into Superset: validated by the charm        *)
(* (src/structured_config.py), passed as an environment variable           *)
(* (src/charm.py, _create_env), parsed again when Superset loads           *)
(* templates/superset_config.py.  An option the second parser cannot read  *)
(* keeps Superset from starting although the charm accepted it.            *)
(*                                                                         *)
(* Options do not depend on each other, except feature flags, so a         *)
(* behaviour takes one option through the three stages.  Sample rates are  *)
(* in per cent.                                                            *)
(***************************************************************************)
EXTENDS Integers, Sequences

CONSTANTS
    MaxEntries,     \* bound: entries of the feature-flags option
    NoValue,        \* None, or an option that is not set
    Blank,          \* the empty string
    Text            \* a string that is no number

\* None and the texts are neither numbers nor feature flags, which are a
\* function from the names of some flags to BOOLEAN.
ASSUME ValuesAssumption ==
    /\ MaxEntries \in Nat
    /\ NoValue \notin {Blank, Text} /\ Blank # Text
    /\ {NoValue, Blank, Text} \intersect Int = {}
    /\ \A fs \in SUBSET {"ALERT_REPORTS", "PLAYWRIGHT_REPORTS_AND_THUMBNAILS", "KV_STORE"} :
           {NoValue, Blank, Text} \intersect [fs -> BOOLEAN] = {}

VARIABLES
    option,         \* the option, or "unused"
    given,          \* what the user set it to
    stage,          \* "given", "blocked", "planned", "loaded" or "crashed"
    carried         \* the value on its way: of the charm, of the environment,
                    \* of Superset

configVars == <<option, given, stage, carried>>

\* The validated ranges.
Bounds ==
    [sqlalchemy_pool_size |-> <<0, 300>>, sqlalchemy_pool_timeout |-> <<0, 420>>,
     sqlalchemy_max_overflow |-> <<0, 100>>,
     global_async_queries_polling_delay |-> <<500, 5000>>,
     sentry_sample_rate |-> <<0, 100>>, webserver_timeout |-> <<60, 300>>,
     server_worker_amount |-> <<1, 32>>, gunicorn_timeout |-> <<30, 600>>,
     celery_worker_concurrency |-> <<0, 128>>]

\* What Superset falls back on when the variable is empty.
Default == [max_content_length |-> NoValue, max_form_memory_size |-> 500000,
            max_form_parts |-> 1000]

Ranged == DOMAIN Bounds
Options == DOMAIN Bounds \union DOMAIN Default
              \union {"dashboard_size_limit", "feature_flags", "smtp_port"}
Sizes == DOMAIN Default \union {"dashboard_size_limit"}

\* Values around every bound.
Numbers == UNION {{Bounds[o][1] - 1, Bounds[o][1], Bounds[o][2], Bounds[o][2] + 1} : o \in Ranged}

Flags == {"ALERT_REPORTS", "PLAYWRIGHT_REPORTS_AND_THUMBNAILS", "KV_STORE"}

\* An entry of feature-flags, in any case and with any blanks around it.
Entry == [negated: BOOLEAN, name: Flags \union {"unsupported", "empty"}]

Values(o) ==
    CASE o = "feature_flags"      -> UNION {[1 .. n -> Entry] : n \in 0 .. MaxEntries}
      [] o = "sentry_sample_rate" -> Numbers \union {Blank, Text}
      [] o \in DOMAIN Default     -> Numbers \union {NoValue}
      [] o = "smtp_port"          -> {0, 25, Text}
      [] OTHER                    -> Numbers

ConfigInit ==
    /\ option \in Options
    /\ given \in Values(option)
    /\ stage = "given" /\ carried = NoValue

ConfigUnused ==
    option = "unused" /\ given = NoValue /\ stage = "given" /\ carried = NoValue

\* Mutant: the first entry of a flag decides.
FlagSetFirst(entries) ==
    LET named(f) == {i \in DOMAIN entries : entries[i].name = f}
    IN  [f \in {entries[i].name : i \in DOMAIN entries} |->
            ~entries[CHOOSE i \in named(f) : \A j \in named(f) : i <= j].negated]

-----------------------------------------------------------------------------
\* feature_flags_validator: the last entry of a flag decides.
FlagSet(entries) ==
    LET named(f) == {i \in DOMAIN entries : entries[i].name = f}
    IN  [f \in {entries[i].name : i \in DOMAIN entries} |->
            ~entries[CHOOSE i \in named(f) : \A j \in named(f) : j <= i].negated]

\* Mutant: None passes the sample rate's validator.
ValidLenient(o, v) ==
    CASE o = "feature_flags" -> \A i \in DOMAIN v : v[i].name \in Flags
      [] o \in Sizes         -> v = NoValue \/ v >= 0
      [] o = "smtp_port"     -> TRUE
      [] o \in Ranged        -> v = Blank \/
                                (v # Text /\ Bounds[o][1] <= v /\ v <= Bounds[o][2])

\* The validators of CharmConfig.  They run on None too: blank_string turns an
\* empty option into None before them, and float(None) is an error like any.
\* Nothing validates the port of the SMTP secret.
Valid(o, v) ==
    CASE o = "feature_flags" -> \A i \in DOMAIN v : v[i].name \in Flags
      [] o \in Sizes         -> v = NoValue \/ v >= 0
      [] o = "smtp_port"     -> TRUE
      [] o \in Ranged        -> /\ v \notin {Blank, Text}
                                /\ Bounds[o][1] <= v /\ v <= Bounds[o][2]

\* The structured config is made; when it is not valid, the unit blocks.
Validate ==
    /\ option # "unused" /\ stage = "given"
    /\ IF Valid(option, given)
       THEN /\ stage' = "planned"
            /\ carried' = IF option = "feature_flags" THEN FlagSet(given) ELSE given
       ELSE stage' = "blocked" /\ UNCHANGED carried
    /\ UNCHANGED <<option, given>>

\* An environment variable of the layer: None becomes the empty string.
Env(v) == IF v \in {NoValue, Blank} THEN Blank ELSE v

\* FEATURE_FLAGS of the template: the supported flags the environment sets, and
\* the screenshots that reports rely on.
FeatureFlags(env) ==
    [f \in DOMAIN env \union
           (IF "ALERT_REPORTS" \in DOMAIN env /\ env["ALERT_REPORTS"]
            THEN {"PLAYWRIGHT_REPORTS_AND_THUMBNAILS"} ELSE {}) |->
        IF f = "PLAYWRIGHT_REPORTS_AND_THUMBNAILS" /\ "ALERT_REPORTS" \in DOMAIN env
              /\ env["ALERT_REPORTS"]
        THEN TRUE ELSE env[f]]

\* int(v) if v else default, for the options that may be empty; int(v) or
\* float(v) for the others, which fails on the empty string and on a text.
Setting(o, text) ==
    CASE o = "feature_flags"             -> FeatureFlags(text)
      [] o \in DOMAIN Default /\ text = Blank -> Default[o]
      [] o = "smtp_port" /\ text = 0          -> NoValue
      [] OTHER                           -> text

Load ==
    /\ stage = "planned"
    /\ LET setting == Setting(option, IF option = "feature_flags" THEN carried
                                      ELSE Env(carried))
       IN  IF setting \in {Blank, Text} THEN stage' = "crashed" /\ UNCHANGED carried
           ELSE stage' = "loaded" /\ carried' = setting
    /\ UNCHANGED <<option, given>>

ConfigNext == Validate \/ Load

(* Whatever the charm accepts, Superset can load: the unit is blocked       *)
(* instead of the workload restarting for ever.  An empty sample rate is    *)
(* rejected only because float(None) fails (structured_config.py:192).  The *)
(* one exception is an SMTP port that is no number.                         *)
AcceptedLoads == stage = "crashed" => option = "smtp_port" /\ given = Text

(* What Superset runs with is what the user set, the value or its default,  *)
(* and within the range the charm documents.  Feature flags mean what the   *)
(* option says, read from left to right: of two entries for one flag the    *)
(* later one holds, except that reports force screenshots on                *)
(* (superset_config.py:261).                                                *)
LoadedAsGiven ==
    stage = "loaded" =>
        IF option = "feature_flags"
        THEN \A i \in DOMAIN given :
                 (\A j \in DOMAIN given : j > i => given[j].name # given[i].name) =>
                     carried[given[i].name] =
                         (\/ ~given[i].negated
                          \/ /\ given[i].name = "PLAYWRIGHT_REPORTS_AND_THUMBNAILS"
                             /\ "ALERT_REPORTS" \in DOMAIN carried /\ carried["ALERT_REPORTS"])
        ELSE /\ CASE given = NoValue                  -> carried = Default[option]
                  [] option = "smtp_port" /\ given = 0 -> carried = NoValue
                  [] OTHER                             -> carried = given
             /\ option \in Ranged => carried \in Bounds[option][1] .. Bounds[option][2]
=============================================================================
