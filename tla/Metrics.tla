-------------------------------- MODULE Metrics --------------------------------
(***************************************************************************)
(* The metrics-endpoint relation at both ends (prometheus_scrape.py).      *)
(* Every unit of Superset publishes the address of its pod; its leader     *)
(* publishes the scrape jobs and the alert rules.  Prometheus expands the  *)
(* jobs over the units it sees; its leader reports jobs and rules that it  *)
(* cannot load.                                                            *)
(*                                                                         *)
(* A pod may be rescheduled with another address at any time, and no hook  *)
(* tells its unit.  Jobs are those of any charm that uses the library:     *)
(* Superset's is one job without a name for target * (all units).          *)
(***************************************************************************)
EXTENDS Naturals, Functions

CONSTANTS
    ScrapeUnits,        \* units of Superset
    Addresses,          \* addresses of pods
    Wildcard,           \* the target *, of every unit
    External,           \* the host of a target that is no unit
    NoAddress,          \* no valid address; also: nothing published yet
    NoUnitLabel,        \* a job that is of no single unit
    Relations,          \* number of relations between the two applications
    PromUnits,          \* units of Prometheus
    MaxReschedules      \* bound: pods rescheduled, and charms upgraded

VARIABLES
    address,        \* unit -> its pod's address, or NoAddress
    specJobs,       \* jobs the charm passes to the library
    verdict,        \* what cos-tool says of the charm's rules and jobs
    scrapeLeader,   \* the unit that leads
    unitBag,        \* unit -> address it has published, or NoAddress
    appBag,         \* jobs and rules published, or NotPublished
    unitHooks,      \* unit -> hooks that wait
    consumerHooks,  \* units of Prometheus with a relation-changed to run
    promLeader,     \* the unit of Prometheus that leads
    scrapeMissed,   \* history: lead passed from a unit with such a hook to one without
    scraped,        \* unit of Prometheus -> jobs of its configuration
    reported,       \* keys of "event" in Prometheus' application databag
    reschedules

consumerVars == <<scraped, reported, promLeader, scrapeMissed>>
podVars == <<address, specJobs, verdict, scrapeLeader, reschedules>>
bagVars == <<unitBag, appBag>>
metricsVars == <<podVars, bagVars, consumerVars, unitHooks, consumerHooks>>

Fqdn(u) == u            \* a unit stands for its FQDN

\* Rules that are empty, or that nothing identifies, are passed over: "none".
Verdicts == {[rules |-> r, jobs |-> "valid"] : r \in {"none", "valid", "invalid"}}
                \union {[rules |-> "valid", jobs |-> "invalid"]}

NotPublished == [jobs |-> << >>, verdict |-> [rules |-> "none", jobs |-> "valid"]]
Targets == {Wildcard, External} \union {CHOOSE a \in Addresses : TRUE}

\* A job: its name and its targets; the default name is empty.
SpecJobs == [name : {"", "job"}, targets : SUBSET Targets \ {{}}]
Unnamed == {job \in SpecJobs : job.name = ""}

\* Up to renaming: a unit is at the address that jobs name, or none is.
StartAddresses ==
    {CHOOSE f \in [ScrapeUnits -> Addresses] :
         IsInjective(f) /\ (Range(f) \intersect Targets # {}) = held : held \in BOOLEAN}

\* There are pods at other addresses than the one that jobs name.
ASSUME MetricsAssumption ==
    /\ MaxReschedules \in Nat
    /\ \A held \in BOOLEAN : \E f \in [ScrapeUnits -> Addresses] :
           IsInjective(f) /\ (Range(f) \intersect Targets # {}) = held

\* Lists of one job, and of two that both name the same unit.
SpecJobLists ==
    LET first == {job \in Unnamed : job.targets \in {{Wildcard}, Targets \ {External}}}
    IN  {<<job>> : job \in Unnamed}
            \union {<<job, other>> : job \in first,
                       other \in {o \in SpecJobs : o.targets = Targets \ {Wildcard}}}
            \union {<<job, job>> : job \in first}

-----------------------------------------------------------------------------
(* PrometheusConfig: from the jobs of the databag to those of Prometheus    *)

\* _set_unit_ip: the address if it is one, else the FQDN
UnitAddress(u) == IF address[u] = NoAddress THEN Fqdn(u) ELSE address[u]

\* _relation_hosts: unit -> address, of those that have published one
Hosts == {u \in ScrapeUnits : unitBag[u] # NoAddress}

\* _build_host_to_unit and its use: the unit a target is of, by address or FQDN
UnitsOf(target) == {u \in Hosts : target \in {unitBag[u], Fqdn(u)}}

\* A job of Prometheus, at a place in the list it is built into.
ScrapeJob(place, name, unit, targets) ==
    [place |-> place, name |-> <<name, unit>>, unit |-> unit, targets |-> targets, hash |-> << >>]

\* expand_wildcard_targets_into_individual_jobs, of job k of the databag: a job
\* for each unit of a wildcard, one for each unit whose targets it names, one
\* for the other targets.  The number of a unit is part of its job's name.
Expanded(k) ==
    LET job     == appBag.jobs[k]
        named   == job.targets \ {Wildcard}
        matched == {t \in named : UnitsOf(t) # {}}
        unit    == [t \in matched |-> CHOOSE u \in UnitsOf(t) : TRUE]
    IN  {ScrapeJob(<<k, "matched">>, job.name, u, {t \in matched : unit[t] = u}) :
             u \in Range(unit)}
        \union {ScrapeJob(<<k, "wildcard">>, job.name, u, {unitBag[u]}) :
                    u \in IF Wildcard \in job.targets THEN Hosts ELSE {}}
        \union {ScrapeJob(<<k, "rest">>, job.name, NoUnitLabel, rest) :
                    rest \in {named \ matched} \ {{}}}

SameName(j, k) == j.name = k.name /\ j.hash = k.hash

\* Mutant: equal jobs are merged, but those that share a name keep it.
DedupeEqualOnly(jobs) == {[j EXCEPT !.place = << >>] : j \in jobs}

\* _dedupe_job_names: jobs that share a name take the hash of their content
\* into it; those that are then equal are one.
Dedupe(jobs) ==
    {[j EXCEPT !.place = << >>,
               !.hash = IF \E k \in jobs \ {j} : SameName(j, k)
                        THEN <<j.hash, j.targets, j.unit>> ELSE @] : j \in jobs}

\* MetricsEndpointConsumer.jobs: each relation deduplicated, then all of them;
\* a relation whose jobs are refused has none.
Jobs ==
    LET static == Dedupe(UNION {Expanded(k) : k \in DOMAIN appBag.jobs})
    IN  IF appBag.verdict.jobs = "invalid" THEN {}
        ELSE Dedupe({[j EXCEPT !.place = r] : j \in static, r \in 1 .. Relations})

-----------------------------------------------------------------------------
(* Superset: MetricsEndpointProvider                                        *)
SetUnitIp(u) == unitBag' = [unitBag EXCEPT ![u] = UnitAddress(u)]

\* A change of what a hook publishes reaches each unit of Prometheus as one hook.
Tell == consumerHooks' = IF bagVars' = bagVars THEN consumerHooks ELSE PromUnits

HookDone(u, h) == unitHooks' = [unitHooks EXCEPT ![u] = @ \ {h}]

\* set_scrape_job_spec: on relation-joined and on config-changed
SetScrapeJobSpec(u) ==
    /\ \E h \in {"joined", "refresh"} : h \in unitHooks[u] /\ HookDone(u, h)
    /\ SetUnitIp(u)
    /\ appBag' = IF u = scrapeLeader THEN [jobs |-> specJobs, verdict |-> verdict] ELSE appBag
    /\ Tell
    /\ UNCHANGED <<podVars, consumerVars>>

\* _on_relation_changed: the address, and the events a leader emits
OnScrapeRelationChanged(u) ==
    /\ "changed" \in unitHooks[u] /\ HookDone(u, "changed")
    /\ SetUnitIp(u)
    /\ UNCHANGED <<podVars, appBag, consumerVars>>
    /\ Tell

\* Mutant: update-status leaves the address alone.
UpdateStatusIgnored(u) == FALSE /\ UNCHANGED metricsVars

\* update-status runs from time to time.
OnMetricsUpdateStatus(u) ==
    /\ "joined" \notin unitHooks[u]
    /\ SetUnitIp(u)
    /\ UNCHANGED <<podVars, appBag, consumerVars, unitHooks>>
    /\ Tell

-----------------------------------------------------------------------------
(* Prometheus: MetricsEndpointConsumer                                      *)

\* Mutant: errors that were reported stay.
ErrorsKept(p) ==
    reported \union (IF p = promLeader /\ appBag.verdict.rules = "invalid"
                     THEN {"errors"} ELSE {})

\* jobs and alerts, of the leader: jobs that are refused are reported for good,
\* rules until they are read again and valid.  Rules that are passed over
\* leave what was reported as it is.
Reported(p) ==
    LET refused == IF appBag.verdict.jobs = "invalid" THEN {"scrape_job_errors"} ELSE {}
        errors  == CASE appBag.verdict.rules = "invalid" -> reported \union {"errors"}
                     [] appBag.verdict.rules = "valid"   -> reported \ {"errors"}
                     [] OTHER                            -> reported
    IN  IF p = promLeader THEN errors \union refused ELSE reported

\* targets_changed, on which the charm asks for jobs and alerts
OnTargetsChanged(p) ==
    /\ p \in consumerHooks /\ consumerHooks' = consumerHooks \ {p}
    /\ scraped' = [scraped EXCEPT ![p] = Jobs]
    /\ reported' = Reported(p)
    /\ scrapeMissed' = (scrapeMissed /\ p # promLeader)
    /\ unitHooks' = IF reported' = reported THEN unitHooks
                    ELSE [u \in ScrapeUnits |-> unitHooks[u] \union {"changed"}]
    /\ UNCHANGED <<podVars, bagVars, promLeader>>

-----------------------------------------------------------------------------
(* Kubernetes and Juju                                                      *)
Reschedule ==
    /\ reschedules < MaxReschedules /\ reschedules' = reschedules + 1
    /\ \E u \in ScrapeUnits, a \in Addresses \union {NoAddress} :
           /\ \A v \in ScrapeUnits : a = NoAddress \/ address[v] # a
           /\ address' = [address EXCEPT ![u] = a]
    /\ UNCHANGED <<specJobs, verdict, scrapeLeader, bagVars, consumerVars, unitHooks,
                   consumerHooks>>

\* An upgrade brings other rules and jobs, and config-changed.
Upgrade ==
    /\ reschedules < MaxReschedules /\ reschedules' = reschedules + 1
    /\ verdict' \in Verdicts \ {verdict}
    /\ unitHooks' = [u \in ScrapeUnits |-> unitHooks[u] \union {"refresh"}]
    /\ UNCHANGED <<address, specJobs, scrapeLeader, bagVars, consumerVars, consumerHooks>>

MoveScrapeLeader ==
    /\ \E u \in ScrapeUnits : scrapeLeader' = u /\ u # scrapeLeader
    /\ UNCHANGED <<address, specJobs, verdict, reschedules, bagVars, consumerVars,
                   unitHooks, consumerHooks>>

\* The lead of Prometheus may pass from a unit that has yet to read what was
\* published to one that read it when it did not lead.
MovePromLeader ==
    /\ \E p \in PromUnits \ {promLeader} :
           /\ promLeader' = p
           /\ scrapeMissed' = (scrapeMissed \/ (promLeader \in consumerHooks /\ p \notin consumerHooks))
    /\ UNCHANGED <<podVars, bagVars, scraped, reported, unitHooks, consumerHooks>>

MetricsInit ==
    /\ address \in StartAddresses
    /\ specJobs \in SpecJobLists
    /\ verdict \in Verdicts /\ scrapeLeader \in ScrapeUnits /\ promLeader \in PromUnits
    /\ unitBag = [u \in ScrapeUnits |-> NoAddress] /\ appBag = NotPublished
    /\ unitHooks = [u \in ScrapeUnits |-> {"joined"}]
    /\ consumerHooks = {} /\ scrapeMissed = FALSE
    /\ scraped = [p \in PromUnits |-> {}] /\ reported = {} /\ reschedules = 0

MetricsNext ==
    \/ \E u \in ScrapeUnits : \/ SetScrapeJobSpec(u) \/ OnScrapeRelationChanged(u)
                              \/ OnMetricsUpdateStatus(u)
    \/ \E p \in PromUnits : OnTargetsChanged(p)
    \/ Reschedule \/ Upgrade \/ MoveScrapeLeader \/ MovePromLeader

MetricsSpec == MetricsInit /\ [][MetricsNext]_metricsVars

-----------------------------------------------------------------------------
MetricsTypeOK ==
    /\ unitBag \in [ScrapeUnits -> Addresses \union {NoAddress} \union {Fqdn(u) : u \in ScrapeUnits}]
    /\ unitHooks \in [ScrapeUnits -> SUBSET {"joined", "refresh", "changed"}]
    /\ DOMAIN scraped = PromUnits
    /\ \A p \in PromUnits : \A job \in scraped[p] : job.unit \in ScrapeUnits \union {NoUnitLabel}
    /\ consumerHooks \subseteq PromUnits /\ reported \subseteq {"errors", "scrape_job_errors"}
    /\ reschedules \in 0 .. MaxReschedules

(* No two jobs of Prometheus' configuration have one name, which it would   *)
(* refuse whole (comment in jobs): not two of one charm, not those of a     *)
(* wildcard and of an address of the same unit, not those of two relations  *)
(* to the same application.                                                 *)
JobNamesUnique ==
    \A p \in PromUnits : \A j, k \in scraped[p] : SameName(j, k) => j = k

(* What ought to be scraped: every unit at the address its pod has now for  *)
(* a wildcard; any other target once, as the unit it is of, if any.         *)
Wanted ==
    LET owner(t) == {u \in ScrapeUnits : t \in {UnitAddress(u), Fqdn(u)}}
        targets  == UNION {specJobs[k].targets : k \in DOMAIN specJobs}
    IN  {<<t, IF owner(t) = {} THEN NoUnitLabel ELSE CHOOSE u \in owner(t) : TRUE>> :
             t \in targets \ {Wildcard}}
        \union (IF Wildcard \in targets THEN {<<UnitAddress(u), u>> : u \in ScrapeUnits} ELSE {})

(* The comment at set_scrape_job_spec's observers: an address that went     *)
(* stale heals within one update-status.  Once jobs that are not refused    *)
(* are published and pods stay, every unit of Prometheus ends up scraping   *)
(* every unit where it is now, under its own label, and each other target   *)
(* once.                                                                    *)
TargetsHeal ==
    <>[](appBag # NotPublished /\ appBag.verdict.jobs = "valid") =>
        <>[](\A p \in PromUnits :
                UNION {{<<t, job.unit>> : t \in job.targets} : job \in scraped[p]} = Wanted)

(* Errors in Prometheus' databag are about the rules as they are: an error  *)
(* that was corrected is taken back, through upgrades and moves of the lead *)
(* of Prometheus.  Unless the lead passed over the hook that would report   *)
(* it, or the rules are passed over: then what was reported stays.          *)
ErrorsCurrent ==
    /\ promLeader \notin consumerHooks /\ ~scrapeMissed
    /\ appBag # NotPublished /\ appBag.verdict.rules # "none"
    => ("errors" \in reported <=> appBag.verdict.rules = "invalid")

-----------------------------------------------------------------------------
\* The relation does not exist in this behaviour.
MetricsUnused ==
    /\ address = [u \in ScrapeUnits |-> NoAddress] /\ unitBag = [u \in ScrapeUnits |-> Fqdn(u)]
    /\ specJobs = << >> /\ verdict = NotPublished.verdict /\ scrapeLeader = NoUnitLabel
    /\ appBag = NotPublished /\ unitHooks = [u \in ScrapeUnits |-> {}]
    /\ consumerHooks = {} /\ promLeader = (CHOOSE p \in PromUnits : TRUE) /\ scrapeMissed = FALSE
    /\ scraped = [p \in PromUnits |-> {}] /\ reported = {} /\ reschedules = 0
=============================================================================
