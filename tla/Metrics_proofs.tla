----------------------------- MODULE Metrics_proofs -----------------------------
(***************************************************************************)
(* Theorems about the metrics-endpoint relation, for any units, addresses, *)
(* lists of jobs and numbers of relations and of changes: what Prometheus  *)
(* is configured with has unique names, and errors are about the rules as  *)
(* they are.                                                               *)
(***************************************************************************)
EXTENDS Metrics, TLAPS

\* Jobs as _dedupe_job_names takes and gives them: their hashes are as deep as
\* the number of times names were found to clash.
Flat(jobs) == \A j \in jobs : j.hash = << >>
Hashed(jobs) == \A j \in jobs : j.hash = << >> \/ j.hash = << << >>, j.targets, j.unit >>
Named(jobs) == \A j, k \in jobs : SameName(j, k) => j = k
IsJobs(jobs) ==
    \A j \in jobs : j = [place |-> j.place, name |-> j.name, unit |-> j.unit,
                         targets |-> j.targets, hash |-> j.hash]

Renamed(j, jobs) ==
    [j EXCEPT !.place = << >>,
              !.hash = IF \E k \in jobs \ {j} : SameName(j, k)
                       THEN <<j.hash, j.targets, j.unit>> ELSE @]

LEMMA RenamedFields ==
    ASSUME NEW jobs, IsJobs(jobs), NEW j \in jobs
    PROVE  LET d == Renamed(j, jobs)
           IN  /\ d.place = << >> /\ d.name = j.name /\ d.unit = j.unit
               /\ d.targets = j.targets
               /\ d.hash = IF \E k \in jobs \ {j} : SameName(j, k)
                           THEN <<j.hash, j.targets, j.unit>> ELSE j.hash
               /\ d = [place |-> d.place, name |-> d.name, unit |-> d.unit,
                       targets |-> d.targets, hash |-> d.hash]
<1> DEFINE clash == \E k \in jobs \ {j} : SameName(j, k)
           hash == IF clash THEN <<j.hash, j.targets, j.unit>> ELSE j.hash
<1>1. j = [place |-> j.place, name |-> j.name, unit |-> j.unit,
           targets |-> j.targets, hash |-> j.hash]
  BY DEF IsJobs
<1>2. Renamed(j, jobs) = [j EXCEPT !.place = << >>, !.hash = hash]
  BY <1>1, Zenon DEF Renamed
<1> HIDE DEF hash
<1>3. Renamed(j, jobs) = [place |-> << >>, name |-> j.name, unit |-> j.unit,
                          targets |-> j.targets, hash |-> hash]
  BY <1>1, <1>2
<1> QED  BY <1>3 DEF hash

LEMMA DedupeRenames ==
    ASSUME NEW jobs
    PROVE  Dedupe(jobs) = {Renamed(j, jobs) : j \in jobs}
BY Zenon DEF Dedupe, Renamed

\* A deduplication of jobs whose names carry no hash leaves unique names.
LEMMA FirstDedupe ==
    ASSUME NEW jobs, IsJobs(jobs), Flat(jobs)
    PROVE  /\ IsJobs(Dedupe(jobs)) /\ Hashed(Dedupe(jobs)) /\ Named(Dedupe(jobs))
           /\ \A d, e \in Dedupe(jobs) : d.name = e.name /\ d.hash = << >> => d = e
<1> DEFINE D(j) == Renamed(j, jobs)
           Clash(j) == \E k \in jobs \ {j} : SameName(j, k)
<1>1. \A d \in Dedupe(jobs) : \E j \in jobs : d = D(j)
  BY DedupeRenames
<1>2. \A j \in jobs : /\ D(j).name = j.name /\ D(j).unit = j.unit
                      /\ D(j).targets = j.targets /\ D(j).place = << >>
                      /\ ~Clash(j) => D(j).hash = << >>
                      /\ Clash(j) => D(j).hash = << << >>, j.targets, j.unit >>
                      /\ D(j) = [place |-> D(j).place, name |-> D(j).name, unit |-> D(j).unit,
                                 targets |-> D(j).targets, hash |-> D(j).hash]
  BY RenamedFields DEF Flat
<1>3. \A j, k \in jobs : j.name = k.name /\ ~Clash(j) => j = k
  BY DEF SameName, Flat
<1>4. \A j, k \in jobs : j.name = k.name /\ D(j).hash = << >> => j = k
  <2> SUFFICES ASSUME NEW j \in jobs, NEW k \in jobs, j.name = k.name, D(j).hash = << >>
               PROVE  ~Clash(j)
    BY <1>3
  <2>1. << << >>, j.targets, j.unit >> # << >>
    OBVIOUS
  <2> QED  BY <1>2, <2>1
<1>5. \A j, k \in jobs : SameName(D(j), D(k)) => D(j) = D(k)
  <2> SUFFICES ASSUME NEW j \in jobs, NEW k \in jobs, SameName(D(j), D(k)) PROVE D(j) = D(k)
    OBVIOUS
  <2>1. j.name = k.name /\ D(j).hash = D(k).hash
    BY <1>2 DEF SameName
  <2>2. CASE ~Clash(j) \/ ~Clash(k)
    BY <2>1, <2>2, <1>3
  <2>3. CASE Clash(j) /\ Clash(k)
    <3>1. << << >>, j.targets, j.unit >> = << << >>, k.targets, k.unit >>
      BY <2>1, <2>3, <1>2
    <3>2. j.targets = k.targets /\ j.unit = k.unit
      BY <3>1
    <3>3. /\ D(j).place = D(k).place /\ D(j).name = D(k).name /\ D(j).unit = D(k).unit
          /\ D(j).targets = D(k).targets /\ D(j).hash = D(k).hash
      BY <2>1, <3>2, <1>2
    <3> HIDE DEF D
    <3> QED  BY <3>3, <1>2
  <2> QED  BY <2>2, <2>3
<1> HIDE DEF D
<1>6. IsJobs(Dedupe(jobs))
  BY <1>1, <1>2 DEF IsJobs
<1>7. Hashed(Dedupe(jobs))
  BY <1>1, <1>2 DEF Hashed
<1>8. Named(Dedupe(jobs))
  BY <1>1, <1>5 DEF Named
<1>9. \A d, e \in Dedupe(jobs) : d.name = e.name /\ d.hash = << >> => d = e
  BY <1>1, <1>2, <1>4
<1> QED  BY <1>6, <1>7, <1>8, <1>9

\* The jobs of several relations to one application are deduplicated again.
LEMMA SecondDedupe ==
    ASSUME NEW static, IsJobs(static), Hashed(static), Named(static),
           \A d, e \in static : d.name = e.name /\ d.hash = << >> => d = e
    PROVE  Named(Dedupe({[j EXCEPT !.place = r] : j \in static, r \in 1 .. Relations}))
<1> DEFINE At(j, r) == [j EXCEPT !.place = r]
           all == {At(j, r) : j \in static, r \in 1 .. Relations}
           D(x) == Renamed(x, all)
           Clash(x) == \E y \in all \ {x} : SameName(x, y)
<1>1. \A j \in static, r \in 1 .. Relations :
          At(j, r) = [place |-> r, name |-> j.name, unit |-> j.unit,
                      targets |-> j.targets, hash |-> j.hash]
  <2> SUFFICES ASSUME NEW j \in static, NEW r \in 1 .. Relations
               PROVE  [j EXCEPT !.place = r]
                        = [place |-> r, name |-> j.name, unit |-> j.unit,
                           targets |-> j.targets, hash |-> j.hash]
    OBVIOUS
  <2>1. j = [place |-> j.place, name |-> j.name, unit |-> j.unit,
             targets |-> j.targets, hash |-> j.hash]
    BY DEF IsJobs
  <2> QED  BY <2>1
<1>2. \A x \in all : \E j \in static, r \in 1 .. Relations :
          x = [place |-> r, name |-> j.name, unit |-> j.unit,
               targets |-> j.targets, hash |-> j.hash]
  <2> SUFFICES ASSUME NEW x \in all
               PROVE  \E j \in static, r \in 1 .. Relations :
                          x = [place |-> r, name |-> j.name, unit |-> j.unit,
                               targets |-> j.targets, hash |-> j.hash]
    OBVIOUS
  <2>1. PICK j \in static, r \in 1 .. Relations : x = At(j, r)
    OBVIOUS
  <2> HIDE DEF At
  <2> QED  BY <2>1, <1>1
<1>3. IsJobs(all) /\ Hashed(all)
  BY <1>2 DEF IsJobs, Hashed
<1>4. \A x, y \in all : SameName(x, y) => x.targets = y.targets /\ x.unit = y.unit
  BY <1>2 DEF SameName, Named
<1>5. \A x, y \in all : x.name = y.name /\ x.hash = << >> => y.hash = << >>
  BY <1>2
<1> HIDE DEF all, At
<1>6. \A x \in all : /\ D(x).name = x.name /\ D(x).unit = x.unit
                     /\ D(x).targets = x.targets /\ D(x).place = << >>
                     /\ ~Clash(x) => D(x).hash = x.hash
                     /\ Clash(x) => D(x).hash = <<x.hash, x.targets, x.unit>>
                     /\ D(x) = [place |-> D(x).place, name |-> D(x).name, unit |-> D(x).unit,
                                targets |-> D(x).targets, hash |-> D(x).hash]
  BY <1>3, RenamedFields
\* A name that clashes becomes no name that does not.
<1>7. \A x, y \in all : x.name = y.name /\ Clash(y) /\ ~Clash(x) => D(x).hash # D(y).hash
  <2> SUFFICES ASSUME NEW x \in all, NEW y \in all, x.name = y.name, Clash(y), ~Clash(x),
                      x.hash = <<y.hash, y.targets, y.unit>>
               PROVE  FALSE
    BY <1>6
  <2>1. x.hash # << >>
    OBVIOUS
  <2>2. x.hash = << << >>, x.targets, x.unit >>
    BY <2>1, <1>3 DEF Hashed
  <2>3. y.hash = << >>
    BY <2>2
  <2> QED  BY <2>1, <2>3, <1>5
<1>8. \A x, y \in all : SameName(D(x), D(y)) => D(x) = D(y)
  <2> SUFFICES ASSUME NEW x \in all, NEW y \in all, SameName(D(x), D(y)) PROVE D(x) = D(y)
    OBVIOUS
  <2>1. x.name = y.name /\ D(x).hash = D(y).hash
    BY <1>6 DEF SameName
  <2>2. CASE ~Clash(x) /\ ~Clash(y)
    <3>1. SameName(x, y)
      BY <2>1, <2>2, <1>6 DEF SameName
    <3> QED  BY <3>1, <2>2
  <2>3. CASE Clash(x) /\ Clash(y)
    <3>1. <<x.hash, x.targets, x.unit>> = <<y.hash, y.targets, y.unit>>
      BY <2>1, <2>3, <1>6
    <3>2. /\ D(x).place = D(y).place /\ D(x).name = D(y).name /\ D(x).unit = D(y).unit
          /\ D(x).targets = D(y).targets /\ D(x).hash = D(y).hash
      BY <2>1, <3>1, <1>6
    <3> HIDE DEF D
    <3> QED  BY <3>2, <1>6
  <2> QED  BY <2>1, <2>2, <2>3, <1>7
<1>9. \A d \in Dedupe(all) : \E x \in all : d = D(x)
  BY DedupeRenames
<1> HIDE DEF D
<1>10. Named(Dedupe(all))
  BY <1>8, <1>9 DEF Named
<1> QED  BY <1>10 DEF all, At

LEMMA JobsNamed == Named(Jobs)
<1> DEFINE expanded == UNION {Expanded(k) : k \in DOMAIN appBag.jobs}
<1>1. \A j \in expanded : \E p, n, u, t : j = ScrapeJob(p, n, u, t)
  <2>1. \A k \in DOMAIN appBag.jobs : \A j \in Expanded(k) : \E p, n, u, t : j = ScrapeJob(p, n, u, t)
    BY DEF Expanded
  <2> QED  BY <2>1
<1>2. IsJobs(expanded) /\ Flat(expanded)
  BY <1>1 DEF IsJobs, Flat, ScrapeJob
<1> HIDE DEF expanded
<1>3. Named(Dedupe({[j EXCEPT !.place = r] : j \in Dedupe(expanded), r \in 1 .. Relations}))
  BY <1>2, FirstDedupe, SecondDedupe
<1>4. Named({})
  BY DEF Named
<1> QED  BY <1>3, <1>4 DEF Jobs, expanded

-----------------------------------------------------------------------------
\* No two jobs of Prometheus' configuration have one name, whatever jobs the
\* charm passes and however many relations there are (_dedupe_job_names, jobs).
THEOREM NamesUnique == MetricsSpec => []JobNamesUnique
<1> DEFINE Inv == JobNamesUnique /\ DOMAIN scraped = PromUnits
<1>1. MetricsInit => Inv
  BY DEF MetricsInit, JobNamesUnique
<1>2. Inv /\ [MetricsNext]_metricsVars => Inv'
  <2> SUFFICES ASSUME Inv, [MetricsNext]_metricsVars PROVE Inv'
    OBVIOUS
  <2>1. UNCHANGED scraped \/ \E p \in PromUnits : scraped' = [scraped EXCEPT ![p] = Jobs]
    BY DEF MetricsNext, metricsVars, consumerVars, SetScrapeJobSpec, OnScrapeRelationChanged,
           OnMetricsUpdateStatus, OnTargetsChanged, Reschedule, Upgrade, MoveScrapeLeader,
           MovePromLeader
  <2>2. CASE UNCHANGED scraped
    BY <2>2 DEF JobNamesUnique
  <2>3. ASSUME NEW p, p \in PromUnits, scraped' = [scraped EXCEPT ![p] = Jobs] PROVE Inv'
    <3>1. \A q \in PromUnits : scraped'[q] = Jobs \/ scraped'[q] = scraped[q]
      BY <2>3
    <3>2. JobNamesUnique'
      BY <3>1, JobsNamed DEF JobNamesUnique, Named, SameName
    <3> QED  BY <2>3, <3>2
  <2> QED  BY <2>1, <2>2, <2>3
<1>3. Inv => JobNamesUnique
  OBVIOUS
<1> QED  BY <1>1, <1>2, <1>3, PTL DEF MetricsSpec

\* What the leader of Prometheus would report is reported already.
IsReported ==
    /\ appBag.verdict.rules = "invalid" => "errors" \in reported
    /\ appBag.verdict.rules = "valid" => "errors" \notin reported

\* Whoever leads has a hook to run, or has read what is published.  A lead that
\* passes from a unit with a hook to one without is what scrapeMissed recalls.
ReportedInv ==
    /\ promLeader \in PromUnits
    /\ appBag # NotPublished /\ ~scrapeMissed /\ promLeader \notin consumerHooks => IsReported

\* The verdict that is published is one of cos-tool's.
VerdictInv == verdict \in Verdicts /\ appBag.verdict \in Verdicts

LEMMA VerdictStep == VerdictInv /\ [MetricsNext]_metricsVars => VerdictInv'
<1> SUFFICES ASSUME VerdictInv, [MetricsNext]_metricsVars PROVE VerdictInv'
  OBVIOUS
<1>1. UNCHANGED verdict \/ verdict' \in Verdicts
  BY DEF MetricsNext, metricsVars, podVars, SetScrapeJobSpec, OnScrapeRelationChanged,
         OnMetricsUpdateStatus, OnTargetsChanged, Reschedule, Upgrade, MoveScrapeLeader,
         MovePromLeader
<1>2. UNCHANGED appBag \/ appBag' = [jobs |-> specJobs, verdict |-> verdict]
  BY DEF MetricsNext, metricsVars, bagVars, SetScrapeJobSpec, OnScrapeRelationChanged,
         OnMetricsUpdateStatus, OnTargetsChanged, Reschedule, Upgrade, MoveScrapeLeader,
         MovePromLeader
<1> QED  BY <1>1, <1>2 DEF VerdictInv

\* Errors in Prometheus' databag are about the rules as they are, unless its
\* leader has a hook to run, the lead passed over the hook, or the rules are
\* passed over (alerts, set_scrape_job_spec).
THEOREM ErrorsFollow == MetricsSpec => []ErrorsCurrent
<1>1. MetricsInit => ReportedInv /\ VerdictInv
  BY DEF MetricsInit, ReportedInv, VerdictInv, NotPublished, Verdicts
<1>2. ReportedInv /\ [MetricsNext]_metricsVars => ReportedInv'
  <2> SUFFICES ASSUME ReportedInv, [MetricsNext]_metricsVars PROVE ReportedInv'
    OBVIOUS
  <2>1. ASSUME NEW p \in PromUnits, OnTargetsChanged(p) PROVE ReportedInv'
    <3>1. /\ appBag' = appBag /\ promLeader' = promLeader /\ reported' = Reported(p)
          /\ consumerHooks' = consumerHooks \ {p}
          /\ scrapeMissed' <=> scrapeMissed /\ p # promLeader
      BY <2>1, Zenon DEF OnTargetsChanged, bagVars
    <3>2. CASE p = promLeader
      <4>1. IsReported'
        BY <3>1, <3>2 DEF Reported, IsReported
      <4> QED  BY <3>1, <4>1 DEF ReportedInv
    <3>3. CASE p # promLeader
      <4>1. reported' = reported
        BY <3>1, <3>3 DEF Reported
      <4> QED  BY <3>1, <3>3, <4>1 DEF ReportedInv, IsReported
    <3> QED  BY <3>2, <3>3
  <2>2. ASSUME Tell, UNCHANGED consumerVars PROVE ReportedInv'
    BY <2>2 DEF Tell, ReportedInv, IsReported, bagVars, consumerVars
  <2>3. ASSUME UNCHANGED <<bagVars, consumerVars, consumerHooks>> PROVE ReportedInv'
    BY <2>3 DEF ReportedInv, IsReported, bagVars, consumerVars
  <2>4. ASSUME NEW u \in ScrapeUnits,
               SetScrapeJobSpec(u) \/ OnScrapeRelationChanged(u) \/ OnMetricsUpdateStatus(u)
        PROVE  ReportedInv'
    BY <2>4, <2>2 DEF SetScrapeJobSpec, OnScrapeRelationChanged, OnMetricsUpdateStatus
  <2>5. CASE Reschedule \/ Upgrade \/ MoveScrapeLeader
    BY <2>5, <2>3 DEF Reschedule, Upgrade, MoveScrapeLeader
  <2>6. CASE MovePromLeader
    <3>1. PICK p \in PromUnits :
              /\ promLeader' = p
              /\ scrapeMissed' <=> (scrapeMissed \/ (promLeader \in consumerHooks
                                                    /\ p \notin consumerHooks))
      BY <2>6, Zenon DEF MovePromLeader
    <3>2. UNCHANGED <<appBag, reported, consumerHooks>>
      BY <2>6 DEF MovePromLeader, bagVars
    <3> QED  BY <3>1, <3>2 DEF ReportedInv, IsReported
  <2>7. CASE UNCHANGED metricsVars
    BY <2>7, <2>3 DEF metricsVars
  <2> QED  BY <2>1, <2>4, <2>5, <2>6, <2>7 DEF MetricsNext
<1>3. ReportedInv /\ VerdictInv => ErrorsCurrent
  <2> SUFFICES ASSUME ReportedInv, VerdictInv PROVE ErrorsCurrent
    OBVIOUS
  <2>1. appBag.verdict.rules \in {"none", "valid", "invalid"}
    BY DEF VerdictInv, Verdicts
  <2> QED  BY <2>1 DEF ReportedInv, IsReported, ErrorsCurrent
<1> QED  BY <1>1, <1>2, <1>3, VerdictStep, PTL DEF MetricsSpec

-----------------------------------------------------------------------------
\* A job keeps the unit it is of when names are made unique.
LEMMA DedupeUnits ==
    ASSUME NEW jobs, IsJobs(jobs), NEW U, \A j \in jobs : j.unit \in U
    PROVE  IsJobs(Dedupe(jobs)) /\ \A d \in Dedupe(jobs) : d.unit \in U
<1>1. \A j \in jobs :
          /\ Renamed(j, jobs).unit = j.unit
          /\ Renamed(j, jobs) =
               [place |-> Renamed(j, jobs).place, name |-> Renamed(j, jobs).name,
                unit |-> Renamed(j, jobs).unit, targets |-> Renamed(j, jobs).targets,
                hash |-> Renamed(j, jobs).hash]
  BY RenamedFields
<1>2. \A d \in Dedupe(jobs) : \E j \in jobs : d = Renamed(j, jobs)
  BY DedupeRenames
<1> QED  BY <1>1, <1>2 DEF IsJobs

\* A job is of one of the units that have published an address, or of none.
LEMMA JobsOfUnits == \A job \in Jobs : job.unit \in ScrapeUnits \union {NoUnitLabel}
<1> DEFINE U == ScrapeUnits \union {NoUnitLabel}
           expanded == UNION {Expanded(k) : k \in DOMAIN appBag.jobs}
           static == Dedupe(expanded)
           At(j, r) == [j EXCEPT !.place = r]
           all == {At(j, r) : j \in static, r \in 1 .. Relations}
<1>1. ASSUME NEW k \in DOMAIN appBag.jobs, NEW j \in Expanded(k)
      PROVE  j.unit \in U /\ \E p, n, u, t : j = ScrapeJob(p, n, u, t)
  <2> DEFINE job     == appBag.jobs[k]
             named   == job.targets \ {Wildcard}
             matched == {t \in named : UnitsOf(t) # {}}
             unit    == [t \in matched |-> CHOOSE u \in UnitsOf(t) : TRUE]
  <2>1. \A t \in matched : unit[t] \in ScrapeUnits
    BY DEF UnitsOf, Hosts
  <2>2. Range(unit) \subseteq ScrapeUnits
    <3>1. DOMAIN unit = matched
      OBVIOUS
    <3> HIDE DEF unit, matched
    <3> QED  BY <2>1, <3>1 DEF Range
  <2>3. \E p, n, t : \E u \in U : j = ScrapeJob(p, n, u, t)
    <3>1. CASE \E u \in Range(unit) : \E t : j = ScrapeJob(<<k, "matched">>, job.name, u, t)
      <4> HIDE DEF unit, job
      <4> QED  BY <3>1, <2>2
    <3>2. CASE \E u \in Hosts : \E t : j = ScrapeJob(<<k, "wildcard">>, job.name, u, t)
      BY <3>2 DEF Hosts
    <3>3. CASE \E t : j = ScrapeJob(<<k, "rest">>, job.name, NoUnitLabel, t)
      BY <3>3
    <3> QED  BY <1>1, <3>1, <3>2, <3>3 DEF Expanded
  <2>4. \A p, n, u, t : ScrapeJob(p, n, u, t).unit = u
    BY DEF ScrapeJob
  <2> QED  BY <2>3, <2>4
<1>2. IsJobs(expanded) /\ \A j \in expanded : j.unit \in U
  <2>1. \A j \in expanded : j.unit \in U /\ \E p, n, u, t : j = ScrapeJob(p, n, u, t)
    BY <1>1
  <2> HIDE DEF expanded, U
  <2> QED  BY <2>1 DEF IsJobs, ScrapeJob
<1> HIDE DEF expanded, U
<1>3. IsJobs(static) /\ \A j \in static : j.unit \in U
  BY <1>2, DedupeUnits
<1> HIDE DEF static
<1>4. \A j \in static, r \in 1 .. Relations :
          At(j, r) = [place |-> r, name |-> j.name, unit |-> j.unit,
                      targets |-> j.targets, hash |-> j.hash]
  <2> SUFFICES ASSUME NEW j \in static, NEW r \in 1 .. Relations
               PROVE  [j EXCEPT !.place = r]
                        = [place |-> r, name |-> j.name, unit |-> j.unit,
                           targets |-> j.targets, hash |-> j.hash]
    OBVIOUS
  <2>1. j = [place |-> j.place, name |-> j.name, unit |-> j.unit,
             targets |-> j.targets, hash |-> j.hash]
    BY <1>3 DEF IsJobs
  <2> QED  BY <2>1
<1>5. \A x \in all : \E j \in static, r \in 1 .. Relations :
          x = [place |-> r, name |-> j.name, unit |-> j.unit,
               targets |-> j.targets, hash |-> j.hash]
  <2> HIDE DEF At
  <2> QED  BY <1>4
<1> HIDE DEF all, At
<1>6. IsJobs(all) /\ \A x \in all : x.unit \in U
  BY <1>3, <1>5 DEF IsJobs
<1>7. \A x \in Dedupe(all) : x.unit \in U
  BY <1>6, DedupeUnits
<1>8. Jobs = {} \/ Jobs = Dedupe(all)
  BY DEF Jobs, all, At, static, expanded
<1> QED  BY <1>7, <1>8 DEF U

\* A unit publishes the address of its pod, or its name.
MetricsInv ==
    /\ address \in [ScrapeUnits -> Addresses \union {NoAddress}]
    /\ MetricsTypeOK

LEMMA MetricsStep == MetricsInv /\ [MetricsNext]_metricsVars => MetricsInv'
<1> SUFFICES ASSUME MetricsInv, [MetricsNext]_metricsVars PROVE MetricsInv'
  OBVIOUS
<1> USE DEF MetricsInv, MetricsTypeOK
<1>1. ASSUME NEW u \in ScrapeUnits, SetUnitIp(u)
      PROVE  unitBag' \in [ScrapeUnits -> Addresses \union {NoAddress} \union {Fqdn(v) : v \in ScrapeUnits}]
  <2>1. UnitAddress(u) \in Addresses \union {Fqdn(v) : v \in ScrapeUnits}
    BY DEF UnitAddress
  <2> HIDE DEF Fqdn
  <2> QED  BY <1>1, <2>1 DEF SetUnitIp
<1>2. Tell => consumerHooks' \subseteq PromUnits
  BY DEF Tell
<1>3. ASSUME NEW u \in ScrapeUnits, NEW h, HookDone(u, h)
      PROVE  unitHooks' \in [ScrapeUnits -> SUBSET {"joined", "refresh", "changed"}]
  BY <1>3 DEF HookDone
<1>4. ASSUME NEW u \in ScrapeUnits, SetScrapeJobSpec(u) PROVE MetricsInv'
  BY <1>1, <1>2, <1>3, <1>4 DEF SetScrapeJobSpec, podVars, consumerVars
<1>5. ASSUME NEW u \in ScrapeUnits, OnScrapeRelationChanged(u) PROVE MetricsInv'
  BY <1>1, <1>2, <1>3, <1>5 DEF OnScrapeRelationChanged, podVars, consumerVars
<1>6. ASSUME NEW u \in ScrapeUnits, OnMetricsUpdateStatus(u) PROVE MetricsInv'
  BY <1>1, <1>2, <1>6 DEF OnMetricsUpdateStatus, podVars, consumerVars
<1>7. ASSUME NEW p \in PromUnits, OnTargetsChanged(p) PROVE MetricsInv'
  <2>1. /\ UNCHANGED <<podVars, bagVars>> /\ consumerHooks' \subseteq PromUnits
        /\ unitHooks' \in [ScrapeUnits -> SUBSET {"joined", "refresh", "changed"}]
    BY <1>7 DEF OnTargetsChanged
  <2>2. scraped' = [scraped EXCEPT ![p] = Jobs]
    BY <1>7 DEF OnTargetsChanged
  <2>3. reported' \subseteq {"errors", "scrape_job_errors"}
    BY <1>7 DEF OnTargetsChanged, Reported
  <2>4. DOMAIN scraped' = PromUnits /\ \A q \in PromUnits : scraped'[q] = Jobs \/ scraped'[q] = scraped[q]
    BY <2>2
  <2>5. \A q \in PromUnits : \A job \in scraped'[q] : job.unit \in ScrapeUnits \union {NoUnitLabel}
    BY <2>4, JobsOfUnits
  <2> QED  BY <2>1, <2>3, <2>4, <2>5 DEF podVars, bagVars
<1>8. CASE Reschedule
  BY <1>8, MetricsAssumption DEF Reschedule, bagVars, consumerVars
<1>9. CASE Upgrade
  BY <1>9, MetricsAssumption DEF Upgrade, bagVars, consumerVars
<1>10. CASE MoveScrapeLeader
  BY <1>10 DEF MoveScrapeLeader, bagVars, consumerVars
<1>11. CASE MovePromLeader
  BY <1>11 DEF MovePromLeader, podVars, bagVars
<1>12. CASE UNCHANGED metricsVars
  BY <1>12 DEF metricsVars, podVars, bagVars, consumerVars
<1> QED  BY <1>4, <1>5, <1>6, <1>7, <1>8, <1>9, <1>10, <1>11, <1>12 DEF MetricsNext

LEMMA MetricsStarts == MetricsInit \/ MetricsUnused => MetricsInv
<1> USE DEF MetricsInv, MetricsTypeOK
<1>1. 0 \in 0 .. MaxReschedules
  BY MetricsAssumption
<1>2. MetricsInit => MetricsInv
  <2> SUFFICES ASSUME MetricsInit PROVE MetricsInv
    OBVIOUS
  <2>1. address \in StartAddresses
    BY DEF MetricsInit
  <2>2. PICK held \in BOOLEAN :
            address = CHOOSE f \in [ScrapeUnits -> Addresses] :
                          IsInjective(f) /\ (Range(f) \intersect Targets # {}) = held
    BY <2>1, Zenon DEF StartAddresses
  <2>3. \E f \in [ScrapeUnits -> Addresses] :
            IsInjective(f) /\ (Range(f) \intersect Targets # {}) = held
    BY MetricsAssumption, Zenon
  <2>4. address \in [ScrapeUnits -> Addresses]
    BY <2>2, <2>3, Zenon
  <2> QED  BY <1>1, <2>4 DEF MetricsInit
<1>3. MetricsUnused => MetricsInv
  BY <1>1 DEF MetricsUnused
<1> QED  BY <1>2, <1>3

\* Every variable keeps its type: a unit publishes an address or its name, and a
\* job is of a unit there is, or of none.
THEOREM MetricsTypeCorrect == MetricsSpec => []MetricsTypeOK
<1>1. MetricsInv => MetricsTypeOK
  BY DEF MetricsInv
<1> QED  BY <1>1, MetricsStarts, MetricsStep, PTL DEF MetricsSpec
=============================================================================
