SPECIFICATION Spec
CONSTANTS
    DbUnits = {s1, s2}
    NoUnit = NoUnit
    MaxWrites = 3
    ScrapeUnits = {v1, v2}
    Addresses = {a1, a2, a3}
    Wildcard = Wildcard
    External = External
    NoAddress = NoAddress
    NoUnitLabel = NoUnitLabel
    Relations = 2
    PromUnits = {p1, p2}
    MaxReschedules = 1
    LokiUnits = {l1, l2, l3}
    FirstLoki = {l1, l2}
    MaxLokiChanges = 5
    RouteUnits = {n1, n2}
    IngressUnits = {i1, i2}
    Hostnames = {"h1", "h2"}
    MaxRouteChanges = 4
    DashUnits = {d1, d2}
    MaxDashChanges = 4
INVARIANTS IntegrationsTypeOK CredentialsHidden CreatedOnce StatusFollowed ConnectionCurrent
    JobNamesUnique ErrorsCurrent ForwardingCurrent RulesReachLoki RouteCurrent
    DashboardsCurrent
PROPERTIES TargetsHeal
CHECK_DEADLOCK FALSE
