SPECIFICATION Spec
CONSTANTS
    Functions = {"app-gunicorn", "worker"}
    UiFunctions = {"app-gunicorn"}
    Roles = {"Public", "Analyst"}
    DefaultRoles = {"Public"}
    Dbs = {d1}
    Hosts = {h1}
    SmtpContents = {s1}
    NoPlan = NoPlan
    NoHost = NoHost
    NoSmtp = NoSmtp
    NoEvent = NoEvent
    Changes = {"function", "role", "smtp", "roles", "pod", "probe", "early_status", "pg", "restart"}
INVARIANTS TypeOK UiPlanIsProbed UiServicePortsOpen ActiveOutageIsTransient
PROPERTIES OnlyAcceptedInputs HookErrorsExplained WorkloadSurvives
