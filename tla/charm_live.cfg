SPECIFICATION FairSpec
CONSTANTS
    Functions = {"app-gunicorn"}
    UiFunctions = {"app-gunicorn"}
    Roles = {"Public"}
    DefaultRoles = {"Public"}
    Dbs = {d1}
    Hosts = {h1, h2}
    SmtpContents = {}
    NoPlan = NoPlan
    NoHost = NoHost
    NoSmtp = NoSmtp
    NoEvent = NoEvent
    Changes = {"pg", "redis", "validity", "pod", "probe", "peers"}
PROPERTIES Reconciles ReportsActive
