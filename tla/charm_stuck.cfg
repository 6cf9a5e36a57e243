SPECIFICATION FairSpec
CONSTANTS
    Functions = {"app-gunicorn", "worker"}
    UiFunctions = {"app-gunicorn"}
    Roles = {"Public", "Analyst"}
    DefaultRoles = {"Public"}
    Dbs = {d1}
    Hosts = {h1}
    SmtpContents = {}
    NoPlan = NoPlan
    NoHost = NoHost
    NoSmtp = NoSmtp
    NoEvent = NoEvent
    Changes = {"function", "role"}
PROPERTIES FunctionFulfilled
