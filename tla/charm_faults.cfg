SPECIFICATION Spec
CONSTANTS
    Functions = {"app-gunicorn"}
    UiFunctions = {"app-gunicorn"}
    Roles = {"Public"}
    DefaultRoles = {"Public"}
    Dbs = {d1}
    Hosts = {h1, h2}
    SmtpContents = {}
    NoPlan = NoPlan
    NoHost = NoHost
    NoSmtp = NoSmtp
    NoEvent = NoEvent
    Changes = {"pg", "redis", "pod", "pebble", "trino", "sync", "restart", "early_status", "bare_image"}
INVARIANTS NoLostChange ServiceFollows
