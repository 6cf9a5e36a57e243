SPECIFICATION FairSpec
CONSTANTS
    Units = {u1, u2}
    Catalogs = {c1}
    Urls = {r1, r2}
    SslUrls = {r1}
    Users = {w1}
    Passwords = {p1}
    MaxId = 2
    Other = Other
    NoOffer = NoOffer
    NoJob = NoJob
    NoPassword = NoPassword
    Deleted = Deleted
    Changes = {"faults", "crash", "leader", "relation", "no_role", "unlisted", "no_result"}
INVARIANTS TypeOK OneConnectionPerCatalog
PROPERTIES KeepsPromise EventuallyConnected
