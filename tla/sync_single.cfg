SPECIFICATION FairSpec
CONSTANTS
    Units = {u1}
    Catalogs = {c1, c2}
    Urls = {r1, r2}
    SslUrls = {r1}
    Users = {w1}
    Passwords = {p1, p2}
    MaxId = 3
    Other = Other
    NoOffer = NoOffer
    NoJob = NoJob
    NoPassword = NoPassword
    Deleted = Deleted
    Changes = {"url", "rotate", "rename", "delete", "permissions"}
INVARIANTS CreatedIsGranted
PROPERTIES PasswordFollows
