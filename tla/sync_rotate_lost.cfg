SPECIFICATION FairSpec
CONSTANTS
    Units = {u1, u2}
    Catalogs = {c1}
    Urls = {r1}
    SslUrls = {r1}
    Users = {w1}
    Passwords = {p1, p2}
    MaxId = 1
    Other = Other
    NoOffer = NoOffer
    NoJob = NoJob
    NoPassword = NoPassword
    Deleted = Deleted
    Changes = {"leader", "rotate"}
PROPERTIES PasswordFollows
