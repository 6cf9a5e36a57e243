SPECIFICATION Spec
CONSTANTS
    Units = {u1}
    Catalogs = {c1}
    Urls = {r1}
    SslUrls = {}
    Users = {w1}
    Passwords = {p1}
    MaxId = 1
    Other = Other
    NoOffer = NoOffer
    NoJob = NoJob
    NoPassword = NoPassword
    Deleted = Deleted
    Changes = {"permissions"}
PROPERTIES PermissionsPreserved
