SPECIFICATION FairSpec
CONSTANTS
    Rows = {o1, o2, o3}
    PageSize = 1
    MaxPages = 2
INVARIANTS TypeOK CompleteListing
PROPERTIES RejectedOnce RecoversAtExpiry CallReturns
