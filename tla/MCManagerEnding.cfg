SPECIFICATION FairSpec
CONSTANTS
    Procs = {p1, p2}
    Ops <- EndingOps
    OrgId = {1}
    UserId = {1, 2}
    InvId = {1}
    Token = {1}
    Email = {e1, e2}
    Nil = Nil
    ExpiryDuration = 0
    MaxBulkInviteCount = 2
    MaxNow = 0
    Faults = {"invite", "mail"}

CHECK_DEADLOCK FALSE
PROPERTIES
    RequestsReturn
    DeletionReachesOrganization
    BulkTriesEveryAddress
