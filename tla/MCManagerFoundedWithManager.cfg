SPECIFICATION Spec
CONSTANTS
    Procs = {p1}
    Ops <- FoundingOps
    OrgId = {1, 2}
    UserId = {1, 2}
    InvId = {1}
    Token = {1}
    Email = {e1, e2}
    Nil = Nil
    ExpiryDuration = 0
    MaxBulkInviteCount = 2
    MaxNow = 0
    Faults = {}

CHECK_DEADLOCK FALSE
INVARIANT FoundedWithManager
