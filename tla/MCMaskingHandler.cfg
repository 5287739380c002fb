SPECIFICATION MaskingSpec
CONSTANTS
    Procs = {p1, p2}
    Ops <- MaskingOps
    OrgId = {1, 2}
    UserId = {1, 2}
    InvId = {1}
    Token = {1}
    Email = {e1, e2, mask}
    Mask = mask
    Nil = Nil
    ExpiryDuration = 0
    MaxBulkInviteCount = 1
    MaxNow = 1
    Faults = {"abort", "invite"}
SYMMETRY Symmetry
VIEW WithoutMail
CHECK_DEADLOCK FALSE
INVARIANTS
    AccountKeepsIdentity
