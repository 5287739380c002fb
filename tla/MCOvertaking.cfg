SPECIFICATION OvertakingSpec
CONSTANTS
    Procs = {p1, p2}
    Ops <- SavingOps
    OrgId = {1}
    UserId = {1, 2}
    InvId = {1}
    Token = {1, 2}
    Email = {e1, e2}
    Nil = Nil
    ExpiryDuration = 0
    MaxBulkInviteCount = 1
    MaxNow = 0
    Faults = {"abort", "list"}
SYMMETRY Symmetry
VIEW WithoutMail
CHECK_DEADLOCK FALSE
INVARIANTS
    OneAccountPerEmail
    TenancyInv
PROPERTIES
    TenancyStable
    OnlyOvertakenSavesUndo
    OnlyOvertakenSavesReopen
