SPECIFICATION Spec
CONSTANTS
    Procs = {p1}
    Ops <- AllOps
    OrgId = {1, 2}
    UserId = {1, 2}
    InvId = {1, 2}
    Token = {1, 2, 3}
    Email = {e1, e2}
    Nil = Nil
    ExpiryDuration = 0
    MaxBulkInviteCount = 2
    MaxNow = 1
    Faults = {}
SYMMETRY Symmetry
CHECK_DEADLOCK FALSE
INVARIANTS
    AcceptedMeansPasswordSet
    MailedLinkIsLive
PROPERTIES
    DeletionIsFinal
    DeletionIsComplete
