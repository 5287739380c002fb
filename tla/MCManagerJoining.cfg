SPECIFICATION Spec
CONSTANTS
    Procs = {p1, p2}
    Ops <- JoiningOps
    OrgId = {1, 2}
    UserId = {1, 2}
    InvId = {1, 2}
    Token = {1, 2}
    Email = {e1, e2}
    Nil = Nil
    ExpiryDuration = 0
    MaxBulkInviteCount = 2
    MaxNow = 0
    Faults = {"abort", "mail"}
SYMMETRY Symmetry
VIEW WithoutMail
CHECK_DEADLOCK FALSE
INVARIANTS
    TypeOK
    OneManagerPerOrganization
    MembersBelong
    AcceptedHasAccount
    TokenNamesOneInvitation
PROPERTIES
    ImplementsTenancy
