SPECIFICATION Spec
CONSTANTS
    OrgId = {1, 2}
    UserId = {1, 2}
    InvId = {1, 2}
    Addr = {1, 2, 3}
    Token = {1, 2, 3}
    Email = {e1, e2}
    Nil = Nil
    ExpiryDuration = 0
    MaxNow = 1
SYMMETRY Symmetry
CHECK_DEADLOCK FALSE
INVARIANTS
    TypeOK
    IndexesAgree
    LinkOpensItsInvitation
    AcceptedHasAccount
    MailedLinkIsLive
PROPERTIES
    ImplementsTenancy
