SPECIFICATION Spec
CONSTANTS
    Managers = {m1, m2}
    Configs = {c1, c2}
    Senders = {s1}
    Path = {a, b}
    From = {f}
    Settings <- VariedSettings
    Default = Default
    Nil = Nil
SYMMETRY Symmetry
CHECK_DEADLOCK FALSE
INVARIANTS
    TypeOK
    MailFollowsConfig
    MailIsOfLatestConfig
