SPECIFICATION Spec
CONSTANTS
    Managers = {m1, m2, m3}
    Configs = {c1, c2, c3}
    Handlers = {h1, h2}
    Storages = {s1, s2, s3}
    UserId = {1, 2}
    Nil = Nil
SYMMETRY Symmetry
CHECK_DEADLOCK FALSE
INVARIANTS
    HandlerServesAManager
    StoragesStayApart
