SPECIFICATION Spec
CONSTANTS
    Migrators = {command}
    OrgId = {1, 2, 3, 4}
    Drawn <- DrawnSignatures
    Signature <- Signatures
    MaxFailures = 2
    SeedSignature <- SeedSignatures
    Nil = Nil
CHECK_DEADLOCK FALSE
INVARIANTS
    NoOrphans
    SeedIsWhole
    SeedAfterCleanup
