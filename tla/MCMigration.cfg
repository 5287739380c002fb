SPECIFICATION FairMigrationSpec
CONSTANTS
    Migrators = {command, application}
    OrgId = {1, 2, 3}
    Drawn <- Signatures
    Signature <- Signatures
    MaxFailures = 1
    Nil = Nil
CHECK_DEADLOCK FALSE
INVARIANTS
    MigrationTypeOK
    SuccessMeansComplete
    SuccessMeansSigned
PROPERTIES
    SignaturesSurvive
    MigrationCompletes
