SPECIFICATION Spec
CONSTANTS
    r1 = r1
    r2 = r2
    r3 = r3
    Run = {r1, r2, r3}
    Forced = {r1, r2}
    Old = Old
    None = None
    Concurrent = FALSE
INVARIANTS
    TypeOK
    BothPairsRecoverable
PROPERTIES
    SuccessPublishesPair
    FailureRestoresPair
    RollbackErrorIsAccurate
    ReplacesOnlyWithForce
