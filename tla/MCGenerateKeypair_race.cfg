SPECIFICATION Spec
CONSTANTS
    r1 = r1
    r2 = r2
    r3 = r3
    Run = {r1, r2}
    Forced = {}
    Old = Old
    None = None
    Concurrent = TRUE
PROPERTIES
    ReplacesOnlyWithForce
