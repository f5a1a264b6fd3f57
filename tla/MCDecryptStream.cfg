SPECIFICATION Spec
CONSTANTS
    a = a
    b = b
    Unit = {a, b}
    MaxLength = 6
    Body <- Bodies
    Sealings <- SealedBodies
    TagSize = 2
    BufferSize = 3
    BlockSize = 1
INVARIANTS
    TypeOK
    ChunkIndependent
    NeverPanics
    AuthenticatedBeforePublishing
    BlamesOnlyDamage
    
