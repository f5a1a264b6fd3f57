SPECIFICATION Spec
CONSTANTS
    Base = 4
    MagicPrefix <- MCMagicPrefix
    MaxKeyMaterial = 18
    MaxNonce = 3
    MaxTag = 3
    NonceSize = 2
    TagSize = 2
    KeyEstablishment = {1, 2, 3}
    DataCipher = {1, 2}
    LegacyKeySize = 3
    RsaSizes = {2, 3, 5}
    LegacyNonceSize = 3
    Header <- MCHeader
    Legacy = Legacy
    LegacyBytes <- MCLegacyBytes
    Body <- MCBody
INVARIANT TypeOK
INVARIANT AuthenticatesWhatItRead
INVARIANT ReadsWhatWasWritten
INVARIANT AllocationBounded
