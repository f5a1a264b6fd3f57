SPECIFICATION Spec
CONSTANTS
    Owner = {a, b}
    Passphrase = {p, q}
    NoPassphrase = NoPassphrase
    Text = Text
    PublicKeyFile <- MCPublicKeyFile
    PrivateKeyFile <- MCPrivateKeyFile
INVARIANT TypeOK
INVARIANT SealedToWholeFile
INVARIANT PairsRoundTrip
INVARIANT OpensOnlyForHolder
INVARIANT OpensslNeverPrompts
INVARIANT ErrorsAreAccurate
