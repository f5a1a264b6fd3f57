SPECIFICATION Spec
CONSTANTS
    a = a
    b = b
    Owner = {a, b}
    LowOrder = LowOrder
    CiphertextSize = 2
    PublicKeySize = 1
    SecretSize = 1
    MaxExcess = 1
    None = None
INVARIANTS
    TypeOK
    DataKeysAgree
    SecretsWiped
