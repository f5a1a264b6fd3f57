----------------------------- MODULE KeyAgreement -----------------------------
(***************************************************************************)
(* How a data key is established with a public key, and recovered with a   *)
(* private one, from the key material in a file's header: encapsulate and  *)
(* decapsulate of src/src/crypto/algorithms/x25519.rs and                  *)
(* x25519_mlkem768.rs, and the calls of src/src/crypto/kem.rs, with the    *)
(* buffers that hold secrets in between.                                   *)
(*                                                                         *)
(* External: openssl. A KEM decapsulates a changed ciphertext, or one for  *)
(* another key, to another secret and without an error; a key agreement    *)
(* depends on the point, of which more than one encoding may exist; HKDF   *)
(* tells apart whatever goes into it. A query for a size answers with an   *)
(* upper bound.                                                            *)
(***************************************************************************)
EXTENDS Naturals, Sequences, SequencesExt

CONSTANTS
    Owner,
    LowOrder,        \* a public key with which every key agrees on zeros
    CiphertextSize,  \* ML_KEM_CIPHERTEXT_SIZE
    PublicKeySize,   \* X25519_PUBLIC_KEY_SIZE
    SecretSize,      \* of a shared secret
    MaxExcess,       \* bound: by how much a size query exceeds the size
    None

ASSUME AgreementAssumption ==
    /\ LowOrder \notin Owner
    /\ {CiphertextSize, PublicKeySize, SecretSize} \subseteq Nat \ {0}
    /\ MaxExcess \in Nat

\* What a header holds as key material: whom the ciphertext is for, if there is one,
\* and whether it is as the KEM made it; the ephemeral point and how it is encoded.
Material == [ciphertext: [to: Owner, changed: BOOLEAN] \cup {None},
             ephemeral: [point: {"ephemeral", "other", LowOrder}, encoding: 1 .. 2],
             length: Nat]

ASSUME NoneAssumption == None \notin Material

VARIABLES
    scheme,       \* "x25519" or "hybrid"
    recipient,    \* the public keys encrypted to
    holder,       \* whose private keys are tried
    role,         \* "sender", then "receiver"
    pc,
    ciphertext,   \* the buffer of the KEM's ciphertext
    material,     \* key_material: in memory, then stored
    sent,         \* as encapsulate returned it (history only)
    secret,       \* secret[s]: the buffer of a secret, while there is one
    dataKey,      \* dataKey[r]: what role r derived
    residue,      \* secrets in memory that was freed without being overwritten
    error

vars == <<scheme, recipient, holder, role, pc, ciphertext, material, sent,
          secret, dataKey, residue, error>>

Role == {"sender", "receiver"}
Secret == {"kem", "x25519", "input"}
Keys == [mlKem: Owner, x25519: Owner \cup {LowOrder}]
Terminal == {"ok", "err"}
Error == {"none", "Crypto", "InvalidFormat", "AuthenticationFailed"}

\* The calls, in the order of the code.
Route(s, r) ==
    CASE s = "x25519" /\ r = "sender" -> <<"generate", "encode", "publics", "derive", "hkdf">>
      [] s = "x25519" /\ r = "receiver" -> <<"import", "publics", "derive", "hkdf">>
      [] s = "hybrid" /\ r = "sender" ->
           <<"kemInit", "kemSize", "kemRun", "generate", "derive", "encode", "publics", "hkdf">>
      [] s = "hybrid" /\ r = "receiver" ->
           <<"check", "import", "kemInit", "kemSize", "kemRun", "derive", "publics", "hkdf">>

KeyMaterialSize == (IF scheme = "hybrid" THEN CiphertextSize ELSE 0) + PublicKeySize

Zeros == [of |-> "zeros"]
Buffer(value, length, wiping) ==
    [value |-> value, length |-> length, capacity |-> length, wiping |-> wiping]

\* openssl. What key makes of a ciphertext; what the owners of two points agree on.
KemSecret(text, key) ==
    [of |-> IF text.to = key /\ ~text.changed THEN "kem" ELSE "rejection", text |-> text, key |-> key]
AgreedSecret(points) ==
    IF LowOrder \in points THEN Zeros ELSE [of |-> "x25519", points |-> points]

-----------------------------------------------------------------------------
(* Mistakes that each property is tested against: the operators below are  *)
(* the ones their comments name, gone wrong. Next uses none of them.       *)

\* Truncated: the buffer keeps the length of the query.
NotTruncated(buffer, length) == buffer

\* Overwritten: the spare capacity is left.
OverwrittenLength(buffer) == 1 .. buffer.length

\* Info: the key material is not bound.
PublicKeysOnly(keys) == [material |-> None, public |-> keys]

-----------------------------------------------------------------------------
Init ==
    /\ scheme \in {"x25519", "hybrid"}
    /\ recipient \in Keys
    /\ holder = recipient
    /\ role = "sender"
    /\ pc = Head(Route(scheme, role))
    /\ ciphertext = None
    /\ material = None
    /\ sent = None
    /\ secret = [s \in Secret |-> None]
    /\ dataKey = [r \in Role |-> None]
    /\ residue = {}
    /\ error = "none"

Proceed ==
    /\ pc' = LET route == Route(scheme, role) IN
             route[1 + CHOOSE i \in DOMAIN route : route[i] = pc]
    /\ UNCHANGED <<scheme, recipient, holder, role, residue, error>>

\* drop of a SecretBytes: write_volatile for each offset below the capacity.
Overwritten(buffer) == 1 .. buffer.capacity

\* Every return drops what is left.
Return(result, kind) ==
    /\ pc' = result
    /\ error' = kind
    /\ secret' = [s \in Secret |-> None]
    /\ residue' = residue \cup
          {s \in Secret : /\ secret[s] # None
                          /\ secret[s].value # Zeros
                          /\ ~secret[s].wiping \/ Overwritten(secret[s]) # 1 .. secret[s].capacity}
    /\ UNCHANGED <<scheme, recipient, holder, role, ciphertext, material>>
Fail(kind) == Return("err", kind) /\ UNCHANGED <<sent, dataKey>>

\* Any call of openssl.
Fails ==
    /\ pc \in Range(Route(scheme, role)) \ {"check", "import"}
    /\ Fail("Crypto")

-----------------------------------------------------------------------------
(* kem.rs: encapsulate and decapsulate ask for the sizes, allocate, and    *)
(* cut the buffers to what they were filled with.                          *)

KemInit ==
    /\ pc = "kemInit"
    /\ Proceed
    /\ UNCHANGED <<ciphertext, material, sent, secret, dataKey>>

KemSize ==
    /\ pc = "kemSize"
    /\ \E excess \in 0 .. MaxExcess :
          secret' = [secret EXCEPT !["kem"] = Buffer(Zeros, SecretSize + excess, TRUE)]
    /\ IF role = "sender"
         THEN \E excess \in 0 .. MaxExcess :
                 ciphertext' = Buffer(Zeros, CiphertextSize + excess, FALSE)
         ELSE UNCHANGED ciphertext
    /\ Proceed
    /\ UNCHANGED <<material, sent, dataKey>>

Truncated(buffer, length) == [buffer EXCEPT !.length = length]

\* What a buffer holds includes the zeros behind what it was filled with.
Filled(buffer, value, length) == Truncated([buffer EXCEPT !.value = value], length)

KemRun ==
    /\ pc = "kemRun"
    /\ LET key == IF role = "sender" THEN recipient.mlKem ELSE holder.mlKem
           text == IF role = "sender" THEN [to |-> key, changed |-> FALSE]
                                      ELSE material.ciphertext
       IN  /\ secret' = [secret EXCEPT !["kem"] = Filled(@, KemSecret(text, key), SecretSize)]
           /\ IF role = "sender" THEN ciphertext' = Filled(ciphertext, text, CiphertextSize)
                                 ELSE UNCHANGED ciphertext
    /\ Proceed
    /\ UNCHANGED <<material, sent, dataKey>>

-----------------------------------------------------------------------------
(* encapsulate                                                             *)

\* A new ephemeral key.
Generate ==
    /\ pc = "generate"
    /\ Proceed
    /\ UNCHANGED <<ciphertext, material, sent, secret, dataKey>>

\* The key material: behind the ciphertext, if there is one, the ephemeral public key.
Encode ==
    /\ pc = "encode"
    /\ material' =
          [ciphertext |-> IF scheme = "hybrid" THEN ciphertext.value ELSE None,
           ephemeral |-> [point |-> "ephemeral", encoding |-> 1],
           length |-> PublicKeySize + IF scheme = "hybrid" THEN ciphertext.length ELSE 0]
    /\ Proceed
    /\ UNCHANGED <<ciphertext, sent, secret, dataKey>>

-----------------------------------------------------------------------------
(* decapsulate                                                             *)

\* The key material that the file's header has later, and who tries to read it. A
\* point may be encoded in another way.
Stored ==
    {material}
        \cup {[material EXCEPT !.ephemeral = [point |-> point, encoding |-> encoding]] :
                 point \in {"ephemeral", "other", LowOrder}, encoding \in 1 .. 2}
        \cup {[material EXCEPT !.length = length] : length \in {material.length - 1, material.length + 1}}
        \cup IF scheme = "hybrid" THEN {[material EXCEPT !.ciphertext.changed = TRUE]} ELSE {}

Deliver ==
    /\ role = "sender" /\ pc = "ok"
    /\ role' = "receiver"
    /\ pc' = Head(Route(scheme, "receiver"))
    /\ holder' \in {keys \in Keys : keys.x25519 # LowOrder}
    /\ material' \in Stored
    /\ ciphertext' = None
    /\ UNCHANGED <<scheme, recipient, sent, secret, dataKey, residue, error>>

\* The hybrid scheme knows its size before it splits the material.
Check ==
    /\ pc = "check"
    /\ IF material.length = KeyMaterialSize
         THEN Proceed /\ UNCHANGED <<ciphertext, material, sent, secret, dataKey>>
         ELSE Fail("InvalidFormat")

\* public_key_from_raw_bytes
Import ==
    /\ pc = "import"
    /\ IF material.length = KeyMaterialSize
         THEN Proceed /\ UNCHANGED <<ciphertext, material, sent, secret, dataKey>>
         ELSE Fail("InvalidFormat")

-----------------------------------------------------------------------------
(* Both.                                                                   *)

\* derive_shared_secret, which refuses zeros. The hybrid scheme keeps what it
\* returns in a SecretBytes, the other one does not.
Points ==
    IF role = "sender" THEN {"ephemeral", recipient.x25519}
                       ELSE {material.ephemeral.point, holder.x25519}
Derive ==
    /\ pc = "derive"
    /\ IF AgreedSecret(Points) = Zeros
         THEN Fail("AuthenticationFailed")
         ELSE /\ secret' = [secret EXCEPT !["x25519"] =
                              Buffer(AgreedSecret(Points), SecretSize, scheme = "hybrid")]
              /\ Proceed
              /\ UNCHANGED <<ciphertext, material, sent, dataKey>>

\* raw_public_key; derive_hybrid_data_key puts the two secrets together.
Contents(buffer) == <<buffer.value, buffer.length>>
Publics ==
    /\ pc = "publics"
    /\ IF scheme = "hybrid"
         THEN secret' = [secret EXCEPT !["input"] =
                           Buffer([of |-> "input", secrets |-> <<Contents(secret["kem"]),
                                                                 Contents(secret["x25519"])>>],
                                  secret["kem"].length + secret["x25519"].length, TRUE)]
         ELSE UNCHANGED secret
    /\ Proceed
    /\ UNCHANGED <<ciphertext, material, sent, dataKey>>

\* The info of HKDF: the material and the recipient's public keys.
Info(keys) == [material |-> material, public |-> keys]
PublicKeys(keys) == IF scheme = "hybrid" THEN <<keys.mlKem, keys.x25519>> ELSE <<keys.x25519>>

\* derive_data_key
Hkdf ==
    /\ pc = "hkdf"
    /\ dataKey' = [dataKey EXCEPT ![role] =
          [salt |-> scheme,
           secret |-> Contents(secret[IF scheme = "hybrid" THEN "input" ELSE "x25519"]),
           info |-> Info(PublicKeys(IF role = "sender" THEN recipient ELSE holder))]]
    /\ sent' = IF role = "sender" THEN material ELSE sent
    /\ Return("ok", "none")

Ended == (pc = "err" \/ (role = "receiver" /\ pc = "ok")) /\ UNCHANGED vars

Encapsulate == Generate \/ Encode
Decapsulate == Check \/ Import
Next ==
    \/ Encapsulate \/ Deliver \/ Decapsulate \/ KemInit \/ KemSize \/ KemRun
    \/ Derive \/ Publics \/ Hkdf \/ Fails \/ Ended
Spec == Init /\ [][Next]_vars

-----------------------------------------------------------------------------
(* Properties                                                              *)

TypeOK ==
    /\ scheme \in {"x25519", "hybrid"}
    /\ recipient \in Keys /\ holder \in Keys
    /\ role \in Role
    /\ pc \in Range(Route(scheme, role)) \cup Terminal
    /\ \A s \in Secret : secret[s] # None =>
          secret[s].length <= secret[s].capacity /\ pc \notin Terminal
    /\ material \in Material \cup {None}
    /\ material # None /\ role = "sender" => material.length = KeyMaterialSize
    /\ IF sent = None THEN dataKey["sender"] = None ELSE dataKey["sender"].info.material = sent
    /\ error \in Error

Matches ==
    /\ holder.x25519 = recipient.x25519
    /\ scheme = "hybrid" => holder.mlKem = recipient.mlKem

\* The recipient derives the sender's data key from the material the sender made,
\* whatever sizes openssl asks for; nobody derives it without all of the
\* recipient's private keys, nor from material that was changed in any way, also
\* where the secrets are the same. With a public key of low order, on which any key
\* agrees, neither side derives any data key (x25519.rs and x25519_mlkem768.rs, the
\* info of derive_data_key, the zeros that derive_shared_secret refuses; kem.rs,
\* truncate).
DataKeysAgree ==
    /\ recipient.x25519 = LowOrder => dataKey["sender"] = None
    /\ role = "receiver" =>
        /\ pc = "ok" => (dataKey["receiver"] = dataKey["sender"] <=> material = sent /\ Matches)
        /\ material = sent /\ Matches => error \in {"none", "Crypto"}
        /\ material.ephemeral.point = LowOrder => dataKey["receiver"] = None

\* On no path out of encapsulate or decapsulate does a secret of the hybrid scheme
\* stay in memory that was given back (kem.rs, "overwritten, including spare
\* capacity, when dropped"). The X25519 scheme makes no such promise.
SecretsWiped == residue # {} => scheme = "x25519"
=============================================================================
