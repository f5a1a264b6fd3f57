------------------------------ MODULE FileFormat ------------------------------
(***************************************************************************)
(* The file format (src/src/file_format.rs): the header that encryption    *)
(* writes and the reading of a stored header, up to the session that       *)
(* decrypts the body behind it.                                            *)
(*                                                                         *)
(* A byte is a digit to the base Base (256 in the program), so that the    *)
(* casts and the limits of the code can be met with short files.           *)
(*                                                                         *)
(* External: the storage of files, which may cut a file short or change a  *)
(* byte of it, and the key that decapsulates.                              *)
(***************************************************************************)
EXTENDS Naturals, Sequences

CONSTANTS
    Base,              \* the number of values of a byte
    MagicPrefix,       \* MAGIC_PREFIX
    MaxKeyMaterial,    \* MAX_KEY_MATERIAL_SIZE
    MaxNonce,          \* MAX_NONCE_SIZE
    MaxTag,            \* MAX_TAG_SIZE
    NonceSize,         \* NONCE_SIZE, of this program's methods
    TagSize,           \* TAG_SIZE
    KeyEstablishment,  \* the header IDs of key types
    DataCipher,        \* the header IDs of data ciphers
    LegacyKeySize,     \* the wrapped key of a legacy file: its RSA key's size
    RsaSizes,          \* the sizes of the RSA keys that may be tried on a file
    LegacyNonceSize,   \* LEGACY_NONCE_SIZE
    Header,            \* the headers encryption may write
    Legacy,            \* stands for the header of a legacy file
    LegacyBytes,       \* that header
    Body               \* what may follow a header

Byte == 0 .. Base - 1
PreambleSize == Len(MagicPrefix) + 2
MetadataSize == 12      \* VERSIONED_METADATA_SIZE
LegacyVersion == 0
CurrentVersion == 1

ASSUME FormatAssumption ==
    /\ Base \in Nat /\ Base > 1
    /\ MagicPrefix \in Seq(Byte)
    /\ MaxKeyMaterial \in Nat /\ MaxNonce \in Nat /\ MaxTag \in Nat
    /\ LegacyKeySize \in Nat /\ RsaSizes \subseteq Nat /\ LegacyNonceSize \in Nat

\* The IDs and sizes of this program's methods fit their fields and the limits.
ASSUME WidthAssumption ==
    /\ KeyEstablishment \subseteq 0 .. Base * Base - 1
    /\ DataCipher \subseteq 0 .. Base * Base - 1
    /\ MaxKeyMaterial < Base * Base * Base * Base
    /\ NonceSize \in 1 .. MaxNonce /\ MaxNonce < Base * Base
    /\ TagSize \in 1 .. MaxTag /\ MaxTag < Base * Base

\* Every header is one of a method of this program: "sizes are fixed or bounded by
\* the RSA modulus".
ASSUME HeaderAssumption ==
    /\ Header \subseteq [keyEstablishment: KeyEstablishment, dataCipher: DataCipher,
                         keyMaterial: Seq(Byte), nonce: Seq(Byte), tagSize: {TagSize}]
    /\ \A h \in Header :
          Len(h.keyMaterial) \in 1 .. MaxKeyMaterial /\ Len(h.nonce) = NonceSize

\* The header of a legacy file is LEGACY_MAGIC, a wrapped key and a nonce.
ASSUME StoredAssumption ==
    /\ LegacyBytes \in Seq(Byte) /\ Body \subseteq Seq(Byte)
    /\ Len(LegacyBytes) = PreambleSize + LegacyKeySize + LegacyNonceSize
    /\ SubSeq(LegacyBytes, 1, PreambleSize) = MagicPrefix \o <<0, 0>>
    /\ Legacy \notin Header

VARIABLES
    original,       \* the header that was written
    file,           \* the bytes stored
    rsaSize,        \* rsa.size() of the key that is tried, when it is an RSA key
    pc,
    position,       \* how many of them were read
    buffer,         \* the length of the buffer that read_exact fills next
    version,
    metadata,       \* the twelve bytes behind the preamble
    keyMaterial,
    nonce,
    authenticated,  \* authenticated_bytes, the cipher's associated data
    headerSize,     \* session.header_size
    error

parsed == <<version, metadata, keyMaterial, nonce, authenticated>>
vars == <<original, file, rsaSize, pc, position, buffer, parsed, headerSize, error>>

Reading == {"preamble", "metadata", "keyMaterial", "nonce", "legacyKey", "legacyNonce"}
Terminal == {"session", "err"}
Error == {"none", "Io", "InvalidFormat", "UnsupportedAlgorithms", "Key"}

-----------------------------------------------------------------------------
(* Writing a header.                                                       *)

\* "as u16" and "as u32" drop the higher bytes; to_be_bytes.
ToU16(number) == <<(number \div Base) % Base, number % Base>>
ToU32(number) == ToU16(number \div (Base * Base)) \o ToU16(number)

\* from_be_bytes.
FromU16(bytes) == bytes[1] * Base + bytes[2]
FromU32(bytes) == ((bytes[1] * Base + bytes[2]) * Base + bytes[3]) * Base + bytes[4]

Preamble(number) == MagicPrefix \o ToU16(number)

\* EncodeVersionedHeader, gone wrong: the length of the key material cut to u16.
EncodeNarrow(h) ==
    Preamble(CurrentVersion) \o ToU16(h.keyEstablishment) \o ToU16(h.dataCipher)
        \o ToU16(0) \o ToU16(Len(h.keyMaterial)) \o ToU16(Len(h.nonce))
        \o ToU16(h.tagSize) \o h.keyMaterial \o h.nonce

\* The twelve bytes behind the preamble.
Metadata(h) ==
    ToU16(h.keyEstablishment) \o ToU16(h.dataCipher) \o ToU32(Len(h.keyMaterial))
        \o ToU16(Len(h.nonce)) \o ToU16(h.tagSize)

EncodeVersionedHeader(h) ==
    Preamble(CurrentVersion) \o Metadata(h) \o h.keyMaterial \o h.nonce

Encoded == IF original = Legacy THEN LegacyBytes ELSE EncodeVersionedHeader(original)

\* A file as it was written, cut short or with one byte changed.
Stored(bytes) ==
    {SubSeq(bytes, 1, length) : length \in 0 .. Len(bytes)}
        \cup {[bytes EXCEPT ![i] = byte] : i \in DOMAIN bytes, byte \in Byte}

-----------------------------------------------------------------------------
Init ==
    /\ original \in Header \cup {Legacy}
    /\ \E body \in Body : file \in Stored(Encoded \o body)
    /\ rsaSize \in RsaSizes
    /\ pc = "preamble"
    /\ position = 0
    /\ buffer = PreambleSize
    /\ version = LegacyVersion
    /\ metadata = << >>
    /\ keyMaterial = << >>
    /\ nonce = << >>
    /\ authenticated = << >>
    /\ headerSize = 0
    /\ error = "none"

Fail(kind) == pc' = "err" /\ error' = kind /\ UNCHANGED buffer
Goto(location) == pc' = location /\ UNCHANGED error

\* The next buffer to be filled is allocated.
Await(location, size) == Goto(location) /\ buffer' = size

\* read_exact fills the buffer with the bytes that come next.
Bytes == SubSeq(file, position + 1, position + buffer)
ReadExact ==
    /\ position + buffer <= Len(file)
    /\ position' = position + buffer

\* The lengths in metadata.
KeyMaterialLength(bytes) == FromU32(SubSeq(bytes, 5, 8))
NonceLength(bytes) == FromU16(SubSeq(bytes, 9, 10))
TagLength(bytes) == FromU16(SubSeq(bytes, 11, 12))

-----------------------------------------------------------------------------
(* Mistakes that each property is tested against: the operators below are  *)
(* the ones their comments name, gone wrong. Next uses none of them.       *)

\* EndOfFile: a nonce cut short is filled up with the buffer's zeros.
EndPadded ==
    /\ pc \in Reading
    /\ position + buffer > Len(file)
    /\ IF pc = "nonce"
         THEN /\ nonce' = [i \in 1 .. buffer |->
                             IF position + i <= Len(file) THEN file[position + i] ELSE 0]
              /\ authenticated' = Preamble(CurrentVersion) \o metadata \o keyMaterial \o nonce'
              /\ position' = position + buffer
              /\ Goto("method") /\ UNCHANGED buffer
         ELSE Fail("InvalidFormat") /\ UNCHANGED <<nonce, authenticated, position>>
    /\ UNCHANGED <<original, file, rsaSize, version, metadata, keyMaterial, headerSize>>

\* ValidateLengths: the key material's length is trusted.
ValidateOther(bytes) ==
    NonceLength(bytes) \in 1 .. MaxNonce /\ TagLength(bytes) \in 1 .. MaxTag

\* AuthenticatedBytes: the lengths are not authenticated.
AuthenticatePart(random) ==
    Preamble(CurrentVersion) \o SubSeq(metadata, 1, 4) \o keyMaterial \o random

-----------------------------------------------------------------------------
(* read_header                                                             *)

ReadPreamble ==
    /\ pc = "preamble"
    /\ ReadExact
    /\ LET magic == SubSeq(Bytes, 1, Len(MagicPrefix))
           number == FromU16(SubSeq(Bytes, Len(MagicPrefix) + 1, PreambleSize))
       IN  /\ version' = number
           /\ IF magic = MagicPrefix /\ number \in {LegacyVersion, CurrentVersion}
                THEN IF number = LegacyVersion THEN Goto("method") /\ UNCHANGED buffer
                                               ELSE Await("metadata", MetadataSize)
                ELSE Fail("InvalidFormat")
    /\ UNCHANGED <<original, file, rsaSize, metadata, keyMaterial, nonce, authenticated, headerSize>>

\* validate_lengths
ValidateLengths(bytes) ==
    /\ KeyMaterialLength(bytes) \in 1 .. MaxKeyMaterial
    /\ NonceLength(bytes) \in 1 .. MaxNonce
    /\ TagLength(bytes) \in 1 .. MaxTag

ReadMetadata ==
    /\ pc = "metadata"
    /\ ReadExact
    /\ metadata' = Bytes
    /\ IF ValidateLengths(Bytes)
         THEN Await("keyMaterial", KeyMaterialLength(Bytes))
         ELSE Fail("InvalidFormat")
    /\ UNCHANGED <<original, file, rsaSize, version, keyMaterial, nonce, authenticated, headerSize>>

ReadKeyMaterial ==
    /\ pc = "keyMaterial"
    /\ ReadExact
    /\ keyMaterial' = Bytes
    /\ Await("nonce", NonceLength(metadata))
    /\ UNCHANGED <<original, file, rsaSize, version, metadata, nonce, authenticated, headerSize>>

\* The header as it will be authenticated, put together from its parts.
AuthenticatedBytes(random) ==
    Preamble(CurrentVersion) \o metadata \o keyMaterial \o random

ReadNonce ==
    /\ pc = "nonce"
    /\ ReadExact
    /\ nonce' = Bytes
    /\ authenticated' = AuthenticatedBytes(Bytes)
    /\ Goto("method")
    /\ UNCHANGED <<original, file, rsaSize, buffer, version, metadata, keyMaterial, headerSize>>

\* "missing or incomplete ..."
EndOfFile ==
    /\ pc \in Reading
    /\ position + buffer > Len(file)
    /\ Fail("InvalidFormat")
    /\ UNCHANGED <<original, file, rsaSize, position, parsed, headerSize>>

ReadFails ==
    /\ pc \in Reading
    /\ Fail("Io")
    /\ UNCHANGED <<original, file, rsaSize, position, parsed, headerSize>>

-----------------------------------------------------------------------------
(* From the header to the session.                                         *)

\* method_for_header: legacy, or any key type with any cipher.
MethodForHeader ==
    /\ pc = "method"
    /\ IF \/ version = LegacyVersion
          \/ /\ FromU16(SubSeq(metadata, 1, 2)) \in KeyEstablishment
             /\ FromU16(SubSeq(metadata, 3, 4)) \in DataCipher
         THEN Goto("prepare") /\ UNCHANGED buffer
         ELSE Fail("UnsupportedAlgorithms")
    /\ UNCHANGED <<original, file, rsaSize, position, parsed, headerSize>>

\* Key material that encryption wrote for this key type is of its size and form.
MaterialFits ==
    /\ original # Legacy
    /\ FromU16(SubSeq(metadata, 1, 2)) = original.keyEstablishment
    /\ Len(keyMaterial) = Len(original.keyMaterial)

\* DecryptionSession::versioned: the sizes the method requires, then its key, and
\* for key agreement the form of the key material.
PrepareVersioned ==
    /\ pc = "prepare"
    /\ version = CurrentVersion
    /\ IF Len(nonce) = NonceSize /\ TagLength(metadata) = TagSize
         THEN \/ Goto("session") /\ headerSize' = Len(authenticated) /\ UNCHANGED buffer
              \/ Fail("Key") /\ UNCHANGED headerSize
              \/ ~MaterialFits /\ Fail("InvalidFormat") /\ UNCHANGED headerSize
         ELSE Fail("InvalidFormat") /\ UNCHANGED headerSize
    /\ UNCHANGED <<original, file, rsaSize, position, parsed>>

\* legacy_rsa_aes_gcm::prepare_decryption: the key that is tried says how much to read.
PrepareLegacy ==
    /\ pc = "prepare"
    /\ version = LegacyVersion
    /\ Await("legacyKey", rsaSize) \/ Fail("Key")
    /\ UNCHANGED <<original, file, rsaSize, position, parsed, headerSize>>

ReadLegacyKey ==
    /\ pc = "legacyKey"
    /\ ReadExact
    /\ keyMaterial' = Bytes
    /\ Await("legacyNonce", LegacyNonceSize)
    /\ UNCHANGED <<original, file, rsaSize, version, metadata, nonce, authenticated, headerSize>>

\* private_decrypt (external, RSA-OAEP): a key unwraps what was wrapped for it.
Unwraps(material) ==
    /\ rsaSize = LegacyKeySize
    /\ material = SubSeq(LegacyBytes, PreambleSize + 1, PreambleSize + LegacyKeySize)

\* The key is unwrapped after the nonce was read. Nothing is authenticated.
ReadLegacyNonce ==
    /\ pc = "legacyNonce"
    /\ ReadExact
    /\ nonce' = Bytes
    /\ \/ /\ Unwraps(keyMaterial) /\ Goto("session") /\ UNCHANGED buffer
          /\ headerSize' = PreambleSize + Len(keyMaterial) + Len(Bytes)
       \/ Fail("Key") /\ UNCHANGED headerSize
    /\ UNCHANGED <<original, file, rsaSize, version, metadata, keyMaterial, authenticated>>

ReadHeader ==
    \/ ReadPreamble \/ ReadMetadata \/ ReadKeyMaterial \/ ReadNonce \/ EndOfFile \/ ReadFails
PrepareDecryption ==
    MethodForHeader \/ PrepareVersioned \/ PrepareLegacy \/ ReadLegacyKey \/ ReadLegacyNonce

Returned == pc \in Terminal /\ UNCHANGED vars

Next == ReadHeader \/ PrepareDecryption \/ Returned
Spec == Init /\ [][Next]_vars

-----------------------------------------------------------------------------
(* Properties                                                              *)

TypeOK ==
    /\ original \in Header \cup {Legacy}
    /\ file \in Seq(Byte)
    /\ rsaSize \in RsaSizes
    /\ pc \in Reading \cup {"method", "prepare"} \cup Terminal
    /\ position \in 0 .. Len(file)
    /\ buffer \in Nat
    /\ version \in Nat
    /\ metadata \in Seq(Byte) /\ Len(metadata) \in {0, MetadataSize}
    /\ keyMaterial \in Seq(Byte) /\ nonce \in Seq(Byte) /\ authenticated \in Seq(Byte)
    /\ headerSize \in Nat
    /\ error \in Error

\* The header is put together again to be authenticated, and what is put together
\* is, byte by byte, what was read: no byte that decided anything is outside the
\* associated data. And the size that the progress is computed from is what was
\* read, for a legacy file too (file_format.rs, authenticated_bytes; session.rs,
\* header_size).
AuthenticatesWhatItRead ==
    /\ version = CurrentVersion /\ pc \in {"method", "prepare", "session"} =>
          authenticated = SubSeq(file, 1, position)
    /\ pc = "session" => headerSize = position

\* A file that starts with what was written is read as what was written, the body
\* left where it starts. It is refused for its format in one case: a legacy file,
\* tried with a larger RSA key, that is too short for that key. A file that was cut
\* within its header never gets a session (file_format.rs, encode_versioned_header,
\* read_versioned_header, "missing or incomplete ..."; legacy_rsa_aes_gcm.rs,
\* rsa.size()).
ReadsWhatWasWritten ==
    /\ Len(Encoded) <= Len(file) /\ SubSeq(file, 1, Len(Encoded)) = Encoded =>
        /\ error # "UnsupportedAlgorithms"
        /\ error = "InvalidFormat" =>
              original = Legacy /\ Len(file) < PreambleSize + rsaSize + LegacyNonceSize
        /\ pc = "session" => position = Len(Encoded)
        /\ pc = "session" /\ original # Legacy =>
              [keyEstablishment |-> FromU16(SubSeq(metadata, 1, 2)),
               dataCipher |-> FromU16(SubSeq(metadata, 3, 4)),
               keyMaterial |-> keyMaterial, nonce |-> nonce,
               tagSize |-> TagLength(metadata)] = original
    /\ \A length \in 0 .. Len(Encoded) - 1 :
        file = SubSeq(Encoded, 1, length) => pc # "session"

\* No length from a file makes the reader allocate more than the limits allow
\* (file_format.rs, validate_lengths before the allocations, and the test
\* oversized_lengths_are_rejected_before_allocation).
AllocationBounded ==
    \/ buffer \in {PreambleSize, MetadataSize, rsaSize, LegacyNonceSize}
    \/ pc \in {"keyMaterial", "err"} /\ buffer <= MaxKeyMaterial
    \/ buffer <= MaxNonce
=============================================================================
