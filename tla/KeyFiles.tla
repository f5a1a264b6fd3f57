------------------------------- MODULE KeyFiles -------------------------------
(***************************************************************************)
(* Key files and algorithms (src/src/crypto: registry.rs, key_utils.rs and *)
(* algorithms/): which public-key files a file can be encrypted to, and    *)
(* which private-key files open it.                                        *)
(*                                                                         *)
(* A key file is its PEM blocks, each with the text in front of it, and    *)
(* whether text is left behind the last one. A block is its type and its   *)
(* owner, and for a private key the passphrase that locks it.              *)
(* A data key is told apart by what it was established from: the scheme    *)
(* and the keys of the recipient.                                          *)
(*                                                                         *)
(* External: openssl. Parsing a private-key file yields its first block;   *)
(* a different key recovers a different data key, and so does a different  *)
(* ML-KEM key, without an error (implicit rejection).                      *)
(***************************************************************************)
EXTENDS Naturals, Sequences, SequencesExt

CONSTANTS
    Owner,           \* who has generated key pairs
    Passphrase,
    NoPassphrase,    \* not asked for, and the lock of a plain private key
    Text,            \* the text behind the last block, as a block
    PublicKeyFile,   \* the public-key files tried
    PrivateKeyFile   \* the private-key files tried

KeyType == {"RSA", "X25519", "ML-KEM-768", "Other"}
PublicKey == [type : KeyType, owner : Owner]
PrivateKey == [type : KeyType, owner : Owner, lock : Passphrase \cup {NoPassphrase}]

ASSUME KeyFileAssumption ==
    /\ NoPassphrase \notin Passphrase
    /\ Text \notin PublicKey \cup PrivateKey
    /\ PublicKeyFile \subseteq [blocks : Seq(PublicKey), rest : BOOLEAN]
    /\ PrivateKeyFile \subseteq [blocks : Seq(PrivateKey), rest : BOOLEAN]

\* A key type of the program is the types of its blocks, in order.
Scheme == {<<"RSA">>, <<"X25519">>, <<"ML-KEM-768", "X25519">>}
Hybrid == <<"ML-KEM-768", "X25519">>
Cipher == {"AES-256-GCM", "ChaCha20-Poly1305"}

VARIABLES
    publicKeyFile,
    requested,        \* --cipher, or "default"
    pc,
    scheme,           \* the scheme selected, to encrypt and then to decrypt
    header,           \* the IDs in the stored file
    sealed,           \* what the file's data key was established from
    privateKeyFile,
    passphrase,       \* what the prompt returned
    loaded,           \* the private keys loaded so far
    error

vars == <<publicKeyFile, requested, pc, scheme, header, sealed, privateKeyFile,
          passphrase, loaded, error>>
stored == <<publicKeyFile, requested, header, sealed>>

Nothing == [cipher |-> "default", keys |-> << >>]
LegacyHeader == [keyEstablishment |-> 0, dataCipher |-> 0]
Encrypting == {"select", "encapsulate"}
Decrypting ==
    {"stored", "method", "passphrase", "load", "loadX25519", "recover", "authenticate"}
Terminal == {"ok", "err"}

\* A file of nothing but blocks.
File(blocks) == [blocks |-> blocks, rest |-> FALSE]

-----------------------------------------------------------------------------
(* Mistakes that each property is tested against: the operators below are  *)
(* the ones their comments name, gone wrong. Next uses none of them.       *)

\* GeneratedPrivate: the blocks of a hybrid key in the other order.
GeneratedReversed(s, owner, lock) ==
    Reverse([i \in DOMAIN s |-> [type |-> s[i], owner |-> owner, lock |-> lock]])

\* PemBlocks: text behind the last block is not a block.
BlocksOnly(file) == file.blocks

\* IsEncrypted: only the first block is looked at.
FirstIsEncrypted(file) == file.blocks # << >> /\ Head(file.blocks).lock # NoPassphrase

\* Parses: a plain block does not parse when a passphrase was typed.
ParsesLocked(block, given) == block # Text /\ block.lock = given

-----------------------------------------------------------------------------
(* The registry.                                                           *)

\* id() of the schemes and of the ciphers.
KeyEstablishmentId(s) ==
    CASE s = <<"RSA">> -> 1 [] s = <<"X25519">> -> 2 [] s = Hybrid -> 3
DataCipherId(c) == CASE c = "AES-256-GCM" -> 1 [] c = "ChaCha20-Poly1305" -> 2

DefaultCipher(s) == IF s = <<"RSA">> THEN "AES-256-GCM" ELSE "ChaCha20-Poly1305"

\* generate_keypair of the schemes: a block for each type, each with the passphrase.
GeneratedPublic(s, owner) == [i \in DOMAIN s |-> [type |-> s[i], owner |-> owner]]
GeneratedPrivate(s, owner, lock) ==
    [i \in DOMAIN s |-> [type |-> s[i], owner |-> owner, lock |-> lock]]

-----------------------------------------------------------------------------
(* PEM.                                                                    *)

\* pem_blocks: text behind the last block is one.
PemBlocks(file) == IF file.rest THEN Append(file.blocks, Text) ELSE file.blocks

\* is_encrypted_pem looks for the word anywhere in the file.
IsEncrypted(file) == \E key \in Range(file.blocks) : key.lock # NoPassphrase

\* parse_private_key, given a passphrase or none.
Parses(block, given) == block # Text /\ block.lock \in {NoPassphrase, given}
ParseError(given) == IF given = NoPassphrase THEN "InvalidPrivateKey" ELSE "InvalidPassphrase"

Public(key) == [type |-> key.type, owner |-> key.owner]

-----------------------------------------------------------------------------
\* A file is encrypted to a public key, or is an old one in the legacy layout.
Init ==
    /\ \/ /\ publicKeyFile \in PublicKeyFile
          /\ requested \in Cipher \cup {"default"}
          /\ pc = "select"
          /\ header = LegacyHeader
          /\ sealed = Nothing
       \/ /\ \E owner \in Owner : publicKeyFile = File(GeneratedPublic(<<"RSA">>, owner))
          /\ requested = "default"
          /\ pc = "stored"
          /\ header = LegacyHeader
          /\ sealed = [cipher |-> "AES-256-GCM", keys |-> publicKeyFile.blocks]
    /\ scheme = << >>
    /\ privateKeyFile = File(<< >>)
    /\ passphrase = NoPassphrase
    /\ loaded = << >>
    /\ error = "none"

Goto(location) == pc' = location /\ UNCHANGED error
Fail(kind) == pc' = "err" /\ error' = kind

-----------------------------------------------------------------------------
(* Encryption.                                                             *)

\* key_establishment_for_public_key: what a file of one block is, is decided by
\* its type; every file of two blocks is taken for a hybrid one.
SelectScheme ==
    /\ pc = "select"
    /\ LET blocks == PemBlocks(publicKeyFile) IN
       \/ /\ Len(blocks) = 2
          /\ scheme' = Hybrid
          /\ Goto("encapsulate")
       \/ /\ Len(blocks) = 1 /\ blocks # <<Text>> /\ <<blocks[1].type>> \in Scheme
          /\ scheme' = <<blocks[1].type>>
          /\ Goto("encapsulate")
       \/ /\ Len(blocks) = 1 /\ blocks # <<Text>> /\ <<blocks[1].type>> \notin Scheme
          /\ Fail("UnsupportedPublicKeyAlgorithm") /\ UNCHANGED scheme
       \/ /\ Len(blocks) \notin {1, 2} \/ blocks = <<Text>>
          /\ Fail("InvalidPublicKey") /\ UNCHANGED scheme
    /\ UNCHANGED <<stored, privateKeyFile, passphrase, loaded>>

\* A data key is established from the keys of a file, and the header written.
SelectedCipher == IF requested = "default" THEN DefaultCipher(scheme) ELSE requested
Seal(keys) ==
    \/ /\ sealed' = [cipher |-> SelectedCipher, keys |-> keys]
       /\ header' = [keyEstablishment |-> KeyEstablishmentId(scheme),
                     dataCipher |-> DataCipherId(SelectedCipher)]
       /\ Goto("stored")
    \/ Fail("Crypto") /\ UNCHANGED <<sealed, header>>

Refuse(kind) == Fail(kind) /\ UNCHANGED <<sealed, header>>

\* load_public_key, for a scheme of one key, looks at the file again.
LoadPublicKey(blocks) ==
    IF Len(blocks) # 1 \/ Text \in Range(blocks)
      THEN Refuse("InvalidPublicKey")
      ELSE IF <<blocks[1].type>> # scheme
             THEN Refuse("UnsupportedPublicKeyAlgorithm")
             ELSE Seal(blocks)

\* encapsulate of rsa_oaep.rs: a random data key is wrapped.
EncapsulateRsa ==
    /\ pc = "encapsulate" /\ scheme = <<"RSA">>
    /\ LoadPublicKey(PemBlocks(publicKeyFile))
    /\ UNCHANGED <<publicKeyFile, requested, scheme, privateKeyFile, passphrase, loaded>>

\* encapsulate of x25519.rs: the data key is agreed on with an ephemeral key.
EncapsulateX25519 ==
    /\ pc = "encapsulate" /\ scheme = <<"X25519">>
    /\ LoadPublicKey(PemBlocks(publicKeyFile))
    /\ UNCHANGED <<publicKeyFile, requested, scheme, privateKeyFile, passphrase, loaded>>

\* encapsulate of x25519_mlkem768.rs: from both keys.
EncapsulateHybrid ==
    /\ pc = "encapsulate" /\ scheme = Hybrid
    /\ LET blocks == PemBlocks(publicKeyFile) IN
       IF Text \in Range(blocks)
         THEN Refuse("InvalidPublicKey")
         ELSE IF [i \in DOMAIN blocks |-> blocks[i].type] # scheme
                THEN Refuse("UnsupportedPublicKeyAlgorithm")
                ELSE Seal(blocks)
    /\ UNCHANGED <<publicKeyFile, requested, scheme, privateKeyFile, passphrase, loaded>>

-----------------------------------------------------------------------------
(* Decryption.                                                             *)

\* Later, someone decrypts the file with some private-key file.
ReadPrivateKey ==
    /\ pc = "stored"
    /\ privateKeyFile' \in PrivateKeyFile
    /\ Goto("method")
    /\ UNCHANGED <<stored, scheme, passphrase, loaded>>

\* method_for_header: the scheme and the cipher with the stored IDs. A legacy file
\* is an RSA one.
MethodForHeader ==
    /\ pc = "method"
    /\ \/ header = LegacyHeader /\ scheme' = <<"RSA">>
       \/ \E s \in Scheme :
             KeyEstablishmentId(s) = header.keyEstablishment /\ scheme' = s
    /\ Goto("passphrase")
    /\ UNCHANGED <<stored, privateKeyFile, passphrase, loaded>>

RequestPassphrase ==
    /\ pc = "passphrase"
    /\ IF IsEncrypted(privateKeyFile) THEN passphrase' \in Passphrase ELSE UNCHANGED passphrase
    /\ Goto("load")
    /\ UNCHANGED <<stored, scheme, privateKeyFile, loaded>>

\* load_private_key, and load_private_keys up to its first block.
First == Head(privateKeyFile.blocks)
FirstParses == privateKeyFile.blocks # << >> /\ Parses(First, passphrase)
FirstMatches ==
    /\ First.type = Head(scheme)
    /\ scheme = Hybrid => Len(PemBlocks(privateKeyFile)) = 2

LoadFirst ==
    /\ pc = "load"
    /\ FirstParses /\ FirstMatches
    /\ loaded' = <<First>>
    /\ Goto(IF scheme = Hybrid THEN "loadX25519" ELSE "recover")
    /\ UNCHANGED <<stored, scheme, privateKeyFile, passphrase>>

RefuseFirst ==
    /\ pc = "load"
    /\ \/ ~FirstParses /\ Fail(ParseError(passphrase))
       \/ FirstParses /\ ~FirstMatches /\ Fail("KeyAlgorithmMismatch")
    /\ UNCHANGED <<stored, scheme, privateKeyFile, passphrase, loaded>>

\* The second block of a hybrid key.
Second == PemBlocks(privateKeyFile)[2]

\* LoadX25519, mistaken: the second block is taken as it is.
LoadUnparsed ==
    /\ pc = "loadX25519"
    /\ loaded' = Append(loaded, Second) /\ Goto("recover")
    /\ UNCHANGED <<stored, scheme, privateKeyFile, passphrase>>

LoadX25519 ==
    /\ pc = "loadX25519"
    /\ IF ~Parses(Second, passphrase)
         THEN Fail(ParseError(passphrase)) /\ UNCHANGED loaded
         ELSE IF Second.type # "X25519"
                THEN Fail("KeyAlgorithmMismatch") /\ UNCHANGED loaded
                ELSE loaded' = Append(loaded, Second) /\ Goto("recover")
    /\ UNCHANGED <<stored, scheme, privateKeyFile, passphrase>>

\* RecoveredKeys, mistaken: the hybrid data key is derived from the X25519 secret only.
DerivedFromX25519 ==
    [i \in DOMAIN loaded |-> IF i < Len(loaded) THEN sealed.keys[i] ELSE Public(loaded[i])]

\* What the data key is derived from.
RecoveredKeys == [i \in DOMAIN loaded |-> Public(loaded[i])]

\* decapsulate of rsa_oaep.rs, and of the legacy layout: another key unwraps nothing.
RecoverRsa ==
    /\ pc = "recover" /\ scheme = <<"RSA">>
    /\ \/ IF RecoveredKeys = sealed.keys THEN Goto("authenticate") ELSE Fail("AuthenticationFailed")
       \/ Fail("Crypto")
    /\ UNCHANGED <<stored, scheme, privateKeyFile, passphrase, loaded>>

\* decapsulate of x25519.rs: another key agrees on another data key.
RecoverX25519 ==
    /\ pc = "recover" /\ scheme = <<"X25519">>
    /\ Goto("authenticate") \/ Fail("Crypto")
    /\ UNCHANGED <<stored, scheme, privateKeyFile, passphrase, loaded>>

\* decapsulate of x25519_mlkem768.rs.
RecoverHybrid ==
    /\ pc = "recover" /\ scheme = Hybrid
    /\ Goto("authenticate") \/ Fail("Crypto")
    /\ UNCHANGED <<stored, scheme, privateKeyFile, passphrase, loaded>>

\* The cipher of the header, with the data key recovered, accepts the body or not.
Authenticate ==
    /\ pc = "authenticate"
    /\ LET cipher == IF header = LegacyHeader
                       THEN "AES-256-GCM"
                       ELSE CHOOSE c \in Cipher : DataCipherId(c) = header.dataCipher
       IN  IF sealed = [cipher |-> cipher, keys |-> RecoveredKeys]
             THEN Goto("ok") ELSE Fail("AuthenticationFailed")
    /\ UNCHANGED <<stored, scheme, privateKeyFile, passphrase, loaded>>

Returned == pc \in Terminal /\ UNCHANGED vars

Next ==
    \/ SelectScheme \/ EncapsulateRsa \/ EncapsulateX25519 \/ EncapsulateHybrid
    \/ ReadPrivateKey \/ MethodForHeader \/ RequestPassphrase
    \/ LoadFirst \/ RefuseFirst \/ LoadX25519
    \/ RecoverRsa \/ RecoverX25519 \/ RecoverHybrid \/ Authenticate
    \/ Returned
Spec == Init /\ [][Next]_vars

-----------------------------------------------------------------------------
(* Properties                                                              *)

\* A public-key file is used as a whole or not at all: a file is sealed to every
\* key in it, in its order, and only when they are what one scheme asks for
\* (registry.rs, "rejected rather than partly used").
SealedToWholeFile ==
    sealed # Nothing => /\ publicKeyFile = File(sealed.keys)
                        /\ [i \in DOMAIN sealed.keys |-> sealed.keys[i].type] \in Scheme

\* What a generated pair encrypts, it decrypts: with the right passphrase or none,
\* whatever the cipher, and with a legacy file too (every_key_and_cipher_combination_
\* round_trips, in tests/compatibility.rs).
PairsRoundTrip ==
    \A s \in Scheme, owner \in Owner :
        /\ publicKeyFile = File(GeneratedPublic(s, owner))
        /\ sealed = Nothing \/ \E lock \in Passphrase \cup {NoPassphrase} :
              /\ privateKeyFile = File(GeneratedPrivate(s, owner, lock))
              /\ pc \in Terminal => passphrase = lock
        => error \in {"none", "Crypto"}

\* A private-key file opens a file only when it holds, unlocked by what was typed,
\* every key that the file was sealed to (x25519_mlkem768.rs, derive_hybrid_data_key
\* with both secrets).
OpensOnlyForHolder ==
    pc = "ok" =>
        \A i \in DOMAIN sealed.keys : \E key \in Range(privateKeyFile.blocks) :
            Public(key) = sealed.keys[i] /\ key.lock \in {NoPassphrase, passphrase}

\* openssl is never given a locked block without a passphrase, for which it would
\* prompt by itself (key_utils.rs, "without calling OpenSSL, which could prompt on
\* the terminal").
OpensslNeverPrompts ==
    pc \in {"load", "loadX25519"} /\ passphrase = NoPassphrase =>
        \A block \in Range(PemBlocks(privateKeyFile)) :
            block # Text => block.lock = NoPassphrase

\* An error says what is wrong: the passphrase, when one was typed and a block did
\* not parse with it; the algorithm, when the blocks are not those of the scheme;
\* authentication, when they are, of other owners (key_utils.rs, parse_private_key
\* and load_private_key).
ErrorsAreAccurate ==
    /\ error = "InvalidPassphrase" =>
          \E block \in Range(PemBlocks(privateKeyFile)) :
              block = Text \/ block.lock \notin {NoPassphrase, passphrase}
    /\ error = "InvalidPrivateKey" => privateKeyFile.rest \/ privateKeyFile.blocks = << >>
    /\ error = "KeyAlgorithmMismatch" =>
          [i \in DOMAIN PemBlocks(privateKeyFile) |->
             IF PemBlocks(privateKeyFile)[i] = Text
               THEN "Text" ELSE PemBlocks(privateKeyFile)[i].type] # scheme
    /\ error = "AuthenticationFailed" =>
          /\ [i \in DOMAIN loaded |-> loaded[i].type] = scheme
          /\ [i \in DOMAIN loaded |-> Public(loaded[i])] # sealed.keys

TypeOK ==
    /\ publicKeyFile \in [blocks : Seq(PublicKey), rest : BOOLEAN]
    /\ privateKeyFile \in [blocks : Seq(PrivateKey), rest : BOOLEAN]
    /\ requested \in Cipher \cup {"default"}
    /\ pc \in Encrypting \cup Decrypting \cup Terminal
    /\ scheme \in Scheme \cup {<< >>}
    /\ header \in [keyEstablishment : 0 .. 3, dataCipher : 0 .. 2]
    /\ sealed \in [cipher : Cipher \cup {"default"}, keys : Seq(PublicKey)]
    /\ passphrase \in Passphrase \cup {NoPassphrase}
    /\ loaded \in Seq(PrivateKey) /\ Len(loaded) <= 2
    /\ error \in {"none", "InvalidPublicKey", "UnsupportedPublicKeyAlgorithm", "Crypto",
                  "InvalidPassphrase", "InvalidPrivateKey", "KeyAlgorithmMismatch",
                  "AuthenticationFailed"}
=============================================================================
