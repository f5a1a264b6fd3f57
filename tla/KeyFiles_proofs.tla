---------------------------- MODULE KeyFiles_proofs ----------------------------
(***************************************************************************)
(* KeyFiles: proofs, for any owners and passphrases, and any key files of  *)
(* any number of blocks.                                                   *)
(***************************************************************************)
EXTENDS KeyFiles, SequenceTheorems, TLAPS

-----------------------------------------------------------------------------
(* The inductive invariant.                                                *)

Types(keys) == [i \in DOMAIN keys |-> keys[i].type]

\* The scheme selected is the one of the public-key file's blocks, but of two blocks
\* nothing is known yet.
SelectedIs ==
    /\ pc \in Encrypting => sealed = Nothing /\ privateKeyFile = File(<< >>)
    /\ pc = "encapsulate" =>
          \/ scheme = Hybrid /\ Len(PemBlocks(publicKeyFile)) = 2
          \/ /\ Len(PemBlocks(publicKeyFile)) = 1
             /\ PemBlocks(publicKeyFile)[1] # Text
             /\ scheme = <<PemBlocks(publicKeyFile)[1].type>>
             /\ scheme \in Scheme \ {Hybrid}

\* A file's header names the scheme of the keys it is sealed to, and its cipher.
SealedIs ==
    /\ sealed # Nothing =>
          /\ publicKeyFile = File(sealed.keys)
          /\ Types(sealed.keys) \in Scheme
          /\ sealed.cipher \in Cipher
          /\ \/ /\ header = LegacyHeader
                /\ Types(sealed.keys) = <<"RSA">> /\ sealed.cipher = "AES-256-GCM"
             \/ header = [keyEstablishment |-> KeyEstablishmentId(Types(sealed.keys)),
                          dataCipher |-> DataCipherId(sealed.cipher)]
    /\ pc \in Decrypting \cup {"ok"} => sealed # Nothing

\* What decryption takes from the header is what the file was sealed with.
MethodIs ==
    pc \in {"passphrase", "load", "loadX25519", "recover", "authenticate", "ok"} =>
        scheme = Types(sealed.keys)

\* A passphrase was asked for just when something in the file is locked.
PromptedIs ==
    /\ pc \in {"select", "encapsulate", "stored", "method", "passphrase"} =>
          passphrase = NoPassphrase
    /\ pc \in {"load", "loadX25519", "recover", "authenticate", "ok"} =>
          IF IsEncrypted(privateKeyFile) THEN passphrase \in Passphrase
                                         ELSE passphrase = NoPassphrase

Unlocked(key) == key \in Range(privateKeyFile.blocks) /\ key.lock \in {NoPassphrase, passphrase}

\* What was loaded are unlocked blocks of the file, of the types of the scheme.
LoadedIs ==
    /\ pc = "loadX25519" =>
          /\ scheme = Hybrid
          /\ privateKeyFile.blocks # << >> /\ Len(PemBlocks(privateKeyFile)) = 2
          /\ loaded = <<First>>
          /\ Unlocked(First) /\ First.type = "ML-KEM-768"
    /\ pc \in {"recover", "authenticate", "ok"} =>
          /\ Types(loaded) = scheme
          /\ \A i \in DOMAIN loaded : Unlocked(loaded[i])

OpenedIs == pc = "ok" => RecoveredKeys = sealed.keys

ErrorIs == pc # "err" => error = "none"

IInv ==
    /\ TypeOK
    /\ SelectedIs
    /\ SealedIs
    /\ MethodIs
    /\ PromptedIs
    /\ LoadedIs
    /\ OpenedIs
    /\ ErrorIs
    /\ PairsRoundTrip
    /\ ErrorsAreAccurate

-----------------------------------------------------------------------------
(* Schemes and their IDs.                                                  *)

LEMMA SchemesAre ==
    /\ Scheme = {<<"RSA">>, <<"X25519">>, Hybrid}
    /\ Hybrid # <<"RSA">> /\ Hybrid # <<"X25519">> /\ <<"RSA">> # <<"X25519">>
    /\ << >> \notin Scheme
    /\ Hybrid[1] = "ML-KEM-768" /\ Hybrid[2] = "X25519" /\ Len(Hybrid) = 2
  BY DEF Scheme, Hybrid

\* An ID names one scheme, and is not the one of the legacy layout.
LEMMA SchemeIds ==
    ASSUME NEW s \in Scheme
    PROVE  /\ KeyEstablishmentId(s) \in 1 .. 3
           /\ \A t \in Scheme : KeyEstablishmentId(s) = KeyEstablishmentId(t) => s = t
  BY DEF Scheme, KeyEstablishmentId, Hybrid

LEMMA CipherIds ==
    ASSUME NEW c \in Cipher
    PROVE  /\ DataCipherId(c) \in 1 .. 2
           /\ (CHOOSE d \in Cipher : DataCipherId(d) = DataCipherId(c)) = c
  BY DEF Cipher, DataCipherId

-----------------------------------------------------------------------------
(* Files and their blocks.                                                 *)

\* pem_blocks gives the blocks of a file, and one more for what is left behind them.
LEMMA PemIs ==
    ASSUME NEW K, Text \notin K, NEW file \in [blocks : Seq(K), rest : BOOLEAN]
    PROVE  /\ Len(PemBlocks(file)) = Len(file.blocks) + IF file.rest THEN 1 ELSE 0
           /\ DOMAIN PemBlocks(file) = 1 .. Len(PemBlocks(file))
           /\ \A i \in 1 .. Len(file.blocks) : PemBlocks(file)[i] = file.blocks[i]
           /\ file.rest => PemBlocks(file)[Len(file.blocks) + 1] = Text
           /\ Text \in Range(PemBlocks(file)) <=> file.rest
           /\ Range(file.blocks) \subseteq Range(PemBlocks(file))
           /\ Range(PemBlocks(file)) \subseteq K \cup {Text}
           /\ ~file.rest => PemBlocks(file) = file.blocks /\ file = File(file.blocks)
<1>1. CASE file.rest
  <2>1. PemBlocks(file) = Append(file.blocks, Text)
    BY <1>1 DEF PemBlocks
  <2>2. PemBlocks(file)[Len(file.blocks) + 1] = Text /\ Len(file.blocks) + 1 \in DOMAIN PemBlocks(file)
    BY <2>1
  <2>3. QED BY <1>1, <2>1, <2>2 DEF Range
<1>2. CASE ~file.rest
  <2>1. PemBlocks(file) = file.blocks
    BY <1>2 DEF PemBlocks
  <2>2. Text \notin Range(file.blocks)
    BY DEF Range
  <2>3. file = File(file.blocks)
    BY <1>2 DEF File
  <2>4. QED BY <1>2, <2>1, <2>2, <2>3 DEF Range
<1>3. QED BY <1>1, <1>2

LEMMA AppendIs ==
    ASSUME NEW S, NEW seq \in Seq(S), NEW x \in S
    PROVE  Append(seq, x) \in Seq(S) /\ Len(Append(seq, x)) = Len(seq) + 1
  OBVIOUS

LEMMA PairIs ==
    ASSUME NEW S, NEW seq \in Seq(S), Len(seq) = 2
    PROVE  seq = <<seq[1], seq[2]>>
  OBVIOUS

LEMMA AppendPair == ASSUME NEW a, NEW b PROVE Append(<<a>>, b) = <<a, b>>
<1>1. <<a>> \in Seq({a, b}) /\ Len(<<a>>) = 1 /\ <<a>>[1] = a
  OBVIOUS
<1>2. /\ Append(<<a>>, b) \in Seq({a, b}) /\ Len(Append(<<a>>, b)) = Len(<<a>>) + 1
      /\ Append(<<a>>, b)[1] = <<a>>[1] /\ Append(<<a>>, b)[Len(<<a>>) + 1] = b
  BY <1>1, AppendProperties
<1>3. Len(Append(<<a>>, b)) = 2 /\ Append(<<a>>, b)[1] = a /\ Append(<<a>>, b)[2] = b
  BY <1>1, <1>2
<1>4. QED BY <1>2, <1>3, PairIs

LEMMA OneMore ==
    ASSUME NEW L, NEW n \in Nat, L = 2
    PROVE  (L = n + 1 => n = 1) /\ (L = n + 0 => n = 2)
  OBVIOUS

\* A key file that holds what was generated is what it is made of.
LEMMA FileIs == \A blocks : File(blocks).blocks = blocks /\ File(blocks).rest = FALSE
  BY DEF File

-----------------------------------------------------------------------------
(* Encapsulation, of any scheme.                                           *)

Whole == ~publicKeyFile.rest /\ Types(publicKeyFile.blocks) = scheme

Encapsulated ==
    /\ pc = "encapsulate"
    /\ \/ /\ Whole
          /\ sealed' = [cipher |-> SelectedCipher, keys |-> publicKeyFile.blocks]
          /\ header' = [keyEstablishment |-> KeyEstablishmentId(scheme),
                        dataCipher |-> DataCipherId(SelectedCipher)]
          /\ Goto("stored")
       \/ /\ Whole /\ Fail("Crypto") /\ UNCHANGED <<sealed, header>>
       \/ /\ ~Whole /\ UNCHANGED <<sealed, header>>
          /\ Fail("InvalidPublicKey") \/ Fail("UnsupportedPublicKeyAlgorithm")
    /\ UNCHANGED <<publicKeyFile, requested, scheme, privateKeyFile, passphrase, loaded>>

LEMMA EncapsulateSingle ==
    ASSUME TypeOK, SelectedIs, pc = "encapsulate", scheme # Hybrid,
           LoadPublicKey(PemBlocks(publicKeyFile)),
           UNCHANGED <<publicKeyFile, requested, scheme, privateKeyFile, passphrase, loaded>>
    PROVE  Encapsulated
<1> DEFINE blocks == PemBlocks(publicKeyFile)
<1>1. publicKeyFile \in [blocks : Seq(PublicKey), rest : BOOLEAN] /\ Text \notin PublicKey
  BY KeyFileAssumption DEF TypeOK
<1>2. Len(blocks) = 1 /\ blocks[1] # Text /\ scheme = <<blocks[1].type>>
  BY DEF SelectedIs
<1>3. Len(publicKeyFile.blocks) = 1 /\ ~publicKeyFile.rest
  <2> DEFINE n == Len(publicKeyFile.blocks)
  <2>1. /\ Len(blocks) = n + IF publicKeyFile.rest THEN 1 ELSE 0
        /\ publicKeyFile.rest => blocks[n + 1] = Text
    BY <1>1, PemIs
  <2>2. n \in Nat
    BY <1>1
  <2>3. CASE publicKeyFile.rest
    <3>1. Len(blocks) = n + 1 /\ blocks[n + 1] = Text
      BY <2>1, <2>3
    <3>2. QED BY <1>2, <2>2, <3>1
  <2>4. CASE ~publicKeyFile.rest
    <3>1. Len(blocks) = n + 0
      BY <2>1, <2>4
    <3>2. QED BY <1>2, <2>2, <2>4, <3>1
  <2>5. QED BY <2>3, <2>4
<1>4. blocks = publicKeyFile.blocks /\ Text \notin Range(blocks)
  BY <1>1, <1>3, PemIs
<1>5. Types(publicKeyFile.blocks) = <<blocks[1].type>>
  BY <1>1, <1>3, <1>4 DEF Types
<1>6. Whole
  BY <1>2, <1>3, <1>5 DEF Whole
<1>7. Seal(publicKeyFile.blocks)
  BY <1>2, <1>4 DEF LoadPublicKey
<1>8. QED BY <1>6, <1>7 DEF Encapsulated, Seal

LEMMA EncapsulatedTyped ==
    ASSUME TypeOK, SelectedIs, Encapsulated
    PROVE  /\ scheme \in Scheme /\ KeyEstablishmentId(scheme) \in 1 .. 3
           /\ SelectedCipher \in Cipher /\ DataCipherId(SelectedCipher) \in 1 .. 2
           /\ publicKeyFile.blocks \in Seq(PublicKey)
<1>1. scheme \in Scheme
  BY SchemesAre DEF Encapsulated, SelectedIs
<1>2. SelectedCipher \in Cipher
  BY DEF SelectedCipher, DefaultCipher, Cipher, TypeOK
<1>3. publicKeyFile.blocks \in Seq(PublicKey)
  BY DEF TypeOK
<1>4. QED BY <1>1, <1>2, <1>3, SchemeIds, CipherIds

LEMMA EncapsulatesRsa == TypeOK /\ SelectedIs /\ EncapsulateRsa => Encapsulated
  BY EncapsulateSingle, SchemesAre DEF EncapsulateRsa

LEMMA EncapsulatesX25519 == TypeOK /\ SelectedIs /\ EncapsulateX25519 => Encapsulated
  BY EncapsulateSingle, SchemesAre DEF EncapsulateX25519

LEMMA EncapsulatesHybrid == TypeOK /\ SelectedIs /\ EncapsulateHybrid => Encapsulated
<1> SUFFICES ASSUME TypeOK, SelectedIs, EncapsulateHybrid PROVE Encapsulated
  OBVIOUS
<1> DEFINE blocks == PemBlocks(publicKeyFile)
<1>1. publicKeyFile \in [blocks : Seq(PublicKey), rest : BOOLEAN] /\ Text \notin PublicKey
  BY KeyFileAssumption DEF TypeOK
<1>2. UNCHANGED <<publicKeyFile, requested, scheme, privateKeyFile, passphrase, loaded>>
  BY DEF EncapsulateHybrid
<1>3. CASE publicKeyFile.rest
  <2>1. Text \in Range(blocks) /\ ~Whole
    BY <1>1, <1>3, PemIs DEF Whole
  <2>2. Refuse("InvalidPublicKey")
    BY <2>1 DEF EncapsulateHybrid
  <2>3. QED BY <1>2, <2>1, <2>2 DEF Encapsulated, Refuse, EncapsulateHybrid
<1>4. CASE ~publicKeyFile.rest
  <2>1. Text \notin Range(blocks) /\ blocks = publicKeyFile.blocks
    BY <1>1, <1>4, PemIs
  <2>2. IF Types(publicKeyFile.blocks) # scheme THEN Refuse("UnsupportedPublicKeyAlgorithm")
                                                ELSE Seal(publicKeyFile.blocks)
    BY <2>1 DEF EncapsulateHybrid, Types
  <2>3. CASE Types(publicKeyFile.blocks) = scheme
    BY <1>2, <1>4, <2>2, <2>3 DEF Encapsulated, Whole, Seal, EncapsulateHybrid
  <2>4. CASE Types(publicKeyFile.blocks) # scheme
    BY <1>2, <2>2, <2>4 DEF Encapsulated, Whole, Refuse, EncapsulateHybrid
  <2>5. QED BY <2>3, <2>4
<1>5. QED BY <1>3, <1>4

\* The second block of a file, where it is not text, is one of the file's keys.
LEMMA SecondIs ==
    ASSUME TypeOK, Len(PemBlocks(privateKeyFile)) = 2, Second # Text
    PROVE  /\ privateKeyFile.blocks \in Seq(PrivateKey) /\ Len(privateKeyFile.blocks) = 2
           /\ Second = privateKeyFile.blocks[2] /\ Second \in PrivateKey
           /\ Second \in Range(privateKeyFile.blocks)
<1> DEFINE n == Len(privateKeyFile.blocks)
<1>1. /\ privateKeyFile \in [blocks : Seq(PrivateKey), rest : BOOLEAN] /\ Text \notin PrivateKey
      /\ privateKeyFile.blocks \in Seq(PrivateKey) /\ n \in Nat
  BY KeyFileAssumption DEF TypeOK
<1>2. /\ Len(PemBlocks(privateKeyFile)) = n + IF privateKeyFile.rest THEN 1 ELSE 0
      /\ privateKeyFile.rest => PemBlocks(privateKeyFile)[n + 1] = Text
      /\ \A i \in 1 .. n : PemBlocks(privateKeyFile)[i] = privateKeyFile.blocks[i]
  BY <1>1, PemIs
<1>3. CASE privateKeyFile.rest
  <2>1. n = 1
    <3>1. Len(PemBlocks(privateKeyFile)) = n + 1
      BY <1>2, <1>3
    <3>2. QED BY <1>1, <3>1, OneMore
  <2>2. QED BY <1>2, <1>3, <2>1 DEF Second
<1>4. CASE ~privateKeyFile.rest
  <2>1. n = 2
    <3>1. Len(PemBlocks(privateKeyFile)) = n + 0
      BY <1>2, <1>4
    <3>2. QED BY <1>1, <3>1, OneMore
  <2>2. Second = privateKeyFile.blocks[2]
    BY <1>2, <2>1 DEF Second
  <2>3. QED BY <1>1, <2>1, <2>2 DEF Range
<1>5. QED BY <1>3, <1>4

\* The first block of a file is one of its keys.
LEMMA FirstIs ==
    ASSUME TypeOK, privateKeyFile.blocks # << >>
    PROVE  /\ privateKeyFile.blocks \in Seq(PrivateKey) /\ First = privateKeyFile.blocks[1]
           /\ First \in PrivateKey /\ First # Text /\ First \in Range(privateKeyFile.blocks)
<1>1. privateKeyFile.blocks \in Seq(PrivateKey) /\ Text \notin PrivateKey
  BY KeyFileAssumption DEF TypeOK
<1>2. 1 \in DOMAIN privateKeyFile.blocks /\ First = privateKeyFile.blocks[1]
  BY <1>1 DEF First
<1>3. QED BY <1>1, <1>2 DEF Range

LEMMA BlocksAre ==
    ASSUME TypeOK, Len(PemBlocks(publicKeyFile)) = 1
    PROVE  PemBlocks(publicKeyFile) = <<PemBlocks(publicKeyFile)[1]>>
<1>1. publicKeyFile.blocks \in Seq(PublicKey) /\ publicKeyFile.rest \in BOOLEAN
  BY DEF TypeOK
<1>2. PemBlocks(publicKeyFile) \in Seq(PublicKey \cup {Text})
  BY <1>1 DEF PemBlocks
<1>3. QED BY <1>2

\* What is sealed to is the whole of a file.
LEMMA EncapsulatedWhole ==
    ASSUME TypeOK, Whole
    PROVE  publicKeyFile = File(publicKeyFile.blocks)
<1>1. publicKeyFile \in [blocks : Seq(PublicKey), rest : BOOLEAN] /\ Text \notin PublicKey
  BY KeyFileAssumption DEF TypeOK
<1>2. QED BY <1>1, PemIs DEF Whole

-----------------------------------------------------------------------------
(* Generated pairs.                                                        *)

LEMMA SchemeSeq ==
    ASSUME NEW s \in Scheme
    PROVE  /\ s \in Seq(KeyType) /\ Len(s) \in {1, 2}
           /\ s = Hybrid <=> Len(s) = 2
           /\ Len(s) = 1 => s = <<s[1]>>
           /\ Head(s) = s[1]
           /\ s = Hybrid => s[2] = "X25519"
<1>1. CASE s = <<"RSA">>
  BY <1>1, SchemesAre DEF KeyType
<1>2. CASE s = <<"X25519">>
  BY <1>2, SchemesAre DEF KeyType
<1>3. CASE s = Hybrid
  BY <1>3 DEF KeyType, Hybrid
<1>4. QED BY <1>1, <1>2, <1>3, SchemesAre

LEMMA GeneratedPublicIs ==
    ASSUME NEW s \in Scheme, NEW owner \in Owner
    PROVE  /\ GeneratedPublic(s, owner) \in Seq(PublicKey)
           /\ Len(GeneratedPublic(s, owner)) = Len(s)
           /\ DOMAIN GeneratedPublic(s, owner) = 1 .. Len(s)
           /\ \A i \in 1 .. Len(s) :
                 GeneratedPublic(s, owner)[i] = [type |-> s[i], owner |-> owner]
           /\ Types(GeneratedPublic(s, owner)) = s
<1> DEFINE g == GeneratedPublic(s, owner)
<1>1. s \in Seq(KeyType) /\ Len(s) \in Nat /\ DOMAIN s = 1 .. Len(s)
  BY SchemeSeq
<1>2. /\ DOMAIN g = 1 .. Len(s) /\ \A i \in 1 .. Len(s) : g[i] = [type |-> s[i], owner |-> owner]
      /\ \A i \in 1 .. Len(s) : g[i] \in PublicKey
  BY <1>1 DEF GeneratedPublic, PublicKey
<1>3. g \in Seq(PublicKey) /\ Len(g) = Len(s)
  <2>1. g = [i \in 1 .. Len(s) |-> g[i]]
    BY <1>1 DEF GeneratedPublic
  <2>2. QED BY <1>1, <1>2, <2>1
<1>4. Types(g) = s
  <2>1. Types(g) = [i \in 1 .. Len(s) |-> s[i]]
    BY <1>2 DEF Types
  <2>2. QED BY <1>1, <2>1
<1>5. QED BY <1>2, <1>3, <1>4

LEMMA GeneratedPrivateIs ==
    ASSUME NEW s \in Scheme, NEW owner \in Owner, NEW lock \in Passphrase \cup {NoPassphrase}
    PROVE  /\ GeneratedPrivate(s, owner, lock) \in Seq(PrivateKey)
           /\ Len(GeneratedPrivate(s, owner, lock)) = Len(s)
           /\ GeneratedPrivate(s, owner, lock) # << >>
           /\ \A i \in 1 .. Len(s) : GeneratedPrivate(s, owner, lock)[i]
                                       = [type |-> s[i], owner |-> owner, lock |-> lock]
           /\ \A key \in Range(GeneratedPrivate(s, owner, lock)) :
                 key.owner = owner /\ key.lock = lock
<1> DEFINE g == GeneratedPrivate(s, owner, lock)
<1>1. s \in Seq(KeyType) /\ Len(s) \in {1, 2} /\ DOMAIN s = 1 .. Len(s)
  BY SchemeSeq
<1>2. /\ DOMAIN g = 1 .. Len(s)
      /\ \A i \in 1 .. Len(s) : g[i] = [type |-> s[i], owner |-> owner, lock |-> lock]
      /\ \A i \in 1 .. Len(s) : g[i] \in PrivateKey
  BY <1>1 DEF GeneratedPrivate, PrivateKey
<1>3. g \in Seq(PrivateKey) /\ Len(g) = Len(s)
  <2>1. g = [i \in 1 .. Len(s) |-> g[i]]
    BY <1>1 DEF GeneratedPrivate
  <2>2. QED BY <1>1, <1>2, <2>1
<1>4. g # << >>
  BY <1>1, <1>3
<1>5. \A key \in Range(g) : key.owner = owner /\ key.lock = lock
  BY <1>2 DEF Range
<1>6. QED BY <1>2, <1>3, <1>4, <1>5

\* What is known of a file encrypted to a generated key.
Mine(s, owner) ==
    /\ s \in Scheme /\ owner \in Owner
    /\ publicKeyFile = File(GeneratedPublic(s, owner))

\* And where its own private key, unlocked, is what decrypts it.
Own(s, owner, lock) ==
    /\ Mine(s, owner) /\ lock \in Passphrase \cup {NoPassphrase}
    /\ privateKeyFile = File(GeneratedPrivate(s, owner, lock))
    /\ passphrase = lock

LEMMA MineIs ==
    ASSUME NEW s, NEW owner, Mine(s, owner)
    PROVE  /\ ~publicKeyFile.rest /\ publicKeyFile.blocks = GeneratedPublic(s, owner)
           /\ Types(publicKeyFile.blocks) = s
           /\ PemBlocks(publicKeyFile) = publicKeyFile.blocks
           /\ Len(PemBlocks(publicKeyFile)) = Len(s)
           /\ Len(s) = 1 => PemBlocks(publicKeyFile)[1].type = s[1]
           /\ Text \notin Range(PemBlocks(publicKeyFile))
<1>1. s \in Scheme /\ owner \in Owner /\ publicKeyFile = File(GeneratedPublic(s, owner))
  BY DEF Mine
<1>2. publicKeyFile.blocks = GeneratedPublic(s, owner) /\ ~publicKeyFile.rest
  BY <1>1, FileIs
<1>3. PemBlocks(publicKeyFile) = GeneratedPublic(s, owner)
  BY <1>2 DEF PemBlocks
<1>4. Text \notin Range(GeneratedPublic(s, owner))
  BY <1>1, GeneratedPublicIs, KeyFileAssumption DEF Range
<1>5. /\ Types(GeneratedPublic(s, owner)) = s /\ Len(GeneratedPublic(s, owner)) = Len(s)
      /\ Len(s) = 1 => GeneratedPublic(s, owner)[1].type = s[1]
  <2>1. Types(GeneratedPublic(s, owner)) = s /\ Len(GeneratedPublic(s, owner)) = Len(s)
    BY <1>1, GeneratedPublicIs
  <2>2. ASSUME Len(s) = 1 PROVE GeneratedPublic(s, owner)[1].type = s[1]
    <3>1. GeneratedPublic(s, owner)[1] = [type |-> s[1], owner |-> owner]
      BY <1>1, <2>2, GeneratedPublicIs
    <3>2. QED BY <3>1
  <2>3. QED BY <2>1, <2>2
<1>6. QED BY <1>2, <1>3, <1>4, <1>5

\* A generated public key is one that a scheme is selected for.
LEMMA MineSelects ==
    ASSUME NEW s, NEW owner, Mine(s, owner), SelectScheme
    PROVE  UNCHANGED error
<1> DEFINE blocks == PemBlocks(publicKeyFile)
<1>1. /\ s \in Scheme /\ Len(blocks) = Len(s) /\ Text \notin Range(blocks)
      /\ Len(s) = 1 => blocks[1].type = s[1]
  BY MineIs DEF Mine
<1>2. Len(blocks) \in {1, 2} /\ blocks # <<Text>>
  <2>1. Text \in Range(<<Text>>)
    <3>1. 1 \in DOMAIN <<Text>> /\ <<Text>>[1] = Text
      OBVIOUS
    <3>2. QED BY <3>1 DEF Range
  <2>2. QED BY <1>1, <2>1, SchemeSeq
<1>3. Len(blocks) = 1 => <<blocks[1].type>> \in Scheme
  BY <1>1, SchemeSeq
<1> HIDE DEF blocks
<1>4. QED BY <1>2, <1>3 DEF SelectScheme, blocks, Goto

\* And one that the scheme selected encrypts to.
LEMMA MineWhole ==
    ASSUME NEW s, NEW owner, Mine(s, owner), SelectedIs, pc = "encapsulate"
    PROVE  Whole
<1> DEFINE blocks == PemBlocks(publicKeyFile)
<1>1. /\ s \in Scheme /\ Len(blocks) = Len(s) /\ Types(publicKeyFile.blocks) = s
      /\ Len(s) = 1 => blocks[1].type = s[1]
      /\ ~publicKeyFile.rest
  BY MineIs DEF Mine
<1>2. CASE scheme = Hybrid /\ Len(blocks) = 2
  BY <1>1, <1>2, SchemeSeq DEF Whole
<1>3. CASE Len(blocks) = 1 /\ scheme = <<blocks[1].type>>
  BY <1>1, <1>3, SchemeSeq DEF Whole
<1>4. QED BY <1>2, <1>3 DEF SelectedIs

\* What a file encrypted to a generated key is sealed to.
LEMMA MineSealed ==
    ASSUME NEW s, NEW owner, Mine(s, owner), SealedIs, sealed # Nothing
    PROVE  sealed.keys = GeneratedPublic(s, owner) /\ Types(sealed.keys) = s
  BY MineIs, FileIs DEF SealedIs

LEMMA OwnBlocks ==
    ASSUME NEW s, NEW owner, NEW lock, Own(s, owner, lock)
    PROVE  /\ privateKeyFile.blocks = GeneratedPrivate(s, owner, lock)
           /\ PemBlocks(privateKeyFile) = privateKeyFile.blocks
           /\ Len(PemBlocks(privateKeyFile)) = Len(s)
  BY FileIs, GeneratedPrivateIs DEF Own, Mine, PemBlocks

\* The first block of a generated key is the one the scheme asks for.
LEMMA OwnFirst ==
    ASSUME TypeOK, NEW s, NEW owner, NEW lock, Own(s, owner, lock), scheme = s
    PROVE  FirstParses /\ FirstMatches
<1>1. /\ s \in Scheme /\ owner \in Owner /\ lock \in Passphrase \cup {NoPassphrase}
      /\ passphrase = lock
  BY DEF Own, Mine
<1>2. /\ privateKeyFile.blocks = GeneratedPrivate(s, owner, lock)
      /\ Len(PemBlocks(privateKeyFile)) = Len(s)
  BY OwnBlocks
<1>3. privateKeyFile.blocks # << >> /\ First = GeneratedPrivate(s, owner, lock)[1] /\ First # Text
  BY <1>1, <1>2, GeneratedPrivateIs, FirstIs
<1>4. First = [type |-> s[1], owner |-> owner, lock |-> lock]
  BY <1>1, <1>3, GeneratedPrivateIs, SchemeSeq
<1>5. FirstParses
  BY <1>1, <1>3, <1>4 DEF FirstParses, Parses
<1>6. FirstMatches
  BY <1>1, <1>2, <1>4, SchemeSeq DEF FirstMatches
<1>7. QED BY <1>5, <1>6

\* And the second.
LEMMA OwnSecond ==
    ASSUME TypeOK, NEW s, NEW owner, NEW lock, Own(s, owner, lock), s = Hybrid
    PROVE  Parses(Second, passphrase) /\ Second.type = "X25519"
<1>1. /\ s \in Scheme /\ owner \in Owner /\ lock \in Passphrase \cup {NoPassphrase}
      /\ passphrase = lock
  BY DEF Own, Mine
<1>2. /\ GeneratedPrivate(s, owner, lock) \in Seq(PrivateKey)
      /\ Len(GeneratedPrivate(s, owner, lock)) = 2
      /\ GeneratedPrivate(s, owner, lock)[2] = [type |-> s[2], owner |-> owner, lock |-> lock]
  BY <1>1, GeneratedPrivateIs, SchemeSeq
<1>3. Second = GeneratedPrivate(s, owner, lock)[2]
  BY OwnBlocks DEF Second
<1>4. Second \in PrivateKey /\ Second # Text
  BY <1>2, <1>3, KeyFileAssumption
<1>5. Parses(Second, passphrase)
  BY <1>1, <1>2, <1>3, <1>4 DEF Parses
<1>6. QED BY <1>1, <1>2, <1>3, <1>5, SchemeSeq

\* And so what is recovered is what the file was sealed to.
LEMMA OwnRecovers ==
    ASSUME TypeOK, SealedIs, MethodIs, LoadedIs, pc \in {"recover", "authenticate"},
           NEW s, NEW owner, NEW lock, Own(s, owner, lock)
    PROVE  RecoveredKeys = sealed.keys
<1>1. /\ Mine(s, owner) /\ s \in Scheme /\ owner \in Owner
      /\ lock \in Passphrase \cup {NoPassphrase}
  BY DEF Own, Mine
<1>2. sealed.keys = GeneratedPublic(s, owner) /\ scheme = s
  BY <1>1, MineSealed DEF SealedIs, MethodIs, Decrypting
<1>3. Types(loaded) = s /\ \A i \in DOMAIN loaded : loaded[i] \in Range(privateKeyFile.blocks)
  BY <1>2 DEF LoadedIs, Unlocked
<1>4. DOMAIN loaded = DOMAIN s /\ \A i \in DOMAIN loaded : loaded[i].type = s[i]
  BY <1>3 DEF Types
<1>5. \A i \in DOMAIN loaded : loaded[i].owner = owner
  BY <1>1, <1>3, OwnBlocks, GeneratedPrivateIs
<1>6. RecoveredKeys = [i \in DOMAIN s |-> [type |-> s[i], owner |-> owner]]
  BY <1>4, <1>5 DEF RecoveredKeys, Public
<1>7. QED BY <1>2, <1>6 DEF GeneratedPublic

\* A file's header names the cipher it is sealed with.
HeaderCipher ==
    IF header = LegacyHeader THEN "AES-256-GCM"
                             ELSE CHOOSE c \in Cipher : DataCipherId(c) = header.dataCipher

LEMMA CipherFound ==
    ASSUME SealedIs, sealed # Nothing
    PROVE  HeaderCipher = sealed.cipher
<1>1. CASE header = LegacyHeader /\ sealed.cipher = "AES-256-GCM"
  BY <1>1 DEF HeaderCipher
<1>2. CASE header = [keyEstablishment |-> KeyEstablishmentId(Types(sealed.keys)),
                     dataCipher |-> DataCipherId(sealed.cipher)]
  <2>1. /\ header.keyEstablishment = KeyEstablishmentId(Types(sealed.keys))
        /\ header.dataCipher = DataCipherId(sealed.cipher)
    BY <1>2
  <2>2. sealed.cipher \in Cipher /\ KeyEstablishmentId(Types(sealed.keys)) \in 1 .. 3
    BY SchemeIds DEF SealedIs
  <2>3. header # LegacyHeader
    BY <2>1, <2>2 DEF LegacyHeader
  <2>4. QED BY <2>1, <2>2, <2>3, CipherIds DEF HeaderCipher
<1>3. QED BY <1>1, <1>2 DEF SealedIs

LEMMA SealedAs ==
    ASSUME TypeOK
    PROVE  sealed = [cipher |-> sealed.cipher, keys |-> sealed.keys]
  BY DEF TypeOK


\* The types, of every step.
LEMMA TypeStep == TypeOK /\ SelectedIs /\ LoadedIs /\ [Next]_vars => TypeOK'
<1> SUFFICES ASSUME TypeOK, SelectedIs, LoadedIs, [Next]_vars
             PROVE  TypeOK'
  OBVIOUS
<1> USE DEF TypeOK, Encrypting, Decrypting, Terminal
<1>1. CASE SelectScheme
  BY <1>1, SchemesAre DEF SelectScheme, Goto, Fail, stored
<1>2. CASE EncapsulateRsa
  BY <1>2, EncapsulatesRsa, EncapsulatedTyped DEF Encapsulated, Goto, Fail, stored
<1>3. CASE EncapsulateX25519
  BY <1>3, EncapsulatesX25519, EncapsulatedTyped DEF Encapsulated, Goto, Fail, stored
<1>4. CASE EncapsulateHybrid
  BY <1>4, EncapsulatesHybrid, EncapsulatedTyped DEF Encapsulated, Goto, Fail, stored
<1>5. CASE ReadPrivateKey
  BY <1>5, KeyFileAssumption DEF ReadPrivateKey, Goto, stored
<1>6. CASE MethodForHeader
  BY <1>6, SchemesAre DEF MethodForHeader, Goto, stored
<1>7. CASE RequestPassphrase
  BY <1>7 DEF RequestPassphrase, Goto, stored
<1>8. CASE LoadFirst
  BY <1>8, FirstIs DEF LoadFirst, Goto, stored, FirstParses
<1>9. CASE RefuseFirst
  BY <1>9 DEF RefuseFirst, Fail, stored, ParseError
<1>10. CASE LoadX25519
  <2>1. Len(PemBlocks(privateKeyFile)) = 2 /\ Len(loaded) = 1 /\ loaded \in Seq(PrivateKey)
    BY <1>10 DEF LoadX25519, LoadedIs
  <2>2. loaded' \in Seq(PrivateKey) /\ Len(loaded') <= 2
    <3>1. CASE UNCHANGED loaded
      BY <2>1, <3>1
    <3>2. CASE Parses(Second, passphrase) /\ loaded' = Append(loaded, Second)
      <4>1. Second \in PrivateKey
        BY <2>1, <3>2, SecondIs DEF Parses
      <4>2. Append(loaded, Second) \in Seq(PrivateKey)
            /\ Len(Append(loaded, Second)) = Len(loaded) + 1
        BY <2>1, <4>1, AppendIs
      <4>3. QED BY <2>1, <3>2, <4>2
    <3>3. QED BY <1>10, <3>1, <3>2 DEF LoadX25519
  <2>3. /\ pc' \in {"recover", "err"} /\ UNCHANGED <<stored, scheme, privateKeyFile, passphrase>>
        /\ error' \in {error, "InvalidPrivateKey", "InvalidPassphrase", "KeyAlgorithmMismatch"}
    BY <1>10 DEF LoadX25519, Goto, Fail, ParseError
  <2>4. QED BY <2>2, <2>3 DEF stored
<1>11. CASE RecoverRsa
  BY <1>11 DEF RecoverRsa, Goto, Fail, stored
<1>12. CASE RecoverX25519
  BY <1>12 DEF RecoverX25519, Goto, Fail, stored
<1>13. CASE RecoverHybrid
  BY <1>13 DEF RecoverHybrid, Goto, Fail, stored
<1>14. CASE Authenticate
  BY <1>14 DEF Authenticate, Goto, Fail, stored
<1>15. CASE UNCHANGED vars
  BY <1>15 DEF vars
<1>16. QED BY <1>1, <1>2, <1>3, <1>4, <1>5, <1>6, <1>7, <1>8, <1>9, <1>10, <1>11, <1>12,
  <1>13, <1>14, <1>15
  DEF Next, Returned

\* Selecting looks at the blocks, and nothing is sealed before.
LEMMA SelectedStep == TypeOK /\ SelectedIs /\ [Next]_vars => SelectedIs'
<1> SUFFICES ASSUME TypeOK, SelectedIs, [Next]_vars
             PROVE  SelectedIs'
  OBVIOUS
<1> USE DEF Encrypting, Decrypting, Terminal
<1>1. CASE SelectScheme
  <2> DEFINE blocks == PemBlocks(publicKeyFile)
  <2>1. DOMAIN blocks = 1 .. Len(blocks)
    BY PemIs, KeyFileAssumption DEF TypeOK
  <2>2. ASSUME Len(blocks) = 1, blocks # <<Text>> PROVE blocks[1] # Text
    <3>1. SUFFICES ASSUME blocks[1] = Text PROVE blocks = <<Text>>
      BY <2>2
    <3>2. QED BY <2>1, <2>2, <3>1, BlocksAre DEF TypeOK
  <2>3. \A t : <<t>> # Hybrid
    BY DEF Hybrid
  <2> HIDE DEF blocks
  <2>4. QED BY <1>1, <2>2, <2>3 DEF SelectScheme, SelectedIs, Goto, Fail, stored, blocks, Encrypting
<1>2. CASE EncapsulateRsa
  BY <1>2, EncapsulatesRsa DEF Encapsulated, SelectedIs, Goto, Fail, stored
<1>3. CASE EncapsulateX25519
  BY <1>3, EncapsulatesX25519 DEF Encapsulated, SelectedIs, Goto, Fail, stored
<1>4. CASE EncapsulateHybrid
  BY <1>4, EncapsulatesHybrid DEF Encapsulated, SelectedIs, Goto, Fail, stored
<1>5. CASE ReadPrivateKey
  BY <1>5 DEF ReadPrivateKey, SelectedIs, Goto, stored
<1>6. CASE MethodForHeader
  BY <1>6 DEF MethodForHeader, SelectedIs, Goto, stored
<1>7. CASE RequestPassphrase
  BY <1>7 DEF RequestPassphrase, SelectedIs, Goto, stored
<1>8. CASE LoadFirst
  BY <1>8 DEF LoadFirst, SelectedIs, Goto, stored
<1>9. CASE RefuseFirst
  BY <1>9 DEF RefuseFirst, SelectedIs, Fail, stored
<1>10. CASE LoadX25519
  BY <1>10 DEF LoadX25519, SelectedIs, Goto, Fail, stored
<1>11. CASE RecoverRsa
  BY <1>11 DEF RecoverRsa, SelectedIs, Goto, Fail, stored
<1>12. CASE RecoverX25519
  BY <1>12 DEF RecoverX25519, SelectedIs, Goto, Fail, stored
<1>13. CASE RecoverHybrid
  BY <1>13 DEF RecoverHybrid, SelectedIs, Goto, Fail, stored
<1>14. CASE Authenticate
  BY <1>14 DEF Authenticate, SelectedIs, Goto, Fail, stored
<1>15. CASE UNCHANGED vars
  BY <1>15 DEF vars, SelectedIs
<1>16. QED BY <1>1, <1>2, <1>3, <1>4, <1>5, <1>6, <1>7, <1>8, <1>9, <1>10, <1>11, <1>12,
  <1>13, <1>14, <1>15
  DEF Next, Returned

\* Sealing writes the IDs of the scheme and of the cipher used.
LEMMA SealedStep == TypeOK /\ SealedIs /\ SelectedIs /\ [Next]_vars => SealedIs'
<1> SUFFICES ASSUME TypeOK, SealedIs, SelectedIs, [Next]_vars
             PROVE  SealedIs'
  OBVIOUS
<1> USE DEF Encrypting, Decrypting, Terminal
<1>1. CASE SelectScheme
  BY <1>1 DEF SelectScheme, SealedIs, SelectedIs, Goto, Fail, stored
<1>2. CASE EncapsulateRsa
  <2>1. Encapsulated
    BY <1>2, EncapsulatesRsa
  <2>2. CASE UNCHANGED <<sealed, header>> /\ pc' = "err"
    BY <2>1, <2>2 DEF Encapsulated, SealedIs, SelectedIs
  <2>3. CASE /\ Whole
             /\ sealed' = [cipher |-> SelectedCipher, keys |-> publicKeyFile.blocks]
             /\ header' = [keyEstablishment |-> KeyEstablishmentId(scheme),
                           dataCipher |-> DataCipherId(SelectedCipher)]
             /\ pc' = "stored"
    <3>1. sealed'.keys = publicKeyFile.blocks /\ sealed'.cipher = SelectedCipher
      BY <2>3
    <3>2. /\ SelectedCipher \in Cipher /\ scheme \in Scheme /\ Types(publicKeyFile.blocks) = scheme
          /\ publicKeyFile' = File(publicKeyFile.blocks)
      BY <2>1, <2>3, EncapsulatedTyped, EncapsulatedWhole DEF Whole, Encapsulated
    <3>3. sealed' # Nothing
      BY <3>1, <3>2 DEF Nothing, Cipher
    <3>4. QED BY <2>3, <3>1, <3>2, <3>3 DEF SealedIs
  <2>4. QED BY <2>1, <2>2, <2>3 DEF Encapsulated, Goto, Fail
<1>3. CASE EncapsulateX25519
  <2>1. Encapsulated
    BY <1>3, EncapsulatesX25519
  <2>2. CASE UNCHANGED <<sealed, header>> /\ pc' = "err"
    BY <2>1, <2>2 DEF Encapsulated, SealedIs, SelectedIs
  <2>3. CASE /\ Whole
             /\ sealed' = [cipher |-> SelectedCipher, keys |-> publicKeyFile.blocks]
             /\ header' = [keyEstablishment |-> KeyEstablishmentId(scheme),
                           dataCipher |-> DataCipherId(SelectedCipher)]
             /\ pc' = "stored"
    <3>1. sealed'.keys = publicKeyFile.blocks /\ sealed'.cipher = SelectedCipher
      BY <2>3
    <3>2. /\ SelectedCipher \in Cipher /\ scheme \in Scheme /\ Types(publicKeyFile.blocks) = scheme
          /\ publicKeyFile' = File(publicKeyFile.blocks)
      BY <2>1, <2>3, EncapsulatedTyped, EncapsulatedWhole DEF Whole, Encapsulated
    <3>3. sealed' # Nothing
      BY <3>1, <3>2 DEF Nothing, Cipher
    <3>4. QED BY <2>3, <3>1, <3>2, <3>3 DEF SealedIs
  <2>4. QED BY <2>1, <2>2, <2>3 DEF Encapsulated, Goto, Fail
<1>4. CASE EncapsulateHybrid
  <2>1. Encapsulated
    BY <1>4, EncapsulatesHybrid
  <2>2. CASE UNCHANGED <<sealed, header>> /\ pc' = "err"
    BY <2>1, <2>2 DEF Encapsulated, SealedIs, SelectedIs
  <2>3. CASE /\ Whole
             /\ sealed' = [cipher |-> SelectedCipher, keys |-> publicKeyFile.blocks]
             /\ header' = [keyEstablishment |-> KeyEstablishmentId(scheme),
                           dataCipher |-> DataCipherId(SelectedCipher)]
             /\ pc' = "stored"
    <3>1. sealed'.keys = publicKeyFile.blocks /\ sealed'.cipher = SelectedCipher
      BY <2>3
    <3>2. /\ SelectedCipher \in Cipher /\ scheme \in Scheme /\ Types(publicKeyFile.blocks) = scheme
          /\ publicKeyFile' = File(publicKeyFile.blocks)
      BY <2>1, <2>3, EncapsulatedTyped, EncapsulatedWhole DEF Whole, Encapsulated
    <3>3. sealed' # Nothing
      BY <3>1, <3>2 DEF Nothing, Cipher
    <3>4. QED BY <2>3, <3>1, <3>2, <3>3 DEF SealedIs
  <2>4. QED BY <2>1, <2>2, <2>3 DEF Encapsulated, Goto, Fail
<1>5. CASE ReadPrivateKey
  BY <1>5 DEF ReadPrivateKey, SealedIs, Goto, stored
<1>6. CASE MethodForHeader
  BY <1>6 DEF MethodForHeader, SealedIs, Goto, stored
<1>7. CASE RequestPassphrase
  BY <1>7 DEF RequestPassphrase, SealedIs, Goto, stored
<1>8. CASE LoadFirst
  BY <1>8 DEF LoadFirst, SealedIs, Goto, stored
<1>9. CASE RefuseFirst
  BY <1>9 DEF RefuseFirst, SealedIs, Fail, stored
<1>10. CASE LoadX25519
  BY <1>10 DEF LoadX25519, SealedIs, Goto, Fail, stored
<1>11. CASE RecoverRsa
  BY <1>11 DEF RecoverRsa, SealedIs, Goto, Fail, stored
<1>12. CASE RecoverX25519
  BY <1>12 DEF RecoverX25519, SealedIs, Goto, Fail, stored
<1>13. CASE RecoverHybrid
  BY <1>13 DEF RecoverHybrid, SealedIs, Goto, Fail, stored
<1>14. CASE Authenticate
  BY <1>14 DEF Authenticate, SealedIs, Goto, Fail, stored
<1>15. CASE UNCHANGED vars
  BY <1>15 DEF vars, SealedIs
<1>16. QED BY <1>1, <1>2, <1>3, <1>4, <1>5, <1>6, <1>7, <1>8, <1>9, <1>10, <1>11, <1>12,
  <1>13, <1>14, <1>15
  DEF Next, Returned

\* The scheme found by the stored ID is the one the file was sealed with.
LEMMA MethodStep ==
    TypeOK /\ SealedIs /\ MethodIs /\ SelectedIs /\ [Next]_vars => MethodIs'
<1> SUFFICES ASSUME TypeOK, SealedIs, MethodIs, SelectedIs, [Next]_vars
             PROVE  MethodIs'
  OBVIOUS
<1> USE DEF Encrypting, Decrypting, Terminal
<1>1. CASE SelectScheme
  BY <1>1 DEF SelectScheme, MethodIs, Goto, Fail, stored
<1>2. CASE EncapsulateRsa
  BY <1>2, EncapsulatesRsa DEF Encapsulated, MethodIs, Goto, Fail, stored
<1>3. CASE EncapsulateX25519
  BY <1>3, EncapsulatesX25519 DEF Encapsulated, MethodIs, Goto, Fail, stored
<1>4. CASE EncapsulateHybrid
  BY <1>4, EncapsulatesHybrid DEF Encapsulated, MethodIs, Goto, Fail, stored
<1>5. CASE ReadPrivateKey
  BY <1>5 DEF ReadPrivateKey, MethodIs, Goto, stored
<1>6. CASE MethodForHeader
  <2>1. Types(sealed.keys) \in Scheme
    BY <1>6 DEF MethodForHeader, SealedIs
  <2>2. CASE header = LegacyHeader /\ scheme' = <<"RSA">>
    <3>1. Types(sealed.keys) = <<"RSA">>
      BY <1>6, <2>1, <2>2, SchemeIds DEF MethodForHeader, SealedIs, LegacyHeader
    <3>2. QED BY <1>6, <2>2, <3>1 DEF MethodForHeader, MethodIs, stored, Goto
  <2>3. ASSUME NEW s \in Scheme, KeyEstablishmentId(s) = header.keyEstablishment, scheme' = s
        PROVE  MethodIs'
    <3>1. s = Types(sealed.keys)
      BY <1>6, <2>1, <2>3, SchemeIds DEF MethodForHeader, SealedIs, LegacyHeader
    <3>2. QED BY <1>6, <2>3, <3>1 DEF MethodForHeader, MethodIs, stored, Goto
  <2>4. QED BY <1>6, <2>2, <2>3 DEF MethodForHeader
<1>7. CASE RequestPassphrase
  BY <1>7 DEF RequestPassphrase, MethodIs, Goto, stored
<1>8. CASE LoadFirst
  BY <1>8 DEF LoadFirst, MethodIs, Goto, stored
<1>9. CASE RefuseFirst
  BY <1>9 DEF RefuseFirst, MethodIs, Fail, stored
<1>10. CASE LoadX25519
  BY <1>10 DEF LoadX25519, MethodIs, Goto, Fail, stored
<1>11. CASE RecoverRsa
  BY <1>11 DEF RecoverRsa, MethodIs, Goto, Fail, stored
<1>12. CASE RecoverX25519
  BY <1>12 DEF RecoverX25519, MethodIs, Goto, Fail, stored
<1>13. CASE RecoverHybrid
  BY <1>13 DEF RecoverHybrid, MethodIs, Goto, Fail, stored
<1>14. CASE Authenticate
  BY <1>14 DEF Authenticate, MethodIs, Goto, Fail, stored
<1>15. CASE UNCHANGED vars
  BY <1>15 DEF vars, MethodIs
<1>16. QED BY <1>1, <1>2, <1>3, <1>4, <1>5, <1>6, <1>7, <1>8, <1>9, <1>10, <1>11, <1>12,
  <1>13, <1>14, <1>15
  DEF Next, Returned

\* The prompt follows from the file.
LEMMA PromptedStep == TypeOK /\ PromptedIs /\ SelectedIs /\ [Next]_vars => PromptedIs'
<1> SUFFICES ASSUME TypeOK, PromptedIs, SelectedIs, [Next]_vars
             PROVE  PromptedIs'
  OBVIOUS
<1> USE DEF Encrypting, Decrypting, Terminal
<1>1. CASE SelectScheme
  BY <1>1 DEF SelectScheme, PromptedIs, Goto, Fail, stored
<1>2. CASE EncapsulateRsa
  BY <1>2, EncapsulatesRsa DEF Encapsulated, PromptedIs, Goto, Fail, stored
<1>3. CASE EncapsulateX25519
  BY <1>3, EncapsulatesX25519 DEF Encapsulated, PromptedIs, Goto, Fail, stored
<1>4. CASE EncapsulateHybrid
  BY <1>4, EncapsulatesHybrid DEF Encapsulated, PromptedIs, Goto, Fail, stored
<1>5. CASE ReadPrivateKey
  BY <1>5 DEF ReadPrivateKey, PromptedIs, Goto, stored
<1>6. CASE MethodForHeader
  BY <1>6 DEF MethodForHeader, PromptedIs, Goto, stored
<1>7. CASE RequestPassphrase
  BY <1>7 DEF RequestPassphrase, PromptedIs, Goto, stored
<1>8. CASE LoadFirst
  BY <1>8 DEF LoadFirst, PromptedIs, Goto, stored
<1>9. CASE RefuseFirst
  BY <1>9 DEF RefuseFirst, PromptedIs, Fail, stored
<1>10. CASE LoadX25519
  BY <1>10 DEF LoadX25519, PromptedIs, Goto, Fail, stored
<1>11. CASE RecoverRsa
  BY <1>11 DEF RecoverRsa, PromptedIs, Goto, Fail, stored
<1>12. CASE RecoverX25519
  BY <1>12 DEF RecoverX25519, PromptedIs, Goto, Fail, stored
<1>13. CASE RecoverHybrid
  BY <1>13 DEF RecoverHybrid, PromptedIs, Goto, Fail, stored
<1>14. CASE Authenticate
  BY <1>14 DEF Authenticate, PromptedIs, Goto, Fail, stored
<1>15. CASE UNCHANGED vars
  BY <1>15 DEF vars, PromptedIs
<1>16. QED BY <1>1, <1>2, <1>3, <1>4, <1>5, <1>6, <1>7, <1>8, <1>9, <1>10, <1>11, <1>12,
  <1>13, <1>14, <1>15
  DEF Next, Returned

\* A block is loaded where it parses, and is of the type expected.
LEMMA LoadedStep ==
    TypeOK /\ SealedIs /\ MethodIs /\ PromptedIs /\ LoadedIs /\ SelectedIs /\ [Next]_vars
      => LoadedIs'
<1> SUFFICES ASSUME TypeOK, SealedIs, MethodIs, PromptedIs, LoadedIs, SelectedIs,
                   [Next]_vars
             PROVE  LoadedIs'
  OBVIOUS
<1> USE DEF Encrypting, Decrypting, Terminal
<1>1. CASE SelectScheme
  BY <1>1 DEF SelectScheme, LoadedIs, Unlocked, First, Goto, Fail, stored
<1>2. CASE EncapsulateRsa
  BY <1>2, EncapsulatesRsa DEF Encapsulated, LoadedIs, Unlocked, First, Goto, Fail, stored
<1>3. CASE EncapsulateX25519
  BY <1>3, EncapsulatesX25519
  DEF Encapsulated, LoadedIs, Unlocked, First, Goto, Fail, stored
<1>4. CASE EncapsulateHybrid
  BY <1>4, EncapsulatesHybrid
  DEF Encapsulated, LoadedIs, Unlocked, First, Goto, Fail, stored
<1>5. CASE ReadPrivateKey
  BY <1>5 DEF ReadPrivateKey, LoadedIs, Unlocked, First, Goto, stored
<1>6. CASE MethodForHeader
  BY <1>6 DEF MethodForHeader, LoadedIs, Unlocked, First, Goto, stored
<1>7. CASE RequestPassphrase
  BY <1>7 DEF RequestPassphrase, LoadedIs, Unlocked, First, Goto, stored
<1>8. CASE LoadFirst
  <2>1. privateKeyFile.blocks # << >> /\ Unlocked(First)
    BY <1>8, FirstIs DEF LoadFirst, FirstParses, Parses, Unlocked
  <2>2. loaded' = <<First>> /\ UNCHANGED <<scheme, privateKeyFile, passphrase>>
    BY <1>8 DEF LoadFirst
  <2>3. Unlocked(First)' /\ First' = First
    BY <2>1, <2>2 DEF Unlocked, First
  <2>4. CASE scheme = Hybrid
    <3>1. First.type = "ML-KEM-768" /\ Len(PemBlocks(privateKeyFile)) = 2 /\ pc' = "loadX25519"
      BY <1>8, <2>4 DEF LoadFirst, FirstMatches, Hybrid, Goto
    <3>2. QED BY <2>1, <2>2, <2>3, <2>4, <3>1 DEF LoadedIs
  <2>5. CASE scheme # Hybrid
    <3>1. scheme \in {<<"RSA">>, <<"X25519">>}
      BY <1>8, <2>5, SchemesAre DEF LoadFirst, MethodIs, SealedIs
    <3>2. First.type = scheme[1] /\ pc' = "recover"
      BY <1>8, <2>5, <3>1 DEF LoadFirst, FirstMatches, Goto
    <3>3. Types(<<First>>) = <<First.type>>
      BY DEF Types
    <3>4. Types(<<First>>) = scheme
      BY <3>1, <3>2, <3>3
    <3>5. (Types(loaded) = scheme)'
      BY <2>2, <3>4 DEF Types
    <3>6. \A i \in DOMAIN loaded' : loaded'[i] = First'
      BY <2>2, <2>3
    <3>7. QED BY <2>3, <3>2, <3>5, <3>6 DEF LoadedIs
  <2>6. QED BY <2>4, <2>5
<1>9. CASE RefuseFirst
  BY <1>9 DEF RefuseFirst, LoadedIs, Unlocked, First, Fail, stored
<1>10. CASE LoadX25519
  <2>1. CASE pc' = "err"
    BY <2>1 DEF LoadedIs
  <2>2. CASE /\ Parses(Second, passphrase) /\ Second.type = "X25519"
             /\ loaded' = Append(loaded, Second) /\ pc' = "recover"
    <3>1. /\ scheme = Hybrid /\ loaded = <<First>> /\ First.type = "ML-KEM-768"
          /\ Unlocked(First) /\ Unlocked(Second)
          /\ UNCHANGED <<scheme, privateKeyFile, passphrase>>
      BY <1>10, <2>2, SecondIs DEF LoadX25519, LoadedIs, Parses, Unlocked
    <3>2. loaded' = <<First, Second>>
      BY <2>2, <3>1, AppendPair
    <3>3. Types(<<First, Second>>) = Hybrid
      BY <2>2, <3>1 DEF Types, Hybrid
    <3>4. (Types(loaded) = scheme)'
      BY <3>1, <3>2, <3>3 DEF Types
    <3>5. \A i \in DOMAIN loaded' : loaded'[i] \in {First, Second}
      BY <3>2
    <3>6. \A i \in DOMAIN loaded' : Unlocked(loaded[i])'
      BY <3>1, <3>5 DEF Unlocked
    <3>7. QED BY <2>2, <3>4, <3>6 DEF LoadedIs
  <2>3. QED BY <1>10, <2>1, <2>2 DEF LoadX25519, Goto, Fail
<1>11. CASE RecoverRsa
  BY <1>11 DEF RecoverRsa, LoadedIs, Unlocked, First, Goto, Fail, stored
<1>12. CASE RecoverX25519
  BY <1>12 DEF RecoverX25519, LoadedIs, Unlocked, First, Goto, Fail, stored
<1>13. CASE RecoverHybrid
  BY <1>13 DEF RecoverHybrid, LoadedIs, Unlocked, First, Goto, Fail, stored
<1>14. CASE Authenticate
  BY <1>14 DEF Authenticate, LoadedIs, Unlocked, First, Goto, Fail, stored
<1>15. CASE UNCHANGED vars
  BY <1>15 DEF vars, LoadedIs, Unlocked, First
<1>16. QED BY <1>1, <1>2, <1>3, <1>4, <1>5, <1>6, <1>7, <1>8, <1>9, <1>10, <1>11, <1>12,
  <1>13, <1>14, <1>15
  DEF Next, Returned

\* The cipher accepts the body with no data key but its own.
LEMMA OpenedStep == TypeOK /\ OpenedIs /\ SelectedIs /\ [Next]_vars => OpenedIs'
<1> SUFFICES ASSUME TypeOK, OpenedIs, SelectedIs, [Next]_vars
             PROVE  OpenedIs'
  OBVIOUS
<1> USE DEF RecoveredKeys, Encrypting, Decrypting, Terminal
<1>1. CASE SelectScheme
  BY <1>1 DEF SelectScheme, OpenedIs, Goto, Fail, stored
<1>2. CASE EncapsulateRsa
  BY <1>2, EncapsulatesRsa DEF Encapsulated, OpenedIs, Goto, Fail, stored
<1>3. CASE EncapsulateX25519
  BY <1>3, EncapsulatesX25519 DEF Encapsulated, OpenedIs, Goto, Fail, stored
<1>4. CASE EncapsulateHybrid
  BY <1>4, EncapsulatesHybrid DEF Encapsulated, OpenedIs, Goto, Fail, stored
<1>5. CASE ReadPrivateKey
  BY <1>5 DEF ReadPrivateKey, OpenedIs, Goto, stored
<1>6. CASE MethodForHeader
  BY <1>6 DEF MethodForHeader, OpenedIs, Goto, stored
<1>7. CASE RequestPassphrase
  BY <1>7 DEF RequestPassphrase, OpenedIs, Goto, stored
<1>8. CASE LoadFirst
  BY <1>8 DEF LoadFirst, OpenedIs, Goto, stored
<1>9. CASE RefuseFirst
  BY <1>9 DEF RefuseFirst, OpenedIs, Fail, stored
<1>10. CASE LoadX25519
  BY <1>10 DEF LoadX25519, OpenedIs, Goto, Fail, stored
<1>11. CASE RecoverRsa
  BY <1>11 DEF RecoverRsa, OpenedIs, Goto, Fail, stored
<1>12. CASE RecoverX25519
  BY <1>12 DEF RecoverX25519, OpenedIs, Goto, Fail, stored
<1>13. CASE RecoverHybrid
  BY <1>13 DEF RecoverHybrid, OpenedIs, Goto, Fail, stored
<1>14. CASE Authenticate
  BY <1>14 DEF Authenticate, OpenedIs, Goto, Fail, stored
<1>15. CASE UNCHANGED vars
  BY <1>15 DEF vars, OpenedIs
<1>16. QED BY <1>1, <1>2, <1>3, <1>4, <1>5, <1>6, <1>7, <1>8, <1>9, <1>10, <1>11, <1>12,
  <1>13, <1>14, <1>15
  DEF Next, Returned

\* An error is returned at once.
LEMMA ErrorStep == TypeOK /\ ErrorIs /\ SelectedIs /\ [Next]_vars => ErrorIs'
<1> SUFFICES ASSUME TypeOK, ErrorIs, SelectedIs, [Next]_vars
             PROVE  ErrorIs'
  OBVIOUS
<1> USE DEF ErrorIs, Encrypting, Decrypting, Terminal
<1>1. CASE SelectScheme
  BY <1>1 DEF SelectScheme, Goto, Fail, stored
<1>2. CASE EncapsulateRsa
  BY <1>2, EncapsulatesRsa DEF Encapsulated, Goto, Fail, stored
<1>3. CASE EncapsulateX25519
  BY <1>3, EncapsulatesX25519 DEF Encapsulated, Goto, Fail, stored
<1>4. CASE EncapsulateHybrid
  BY <1>4, EncapsulatesHybrid DEF Encapsulated, Goto, Fail, stored
<1>5. CASE ReadPrivateKey
  BY <1>5 DEF ReadPrivateKey, Goto, stored
<1>6. CASE MethodForHeader
  BY <1>6 DEF MethodForHeader, Goto, stored
<1>7. CASE RequestPassphrase
  BY <1>7 DEF RequestPassphrase, Goto, stored
<1>8. CASE LoadFirst
  BY <1>8 DEF LoadFirst, Goto, stored
<1>9. CASE RefuseFirst
  BY <1>9 DEF RefuseFirst, Fail, stored
<1>10. CASE LoadX25519
  BY <1>10 DEF LoadX25519, Goto, Fail, stored
<1>11. CASE RecoverRsa
  BY <1>11 DEF RecoverRsa, Goto, Fail, stored
<1>12. CASE RecoverX25519
  BY <1>12 DEF RecoverX25519, Goto, Fail, stored
<1>13. CASE RecoverHybrid
  BY <1>13 DEF RecoverHybrid, Goto, Fail, stored
<1>14. CASE Authenticate
  BY <1>14 DEF Authenticate, Goto, Fail, stored
<1>15. CASE UNCHANGED vars
  BY <1>15 DEF vars
<1>16. QED BY <1>1, <1>2, <1>3, <1>4, <1>5, <1>6, <1>7, <1>8, <1>9, <1>10, <1>11, <1>12,
  <1>13, <1>14, <1>15
  DEF Next, Returned


\* A generated pair gets through every step of encryption and decryption, unless
\* openssl fails.
LEMMA RoundTripStep ==
    TypeOK /\ SelectedIs /\ SealedIs /\ MethodIs /\ LoadedIs /\ ErrorIs /\ PairsRoundTrip
      /\ [Next]_vars
      => PairsRoundTrip'
<1> SUFFICES ASSUME TypeOK, SelectedIs, SealedIs, MethodIs, LoadedIs, ErrorIs, PairsRoundTrip,
                    [Next]_vars
             PROVE  PairsRoundTrip'
  OBVIOUS
<1> SUFFICES ASSUME NEW s \in Scheme, NEW owner \in Owner,
                    (publicKeyFile = File(GeneratedPublic(s, owner)))',
                    (\/ sealed = Nothing
                     \/ \E lock \in Passphrase \cup {NoPassphrase} :
                           /\ privateKeyFile = File(GeneratedPrivate(s, owner, lock))
                           /\ pc \in Terminal => passphrase = lock)'
             PROVE  error' \in {"none", "Crypto"}
  BY DEF PairsRoundTrip
<1>1. UNCHANGED publicKeyFile
  BY DEF Next, SelectScheme, EncapsulateRsa, EncapsulateX25519, EncapsulateHybrid, ReadPrivateKey,
         MethodForHeader, RequestPassphrase, LoadFirst, RefuseFirst, LoadX25519, RecoverRsa,
         RecoverX25519, RecoverHybrid, Authenticate, Returned, vars, stored
<1>2. Mine(s, owner)
  BY <1>1 DEF Mine
<1>3. ASSUME pc # "err", UNCHANGED error PROVE error' \in {"none", "Crypto"}
  BY <1>3 DEF ErrorIs
<1>4. ASSUME pc \in Decrypting, Fail(error'), UNCHANGED <<sealed, privateKeyFile, passphrase>>
      PROVE  /\ scheme = Types(sealed.keys) \/ pc \in {"stored", "method"}
             /\ sealed # Nothing /\ sealed.keys = GeneratedPublic(s, owner)
             /\ Types(sealed.keys) = s
             /\ \E lock : Own(s, owner, lock)
  <2>1. sealed # Nothing /\ sealed' # Nothing /\ pc' = "err"
    BY <1>4 DEF SealedIs, Fail
  <2>2. PICK lock \in Passphrase \cup {NoPassphrase} :
              /\ privateKeyFile = File(GeneratedPrivate(s, owner, lock)) /\ passphrase = lock
    BY <1>4, <2>1 DEF Terminal
  <2>3. Own(s, owner, lock)
    BY <1>2, <2>2 DEF Own
  <2>4. scheme = Types(sealed.keys) \/ pc \in {"stored", "method"}
    BY <1>4 DEF MethodIs, Decrypting
  <2>5. QED BY <1>2, <2>1, <2>3, <2>4, MineSealed
<1>5. CASE SelectScheme
  <2>1. UNCHANGED error
    BY <1>2, <1>5, MineSelects
  <2>2. QED BY <1>3, <1>5, <2>1 DEF SelectScheme
<1>6. CASE EncapsulateRsa \/ EncapsulateX25519 \/ EncapsulateHybrid
  <2>1. Encapsulated
    BY <1>6, EncapsulatesRsa, EncapsulatesX25519, EncapsulatesHybrid
  <2>2. Whole
    BY <1>2, <2>1, MineWhole DEF Encapsulated
  <2>3. QED BY <1>3, <2>1, <2>2 DEF Encapsulated, Goto, Fail
<1>7. CASE ReadPrivateKey \/ MethodForHeader \/ RequestPassphrase \/ LoadFirst
  BY <1>3, <1>7 DEF ReadPrivateKey, MethodForHeader, RequestPassphrase, LoadFirst, Goto
<1>8. CASE RefuseFirst
  <2>1. /\ pc = "load" /\ Fail(error') /\ (~FirstParses \/ ~FirstMatches)
        /\ UNCHANGED <<sealed, privateKeyFile, passphrase>>
    BY <1>8 DEF RefuseFirst, Fail, stored
  <2>2. scheme = s /\ \E lock : Own(s, owner, lock)
    BY <1>4, <1>8, <2>1 DEF Decrypting, RefuseFirst, Fail
  <2>3. QED BY <1>8, <2>2, OwnFirst DEF RefuseFirst
<1>9. CASE LoadX25519
  <2>1. CASE Parses(Second, passphrase) /\ Second.type = "X25519"
    BY <1>3, <1>9, <2>1 DEF LoadX25519, Goto
  <2>2. CASE ~(Parses(Second, passphrase) /\ Second.type = "X25519")
    <3>1. Fail(error') /\ UNCHANGED <<sealed, privateKeyFile, passphrase>>
      BY <1>9, <2>2 DEF LoadX25519, Fail, stored
    <3>2. scheme = s /\ scheme = Hybrid /\ \E lock : Own(s, owner, lock)
      BY <1>4, <1>9, <3>1 DEF Decrypting, LoadX25519, LoadedIs
    <3>3. QED BY <2>2, <3>2, OwnSecond
  <2>3. QED BY <2>1, <2>2
<1>10. CASE RecoverRsa
  <2>1. CASE pc' = "err" /\ error' = "AuthenticationFailed"
    <3>1. Fail(error') /\ UNCHANGED <<sealed, privateKeyFile, passphrase>>
      BY <1>10, <2>1 DEF RecoverRsa, Fail, stored
    <3>2. RecoveredKeys = sealed.keys
      BY <1>4, <1>10, <3>1, OwnRecovers DEF Decrypting, RecoverRsa
    <3>3. QED BY <1>3, <1>10, <3>2 DEF RecoverRsa, Goto, Fail
  <2>2. CASE ~(pc' = "err" /\ error' = "AuthenticationFailed")
    BY <1>3, <1>10, <2>2 DEF RecoverRsa, Goto, Fail
  <2>3. QED BY <2>1, <2>2
<1>11. CASE RecoverX25519 \/ RecoverHybrid
  BY <1>3, <1>11 DEF RecoverX25519, RecoverHybrid, Goto, Fail
<1>12. CASE Authenticate
  <2>1. /\ pc = "authenticate" /\ UNCHANGED <<sealed, privateKeyFile, passphrase>>
        /\ IF sealed = [cipher |-> HeaderCipher, keys |-> RecoveredKeys]
             THEN Goto("ok") ELSE Fail("AuthenticationFailed")
    BY <1>12 DEF Authenticate, HeaderCipher, stored
  <2>2. CASE Goto("ok")
    BY <1>3, <2>1, <2>2 DEF Goto
  <2>3. CASE /\ Fail("AuthenticationFailed")
             /\ sealed # [cipher |-> HeaderCipher, keys |-> RecoveredKeys]
    <3>1. sealed # Nothing /\ \E lock : Own(s, owner, lock)
      BY <1>4, <2>1, <2>3 DEF Decrypting, Fail
    <3>2. RecoveredKeys = sealed.keys
      BY <2>1, <3>1, OwnRecovers
    <3>3. HeaderCipher = sealed.cipher
      BY <3>1, CipherFound
    <3>4. QED BY <2>3, <3>2, <3>3, SealedAs
  <2>4. QED BY <2>1, <2>2, <2>3
<1>13. CASE UNCHANGED vars
  BY <1>1, <1>13 DEF vars, PairsRoundTrip
<1>14. QED BY <1>5, <1>6, <1>7, <1>8, <1>9, <1>10, <1>11, <1>12, <1>13 DEF Next, Returned


-----------------------------------------------------------------------------
(* What an error says.                                                     *)

\* The types of a file's blocks, as far as they have one.
BlockTypes ==
    [i \in DOMAIN PemBlocks(privateKeyFile) |->
       IF PemBlocks(privateKeyFile)[i] = Text
         THEN "Text" ELSE PemBlocks(privateKeyFile)[i].type]

\* ErrorsAreAccurate, of an error about to be returned.
Accurate(kind) ==
    /\ kind = "InvalidPassphrase" =>
          \E block \in Range(PemBlocks(privateKeyFile)) :
              block = Text \/ block.lock \notin {NoPassphrase, passphrase}
    /\ kind = "InvalidPrivateKey" => privateKeyFile.rest \/ privateKeyFile.blocks = << >>
    /\ kind = "KeyAlgorithmMismatch" => BlockTypes # scheme
    /\ kind = "AuthenticationFailed" => Types(loaded) = scheme /\ RecoveredKeys # sealed.keys

LEMMA AccurateFails ==
    ASSUME NEW kind, Accurate(kind), error' = kind,
           UNCHANGED <<privateKeyFile, passphrase, scheme, loaded, sealed>>
    PROVE  ErrorsAreAccurate'
  BY DEF Accurate, ErrorsAreAccurate, BlockTypes, Types, RecoveredKeys

LEMMA OtherErrors ==
    ASSUME error' \in {"none", "Crypto", "InvalidPublicKey", "UnsupportedPublicKeyAlgorithm"}
    PROVE  ErrorsAreAccurate'
  BY DEF ErrorsAreAccurate

\* Without a passphrase nothing in the file is locked, and with one something is.
LEMMA PromptIs ==
    ASSUME PromptedIs, pc \in {"load", "loadX25519"}
    PROVE  /\ passphrase = NoPassphrase =>
                 \A key \in Range(privateKeyFile.blocks) : key.lock = NoPassphrase
           /\ passphrase # NoPassphrase => Range(privateKeyFile.blocks) # {}
  BY KeyFileAssumption DEF PromptedIs, IsEncrypted

\* A block that does not parse.
LEMMA UnparsedAccurate ==
    ASSUME PromptedIs, pc \in {"load", "loadX25519"},
           NEW block, ~Parses(block, passphrase), block \in Range(PemBlocks(privateKeyFile)),
           block = Text \/ block \in Range(privateKeyFile.blocks),
           block = Text => privateKeyFile.rest
    PROVE  Accurate(ParseError(passphrase))
<1>1. CASE passphrase = NoPassphrase
  <2>1. block = Text
    BY <1>1, PromptIs DEF Parses
  <2>2. QED BY <1>1, <2>1 DEF Accurate, ParseError
<1>2. CASE passphrase # NoPassphrase
  BY <1>2 DEF Accurate, ParseError, Parses
<1>3. QED BY <1>1, <1>2

LEMMA PrivateFile ==
    ASSUME TypeOK
    PROVE  /\ privateKeyFile \in [blocks : Seq(PrivateKey), rest : BOOLEAN]
           /\ Text \notin PrivateKey /\ privateKeyFile.blocks \in Seq(PrivateKey)
           /\ Range(privateKeyFile.blocks) \subseteq PrivateKey
           /\ Range(privateKeyFile.blocks) \subseteq Range(PemBlocks(privateKeyFile))
           /\ Text \in Range(PemBlocks(privateKeyFile)) <=> privateKeyFile.rest
           /\ DOMAIN PemBlocks(privateKeyFile) = 1 .. Len(PemBlocks(privateKeyFile))
<1>1. privateKeyFile \in [blocks : Seq(PrivateKey), rest : BOOLEAN] /\ Text \notin PrivateKey
  BY KeyFileAssumption DEF TypeOK
<1>2. privateKeyFile.blocks \in Seq(PrivateKey)
  BY <1>1
<1>3. Range(privateKeyFile.blocks) \subseteq PrivateKey
  BY <1>2 DEF Range
<1>4. QED BY <1>1, <1>2, <1>3, PemIs

\* A block that is not text is one of the file's keys.
LEMMA BlockOf ==
    ASSUME TypeOK, NEW block \in Range(PemBlocks(privateKeyFile)), block # Text
    PROVE  block \in Range(privateKeyFile.blocks)
<1>1. privateKeyFile.blocks \in Seq(PrivateKey) /\ Len(privateKeyFile.blocks) \in Nat
  BY PrivateFile
<1>2. CASE privateKeyFile.rest
  <2>1. PICK i \in DOMAIN Append(privateKeyFile.blocks, Text) :
           block = Append(privateKeyFile.blocks, Text)[i]
    BY <1>2 DEF PemBlocks, Range
  <2>2. i \in 1 .. Len(privateKeyFile.blocks) /\ block = privateKeyFile.blocks[i]
    BY <1>1, <2>1
  <2>3. QED BY <1>1, <2>2 DEF Range
<1>3. CASE ~privateKeyFile.rest
  BY <1>3 DEF PemBlocks
<1>4. QED BY <1>2, <1>3

LEMMA FirstUnparsed ==
    ASSUME TypeOK, PromptedIs, pc = "load", ~FirstParses
    PROVE  Accurate(ParseError(passphrase))
<1>1. CASE privateKeyFile.blocks = << >>
  <2>1. Range(privateKeyFile.blocks) = {}
    BY <1>1 DEF Range
  <2>2. passphrase = NoPassphrase
    BY <2>1, PromptIs
  <2>3. QED BY <1>1, <2>2 DEF Accurate, ParseError
<1>2. CASE privateKeyFile.blocks # << >>
  <2>1. First # Text /\ First \in Range(privateKeyFile.blocks)
    BY <1>2, FirstIs
  <2>2. ~Parses(First, passphrase)
    BY <1>2 DEF FirstParses
  <2>3. First \in Range(PemBlocks(privateKeyFile))
    BY <2>1, PrivateFile
  <2>4. QED BY <2>1, <2>2, <2>3, UnparsedAccurate
<1>3. QED BY <1>1, <1>2

\* The first block, where there is one, is the first that pem_blocks gives.
LEMMA FirstBlock ==
    ASSUME TypeOK, privateKeyFile.blocks # << >>
    PROVE  1 \in DOMAIN PemBlocks(privateKeyFile) /\ PemBlocks(privateKeyFile)[1] = First
<1>1. /\ privateKeyFile \in [blocks : Seq(PrivateKey), rest : BOOLEAN] /\ Text \notin PrivateKey
      /\ First = privateKeyFile.blocks[1]
  BY PrivateFile, FirstIs
<1>2. Len(privateKeyFile.blocks) \in Nat /\ 1 \in 1 .. Len(privateKeyFile.blocks)
  BY <1>1
<1>3. PemBlocks(privateKeyFile)[1] = First
  BY <1>1, <1>2, PemIs
<1>4. 1 \in DOMAIN PemBlocks(privateKeyFile)
  <2>1. CASE privateKeyFile.rest
    <3>1. DOMAIN Append(privateKeyFile.blocks, Text) = 1 .. Len(privateKeyFile.blocks) + 1
      BY <1>1
    <3>2. QED BY <1>2, <2>1, <3>1 DEF PemBlocks
  <2>2. CASE ~privateKeyFile.rest
    <3>1. DOMAIN privateKeyFile.blocks = 1 .. Len(privateKeyFile.blocks)
      BY <1>1
    <3>2. QED BY <1>2, <2>2, <3>1 DEF PemBlocks
  <2>3. QED BY <2>1, <2>2
<1>5. QED BY <1>3, <1>4

LEMMA SameEnd == ASSUME NEW n \in Nat, 1 .. n = 1 .. 2 PROVE n = 2
  OBVIOUS

LEMMA FirstMismatched ==
    ASSUME TypeOK, scheme \in Scheme, FirstParses, ~FirstMatches
    PROVE  Accurate("KeyAlgorithmMismatch")
<1>1. privateKeyFile.blocks # << >> /\ First # Text
  BY FirstIs DEF FirstParses
<1>2. SUFFICES ASSUME BlockTypes = scheme PROVE FALSE
  BY DEF Accurate
<1>3. DOMAIN BlockTypes = 1 .. Len(PemBlocks(privateKeyFile))
  BY PrivateFile DEF BlockTypes
<1>4. First.type = scheme[1]
  BY <1>1, <1>2, FirstBlock DEF BlockTypes
<1>5. Len(PemBlocks(privateKeyFile)) \in Nat
  <2>1. Append(privateKeyFile.blocks, Text) \in Seq(PrivateKey \cup {Text})
    BY PrivateFile
  <2>2. QED BY <2>1, PrivateFile DEF PemBlocks
<1>6. DOMAIN Hybrid = 1 .. 2
  BY DEF Hybrid
<1>7. scheme = Hybrid => Len(PemBlocks(privateKeyFile)) = 2
  BY <1>2, <1>3, <1>5, <1>6, SameEnd
<1>8. QED BY <1>4, <1>7, SchemeSeq DEF FirstMatches

LEMMA SecondBlock ==
    ASSUME TypeOK, Len(PemBlocks(privateKeyFile)) = 2
    PROVE  /\ 2 \in DOMAIN PemBlocks(privateKeyFile)
           /\ Second \in Range(PemBlocks(privateKeyFile))
           /\ Second = Text \/ Second \in Range(privateKeyFile.blocks)
           /\ Second = Text => privateKeyFile.rest
<1>1. 2 \in DOMAIN PemBlocks(privateKeyFile)
  BY PrivateFile
<1>2. Second \in Range(PemBlocks(privateKeyFile))
  BY <1>1 DEF Second, Range
<1>3. QED BY <1>1, <1>2, PrivateFile, SecondIs

LEMMA SecondMismatched ==
    ASSUME TypeOK, Len(PemBlocks(privateKeyFile)) = 2, scheme = Hybrid,
           Second # Text, Second.type # "X25519"
    PROVE  Accurate("KeyAlgorithmMismatch")
<1>1. SUFFICES ASSUME BlockTypes = scheme PROVE FALSE
  BY DEF Accurate
<1>2. BlockTypes[2] = Second.type
  BY SecondBlock DEF BlockTypes, Second
<1>3. QED BY <1>1, <1>2 DEF Hybrid

\* Each error is the one that its property allows.
LEMMA AccurateStep ==
    TypeOK /\ SelectedIs /\ SealedIs /\ MethodIs /\ PromptedIs /\ LoadedIs /\ ErrorIs
      /\ ErrorsAreAccurate /\ [Next]_vars
      => ErrorsAreAccurate'
<1> SUFFICES ASSUME TypeOK, SelectedIs, SealedIs, MethodIs, PromptedIs, LoadedIs, ErrorIs,
                    ErrorsAreAccurate, [Next]_vars
             PROVE  ErrorsAreAccurate'
  OBVIOUS
<1>1. ASSUME pc # "err", UNCHANGED error PROVE ErrorsAreAccurate'
  BY <1>1, OtherErrors DEF ErrorIs
<1>2. CASE SelectScheme
  BY <1>1, <1>2, OtherErrors DEF SelectScheme, Goto, Fail
<1>3. CASE EncapsulateRsa \/ EncapsulateX25519 \/ EncapsulateHybrid
  <2>1. Encapsulated
    BY <1>3, EncapsulatesRsa, EncapsulatesX25519, EncapsulatesHybrid
  <2>2. QED BY <1>1, <2>1, OtherErrors DEF Encapsulated, Goto, Fail
<1>4. CASE ReadPrivateKey \/ MethodForHeader \/ RequestPassphrase \/ LoadFirst
  BY <1>1, <1>4 DEF ReadPrivateKey, MethodForHeader, RequestPassphrase, LoadFirst, Goto
<1>5. CASE RefuseFirst
  <2>1. UNCHANGED <<privateKeyFile, passphrase, scheme, loaded, sealed>> /\ pc = "load"
    BY <1>5 DEF RefuseFirst, stored
  <2>2. CASE ~FirstParses /\ error' = ParseError(passphrase)
    BY <2>1, <2>2, FirstUnparsed, AccurateFails
  <2>3. CASE FirstParses /\ ~FirstMatches /\ error' = "KeyAlgorithmMismatch"
    <3>1. scheme \in Scheme
      BY <2>1 DEF SealedIs, MethodIs, Decrypting
    <3>2. QED BY <2>1, <2>3, <3>1, FirstMismatched, AccurateFails
  <2>4. QED BY <1>5, <2>2, <2>3 DEF RefuseFirst, Fail
<1>6. CASE LoadX25519
  <2>1. CASE UNCHANGED error
    BY <1>1, <1>6, <2>1 DEF LoadX25519
  <2>2. CASE ~UNCHANGED error
    <3>1. /\ UNCHANGED <<privateKeyFile, passphrase, scheme, loaded, sealed>>
          /\ pc = "loadX25519" /\ Len(PemBlocks(privateKeyFile)) = 2 /\ scheme = Hybrid
      BY <1>6, <2>2 DEF LoadX25519, stored, Goto, LoadedIs
    <3>2. CASE ~Parses(Second, passphrase)
      <4>1. Accurate(ParseError(passphrase))
        BY <3>1, <3>2, SecondBlock, UnparsedAccurate
      <4>2. QED BY <1>6, <3>1, <3>2, <4>1, AccurateFails DEF LoadX25519, Fail
    <3>3. CASE Parses(Second, passphrase)
      <4>1. Second # Text /\ Second.type # "X25519" /\ error' = "KeyAlgorithmMismatch"
        BY <1>6, <2>2, <3>3 DEF LoadX25519, Goto, Fail, Parses
      <4>2. QED BY <3>1, <4>1, SecondMismatched, AccurateFails
    <3>4. QED BY <3>2, <3>3
  <2>3. QED BY <2>1, <2>2
<1>7. CASE RecoverRsa
  <2>1. /\ UNCHANGED <<privateKeyFile, passphrase, scheme, loaded, sealed>>
        /\ Types(loaded) = scheme
    BY <1>7 DEF RecoverRsa, stored, LoadedIs
  <2>2. CASE RecoveredKeys # sealed.keys /\ error' = "AuthenticationFailed"
    BY <2>1, <2>2, AccurateFails DEF Accurate
  <2>3. QED BY <1>1, <1>7, <2>2, OtherErrors DEF RecoverRsa, Goto, Fail
<1>8. CASE RecoverX25519 \/ RecoverHybrid
  BY <1>1, <1>8, OtherErrors DEF RecoverX25519, RecoverHybrid, Goto, Fail
<1>9. CASE Authenticate
  <2>1. /\ UNCHANGED <<privateKeyFile, passphrase, scheme, loaded, sealed>>
        /\ Types(loaded) = scheme /\ pc = "authenticate" /\ sealed # Nothing
        /\ IF sealed = [cipher |-> HeaderCipher, keys |-> RecoveredKeys]
             THEN Goto("ok") ELSE Fail("AuthenticationFailed")
    BY <1>9 DEF Authenticate, HeaderCipher, stored, LoadedIs, SealedIs, Decrypting
  <2>2. CASE Goto("ok")
    BY <1>1, <2>1, <2>2 DEF Goto
  <2>3. CASE /\ error' = "AuthenticationFailed"
             /\ sealed # [cipher |-> HeaderCipher, keys |-> RecoveredKeys]
    <3>1. RecoveredKeys # sealed.keys
      BY <2>1, <2>3, CipherFound, SealedAs
    <3>2. QED BY <2>1, <2>3, <3>1, AccurateFails DEF Accurate
  <2>4. QED BY <2>1, <2>2, <2>3 DEF Fail
<1>10. CASE UNCHANGED vars
  BY <1>10 DEF vars, ErrorsAreAccurate
<1>11. QED BY <1>2, <1>3, <1>4, <1>5, <1>6, <1>7, <1>8, <1>9, <1>10 DEF Next, Returned

-----------------------------------------------------------------------------
(* The invariant, and what follows.                                        *)

LEMMA InitIInv == Init => IInv
<1> SUFFICES ASSUME Init PROVE IInv
  OBVIOUS
<1>1. pc \in {"select", "stored"} /\ error = "none" /\ passphrase = NoPassphrase
  BY DEF Init
<1>2. privateKeyFile = File(<< >>) /\ scheme = << >> /\ loaded = << >>
  BY DEF Init
<1>3. privateKeyFile \in [blocks : Seq(PrivateKey), rest : BOOLEAN]
  BY <1>2 DEF File
<1>4. /\ publicKeyFile \in [blocks : Seq(PublicKey), rest : BOOLEAN]
      /\ sealed \in [cipher : Cipher \cup {"default"}, keys : Seq(PublicKey)]
      /\ SealedIs
  <2>1. CASE publicKeyFile \in PublicKeyFile /\ pc = "select" /\ sealed = Nothing
    BY <2>1, KeyFileAssumption DEF SealedIs, Nothing, Decrypting
  <2>2. CASE \E owner \in Owner :
               /\ publicKeyFile = File(GeneratedPublic(<<"RSA">>, owner))
               /\ pc = "stored" /\ header = LegacyHeader
               /\ sealed = [cipher |-> "AES-256-GCM", keys |-> publicKeyFile.blocks]
    <3>1. PICK owner \in Owner : publicKeyFile = File(GeneratedPublic(<<"RSA">>, owner))
      BY <2>2
    <3>2. /\ GeneratedPublic(<<"RSA">>, owner) \in Seq(PublicKey)
          /\ Types(GeneratedPublic(<<"RSA">>, owner)) = <<"RSA">>
      BY SchemesAre, GeneratedPublicIs
    <3>3. publicKeyFile.blocks = GeneratedPublic(<<"RSA">>, owner)
      BY <3>1, FileIs
    <3>4. sealed.keys = publicKeyFile.blocks /\ sealed.cipher = "AES-256-GCM"
      BY <2>2
    <3>5. publicKeyFile \in [blocks : Seq(PublicKey), rest : BOOLEAN]
      BY <3>1, <3>2 DEF File
    <3>6. SealedIs
      <4>1. publicKeyFile = File(sealed.keys)
        BY <3>1, <3>3, <3>4
      <4>2. Types(sealed.keys) = <<"RSA">> /\ Types(sealed.keys) \in Scheme
        BY <3>2, <3>3, <3>4, SchemesAre
      <4>3. sealed # Nothing
        BY <3>4 DEF Nothing
      <4>4. QED BY <2>2, <3>4, <4>1, <4>2, <4>3 DEF SealedIs, Cipher
    <3>7. QED BY <2>2, <3>2, <3>3, <3>5, <3>6 DEF Cipher
  <2>3. QED BY <2>1, <2>2 DEF Init
<1>5. header \in [keyEstablishment : 0 .. 3, dataCipher : 0 .. 2]
  BY DEF Init, LegacyHeader
<1>6. requested \in Cipher \cup {"default"}
  BY DEF Init
<1>7. TypeOK
  BY <1>1, <1>2, <1>3, <1>4, <1>5, <1>6 DEF TypeOK, Encrypting, Decrypting
<1>8. SelectedIs
  <2>1. pc = "select" => sealed = Nothing
    BY DEF Init
  <2>2. QED BY <1>1, <1>2, <2>1 DEF SelectedIs, Encrypting
<1>9. MethodIs /\ PromptedIs /\ LoadedIs /\ OpenedIs /\ ErrorIs
  BY <1>1 DEF MethodIs, PromptedIs, LoadedIs, OpenedIs, ErrorIs
<1>10. PairsRoundTrip /\ ErrorsAreAccurate
  BY <1>1 DEF PairsRoundTrip, ErrorsAreAccurate
<1>11. QED BY <1>4, <1>7, <1>8, <1>9, <1>10 DEF IInv

LEMMA NextIInv == IInv /\ [Next]_vars => IInv'
  BY TypeStep, SelectedStep, SealedStep, MethodStep, PromptedStep, LoadedStep, OpenedStep,
     ErrorStep, RoundTripStep, AccurateStep
  DEF IInv

\* What holds in every state, whatever is in the files.
THEOREM Inductive == Spec => []IInv
<1>1. Init => IInv
  BY InitIInv
<1>2. IInv /\ [Next]_vars => IInv'
  BY NextIInv
<1>3. QED BY <1>1, <1>2, PTL DEF Spec

\* The types, for any key files (registry.rs, key_utils.rs).
THEOREM TypeCorrect == Spec => []TypeOK
<1>1. IInv => TypeOK
  BY DEF IInv
<1>2. QED BY <1>1, Inductive, PTL

\* A file is sealed to all of a public-key file, or the key file is refused, however
\* many blocks it has (registry.rs, key_establishment_for_public_key; load_public_key).
THEOREM SealedToWhole == Spec => []SealedToWholeFile
<1>1. IInv => SealedToWholeFile
  BY DEF IInv, SealedIs, SealedToWholeFile, Types
<1>2. QED BY <1>1, Inductive, PTL

\* What a generated pair encrypts it decrypts, of every scheme, with every cipher and
\* from the legacy layout (key_establishment_by_id, data_cipher_by_id, load_private_key).
THEOREM PairsAlwaysRoundTrip == Spec => []PairsRoundTrip
<1>1. IInv => PairsRoundTrip
  BY DEF IInv
<1>2. QED BY <1>1, Inductive, PTL

\* Nothing opens a file but a key file with every key it was sealed to, unlocked
\* (the decapsulate of the three algorithms).
THEOREM OpensOnlyHolder == Spec => []OpensOnlyForHolder
<1>1. IInv => OpensOnlyForHolder
  <2> SUFFICES ASSUME IInv, pc = "ok", NEW i \in DOMAIN sealed.keys
               PROVE  \E key \in Range(privateKeyFile.blocks) :
                         Public(key) = sealed.keys[i] /\ key.lock \in {NoPassphrase, passphrase}
    BY DEF OpensOnlyForHolder
  <2>1. RecoveredKeys = sealed.keys
    BY DEF IInv, OpenedIs
  <2>2. i \in DOMAIN loaded /\ Public(loaded[i]) = sealed.keys[i]
    BY <2>1 DEF RecoveredKeys
  <2>3. Unlocked(loaded[i])
    BY <2>2 DEF IInv, LoadedIs
  <2>4. QED BY <2>2, <2>3 DEF Unlocked
<1>2. QED BY <1>1, Inductive, PTL

\* OpenSSL is given no locked block without a passphrase: the passphrase is asked for
\* just when a block of the file is locked (is_encrypted_pem, parse_private_key).
THEOREM NeverPrompts == Spec => []OpensslNeverPrompts
<1>1. IInv => OpensslNeverPrompts
  <2> SUFFICES ASSUME IInv, pc \in {"load", "loadX25519"}, passphrase = NoPassphrase,
                      NEW block \in Range(PemBlocks(privateKeyFile)), block # Text
               PROVE  block.lock = NoPassphrase
    BY DEF OpensslNeverPrompts
  <2>1. TypeOK /\ PromptedIs
    BY DEF IInv
  <2>2. block \in Range(privateKeyFile.blocks)
    BY <2>1, PrivateFile, BlockOf
  <2>3. QED BY <2>1, <2>2, PromptIs
<1>2. QED BY <1>1, Inductive, PTL

\* An error names what is wrong with the files or the passphrase (parse_private_key,
\* load_private_key, and decrypt of rsa_oaep.rs).
THEOREM AccurateErrors == Spec => []ErrorsAreAccurate
<1>1. IInv => ErrorsAreAccurate
  BY DEF IInv
<1>2. QED BY <1>1, Inductive, PTL

=====
