--------------------------- MODULE RoundTrip_proofs ---------------------------
(***************************************************************************)
(* RoundTrip: the proof that muenc encrypt followed by muenc decrypt is a  *)
(* SealedStore, from the invariants of EncryptStream_proofs and            *)
(* DecryptStream_proofs, for inputs of any length, any sizes of the        *)
(* buffers, the cipher's blocks and the tag, and any damage in between.    *)
(***************************************************************************)
EXTENDS RoundTrip, EncryptStream_proofs

\* Decryption, with what is proved of it.
DecP == INSTANCE DecryptStream_proofs WITH
    Unit <- StoredUnit, Body <- Seq(StoredUnit),
    Sealings <- {Sealing(plain) : plain \in Plain},
    pc <- restorePc, processed <- restoreProcessed, destination <- restored,
    error <- restoreError

-----------------------------------------------------------------------------
(* What is sealed.                                                         *)

LEMMA PlainIs == ASSUME NEW s PROVE s \in Plain <=> s \in Seq(Unit) /\ Len(s) <= MaxLength
<1>1. ASSUME s \in Plain PROVE s \in Seq(Unit) /\ Len(s) <= MaxLength
  <2>1. PICK n \in 0 .. MaxLength : s \in [1 .. n -> Unit]
    BY <1>1 DEF Plain
  <2>2. QED BY <2>1, FunctionSeq, EncryptionAssumption
<1>2. ASSUME s \in Seq(Unit), Len(s) <= MaxLength PROVE s \in Plain
  <2>1. Len(s) \in 0 .. MaxLength /\ s \in [1 .. Len(s) -> Unit]
    BY <1>2, LenProperties, ElementOfSeq, EncryptionAssumption
  <2>2. QED BY <2>1 DEF Plain
<1>3. QED BY <1>1, <1>2

\* Sequences put together, once for any set.
LEMMA Joined ==
    ASSUME NEW S, NEW s \in Seq(S), NEW t \in Seq(S)
    PROVE  s \o t \in Seq(S) /\ Len(s \o t) = Len(s) + Len(t)
  BY ConcatProperties

LEMMA SealingIs ==
    ASSUME NEW plain \in Plain
    PROVE  /\ Sealing(plain) \in Seq(SealedUnit)
           /\ Len(plain) \in Nat
           /\ Len(Sealing(plain)) = Len(plain) + TagSize
<1>1. plain \in Seq(Unit) /\ Len(plain) <= MaxLength /\ Len(plain) \in Nat
  BY PlainIs, LenProperties
<1>2. Enciphered(plain, 0) \in Seq(CipherUnit) /\ Len(Enciphered(plain, 0)) = Len(plain)
  BY <1>1, EncipheredIs
<1>3. Enciphered(plain, 0) \in Seq(SealedUnit)
  <2>1. CipherUnit \subseteq SealedUnit
    BY DEF SealedUnit
  <2>2. QED BY <1>2, <2>1, SeqMonotonic
<1>4. Tag(plain) \in Seq(SealedUnit) /\ Len(Tag(plain)) = TagSize
  <2>1. Tag(plain) \in [1 .. TagSize -> SealedUnit]
    BY DEF Tag, SealedUnit
  <2>2. QED BY <2>1, FunctionSeq, EncryptionAssumption
<1>5. /\ Enciphered(plain, 0) \o Tag(plain) \in Seq(SealedUnit)
      /\ Len(Enciphered(plain, 0) \o Tag(plain)) =
            Len(Enciphered(plain, 0)) + Len(Tag(plain))
  BY <1>3, <1>4, Joined
<1>6. QED BY <1>1, <1>2, <1>4, <1>5 DEF Sealing

LEMMA SealedStored == ASSUME NEW s \in Seq(SealedUnit) PROVE s \in Seq(StoredUnit)
<1>1. SealedUnit \subseteq StoredUnit
  BY DEF StoredUnit
<1>2. QED BY <1>1, SeqMonotonic

-----------------------------------------------------------------------------
(* The two instances of DecryptStream.                                     *)

\* What DecryptStream assumes of its constants holds of what encryption makes.
LEMMA DecryptionAssumptions == DecP!SizesAssumption /\ DecP!BodyAssumption
<1>1. DecP!SizesAssumption
  BY EncryptionAssumption
<1>2. DecP!BodyAssumption
  BY SealingIs, SealedStored, EncryptionAssumption
<1>3. QED BY <1>1, <1>2

LEMMA StartsWell == DecP!Init => DecP!IInv
  BY DecryptionAssumptions, DecP!InitIInv

LEMMA StartsWellNext == DecP!Init' => DecP!IInv'
  BY StartsWell, PTL

\* Both instances of DecryptStream are one.
LEMMA SameStep == Decryption!Step <=> DecP!Step
<1>1. Decryption!Prepare <=> DecP!Prepare
  BY DEF Decryption!Prepare, Decryption!ReadKey, Decryption!OpenInput, Decryption!ReadHeader,
         Decryption!MethodForHeader, Decryption!RequestPassphrase, Decryption!PrepareDecryption,
         Decryption!NewOutput, Decryption!Goto, Decryption!Fail, Decryption!stream,
         DecP!Prepare, DecP!ReadKey, DecP!OpenInput, DecP!ReadHeader, DecP!MethodForHeader,
         DecP!RequestPassphrase, DecP!PrepareDecryption, DecP!NewOutput, DecP!Goto, DecP!Fail,
         DecP!stream
<1>2. Decryption!Loop <=> DecP!Loop
  BY DEF Decryption!Loop, Decryption!Read, Decryption!ReadEnds, Decryption!ReadFails,
         Decryption!HoldBack, Decryption!Decrypt, Decryption!DecryptFails, Decryption!SliceFits,
         Decryption!Retained, Decryption!Smaller, Decryption!CiphertextCount,
         Decryption!SaturatingSub, Decryption!Goto, Decryption!Fail, Decryption!stream,
         DecP!Loop, DecP!Read, DecP!ReadEnds, DecP!ReadFails, DecP!HoldBack, DecP!Decrypt,
         DecP!DecryptFails, DecP!SliceFits, DecP!Retained, DecP!Smaller, DecP!CiphertextCount,
         DecP!SaturatingSub, DecP!Goto, DecP!Fail, DecP!stream
<1>3. Decryption!Conclude <=> DecP!Conclude
  BY DEF Decryption!Conclude, Decryption!SetTag, Decryption!SetTagFails, Decryption!Finalize,
         Decryption!Commit, Decryption!CommitFails, Decryption!Accepts, Decryption!Sealed,
         Decryption!Goto, Decryption!Fail, Decryption!stream,
         DecP!Conclude, DecP!SetTag, DecP!SetTagFails, DecP!Finalize, DecP!Commit,
         DecP!CommitFails, DecP!Accepts, DecP!Sealed, DecP!Goto, DecP!Fail, DecP!stream
<1>4. QED BY <1>1, <1>2, <1>3 DEF DecP!Step, Decryption!Step

LEMMA RestoreStep == ASSUME DecP!IInv, Decryption!Step PROVE DecP!IInv'
  BY SameStep, DecryptionAssumptions, DecP!NextIInv DEF DecP!Next

-----------------------------------------------------------------------------
(* What is stored.                                                         *)

LEMMA UnitOf ==
    ASSUME NEW S, NEW s \in Seq(S)
    PROVE  DOMAIN s = 1 .. Len(s) /\ Len(s) \in Nat /\ \A i \in 1 .. Len(s) : s[i] \in S
  BY LenProperties, ElementOfSeq

LEMMA Prefix ==
    ASSUME NEW S, NEW s \in Seq(S), NEW n \in 0 .. Len(s)
    PROVE  SubSeq(s, 1, n) \in Seq(S) /\ Len(SubSeq(s, 1, n)) = n
  BY CutInTwo

LEMMA Appended ==
    ASSUME NEW S, NEW s \in Seq(S), NEW x \in S
    PROVE  /\ Append(s, x) \in Seq(S) /\ Len(Append(s, x)) = Len(s) + 1
           /\ Append(s, x)[Len(s) + 1] = x
  BY AppendProperties

\* What was damaged is not what was sealed.
LEMMA DamageShows ==
    ASSUME NEW plain \in Plain, NEW s \in Seq(SealedUnit), Len(s) <= Len(Sealing(plain)),
           NEW body \in Damaged(s)
    PROVE  body \in Seq(StoredUnit) /\ body # Sealing(plain)
<1>1. Sealing(plain) \in Seq(SealedUnit)
  BY SealingIs
<1>2. /\ DOMAIN s = 1 .. Len(s) /\ Len(s) \in Nat
      /\ DOMAIN Sealing(plain) = 1 .. Len(Sealing(plain)) /\ Len(Sealing(plain)) \in Nat
      /\ \A i \in 1 .. Len(Sealing(plain)) : Sealing(plain)[i] \in SealedUnit
  BY <1>1, UnitOf
<1>3. s \in Seq(StoredUnit) /\ Junk \in StoredUnit /\ Junk \notin SealedUnit
  BY SealedStored, SentinelAssumption DEF StoredUnit
<1>4. ASSUME NEW n \in 0 .. Len(s) - 1, body = SubSeq(s, 1, n)
      PROVE  body \in Seq(StoredUnit) /\ body # Sealing(plain)
  <2>1. n \in 0 .. Len(s) /\ n < Len(s)
    BY <1>2
  <2>2. SubSeq(s, 1, n) \in Seq(StoredUnit)
    BY <1>3, <2>1, Prefix
  <2>3. Len(SubSeq(s, 1, n)) = n
    BY <1>3, <2>1, Prefix
  <2>4. Len(body) = n
    BY <1>4, <2>3
  <2>5. Len(Sealing(plain)) # n
    <3>1. Len(s) \in Nat /\ Len(Sealing(plain)) \in Nat
      BY <1>2
    <3>2. QED BY <2>1, <3>1
  <2>6. body # Sealing(plain)
    BY <2>4, <2>5
  <2>7. QED BY <1>4, <2>2, <2>6
<1>5. ASSUME NEW i \in DOMAIN s, body = [s EXCEPT ![i] = Junk]
      PROVE  body \in Seq(StoredUnit) /\ body # Sealing(plain)
  <2>1. body[i] = Junk
    BY <1>5, <1>3, <1>2, UnitOf
  <2>2. body \in Seq(StoredUnit)
    BY <1>2, <1>3, <1>5, ExceptSeq
  <2>3. Sealing(plain)[i] # Junk
    BY <1>2, <1>3
  <2>4. QED BY <2>1, <2>2, <2>3
<1>6. ASSUME body = Append(s, Junk)
      PROVE  body \in Seq(StoredUnit) /\ body # Sealing(plain)
  <2>1. body \in Seq(StoredUnit) /\ Len(body) = Len(s) + 1 /\ body[Len(s) + 1] = Junk
    BY <1>3, <1>6, Appended
  <2>2. body # Sealing(plain)
    <3>1. SUFFICES ASSUME body = Sealing(plain) PROVE FALSE
      OBVIOUS
    <3>2. Len(s) + 1 \in 1 .. Len(Sealing(plain))
      BY <1>2, <2>1, <3>1
    <3>3. Sealing(plain)[Len(s) + 1] \in SealedUnit
      BY <1>2, <3>2
    <3>4. QED BY <1>3, <2>1, <3>1, <3>3
  <2>3. QED BY <2>1, <2>2
<1>7. QED BY <1>4, <1>5, <1>6 DEF Damaged

\* The body of a whole file is the sealing, and that of a part is shorter.
LEMMA BodyOf ==
    ASSUME NEW plain \in Plain, NEW n \in 0 .. Len(Sealing(plain)) + 1
    PROVE  LET whole == <<Header>> \o Sealing(plain)
               sent == SubSeq(whole, 1, n)
               body == SubSeq(sent, 2, Len(sent)) IN
           /\ Len(whole) = Len(Sealing(plain)) + 1
           /\ body \in Seq(SealedUnit)
           /\ Len(body) = IF n = 0 THEN 0 ELSE n - 1
           /\ n = Len(whole) => sent = whole /\ body = Sealing(plain)
<1> DEFINE sealing == Sealing(plain)
           whole == <<Header>> \o sealing
           sent == SubSeq(whole, 1, n)
           body == SubSeq(sent, 2, Len(sent))
           S == SealedUnit \cup {Header}
<1>1. sealing \in Seq(SealedUnit) /\ Len(sealing) \in Nat
      /\ \A i \in 1 .. Len(sealing) : sealing[i] \in SealedUnit
  BY SealingIs, UnitOf
<1>2. sealing \in Seq(S) /\ <<Header>> \in Seq(S) /\ Len(<<Header>>) = 1
  <2>1. sealing \in Seq(S)
    BY <1>1, SeqMonotonic
  <2>2. QED BY <2>1
<1> HIDE DEF sealing
<1>3. whole \in Seq(S)
  BY <1>2, Joined
<1>4. Len(whole) = Len(sealing) + 1
  BY <1>1, <1>2, Joined
<1>5. \A i \in 2 .. Len(whole) : whole[i] = sealing[i - 1]
  <2>1. \A i \in 1 .. Len(<<Header>>) + Len(sealing) :
           whole[i] = IF i <= Len(<<Header>>) THEN <<Header>>[i]
                                              ELSE sealing[i - Len(<<Header>>)]
    BY <1>2, ConcatProperties
  <2>2. QED BY <1>1, <1>2, <1>4, <2>1
<1> HIDE DEF whole
<1>6. n \in 0 .. Len(whole) /\ Len(whole) \in Nat /\ n \in Nat
  BY <1>1, <1>4 DEF sealing
<1>7. sent \in Seq(S) /\ Len(sent) = n
  BY <1>3, <1>6, Prefix
<1>8. \A i \in 1 .. n : sent[i] = whole[i]
  <2>1. \A i \in 1 .. n : whole[i] \in S
    BY <1>3, <1>6, UnitOf
  <2>2. QED BY <1>6, <2>1, SubSeqProperties
<1> HIDE DEF sent
<1>9. \A i \in 2 .. n : sent[i] = sealing[i - 1] /\ sent[i] \in SealedUnit
  BY <1>1, <1>4, <1>5, <1>6, <1>8
<1>10. CASE n = 0
  <2>1. body = << >>
    BY <1>7, <1>10, SubSeqEmpty
  <2>2. QED BY <1>4, <1>6, <1>10, <2>1 DEF sealing, whole, sent
<1>11. CASE n # 0
  <2>1. 2 <= n + 1 /\ n \in Int
    BY <1>6, <1>11
  <2>2. /\ body \in Seq(SealedUnit)
        /\ Len(body) = n - 2 + 1
        /\ \A i \in 1 .. n - 2 + 1 : body[i] = sent[2 + i - 1]
    BY <1>7, <1>9, <2>1, SubSeqProperties
  <2>3. ASSUME n = Len(whole) PROVE sent = whole /\ body = sealing
    <3>1. sent = whole
      BY <1>3, <2>3, SubSeqFull DEF sent
    <3>2. Len(body) = Len(sealing) /\ \A i \in 1 .. Len(sealing) : body[i] = sealing[i]
      BY <1>1, <1>4, <1>9, <2>2, <2>3
    <3>3. QED BY <1>1, <2>2, <3>1, <3>2, SeqEqual
  <2>4. Len(body) = n - 1
    BY <1>6, <2>2
  <2> HIDE DEF body
  <2>5. QED BY <1>4, <1>11, <2>2, <2>3, <2>4 DEF sealing, whole, sent, body
<1>12. QED BY <1>10, <1>11

-----------------------------------------------------------------------------
(* The inductive invariant.                                                *)

NotStarted ==
    /\ position = 0 /\ pending = << >> /\ fed = << >> /\ tag = << >>
    /\ written = 0 /\ prompts = 0 /\ restoreProcessed = 0
    /\ restorePc = "readKey" /\ restored = "before" /\ restoreError = "none"

\* decrypt reads what encrypt left, and only the whole of it is accepted.
Started ==
    /\ pc \in Terminal /\ destination # "before"
    /\ DecP!IInv
    /\ input.sealed = Sealing(enciphered)
    /\ input.genuine /\ input.body = input.sealed => destination = "result"

RoundTripInv ==
    /\ IInv
    /\ ~restoring => NotStarted
    /\ restoring => Started

\* Every body that decrypt may be started on, and whether it is the sealed one.
LEMMA BodyStarted ==
    ASSUME IInv, destination # "before", NEW sent \in Sent,
           NEW damaged \in BOOLEAN, NEW stored,
           LET body == SubSeq(sent, 2, Len(sent)) IN
           stored \in IF damaged THEN Damaged(body) ELSE {body}
    PROVE  /\ enciphered \in Plain /\ consumed = enciphered
           /\ stored \in Seq(StoredUnit)
           /\ stored = Sealing(enciphered) => destination = "result"
<1> DEFINE body == SubSeq(sent, 2, Len(sent))
           sealing == Sealing(consumed)
           whole == <<Header>> \o sealing
<1>1. /\ enciphered = consumed /\ file = whole
      /\ consumed \in Seq(Unit) /\ Len(consumed) <= MaxLength
      /\ destination \in {"part", "result"}
  BY DEF IInv, PublishesAll, TypeOK
<1>2. consumed \in Plain
  BY <1>1, PlainIs
<1>3. /\ sealing \in Seq(SealedUnit) /\ Len(sealing) \in Nat /\ Len(sealing) >= TagSize
      /\ TagSize \in Nat \ {0}
  <2>1. Len(sealing) = Len(consumed) + TagSize /\ Len(consumed) \in Nat /\ TagSize \in Nat \ {0}
    BY <1>2, SealingIs, EncryptionAssumption
  <2>2. sealing \in Seq(SealedUnit)
    BY <1>2, SealingIs
  <2> HIDE DEF sealing
  <2>3. QED BY <2>1, <2>2
<1>4. Len(whole) = Len(sealing) + 1 /\ whole = SubSeq(whole, 1, Len(sealing) + 1)
  <2>1. Len(sealing) + 1 \in 0 .. Len(sealing) + 1
    BY <1>3
  <2>2. QED BY <1>2, <2>1, BodyOf
<1>5. PICK n \in 0 .. Len(sealing) + 1 :
         /\ sent = SubSeq(whole, 1, n)
         /\ destination = "part" => n < Len(sealing) + 1
  <2>1. CASE destination = "part"
    <3>1. PICK n \in 0 .. Len(file) - 1 : sent = SubSeq(file, 1, n)
      BY <2>1 DEF Sent
    <3> HIDE DEF whole, sealing
    <3>2. QED BY <1>1, <1>3, <1>4, <3>1
  <2>2. CASE destination = "result"
    <3>1. sent = whole
      BY <1>1, <2>2 DEF Sent
    <3> HIDE DEF whole, sealing
    <3>2. QED BY <1>3, <1>4, <2>2, <3>1
  <2>3. QED BY <1>1, <2>1, <2>2
<1>6. /\ body \in Seq(SealedUnit)
      /\ Len(body) = IF n = 0 THEN 0 ELSE n - 1
  BY <1>2, <1>5, BodyOf
<1> HIDE DEF body, sealing
<1>7. /\ Len(body) \in Nat /\ Len(body) <= Len(sealing)
      /\ Len(body) = Len(sealing) => destination = "result"
  BY <1>1, <1>3, <1>5, <1>6
<1>8. CASE damaged
  <2>1. stored \in Damaged(body)
    BY <1>8 DEF body
  <2>2. stored \in Seq(StoredUnit) /\ stored # sealing
    BY <1>2, <1>6, <1>7, <2>1, DamageShows DEF sealing
  <2>3. QED BY <1>1, <1>2, <2>2 DEF sealing
<1>9. CASE ~damaged
  <2>1. stored = body
    BY <1>9 DEF body
  <2>2. stored \in Seq(StoredUnit)
    BY <1>6, <2>1, SealedStored
  <2>3. QED BY <1>1, <1>2, <1>7, <2>1, <2>2 DEF sealing
<1>10. QED BY <1>8, <1>9

-----------------------------------------------------------------------------
(* The steps.                                                              *)

LEMMA InitInv == RoundTripInit => RoundTripInv
  BY InitIInv DEF RoundTripInit, RoundTripInv, NotStarted

LEMMA UnchangedInv == IInv /\ UNCHANGED vars => IInv'
  BY NextIInv

LEMMA StartStep == ASSUME RoundTripInv, Start PROVE RoundTripInv'
<1>1. IInv'
  BY UnchangedInv DEF RoundTripInv, Start
<1>2. NotStarted /\ restoring' = TRUE
  BY DEF RoundTripInv, Start
<1>3. PICK sent \in Sent, locked \in BOOLEAN,
           wrong \in {"nothing", "body", "header", "key", "ids"} :
         \E stored \in IF wrong = "body" THEN Damaged(SubSeq(sent, 2, Len(sent)))
                                         ELSE {SubSeq(sent, 2, Len(sent))},
            recovers \in IF wrong \in {"header", "key"} THEN BOOLEAN ELSE {TRUE} :
            /\ untouched' = (sent = file /\ wrong = "nothing")
            /\ input' = [body |-> stored,
                         sealed |-> Sealing(enciphered),
                         genuine |-> sent # << >> /\ wrong \in {"nothing", "body"},
                         recovers |-> recovers,
                         legacy |-> wrong = "header",
                         supported |-> wrong # "ids",
                         keyEncrypted |-> locked,
                         stdin |-> IsStdio(request.output),
                         stdout |-> IsStdio(restoredPath')]
  BY DEF Start
<1>4. PICK stored \in IF wrong = "body" THEN Damaged(SubSeq(sent, 2, Len(sent)))
                                         ELSE {SubSeq(sent, 2, Len(sent))},
           recovers \in IF wrong \in {"header", "key"} THEN BOOLEAN ELSE {TRUE} :
            input' = [body |-> stored,
                      sealed |-> Sealing(enciphered),
                      genuine |-> sent # << >> /\ wrong \in {"nothing", "body"},
                      recovers |-> recovers,
                      legacy |-> wrong = "header",
                      supported |-> wrong # "ids",
                      keyEncrypted |-> locked,
                      stdin |-> IsStdio(request.output),
                      stdout |-> IsStdio(restoredPath')]
  BY <1>3
<1>5. UNCHANGED vars /\ pc \in Terminal /\ destination # "before"
  BY DEF Start
<1>6. /\ enciphered \in Plain /\ stored \in Seq(StoredUnit)
      /\ stored = Sealing(enciphered) => destination = "result"
  <2>1. (wrong = "body") \in BOOLEAN
    OBVIOUS
  <2>2. QED BY <1>4, <1>5, <2>1, BodyStarted DEF RoundTripInv
<1>7. input' \in DecP!Input
  <2>1. Sealing(enciphered) \in {Sealing(plain) : plain \in Plain}
    BY <1>6
  <2>2. QED BY <1>4, <1>6, <2>1 DEF DecP!Input, IsStdio
<1>8. DecP!Init'
  BY <1>2, <1>7 DEF DecP!Init, NotStarted, Start
<1>9. DecP!IInv'
  BY <1>8, StartsWellNext
<1>10. /\ input'.sealed = Sealing(enciphered')
       /\ input'.genuine /\ input'.body = input'.sealed => destination' = "result"
  BY <1>4, <1>5, <1>6 DEF vars
<1>11. QED BY <1>1, <1>2, <1>5, <1>9, <1>10 DEF RoundTripInv, Started, vars

\* Only the commit of decrypt touches its destination.
LEMMA RestoreMoves ==
    ASSUME Decryption!Step
    PROVE  /\ input' = input
           /\ \/ restored' = restored
              \/ restorePc = "commit" /\ fed' = fed
                 /\ restored' \in {"before", "part", "result"}
           /\ restorePc \notin {"ok", "err", "panic"}
<1>1. DecP!Step
  BY SameStep
<1>2. CASE DecP!Prepare
  BY <1>2 DEF DecP!Prepare, DecP!ReadKey, DecP!OpenInput, DecP!ReadHeader, DecP!MethodForHeader,
     DecP!RequestPassphrase, DecP!PrepareDecryption, DecP!NewOutput
<1>3. CASE DecP!Loop
  BY <1>3 DEF DecP!Loop, DecP!Read, DecP!ReadEnds, DecP!ReadFails, DecP!HoldBack, DecP!Decrypt,
     DecP!DecryptFails
<1>4. CASE DecP!Conclude
  BY <1>4 DEF DecP!Conclude, DecP!SetTag, DecP!SetTagFails, DecP!Finalize, DecP!Commit,
     DecP!CommitFails, DecP!stream
<1>5. QED BY <1>1, <1>2, <1>3, <1>4 DEF DecP!Step

LEMMA NextInv == RoundTripInv /\ [RoundTripNext]_roundTrip => RoundTripInv'
<1> SUFFICES ASSUME RoundTripInv, [RoundTripNext]_roundTrip PROVE RoundTripInv'
  OBVIOUS
<1>1. CASE Protect
  <2>1. IInv'
    BY <1>1, NextIInv DEF RoundTripInv, Protect, Next
  <2>2. pc \notin Terminal
    BY <1>1, StepIs DEF Protect, Step, Prepare, Loop, Conclude, ReadKey, PrepareEncryption,
       OpenInput, NewOutput, WriteHeader, Read, ReadEnds, Encrypt, StreamFails, Finalize, WriteTag, Commit,
       CommitFails, Finish, Terminal
  <2>3. ~restoring /\ NotStarted
    BY <2>2 DEF RoundTripInv, Started
  <2>4. QED BY <1>1, <2>1, <2>3 DEF RoundTripInv, Protect, restoration, NotStarted
<1>2. CASE Start
  BY <1>2, StartStep
<1>3. CASE Restore
  <2>1. Started /\ Decryption!Step /\ UNCHANGED vars /\ restoring /\ restoring' = restoring
    BY <1>3 DEF Restore, RoundTripInv
  <2>2. IInv' /\ DecP!IInv' /\ input' = input
    BY <2>1, UnchangedInv, RestoreStep, RestoreMoves DEF RoundTripInv, Started
  <2>3. QED BY <2>1, <2>2 DEF RoundTripInv, Started, vars
<1>4. CASE UNCHANGED roundTrip
  <2>1. IInv'
    BY <1>4, UnchangedInv DEF RoundTripInv, roundTrip
  <2>2. CASE ~restoring
    BY <1>4, <2>1, <2>2 DEF RoundTripInv, roundTrip, restoration, NotStarted
  <2>3. CASE restoring
    <3>1. UNCHANGED DecP!vars
      BY <1>4 DEF roundTrip, restoration, DecP!vars
    <3>2. DecP!IInv'
      BY <2>3, <3>1, DecryptionAssumptions, DecP!NextIInv DEF RoundTripInv, Started
    <3>3. QED BY <1>4, <2>1, <2>3, <3>2 DEF RoundTripInv, Started, roundTrip, restoration, vars
  <2>4. QED BY <2>2, <2>3
<1>5. QED BY <1>1, <1>2, <1>3, <1>4 DEF RoundTripNext, Ended

-----------------------------------------------------------------------------
(* What is given back.                                                     *)

\* Sequences that are the same, cut at the same place, have the same first part.
LEMMA SameCut ==
    ASSUME NEW S, NEW s \in Seq(S), NEW t \in Seq(S), NEW u \in Seq(S), NEW v \in Seq(S),
           s \o t = u \o v, Len(t) = Len(v)
    PROVE  s = u
<1>1. Len(s) \in Nat /\ Len(t) \in Nat /\ Len(u) \in Nat /\ Len(v) \in Nat
  BY LenProperties
<1>2. Len(s \o t) = Len(s) + Len(t) /\ Len(u \o v) = Len(u) + Len(v)
  BY Joined
<1>3. Len(s) = Len(u)
  BY <1>1, <1>2
<1>4. /\ \A i \in 1 .. Len(s) + Len(t) : (s \o t)[i] = IF i <= Len(s) THEN s[i] ELSE t[i - Len(s)]
      /\ \A i \in 1 .. Len(u) + Len(v) : (u \o v)[i] = IF i <= Len(u) THEN u[i] ELSE v[i - Len(u)]
  BY ConcatProperties
<1> DEFINE w == s \o t
<1>5. /\ \A i \in 1 .. Len(s) : w[i] = s[i]
      /\ \A i \in 1 .. Len(s) : w[i] = u[i]
  BY <1>1, <1>3, <1>4
<1>6. QED BY <1>3, <1>5, SeqEqual

LEMMA TagStored ==
    ASSUME NEW plain \in Plain
    PROVE  Tag(plain) \in Seq(StoredUnit) /\ Len(Tag(plain)) = TagSize
<1>1. Tag(plain) \in [1 .. TagSize -> StoredUnit]
  BY DEF Tag, StoredUnit, SealedUnit
<1>2. QED BY <1>1, FunctionSeq, EncryptionAssumption

LEMMA FrontOfAppend ==
    ASSUME NEW S, NEW s \in Seq(S), NEW x \in S
    PROVE  /\ Append(s, x) \in Seq(S) /\ Append(s, x) # << >>
           /\ Last(Append(s, x)) = x /\ Front(Append(s, x)) = s
<1>1. /\ Append(s, x) \in Seq(S) /\ Append(s, x) # << >>
      /\ Len(Append(s, x)) = Len(s) + 1 /\ Append(s, x)[Len(s) + 1] = x
      /\ Len(s) \in Nat
  BY AppendProperties, LenProperties
<1>2. Last(Append(s, x)) = x
  BY <1>1 DEF Last
<1>3. Front(Append(s, x)) = SubSeq(Append(s, x), 1, Len(s))
  BY <1>1 DEF Front
<1>4. SubSeq(Append(s, x), 1, Len(s)) = s
  <2>1. Len(s) \in 0 .. Len(Append(s, x))
    BY <1>1
  <2>2. SubSeq(Append(s, x), 1, Len(s)) \in Seq(S) /\ Len(SubSeq(Append(s, x), 1, Len(s))) = Len(s)
    BY <1>1, <2>1, Prefix
  <2>3. \A i \in 1 .. Len(s) : Append(s, x)[i] = s[i] /\ Append(s, x)[i] \in S
    BY AppendProperties, UnitOf
  <2>4. \A i \in 1 .. Len(s) : SubSeq(Append(s, x), 1, Len(s))[i] = Append(s, x)[i]
    BY <1>1, <2>3, SubSeqProperties
  <2>5. \A i \in 1 .. Len(s) : SubSeq(Append(s, x), 1, Len(s))[i] = s[i]
    BY <2>3, <2>4
  <2>6. QED BY <2>2, <2>5, SeqEqual
<1>5. QED BY <1>1, <1>2, <1>3, <1>4

\* What decrypt commits is the plaintext, and only of a whole file.
LEMMA GivesKept ==
    ASSUME RoundTripInv, restoring, restorePc = "commit"
    PROVE  destination = "result" /\ Deciphered = consumed
<1>1. Started
  BY DEF RoundTripInv
<1>2. /\ DecP!SplitInv /\ DecP!Authenticated
  BY <1>1 DEF Started, DecP!IInv
<1>3. position = Len(input.body) /\ DecP!StreamTypeOK
  BY <1>2 DEF DecP!SplitInv, DecP!Held
<1>4. fed \o pending = input.body
  BY <1>2, <1>3, DecryptionAssumptions, DecP!WholeBody
<1>5. /\ tag = pending /\ Len(tag) = TagSize /\ tag \in Seq(StoredUnit)
      /\ input.genuine /\ fed \o tag = input.sealed
  BY <1>2 DEF DecP!Authenticated, DecP!Accepts, DecP!Sealed
<1>6. destination = "result" /\ input.sealed = Sealing(enciphered)
  BY <1>1, <1>4, <1>5 DEF Started
<1>7. enciphered = consumed /\ consumed \in Seq(Unit) /\ Len(consumed) <= MaxLength
  BY <1>6 DEF RoundTripInv, IInv, PublishesAll, TypeOK
<1>8. consumed \in Plain
  BY <1>7, PlainIs
<1> DEFINE made == Enciphered(consumed, 0)
<1>9. /\ made \in Seq(CipherUnit) /\ Len(made) = Len(consumed)
      /\ \A i \in 1 .. Len(consumed) : made[i] = [at |-> 0 + i, unit |-> consumed[i]]
  <2>1. 0 + Len(consumed) <= MaxLength
    BY <1>7, LenProperties
  <2>2. QED BY <1>7, <2>1, EncipheredIs
<1> HIDE DEF made
<1>10. made \in Seq(StoredUnit) /\ Tag(consumed) \in Seq(StoredUnit) /\ fed \in Seq(StoredUnit)
  <2>1. CipherUnit \subseteq StoredUnit
    BY DEF StoredUnit, SealedUnit
  <2>2. Tag(consumed) \in Seq(StoredUnit)
    BY <1>8, TagStored
  <2>3. QED BY <1>3, <1>9, <2>1, <2>2, SeqMonotonic DEF DecP!StreamTypeOK
<1>11. fed \o tag = made \o Tag(consumed) /\ Len(Tag(consumed)) = TagSize
  BY <1>5, <1>6, <1>7, <1>8, TagStored DEF Sealing, made
<1>12. fed = made
  BY <1>5, <1>10, <1>11, SameCut
<1>13. Deciphered = consumed
  <2>1. DOMAIN fed = 1 .. Len(consumed) /\ DOMAIN consumed = 1 .. Len(consumed)
    BY <1>7, <1>9, <1>12, UnitOf
  <2>2. \A i \in 1 .. Len(consumed) : fed[i] \in CipherUnit /\ fed[i].unit = consumed[i]
    <3>1. \A i \in 1 .. Len(consumed) : made[i] \in CipherUnit
      BY <1>9, UnitOf
    <3>2. ASSUME NEW i \in 1 .. Len(consumed) PROVE made[i].unit = consumed[i]
      <4>1. made[i] = [at |-> 0 + i, unit |-> consumed[i]]
        BY <1>9
      <4>2. QED BY ONLY <4>1
    <3>3. QED BY <1>12, <3>1, <3>2
  <2>3. Deciphered = [i \in 1 .. Len(consumed) |-> consumed[i]]
    BY <2>1, <2>2 DEF Deciphered
  <2>4. QED BY <1>7, <2>1, <2>3
<1>14. QED BY <1>6, <1>13

\* The default path of decrypt takes back what that of encrypt did.
LEMMA PathRestored ==
    ASSUME NEW path \in Path, IsUtf8(path)
    PROVE  DefaultDecryptedPath(DefaultEncryptedPath(path)) = path
<1> DEFINE enc == Append(path.suffixes, "enc")
<1>1. /\ path.suffixes \in Seq(Suffix) /\ "enc" \in Suffix
      /\ path = [stem |-> path.stem, suffixes |-> path.suffixes]
  BY DEF Path, Suffix
<1>2. DefaultEncryptedPath(path) = [stem |-> path.stem, suffixes |-> enc]
  <2>1. Display(path) = path
    BY <1>1 DEF Display, IsUtf8
  <2>2. [path EXCEPT !.suffixes = enc] = [stem |-> path.stem, suffixes |-> enc]
    BY <1>1
  <2>3. QED BY <2>1, <2>2 DEF DefaultEncryptedPath
<1>3. enc \in Seq(Suffix) /\ enc # << >> /\ Last(enc) = "enc" /\ Front(enc) = path.suffixes
  BY <1>1, FrontOfAppend
<1> HIDE DEF enc
<1>4. DefaultDecryptedPath([stem |-> path.stem, suffixes |-> enc]) =
        [stem |-> path.stem, suffixes |-> path.suffixes]
  BY <1>3 DEF DefaultDecryptedPath, Display, IsUtf8
<1>5. QED BY <1>1, <1>2, <1>4

-----------------------------------------------------------------------------
(* The refinement.                                                         *)

LEMMA RefinesInit == RoundTripInit => Store!Init
  BY DEF RoundTripInit, Init, Store!Init, Kept, Given

\* A step of encrypt keeps something at most.
LEMMA ProtectKeeps ==
    ASSUME RoundTripInv, RoundTripInv', Protect PROVE [Store!Next]_<<Kept, Given>>
<1>1. Step /\ pc \notin Terminal
  BY StepIs DEF Protect, Step, Prepare, Loop, Conclude, ReadKey, PrepareEncryption, OpenInput,
     NewOutput, WriteHeader, Read, ReadEnds, Encrypt, StreamFails, Finalize, WriteTag, Commit,
     CommitFails, Finish, Terminal
<1>2. restored = "before" /\ restored' = "before"
  BY <1>1 DEF RoundTripInv, NotStarted, Started, Protect, restoration
<1>3. Given = Nothing /\ Given' = Nothing
  BY <1>2 DEF Given
<1>4. CASE destination = "result"
  <2>1. pc = "finish"
    BY <1>1, <1>4 DEF RoundTripInv, IInv, PublishesAll, TypeOK, Preparing, Streaming
  <2>2. Finish
    BY <1>1, <2>1 DEF Step, Prepare, Loop, Conclude, ReadKey, PrepareEncryption, OpenInput,
       NewOutput, WriteHeader, Read, ReadEnds, Encrypt, StreamFails, Finalize, WriteTag, Commit,
       CommitFails
  <2>3. UNCHANGED <<request, consumed, destination>>
    BY <2>2 DEF Finish, stream
  <2>4. QED BY <1>3, <2>3 DEF Kept
<1>5. CASE destination # "result" /\ destination' # "result"
  BY <1>3, <1>5 DEF Kept
<1>6. CASE destination # "result" /\ destination' = "result"
  <2>1. request'.input \in Path /\ consumed' \in Plain
    BY PlainIs, EncryptionAssumption DEF RoundTripInv, IInv, TypeOK
  <2>2. Kept = Nothing /\ Kept' \in [at: Path, plain: Plain]
    BY <1>6, <2>1 DEF Kept
  <2>3. QED BY <1>3, <2>2 DEF Store!Next, Store!Keep
<1>7. QED BY <1>4, <1>5, <1>6

\* A step of decrypt gives back what was kept, or nothing.
LEMMA RestoreGives ==
    ASSUME RoundTripInv, Restore PROVE [Store!Next]_<<Kept, Given>>
<1>1. /\ Started /\ Decryption!Step /\ UNCHANGED vars
      /\ restoring /\ UNCHANGED <<restoring, restoredPath>>
  BY DEF RoundTripInv, Restore
<1>2. Kept' = Kept
  BY <1>1 DEF Kept, vars
<1>3. restored = "before"
  <2>1. restorePc \notin {"ok", "err", "panic"}
    BY <1>1, RestoreMoves
  <2>2. DecP!Outcome
    BY <1>1 DEF Started, DecP!IInv
  <2>3. QED BY <2>1, <2>2 DEF DecP!Outcome
<1>4. Given = Nothing
  BY <1>3 DEF Given
<1>5. CASE restored' = restored
  <2>1. Given' = Nothing
    BY <1>3, <1>5 DEF Given
  <2>2. QED BY <1>2, <1>4, <2>1
<1>6. CASE restorePc = "commit" /\ fed' = fed /\ restored' \in {"before", "part", "result"}
  <2>1. destination = "result" /\ Deciphered = consumed
    BY <1>1, <1>6, GivesKept
  <2>2. Deciphered' = consumed
    BY <1>6, <2>1 DEF Deciphered
  <2>3. Kept = [at |-> request.input, plain |-> consumed]
    BY <2>1 DEF Kept
  <2>4. request.input \in Path /\ consumed \in Plain
    BY PlainIs, EncryptionAssumption DEF RoundTripInv, IInv, TypeOK
  <2>5. Kept # Nothing
    BY <2>3, <2>4, SentinelAssumption
  <2>6. ByDefault' => restoredPath' = request.input
    BY <1>1, <2>4, PathRestored DEF ByDefault, vars
  <2>7. ASSUME restored' # "before"
        PROVE  Given' = [at |-> request.input,
                         plain |-> IF restored' = "part" THEN Part ELSE consumed]
    BY <1>1, <2>2, <2>6, <2>7 DEF Given, vars
  <2>8. CASE restored' = "before"
    BY <1>2, <1>4, <2>8 DEF Given
  <2>9. CASE restored' = "part"
    <3>1. Given' = [Kept EXCEPT !.plain = Part]
      BY <2>3, <2>7, <2>9
    <3>2. QED BY <1>2, <1>4, <2>5, <3>1 DEF Store!Next, Store!Give
  <2>10. CASE restored' = "result"
    <3>1. Given' = Kept
      BY <2>3, <2>7, <2>10
    <3>2. QED BY <1>2, <1>4, <2>5, <3>1 DEF Store!Next, Store!Give
  <2>11. QED BY <1>6, <2>8, <2>9, <2>10
<1>7. QED BY <1>1, <1>5, <1>6, RestoreMoves

LEMMA RefinesNext ==
    RoundTripInv /\ RoundTripInv' /\ [RoundTripNext]_roundTrip => [Store!Next]_<<Kept, Given>>
<1> SUFFICES ASSUME RoundTripInv, RoundTripInv', [RoundTripNext]_roundTrip
             PROVE  [Store!Next]_<<Kept, Given>>
  OBVIOUS
<1>1. CASE Protect
  BY <1>1, ProtectKeeps
<1>2. CASE Start
  <2>1. Kept' = Kept
    BY <1>2 DEF Start, vars, Kept
  <2>2. restored = "before" /\ restored' = "before"
    BY <1>2 DEF Start, RoundTripInv, NotStarted
  <2>3. Given' = Given
    BY <2>2 DEF Given
  <2>4. QED BY <2>1, <2>3
<1>3. CASE Restore
  BY <1>3, RestoreGives
<1>4. CASE UNCHANGED roundTrip
  BY <1>4 DEF roundTrip, vars, restoration, Kept, Given, ByDefault, Deciphered
<1>5. QED BY <1>1, <1>2, <1>3, <1>4 DEF RoundTripNext, Ended

\* What encrypt left and what decrypt is at, in every behaviour of the two
\* (application.rs, encrypt and decrypt).
THEOREM RoundTripInductive == RoundTripSpec => []RoundTripInv
  BY InitInv, NextInv, PTL DEF RoundTripSpec

\* What was read comes back as it was, and by default where it was, or nothing does,
\* or stdout gets a part: for every plaintext, every cut into reads on both sides and
\* every failure, of a file that is whole, cut, changed, extended or only partly sent,
\* with the right key or another one (application.rs, encrypt and decrypt;
\* tests/compatibility.rs, every_key_and_cipher_combination_round_trips).
THEOREM RoundTripKeeps == RoundTripSpec => KeepsOrRefuses
<1>1. RoundTripInit => Store!Init
  BY RefinesInit
<1>2. RoundTripInv /\ RoundTripInv' /\ [RoundTripNext]_roundTrip => [Store!Next]_<<Kept, Given>>
  BY RefinesNext
<1>3. QED BY <1>1, <1>2, RoundTripInductive, PTL DEF RoundTripSpec, KeepsOrRefuses, Store!Spec

\* As far as encrypt goes, RoundTrip is EncryptStream: its theorems hold here too
\* (application.rs, encrypt).
THEOREM RoundTripEncrypts == RoundTripSpec => Spec
<1>1. RoundTripInit => Init
  BY DEF RoundTripInit
<1>2. [RoundTripNext]_roundTrip => [Next]_vars
  BY DEF RoundTripNext, Protect, Start, Restore, Ended, roundTrip, Next
<1>3. QED BY <1>1, <1>2, PTL DEF RoundTripSpec, Spec

-----------------------------------------------------------------------------
(* The safety of IntactRestored.                                           *)

\* A file that was published and that nobody touched is never refused for what it is,
\* and success means that its plaintext was published (application.rs, decrypt).
IntactAccepted ==
    untouched =>
        /\ restoreError \notin {"InvalidFormat", "UnsupportedAlgorithms", "Truncated",
                                "AuthenticationFailed"}
        /\ restorePc = "ok" => restored = "result"

Untouched ==
    /\ untouched => /\ restoring /\ input.genuine /\ input.supported
                    /\ input.body = input.sealed
    /\ restorePc = "ok" => restored = "result"

\* What the errors of decrypt that are about the file need, but for the body.
LEMMA RefusalNeeds ==
    ASSUME Decryption!Step
    PROVE  /\ \/ restoreError' = restoreError
              \/ restoreError' \in {"Io", "Crypto", "PassphraseInput", "PrivateKey",
                                    "Truncated", "AuthenticationFailed"}
              \/ restoreError' = "InvalidFormat" /\ ~input.genuine
              \/ restoreError' = "UnsupportedAlgorithms" /\ ~input.supported
           /\ restorePc' = "ok" => restored' = "result"
<1>1. DecP!Step
  BY SameStep
<1>2. CASE DecP!Prepare
  BY <1>2 DEF DecP!Prepare, DecP!ReadKey, DecP!OpenInput, DecP!ReadHeader, DecP!MethodForHeader,
     DecP!RequestPassphrase, DecP!PrepareDecryption, DecP!NewOutput, DecP!Goto, DecP!Fail
<1>3. CASE DecP!Loop
  BY <1>3 DEF DecP!Loop, DecP!Read, DecP!ReadEnds, DecP!ReadFails, DecP!HoldBack, DecP!Decrypt,
     DecP!DecryptFails, DecP!Goto, DecP!Fail
<1>4. CASE DecP!Conclude
  BY <1>4 DEF DecP!Conclude, DecP!SetTag, DecP!SetTagFails, DecP!Finalize, DecP!Commit,
     DecP!CommitFails, DecP!Goto, DecP!Fail
<1>5. QED BY <1>1, <1>2, <1>3, <1>4 DEF DecP!Step

LEMMA UntouchedStart == ASSUME RoundTripInv, Untouched, Start PROVE Untouched'
<1>1. restoring' /\ UNCHANGED <<restorePc, restored>>
  BY DEF Start
<1>2. SUFFICES ASSUME untouched'
               PROVE  /\ input'.genuine /\ input'.supported
                      /\ input'.body = input'.sealed
  BY <1>1 DEF Untouched
<1>3. destination \in {"part", "result"}
  BY DEF Start, RoundTripInv, IInv, TypeOK
<1>4. PICK sent \in Sent :
         /\ sent = file
         /\ input'.body = SubSeq(sent, 2, Len(sent))
         /\ input'.sealed = Sealing(enciphered)
         /\ input'.genuine = (sent # << >>)
         /\ input'.supported
  <2>1. PICK sent \in Sent, locked \in BOOLEAN,
             wrong \in {"nothing", "body", "header", "key", "ids"} :
           \E stored \in IF wrong = "body" THEN Damaged(SubSeq(sent, 2, Len(sent)))
                                           ELSE {SubSeq(sent, 2, Len(sent))},
              recovers \in IF wrong \in {"header", "key"} THEN BOOLEAN ELSE {TRUE} :
              /\ untouched' = (sent = file /\ wrong = "nothing")
              /\ input' = [body |-> stored,
                           sealed |-> Sealing(enciphered),
                           genuine |-> sent # << >> /\ wrong \in {"nothing", "body"},
                           recovers |-> recovers,
                           legacy |-> wrong = "header",
                           supported |-> wrong # "ids",
                           keyEncrypted |-> locked,
                           stdin |-> IsStdio(request.output),
                           stdout |-> IsStdio(restoredPath')]
    BY DEF Start
  <2>2. sent = file /\ wrong = "nothing"
    BY <1>2, <2>1
  <2>3. PICK recovers \in BOOLEAN : input' = [body |-> SubSeq(sent, 2, Len(sent)),
                  sealed |-> Sealing(enciphered),
                  genuine |-> sent # << >> /\ wrong \in {"nothing", "body"},
                  recovers |-> recovers,
                  legacy |-> wrong = "header",
                  supported |-> wrong # "ids",
                  keyEncrypted |-> locked,
                  stdin |-> IsStdio(request.output),
                  stdout |-> IsStdio(restoredPath')]
    BY <2>1, <2>2
  <2>4. QED BY <2>2, <2>3
<1>5. /\ enciphered = consumed /\ file = <<Header>> \o Sealing(consumed)
      /\ consumed \in Seq(Unit) /\ Len(consumed) <= MaxLength
  BY <1>3 DEF RoundTripInv, IInv, PublishesAll, TypeOK
<1> DEFINE sealing == Sealing(consumed)
           n == Len(sealing) + 1
<1>6. consumed \in Plain /\ Len(sealing) \in Nat
  BY <1>5, PlainIs, SealingIs, UnitOf
<1>7. n \in 0 .. Len(Sealing(consumed)) + 1
  BY <1>6
<1>8. /\ Len(file) = n
      /\ SubSeq(file, 1, n) = file
      /\ SubSeq(SubSeq(file, 1, n), 2, Len(SubSeq(file, 1, n))) = sealing
  BY <1>5, <1>6, <1>7, BodyOf
<1>9. file # << >>
  <2>1. n # 0
    BY <1>6
  <2>2. QED BY <1>8, <2>1
<1>10. QED BY <1>4, <1>5, <1>8, <1>9

LEMMA UntouchedStep ==
    RoundTripInv /\ Untouched /\ [RoundTripNext]_roundTrip => Untouched'
<1> SUFFICES ASSUME RoundTripInv, Untouched, [RoundTripNext]_roundTrip PROVE Untouched'
  OBVIOUS
<1>1. CASE Protect
  BY <1>1 DEF Protect, restoration, Untouched
<1>2. CASE Start
  BY <1>2, UntouchedStart
<1>3. CASE Restore
  <2>1. Decryption!Step /\ UNCHANGED <<restoring, untouched>>
    BY <1>3 DEF Restore
  <2>2. QED BY <2>1, RestoreMoves, RefusalNeeds DEF Untouched
<1>4. CASE UNCHANGED roundTrip
  BY <1>4 DEF roundTrip, restoration, Untouched
<1>5. QED BY <1>1, <1>2, <1>3, <1>4 DEF RoundTripNext, Ended

LEMMA AcceptedStep ==
    RoundTripInv /\ RoundTripInv' /\ Untouched /\ Untouched' /\ IntactAccepted
        /\ [RoundTripNext]_roundTrip => IntactAccepted'
<1> SUFFICES ASSUME RoundTripInv, RoundTripInv', Untouched, Untouched', IntactAccepted,
                    [RoundTripNext]_roundTrip, untouched'
             PROVE  restoreError' \notin {"InvalidFormat", "UnsupportedAlgorithms", "Truncated",
                                          "AuthenticationFailed"}
  BY DEF Untouched, IntactAccepted
<1>1. restoreError' \notin {"Truncated", "AuthenticationFailed"}
  <2>1. DecP!BlamesOnlyDamage'
    BY DEF Untouched, RoundTripInv, Started, DecP!IInv
  <2>2. input'.genuine /\ input'.body = input'.sealed
    BY DEF Untouched
  <2>3. QED BY <2>1, <2>2 DEF DecP!BlamesOnlyDamage, DecP!Sealed
<1>2. CASE Start
  <2>1. restoreError' = "none"
    BY <1>2 DEF Start, RoundTripInv, NotStarted
  <2>2. QED BY <2>1
<1>3. CASE Restore
  <2>1. Decryption!Step /\ untouched
    BY <1>3 DEF Restore
  <2>2. QED BY <1>1, <2>1, RefusalNeeds DEF Untouched, IntactAccepted
<1>4. CASE Protect \/ UNCHANGED roundTrip
  BY <1>4 DEF Protect, roundTrip, restoration, IntactAccepted
<1>5. QED BY <1>2, <1>3, <1>4 DEF RoundTripNext, Ended

\* Nothing about an untouched file makes decrypt fail: of IntactRestored only that the
\* run ends is left to fairness (application.rs, decrypt).
THEOREM IntactIsAccepted == RoundTripSpec => []IntactAccepted
<1>1. RoundTripInit => Untouched /\ IntactAccepted
  BY DEF RoundTripInit, Untouched, IntactAccepted
<1>2. RoundTripInv /\ RoundTripInv' /\ Untouched /\ IntactAccepted /\ [RoundTripNext]_roundTrip
         => Untouched' /\ IntactAccepted'
  BY UntouchedStep, AcceptedStep
<1>3. QED BY <1>1, <1>2, RoundTripInductive, PTL DEF RoundTripSpec
===============================================================================
