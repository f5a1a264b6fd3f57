------------------------- MODULE DecryptStream_proofs -------------------------
(***************************************************************************)
(* DecryptStream: proofs, for every body, buffer and tag size and however  *)
(* the body is cut into reads.                                             *)
(***************************************************************************)
EXTENDS DecryptStream, SequenceTheorems, TLAPS

-----------------------------------------------------------------------------
(* Cutting sequences.                                                      *)

\* A sequence is its first n elements and the rest.
LEMMA CutInTwo ==
    ASSUME NEW S, NEW s \in Seq(S), NEW n \in 0 .. Len(s)
    PROVE  /\ SubSeq(s, 1, n) \in Seq(S) /\ Len(SubSeq(s, 1, n)) = n
           /\ SubSeq(s, n + 1, Len(s)) \in Seq(S)
           /\ Len(SubSeq(s, n + 1, Len(s))) = Len(s) - n
           /\ SubSeq(s, 1, n) \o SubSeq(s, n + 1, Len(s)) = s
<1>1. Len(s) \in Nat /\ \A i \in 1 .. Len(s) : s[i] \in S
  BY ElementOfSeq, LenProperties
<1>2. SubSeq(s, 1, n) \in Seq(S) /\ Len(SubSeq(s, 1, n)) = n
  BY <1>1, SubSeqProperties
<1>3. SubSeq(s, n + 1, Len(s)) \in Seq(S) /\ Len(SubSeq(s, n + 1, Len(s))) = Len(s) - n
  BY <1>1, SubSeqProperties
<1>4. SubSeq(s, 1, n) \o SubSeq(s, n + 1, Len(s)) = SubSeq(s, 1, Len(s))
  <2>1. 1 \in 1 .. Len(s) + 1 /\ n \in 1 - 1 .. Len(s) /\ Len(s) \in n .. Len(s)
    BY <1>1
  <2>2. QED BY <2>1, ConcatAdjacentSubSeq
<1>5. QED BY <1>2, <1>3, <1>4, SubSeqFull

\* copy_within and truncate keep the last TagSize units, in order.
LEMMA RetainedIsRest ==
    ASSUME NEW s \in Seq(Unit), Len(s) > TagSize
    PROVE  Retained(s, Len(s) - TagSize) = SubSeq(s, Len(s) - TagSize + 1, Len(s))
<1> DEFINE n == Len(s) - TagSize
<1>1. Len(s) \in Nat /\ n \in 1 .. Len(s) /\ \A i \in 1 .. Len(s) : s[i] \in Unit
  BY ElementOfSeq, LenProperties, SizesAssumption
<1>2. Smaller(TagSize, Len(s)) = TagSize
  BY <1>1, SizesAssumption DEF Smaller
<1>3. Retained(s, n) = [i \in 1 .. TagSize |-> s[n + i]]
  BY <1>2 DEF Retained
<1>4. Retained(s, n) \in Seq(Unit) /\ Len(Retained(s, n)) = TagSize
  <2>1. [i \in 1 .. TagSize |-> s[n + i]] \in [1 .. TagSize -> Unit]
    BY <1>1, SizesAssumption
  <2>2. QED BY <1>3, <2>1, IsASeq, LenProperties, SizesAssumption
<1>5. /\ SubSeq(s, n + 1, Len(s)) \in Seq(Unit)
      /\ Len(SubSeq(s, n + 1, Len(s))) = TagSize
      /\ \A i \in 1 .. TagSize : SubSeq(s, n + 1, Len(s))[i] = s[n + 1 + i - 1]
  <2>1. n + 1 <= Len(s) /\ Len(s) - (n + 1) + 1 = TagSize /\ n + 1 \in Int /\ Len(s) \in Int
    BY <1>1, SizesAssumption
  <2>2. \A i \in n + 1 .. Len(s) : s[i] \in Unit
    BY <1>1
  <2> HIDE DEF n
  <2>3. QED BY <2>1, <2>2, SubSeqProperties
<1>6. \A i \in 1 .. TagSize : n + 1 + i - 1 = n + i
  BY <1>1, SizesAssumption
<1> HIDE DEF n
<1>7. Retained(s, n) = SubSeq(s, n + 1, Len(s))
  BY <1>3, <1>4, <1>5, <1>6, SeqEqual
<1>8. QED BY <1>7 DEF n

-----------------------------------------------------------------------------
(* The two steps that move units.                                          *)

\* What is read, and what of it was fed to the cipher.
Split == fed \o pending = SubSeq(input.body, 1, position)

StreamTypeOK ==
    /\ input \in Input
    /\ position \in 0 .. Len(input.body)
    /\ pending \in Seq(Unit)
    /\ fed \in Seq(Unit)

\* A read appends to pending the units that come next in the body.
LEMMA ReadMoves ==
    ASSUME StreamTypeOK, Split, Read
    PROVE  StreamTypeOK' /\ Split' /\ fed' = fed /\ position' > position
           /\ Len(pending') = Len(pending) + (position' - position)
           /\ position' - position <= BufferSize
<1> DEFINE body == input.body
<1>1. body \in Seq(Unit) /\ Len(body) \in Nat
  BY BodyAssumption, LenProperties DEF StreamTypeOK, Input
<1>2. PICK count \in 1 .. Smaller(BufferSize, Len(body) - position) :
          /\ pending' = pending \o SubSeq(body, position + 1, position + count)
          /\ position' = position + count
  BY DEF Read
<1>3. /\ count \in Nat \ {0} /\ count <= BufferSize
      /\ position \in Nat /\ position + count \in position .. Len(body)
  BY <1>1, <1>2, SizesAssumption DEF Smaller, StreamTypeOK
<1>4. UNCHANGED <<input, fed>>
  BY DEF Read
<1> DEFINE piece == SubSeq(body, position + 1, position + count)
<1>5. piece \in Seq(Unit) /\ Len(piece) = count
  <2>1. \A i \in position + 1 .. position + count : body[i] \in Unit
    BY <1>1, <1>3, ElementOfSeq
  <2>2. QED BY <1>3, <2>1, SubSeqProperties
<1>6. SubSeq(body, 1, position) \o piece = SubSeq(body, 1, position + count)
  <2>1. 1 \in 1 .. Len(body) + 1 /\ position \in 1 - 1 .. Len(body)
    BY <1>1, <1>3
  <2>2. QED BY <1>1, <1>3, <2>1, ConcatAdjacentSubSeq
<1> HIDE DEF piece, body
<1>7. pending' \in Seq(Unit) /\ Len(pending') = Len(pending) + count
  BY <1>2, <1>5, ConcatProperties DEF StreamTypeOK, piece
<1>8. fed \o pending' = (fed \o pending) \o piece
  <2>1. (fed \o pending) \o piece = fed \o (pending \o piece)
    BY <1>5, ConcatAssociative DEF StreamTypeOK
  <2>2. pending' = pending \o piece
    BY <1>2 DEF piece
  <2>3. QED BY <2>1, <2>2
<1>9. Split'
  BY <1>2, <1>4, <1>6, <1>8 DEF Split, body
<1>10. StreamTypeOK'
  BY <1>1, <1>2, <1>3, <1>4, <1>7 DEF StreamTypeOK, body
<1>11. QED BY <1>2, <1>3, <1>4, <1>7, <1>9, <1>10, LenProperties DEF StreamTypeOK

\* Decrypting moves all of pending but the last TagSize units to the cipher.
LEMMA DecryptMoves ==
    ASSUME StreamTypeOK, Split, SliceFits, Decrypt
    PROVE  StreamTypeOK' /\ Split' /\ position' = position
           /\ Len(pending') = TagSize
           /\ Len(fed') = Len(fed) + CiphertextCount
<1> DEFINE n == Len(pending) - TagSize
<1>1. /\ pending \in Seq(Unit) /\ Len(pending) \in Nat /\ fed \in Seq(Unit)
  BY LenProperties DEF StreamTypeOK
<1>2. CiphertextCount = n /\ Len(pending) > TagSize /\ n \in 0 .. Len(pending)
  BY <1>1, SizesAssumption DEF Decrypt, CiphertextCount, SaturatingSub
<1>3. fed' = fed \o SubSeq(pending, 1, n)
  BY <1>2 DEF Decrypt
<1>4. pending' = SubSeq(pending, n + 1, Len(pending))
  BY <1>1, <1>2, RetainedIsRest DEF Decrypt
<1>5. UNCHANGED <<input, position>>
  BY DEF Decrypt
<1>6. /\ SubSeq(pending, 1, n) \in Seq(Unit) /\ Len(SubSeq(pending, 1, n)) = n
      /\ pending' \in Seq(Unit) /\ Len(pending') = Len(pending) - n
      /\ SubSeq(pending, 1, n) \o pending' = pending
  BY <1>1, <1>2, <1>4, CutInTwo
<1>7. Len(pending') = TagSize
  BY <1>1, <1>6, SizesAssumption
<1> HIDE DEF n
<1>8. fed' \in Seq(Unit) /\ Len(fed') = Len(fed) + CiphertextCount
  BY <1>1, <1>2, <1>3, <1>6, ConcatProperties
<1>9. fed' \o pending' = fed \o pending
  <2> DEFINE first == SubSeq(pending, 1, n)
  <2>1. first \o pending' = pending /\ fed' = fed \o first
    BY <1>3, <1>6
  <2>2. fed \in Seq(Unit) /\ first \in Seq(Unit) /\ pending' \in Seq(Unit)
    BY <1>1, <1>6
  <2> HIDE DEF first
  <2>3. (fed \o first) \o pending' = fed \o (first \o pending')
    BY ONLY <2>2, ConcatAssociative
  <2>4. QED BY <2>1, <2>3
<1>10. QED BY <1>5, <1>6, <1>7, <1>8, <1>9 DEF StreamTypeOK, Split

-----------------------------------------------------------------------------
(* The inductive invariant.                                                *)

Location == Preparing \cup Streaming \cup Terminal

\* What is held back: between reads, exactly what may be the tag.
Held ==
    /\ pc \in Location
    /\ Smaller(position, TagSize) <= Len(pending) /\ Len(pending) <= BufferSize + TagSize
    /\ pc \notin {"chunk", "err", "panic"} => Len(pending) = Smaller(position, TagSize)
    /\ pc \in {"tag", "finalize", "commit", "ok"} => position = Len(input.body)

SplitInv == StreamTypeOK /\ Split /\ Held

\* Everything fed to the cipher is written and counted.
Counted == written = Len(fed) /\ processed = Len(fed)

\* From set_authentication_tag on, tag is the end of the body, and from finalize
\* on it was accepted.
Authenticated ==
    /\ tag \in Seq(Unit)
    /\ pc \in {"finalize", "commit", "ok"} => tag = pending /\ Len(tag) = TagSize
    /\ pc \in {"commit", "ok"} => Accepts

Outcome ==
    /\ destination \in {"before", "part", "result"}
    /\ destination # "before" => pc \in {"ok", "err"}
    /\ error \in Error
    /\ error # "none" => pc = "err"

\* The prompt comes after the method was found, once.
Asked ==
    /\ prompts \in 0 .. 1
    /\ pc \in {"readKey", "openInput", "readHeader", "method", "passphrase"} => prompts = 0
    /\ pc \in Location \ {"readKey", "openInput", "readHeader", "method", "err"} =>
          input.supported

\* Nothing is read of the body before the stream, which a key that recovers no data
\* key does not get to.
Recovered ==
    /\ pc \in Preparing => position = 0
    /\ ~input.recovers =>
          pc \in (Preparing \ {"newOutput"}) \cup {"err"} /\ position = 0

IInv ==
    /\ SplitInv
    /\ NeverPanics
    /\ Counted
    /\ Authenticated
    /\ Outcome
    /\ AuthenticatedBeforePublishing
    /\ Recovered
    /\ BlamesOnlyDamage
    /\ Asked
    /\ PromptsOnlyWhenNeeded

-----------------------------------------------------------------------------
\* The lengths that the invariant is about are numbers.
LEMMA Lengths ==
    ASSUME StreamTypeOK
    PROVE  /\ Len(pending) \in Nat /\ Len(fed) \in Nat /\ position \in Nat
           /\ Len(input.body) \in Nat /\ position <= Len(input.body)
           /\ input.body \in Seq(Unit)
<1>1. input.body \in Seq(Unit)
  BY BodyAssumption DEF StreamTypeOK, Input
<1>2. Len(input.body) \in Nat
  BY <1>1, LenProperties
<1>3. Len(pending) \in Nat /\ Len(fed) \in Nat
  BY LenProperties DEF StreamTypeOK
<1>4. QED BY <1>1, <1>2, <1>3 DEF StreamTypeOK

\* The units fed and those pending are the units read.
LEMMA SplitLengths ==
    ASSUME StreamTypeOK, Split PROVE Len(fed) + Len(pending) = position
<1>1. Len(fed \o pending) = Len(fed) + Len(pending)
  BY ConcatProperties DEF StreamTypeOK
<1>2. Len(SubSeq(input.body, 1, position)) = position
  BY Lengths, CutInTwo DEF StreamTypeOK
<1>3. QED BY <1>1, <1>2 DEF Split

\* The output slice of every chunk fits, as no more than a tag was pending before
\* the read.
LEMMA ChunkFits == ASSUME SplitInv PROVE SliceFits
<1>1. CiphertextCount <= BufferSize
  BY Lengths, SizesAssumption DEF SplitInv, Held, CiphertextCount, SaturatingSub
<1>2. CiphertextCount \in Nat
  BY Lengths, SizesAssumption DEF SplitInv, CiphertextCount, SaturatingSub
<1>3. QED BY <1>1, <1>2, SizesAssumption DEF SliceFits

\* Cut by cut, the stream stays the body.
LEMMA SplitStep == SplitInv /\ [Next]_vars => SplitInv'
<1> SUFFICES ASSUME SplitInv, [Next]_vars PROVE SplitInv'
  OBVIOUS
<1>l. /\ Len(pending) \in Nat /\ Len(fed) \in Nat /\ position \in Nat
      /\ Len(input.body) \in Nat /\ position <= Len(input.body)
  BY Lengths DEF SplitInv
<1>1. CASE Read
  <2>1. /\ StreamTypeOK' /\ Split' /\ position' > position
        /\ Len(pending') = Len(pending) + (position' - position)
        /\ position' - position <= BufferSize
    BY <1>1, ReadMoves DEF SplitInv
  <2>2. position' \in Nat /\ Len(pending') \in Nat
    BY <2>1, LenProperties, <1>l DEF StreamTypeOK
  <2>3. pc = "read" /\ pc' = "chunk"
    BY <1>1 DEF Read, Goto
  <2>4. Len(pending) = Smaller(position, TagSize)
    BY <2>3 DEF SplitInv, Held
  <2>5. Held'
    <3>1. PICK count \in Nat : position' = position + count
      BY <1>l, <2>1, <2>2
    <3>2. count <= BufferSize /\ Len(pending') = Len(pending) + count
      BY <1>l, <2>1, <3>1, SizesAssumption
    <3>3. /\ Smaller(position, TagSize) \in Nat
          /\ Smaller(position, TagSize) <= TagSize
          /\ Smaller(position + count, TagSize) <= Smaller(position, TagSize) + count
      BY <1>l, SizesAssumption DEF Smaller
    <3>4. Len(pending') <= BufferSize + TagSize
      BY <2>4, <3>2, <3>3, SizesAssumption
    <3>5. Smaller(position', TagSize) <= Len(pending')
      BY <2>4, <3>1, <3>2, <3>3
    <3>6. QED BY <2>3, <3>4, <3>5 DEF Held, Location, Streaming
  <2>6. QED BY <2>1, <2>5 DEF SplitInv
<1>2. CASE Decrypt
  <2>1. /\ StreamTypeOK' /\ Split' /\ position' = position /\ Len(pending') = TagSize
    BY <1>2, ChunkFits, DecryptMoves DEF SplitInv
  <2>2. pc = "chunk" /\ pc' = "read" /\ Len(pending) > TagSize
    BY <1>2, <1>l, ChunkFits, SizesAssumption DEF Decrypt, Goto, CiphertextCount, SaturatingSub
  <2>3. position >= Len(pending)
    BY <1>l, SplitLengths DEF SplitInv
  <2>4. Held'
    BY <1>l, <2>1, <2>2, <2>3, SizesAssumption DEF Held, Location, Streaming, Smaller
  <2>5. QED BY <2>1, <2>4 DEF SplitInv
<1>3. ASSUME UNCHANGED <<input, position, pending, fed>>, Held' PROVE SplitInv'
  BY <1>3 DEF SplitInv, StreamTypeOK, Split
<1>4. CASE Prepare
  <2>1. UNCHANGED <<input, position, pending, fed>>
    BY <1>4 DEF Prepare, ReadKey, OpenInput, ReadHeader, MethodForHeader,
       RequestPassphrase, PrepareDecryption, NewOutput, stream
  <2>2. pc' \in {"openInput", "readHeader", "method", "passphrase", "prepare",
                 "newOutput", "read", "err"} /\ pc \in Preparing
    BY <1>4 DEF Prepare, ReadKey, OpenInput, ReadHeader, MethodForHeader,
       RequestPassphrase, PrepareDecryption, NewOutput, Goto, Fail, Preparing
  <2>3. Held'
    BY <2>1, <2>2 DEF SplitInv, Held, Location, Preparing, Streaming, Terminal
  <2>4. QED BY <1>3, <2>1, <2>3
<1>5. CASE ReadEnds
  BY <1>3, <1>5 DEF ReadEnds, Goto, stream, SplitInv, Held, Location, Streaming
<1>6. CASE ReadFails \/ DecryptFails
  BY <1>3, <1>6 DEF ReadFails, DecryptFails, Goto, Fail, stream, SplitInv,
     Held, Location, Terminal
<1>7. CASE HoldBack
  <2>1. UNCHANGED <<input, position, pending, fed>> /\ pc' = "read"
    BY <1>7 DEF HoldBack, Goto, stream
  <2>2. Len(pending) <= TagSize
    BY <1>7, <1>l, SizesAssumption DEF HoldBack, CiphertextCount, SaturatingSub
  <2>3. Len(pending) <= position
    BY <1>l, SplitLengths DEF SplitInv
  <2>4. Held'
    BY <1>l, <2>1, <2>2, <2>3, SizesAssumption
       DEF SplitInv, Held, Location, Streaming, Smaller
  <2>5. QED BY <1>3, <2>1, <2>4
<1>8. CASE SetTag
  BY <1>3, <1>8 DEF SetTag, Goto, SplitInv, Held, Location, Streaming
<1>9. CASE SetTagFails \/ Finalize \/ Commit \/ CommitFails
  BY <1>3, <1>9 DEF SetTagFails, Finalize, Commit, CommitFails, Goto, Fail, stream,
     SplitInv, Held, Location, Streaming, Terminal
<1>10. CASE UNCHANGED vars
  BY <1>3, <1>10 DEF vars, SplitInv, Held
<1>11. QED
  BY <1>1, <1>2, <1>4, <1>5, <1>6, <1>7, <1>8, <1>9, <1>10
     DEF Next, Step, Loop, Conclude, Returned

\* Only a slice that does not fit panics.
LEMMA PanicStep == SplitInv /\ NeverPanics /\ [Next]_vars => NeverPanics'
<1> SUFFICES ASSUME SplitInv, NeverPanics, [Next]_vars PROVE NeverPanics'
  OBVIOUS
<1>3. SliceFits
  BY ChunkFits
<1>4. CASE Prepare
  BY <1>4 DEF NeverPanics, Prepare, ReadKey, OpenInput, ReadHeader, MethodForHeader,
     RequestPassphrase, PrepareDecryption, NewOutput, Goto, Fail
<1>5. CASE Loop
  BY <1>3, <1>5 DEF NeverPanics, Loop, Read, ReadEnds, ReadFails, HoldBack, Decrypt,
     DecryptFails, Goto, Fail
<1>6. CASE Conclude
  BY <1>6 DEF NeverPanics, Conclude, SetTag, SetTagFails, Finalize, Commit, CommitFails,
     Goto, Fail
<1>7. QED BY <1>4, <1>5, <1>6 DEF Next, Step, Returned, NeverPanics, vars

\* Only Decrypt feeds, writes and counts, and all three the same units.
LEMMA CountedStep == SplitInv /\ Counted /\ [Next]_vars => Counted'
<1> SUFFICES ASSUME SplitInv, Counted, [Next]_vars PROVE Counted'
  OBVIOUS
<1>1. CASE Decrypt
  <2>1. Len(fed') = Len(fed) + CiphertextCount /\ SliceFits
    BY <1>1, ChunkFits, DecryptMoves DEF SplitInv
  <2>2. QED BY <1>1, <2>1 DEF Decrypt, Counted
<1>2. CASE Prepare
  BY <1>2 DEF Counted, Prepare, ReadKey, OpenInput, ReadHeader, MethodForHeader,
     RequestPassphrase, PrepareDecryption, NewOutput, stream
<1>3. CASE Read \/ ReadEnds \/ ReadFails \/ HoldBack \/ DecryptFails
  BY <1>3 DEF Counted, Read, ReadEnds, ReadFails, HoldBack, DecryptFails, stream
<1>4. CASE Conclude
  BY <1>4 DEF Counted, Conclude, SetTag, SetTagFails, Finalize, Commit, CommitFails, stream
<1>5. CASE UNCHANGED vars
  BY <1>5 DEF Counted, vars
<1>6. QED
  BY <1>1, <1>2, <1>3, <1>4, <1>5 DEF Next, Step, Loop, Returned

\* Only Finalize leads to commit, and only a tag that was set to finalize.
LEMMA AuthenticatedStep == SplitInv /\ Authenticated /\ [Next]_vars => Authenticated'
<1> SUFFICES ASSUME SplitInv, Authenticated, [Next]_vars PROVE Authenticated'
  OBVIOUS
<1> USE DEF Sealed
<1>1. CASE Prepare
  BY <1>1 DEF Authenticated, Prepare, ReadKey, OpenInput, ReadHeader, MethodForHeader,
     RequestPassphrase, PrepareDecryption, NewOutput, Goto, Fail, stream
<1>2. CASE Loop
  BY <1>2 DEF Authenticated, Loop, Read, ReadEnds, ReadFails, HoldBack, Decrypt,
     DecryptFails, Goto, Fail, stream
<1>3. CASE SetTag
  BY <1>3 DEF Authenticated, SetTag, Goto, SplitInv, StreamTypeOK
<1>4. CASE SetTagFails
  BY <1>4 DEF Authenticated, SetTagFails, Fail, stream
<1>5. CASE Finalize
  BY <1>5 DEF Authenticated, Finalize, Goto, Fail, stream, Accepts
<1>6. CASE Commit \/ CommitFails
  BY <1>6 DEF Authenticated, Commit, CommitFails, Goto, Fail, stream, Accepts
<1>7. CASE UNCHANGED vars
  BY <1>7 DEF Authenticated, Accepts, vars
<1>8. QED
  BY <1>1, <1>2, <1>3, <1>4, <1>5, <1>6, <1>7 DEF Next, Step, Conclude, Returned

\* Nothing follows an error, and only commit touches the destination.
LEMMA OutcomeStep == Outcome /\ [Next]_vars => Outcome'
<1> SUFFICES ASSUME Outcome, [Next]_vars PROVE Outcome'
  OBVIOUS
<1>1. CASE Prepare
  BY <1>1 DEF Outcome, Error, Prepare, ReadKey, OpenInput, ReadHeader, MethodForHeader,
     RequestPassphrase, PrepareDecryption, NewOutput, Goto, Fail
<1>2. CASE Loop
  BY <1>2 DEF Outcome, Error, Loop, Read, ReadEnds, ReadFails, HoldBack, Decrypt,
     DecryptFails, Goto, Fail
<1>3. CASE Conclude
  BY <1>3 DEF Outcome, Error, Conclude, SetTag, SetTagFails, Finalize, Commit,
     CommitFails, Goto, Fail
<1>4. CASE UNCHANGED vars
  BY <1>4 DEF Outcome, vars
<1>5. QED BY <1>1, <1>2, <1>3, <1>4 DEF Next, Step, Returned

\* Without a data key no step leads past the preparation.
LEMMA RecoveredStep == Recovered /\ [Next]_vars => Recovered'
<1> SUFFICES ASSUME Recovered, [Next]_vars PROVE Recovered'
  OBVIOUS
<1> USE DEF Recovered, Preparing
<1>1. CASE Prepare
  BY <1>1 DEF Prepare, ReadKey, OpenInput, ReadHeader, MethodForHeader,
     RequestPassphrase, PrepareDecryption, NewOutput, Goto, Fail, stream
<1>2. CASE Loop
  BY <1>2 DEF Loop, Read, ReadEnds, ReadFails, HoldBack, Decrypt,
     DecryptFails, Goto, Fail, stream
<1>3. CASE Conclude
  BY <1>3 DEF Conclude, SetTag, SetTagFails, Finalize, Commit, CommitFails,
     Goto, Fail, stream
<1>4. CASE UNCHANGED vars
  BY <1>4 DEF vars, stream
<1>5. QED BY <1>1, <1>2, <1>3, <1>4 DEF Next, Step, Returned

\* No step leads back to the prompt.
LEMMA AskedStep ==
    Asked /\ PromptsOnlyWhenNeeded /\ Held /\ [Next]_vars => Asked' /\ PromptsOnlyWhenNeeded'
<1> SUFFICES ASSUME Asked, PromptsOnlyWhenNeeded, Held, [Next]_vars
             PROVE  Asked' /\ PromptsOnlyWhenNeeded'
  OBVIOUS
<1> USE DEF Asked, PromptsOnlyWhenNeeded, Held, Location, Preparing, Streaming, Terminal
<1>1. CASE Prepare
  BY <1>1 DEF Prepare, ReadKey, OpenInput, ReadHeader, MethodForHeader,
     RequestPassphrase, PrepareDecryption, NewOutput, Goto, Fail
<1>2. CASE Loop
  BY <1>2 DEF Loop, Read, ReadEnds, ReadFails, HoldBack, Decrypt, DecryptFails, Goto, Fail
<1>3. CASE Conclude
  BY <1>3 DEF Conclude, SetTag, SetTagFails, Finalize, Commit, CommitFails, Goto, Fail
<1>4. CASE UNCHANGED vars
  BY <1>4 DEF vars
<1>5. QED BY <1>1, <1>2, <1>3, <1>4 DEF Next, Step, Returned

-----------------------------------------------------------------------------
\* After the loop, what was fed and what is pending make up the body.
LEMMA WholeBody ==
    ASSUME SplitInv, position = Len(input.body) PROVE fed \o pending = input.body
  BY Lengths, SubSeqFull DEF SplitInv, Split

\* commit publishes only the sealed body.
LEMMA PublishStep ==
    SplitInv /\ Counted /\ Authenticated /\ AuthenticatedBeforePublishing /\ Outcome
        /\ [Next]_vars => AuthenticatedBeforePublishing'
<1> SUFFICES ASSUME SplitInv, Counted, Authenticated, AuthenticatedBeforePublishing,
                    Outcome, [Next]_vars
             PROVE  AuthenticatedBeforePublishing'
  OBVIOUS
<1> USE DEF Sealed
<1>1. ASSUME pc = "commit"
      PROVE  input.genuine /\ input.body = Sealed /\ written = Len(Sealed) - TagSize
  <2>1. fed \o pending = input.body
    BY <1>1, WholeBody DEF SplitInv, Held
  <2>2. input.genuine /\ tag = pending /\ fed \o tag = Sealed /\ Len(tag) = TagSize
    BY <1>1 DEF Authenticated, Accepts
  <2>3. Len(fed) + Len(pending) = Len(input.body)
    BY <1>1, SplitLengths DEF SplitInv, Held
  <2>4. input.body = Sealed
    BY <2>1, <2>2
  <2>5. written = Len(fed) /\ Len(pending) = TagSize
    BY <2>2 DEF Counted
  <2>6. written = Len(Sealed) - TagSize
    BY <2>3, <2>4, <2>5, Lengths, SizesAssumption DEF SplitInv
  <2>7. QED BY <2>2, <2>4, <2>6
<1>2. CASE Commit \/ CommitFails
  BY <1>1, <1>2 DEF Commit, CommitFails, stream, AuthenticatedBeforePublishing
<1>3. CASE Prepare
  BY <1>3 DEF AuthenticatedBeforePublishing, Prepare, ReadKey, OpenInput, ReadHeader,
     MethodForHeader, RequestPassphrase, PrepareDecryption, NewOutput, stream
<1>4. CASE Loop
  BY <1>4 DEF AuthenticatedBeforePublishing, Outcome, Loop, Read, ReadEnds, ReadFails,
     HoldBack, Decrypt, DecryptFails, stream
<1>5. CASE SetTag \/ SetTagFails \/ Finalize
  BY <1>5 DEF AuthenticatedBeforePublishing, SetTag, SetTagFails, Finalize, stream
<1>6. CASE UNCHANGED vars
  BY <1>6 DEF AuthenticatedBeforePublishing, vars
<1>7. QED
  BY <1>2, <1>3, <1>4, <1>5, <1>6 DEF Next, Step, Conclude, Returned

\* The two errors that blame the file: for a body shorter than a tag, and for one
\* that finalize did not accept.
LEMMA BlameStep ==
    SplitInv /\ Authenticated /\ Outcome /\ Recovered /\ BlamesOnlyDamage /\ [Next]_vars
        => BlamesOnlyDamage'
<1> SUFFICES ASSUME SplitInv, Authenticated, Outcome, Recovered, BlamesOnlyDamage,
                    [Next]_vars
             PROVE  BlamesOnlyDamage'
  OBVIOUS
<1> USE DEF Sealed
<1>1. ASSUME error' \notin {"Truncated", "AuthenticationFailed"} PROVE BlamesOnlyDamage'
  BY <1>1 DEF BlamesOnlyDamage
<1>2. CASE Prepare
  <2>1. CASE PrepareDecryption /\ error' = "AuthenticationFailed"
    <3>1. ~input.recovers /\ UNCHANGED <<input, position>>
      BY <2>1 DEF PrepareDecryption, Goto, Fail, Outcome, stream
    <3>2. position = 0 /\ ~input.genuine
      BY <3>1 DEF Recovered, SplitInv, StreamTypeOK, Input
    <3>3. QED BY <2>1, <3>1, <3>2 DEF BlamesOnlyDamage
  <2>2. CASE ~(PrepareDecryption /\ error' = "AuthenticationFailed")
    BY <1>1, <1>2, <2>2 DEF Prepare, ReadKey, OpenInput, ReadHeader, MethodForHeader,
       RequestPassphrase, PrepareDecryption, NewOutput, Goto, Fail, Outcome
  <2>3. QED BY <2>1, <2>2
<1>3. CASE Loop
  BY <1>1, <1>3 DEF Loop, Read, ReadEnds, ReadFails, HoldBack, Decrypt, DecryptFails, Goto, Fail, Outcome
<1>4. CASE SetTagFails
  <2>1. UNCHANGED <<input, fed>> /\ error' \in {"Truncated", "Crypto"}
    BY <1>4 DEF SetTagFails, Fail, stream
  <2>2. ASSUME error' = "Truncated"
        PROVE  Len(input.body) < TagSize /\ fed = << >> /\ input.body # Sealed
    <3>1. pc = "tag" /\ Len(pending) # TagSize
      BY <1>4, <2>2 DEF SetTagFails, Fail
    <3>2. position = Len(input.body) /\ Len(pending) = Smaller(position, TagSize)
      BY <3>1 DEF SplitInv, Held
    <3>3. Len(input.body) < TagSize /\ Len(pending) = Len(input.body)
      BY <3>1, <3>2, Lengths, SizesAssumption DEF SplitInv, Smaller
    <3>4. Len(fed) = 0
      BY <3>2, <3>3, Lengths, SplitLengths DEF SplitInv
    <3>5. fed = << >>
      BY <3>4, EmptySeq DEF SplitInv, StreamTypeOK
    <3>6. input.body # Sealed
      <4>1. Len(Sealed) >= TagSize /\ Len(Sealed) \in Nat
        BY BodyAssumption, LenProperties DEF SplitInv, StreamTypeOK, Input
      <4>2. QED BY <3>3, <4>1, Lengths, SizesAssumption DEF SplitInv
    <3>7. QED BY <3>3, <3>5, <3>6
  <2>3. input.recovers
    BY <1>4 DEF SetTagFails, Recovered, Preparing
  <2>4. QED BY <2>1, <2>2, <2>3 DEF BlamesOnlyDamage
<1>5. CASE Finalize
  <2>1. UNCHANGED <<input, fed, tag>> /\ pc = "finalize" /\ input.recovers
    BY <1>5 DEF Finalize, stream, Recovered, Preparing
  <2>2. fed \o tag = input.body /\ Len(tag) = TagSize
    BY <2>1, WholeBody DEF SplitInv, Held, Authenticated
  <2>3. CASE Accepts
    BY <1>1, <1>5, <2>1, <2>3 DEF Finalize, Goto, Fail, Outcome
  <2>4. CASE ~Accepts
    <3>1. error' = "AuthenticationFailed"
      BY <1>5, <2>4 DEF Finalize, Fail
    <3>2. ~(input.genuine /\ input.body = Sealed)
      BY <2>2, <2>4 DEF Accepts
    <3>3. QED BY <2>1, <2>2, <3>1, <3>2 DEF BlamesOnlyDamage
  <2>5. QED BY <2>3, <2>4
<1>6. CASE SetTag \/ Commit \/ CommitFails
  BY <1>1, <1>6 DEF SetTag, Commit, CommitFails, Goto, Fail, Outcome
<1>7. CASE UNCHANGED vars
  BY <1>7 DEF BlamesOnlyDamage, vars
<1>8. QED
  BY <1>2, <1>3, <1>4, <1>5, <1>6, <1>7 DEF Next, Step, Conclude, Returned

-----------------------------------------------------------------------------
LEMMA InitIInv == Init => IInv
<1> SUFFICES ASSUME Init PROVE IInv
  OBVIOUS
<1>1. StreamTypeOK
  BY BodyAssumption, LenProperties, EmptySeq DEF Init, StreamTypeOK, Input
<1>2. Len(fed) = 0 /\ Len(pending) = 0 /\ tag \in Seq(Unit)
  BY EmptySeq DEF Init
<1>3. Split
  <2>1. fed \o pending = << >>
    BY ConcatEmptySeq, EmptySeq DEF Init
  <2>2. SubSeq(input.body, 1, 0) = << >>
    BY SubSeqEmpty
  <2>3. QED BY <2>1, <2>2 DEF Init, Split
<1>4. Held
  BY <1>2, SizesAssumption DEF Init, Held, Smaller, Location, Preparing
<1>5. NeverPanics /\ Counted /\ Authenticated /\ Outcome /\ Recovered /\ Asked
  BY <1>2 DEF Init, NeverPanics, Counted, Authenticated, Outcome, Error, Recovered,
     Preparing, Asked
<1>6. AuthenticatedBeforePublishing /\ BlamesOnlyDamage /\ PromptsOnlyWhenNeeded
  BY DEF Init, AuthenticatedBeforePublishing, BlamesOnlyDamage, PromptsOnlyWhenNeeded
<1>7. QED BY <1>1, <1>3, <1>4, <1>5, <1>6 DEF IInv, SplitInv

LEMMA NextIInv == IInv /\ [Next]_vars => IInv'
  BY SplitStep, PanicStep, CountedStep, AuthenticatedStep, OutcomeStep, PublishStep,
     RecoveredStep, BlameStep, AskedStep DEF IInv, SplitInv

\* The conjunction that is inductive holds in every behaviour.
THEOREM Inductive == Spec => []IInv
  BY InitIInv, NextIInv, PTL DEF Spec

\* The types of the variables; pending never outgrows the capacity it was given
\* (application.rs, Vec::with_capacity(STREAM_BUFFER_SIZE + tag_size)).
THEOREM TypeCorrect == Spec => []TypeOK
<1>1. IInv => TypeOK
  <2> SUFFICES ASSUME IInv PROVE TypeOK
    OBVIOUS
  <2>1. Len(fed) <= Len(input.body)
    BY Lengths, SplitLengths DEF IInv, SplitInv
  <2>2. QED
    BY <2>1, Lengths DEF IInv, SplitInv, StreamTypeOK, Held, Location, Counted,
       Authenticated, Outcome, Asked, TypeOK
<1>2. QED BY <1>1, Inductive, PTL

\* The result does not depend on how reads cut the body (application.rs, the loop
\* of decrypt).
THEOREM CutsDoNotMatter == Spec => []ChunkIndependent
<1>1. IInv => ChunkIndependent
  BY DEF IInv, SplitInv, Split, Held, ChunkIndependent, Streaming
<1>2. QED BY <1>1, Inductive, PTL

\* No read makes the loop slice out of bounds (application.rs, output_buffer).
THEOREM SlicesFit == Spec => []NeverPanics
<1>1. IInv => NeverPanics
  BY DEF IInv
<1>2. QED BY <1>1, Inductive, PTL

\* Only an authentic file is published, and then whole (application.rs, finalize
\* before commit).
THEOREM OnlyAuthentic == Spec => []AuthenticatedBeforePublishing
<1>1. IInv => AuthenticatedBeforePublishing
  BY DEF IInv
<1>2. QED BY <1>1, Inductive, PTL

\* A genuine file is never blamed, nor is a file blamed for another reason than its
\* own (application.rs, InvalidFormat after the loop; openssl_stream.rs, finalize;
\* the algorithms, AuthenticationFailed where the data key is not recovered).
THEOREM NoFalseBlame == Spec => []BlamesOnlyDamage
<1>1. IInv => BlamesOnlyDamage
  BY DEF IInv
<1>2. QED BY <1>1, Inductive, PTL

\* Progress never passes its total, and reaches it (application.rs, ciphertext_size).
THEOREM ProgressCorrect == Spec => []ProgressExact
<1>1. IInv => ProgressExact
  <2> SUFFICES ASSUME IInv PROVE ProgressExact
    OBVIOUS
  <2>1. /\ Len(pending) \in Nat /\ Len(fed) \in Nat /\ position \in Nat
        /\ Len(input.body) \in Nat /\ position <= Len(input.body)
    BY Lengths DEF IInv, SplitInv
  <2>2. Len(fed) + Len(pending) = position
    BY SplitLengths DEF IInv, SplitInv
  <2>3. processed <= Total
    BY <2>1, <2>2, SizesAssumption
       DEF IInv, SplitInv, Held, Counted, Smaller, Total, SaturatingSub
  <2>4. ASSUME pc \in {"tag", "finalize", "commit", "ok"} PROVE processed = Total
    BY <2>1, <2>2, <2>4, SizesAssumption
       DEF IInv, SplitInv, Held, Counted, Smaller, Total, SaturatingSub
  <2>5. QED BY <2>3, <2>4 DEF ProgressExact
<1>2. QED BY <1>1, Inductive, PTL

\* One prompt at most, for an encrypted key and a supported file (application.rs,
\* request_passphrase).
THEOREM PromptsRarely == Spec => []PromptsOnlyWhenNeeded
<1>1. IInv => PromptsOnlyWhenNeeded
  BY DEF IInv
<1>2. QED BY <1>1, Inductive, PTL
=============================================================================
