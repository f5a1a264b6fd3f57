------------------------- MODULE EncryptStream_proofs -------------------------
(***************************************************************************)
(* EncryptStream: proofs, for inputs of any length however they are read,  *)
(* any sizes of the buffer, the cipher's blocks and the tag, and whatever  *)
(* the size of the input was said to be.                                   *)
(***************************************************************************)
EXTENDS EncryptStream, SequenceTheorems, TLAPS

-----------------------------------------------------------------------------
(* The inductive invariant.                                                *)

FileUnit == {Header} \cup CipherUnit \cup [over: Seq(Unit), part: 1 .. TagSize]

\* Every unit that was read is one that the cipher was given or is about to be, and
\* the progress counts the former.
ReadInOrder ==
    /\ enciphered \o piece = consumed
    /\ piece # << >> => pc \in {"chunk", "err"}
    /\ processed = Len(enciphered)

\* What the file has, and the cipher holds back, is the header and what the cipher made
\* of what it was given; then the tag over all of it.
FileIs ==
    /\ file \in Seq(FileUnit)
    /\ pc \in Preparing => file = << >> /\ held = << >> /\ enciphered = << >>
    /\ pc \in {"read", "chunk", "finalize", "tag"} =>
          file \o held = <<Header>> \o Enciphered(enciphered, 0)
    /\ pc \in {"read", "chunk", "finalize", "tag"} => file # << >>
    /\ pc = "tag" => held = << >>

\* What is published is the sealing of all that was read.
PublishesAll ==
    /\ pc \in {"commit", "finish", "ok"} \/ destination # "before" =>
          enciphered = consumed /\ file = <<Header>> \o Sealing(consumed)
    /\ pc \in Preparing \cup {"read", "chunk", "finalize", "tag", "commit"} =>
          destination = "before"

\* The terminal is told nothing but while the units are processed, and then of no more
\* than were.
Tells ==
    LET last == TerminalProgress(request.size, processed) IN
    /\ pc \in Preparing \cup Terminal \/ ~request.terminal => indicator = Off
    /\ pc \in Streaming /\ request.terminal =>
          indicator[1] = last[1] /\ indicator[2] \in 0 .. last[2]

IInv ==
    /\ TypeOK
    /\ ReadInOrder
    /\ FileIs
    /\ PublishesAll
    /\ Tells

-----------------------------------------------------------------------------
(* The progress.                                                           *)

\* Division by a positive number does not turn an order round.
LEMMA DivisionMonotone ==
    ASSUME NEW m \in Nat, NEW n \in Nat, NEW d \in Nat \ {0}, m <= n
    PROVE  m \div d \in Nat /\ n \div d \in Nat /\ m \div d <= n \div d
<1>1. m \div d \in Int /\ n \div d \in Int
  OBVIOUS
<1> DEFINE p == m \div d
           q == n \div d
<1>2. d * p <= m /\ m < d * p + d /\ d * q <= n /\ n < d * q + d
  OBVIOUS
<1>3. p \in Int /\ q \in Int
  BY <1>1
<1> HIDE DEF p, q
<1>4. p >= 0 /\ q >= 0
  <2>1. ASSUME NEW r \in Int, r <= -1 PROVE d * r + d <= 0
    BY <2>1
  <2>2. QED BY <1>2, <1>3, <2>1
<1>5. p <= q
  <2>1. ASSUME NEW r \in Int, NEW s \in Int, s <= r - 1 PROVE d * s + d <= d * r
    BY <2>1
  <2>2. QED BY <1>2, <1>3, <2>1
<1>6. QED BY <1>3, <1>4, <1>5 DEF p, q

\* The percentage of a count is one, and that of a greater count is no less.
LEMMA ProgressGrows ==
    ASSUME NEW total \in Nat \cup {Unknown}, NEW m \in Nat, NEW n \in Nat, m <= n
    PROVE  /\ TerminalProgress(total, m) \in {1, 4} \X (0 .. 100)
           /\ TerminalProgress(total, n) \in {1, 4} \X (0 .. 100)
           /\ TerminalProgress(total, m)[1] = TerminalProgress(total, n)[1]
           /\ TerminalProgress(total, m)[2] <= TerminalProgress(total, n)[2]
<1>1. CASE total = Unknown \/ total = 0
  BY <1>1, EncryptionAssumption DEF TerminalProgress
<1>2. CASE total \in Nat \ {0}
  <2>1. total # Unknown
    BY <1>2, EncryptionAssumption
  <2> DEFINE a == Least(m, total) * 100
             b == Least(n, total) * 100
             c == total * 100
  <2>2. a \in Nat /\ b \in Nat /\ c \in Nat /\ a <= b /\ b <= c
    BY <1>2 DEF Least
  <2>3. TerminalProgress(total, m) = <<1, a \div total>>
        /\ TerminalProgress(total, n) = <<1, b \div total>>
    BY <1>2, <2>1 DEF TerminalProgress
  <2> HIDE DEF a, b
  <2>4. /\ a \div total \in Nat /\ b \div total \in Nat
        /\ a \div total <= b \div total /\ b \div total <= c \div total
    BY <1>2, <2>2, DivisionMonotone
  <2>5. c \div total = 100
    BY <1>2
  <2>6. QED BY <2>3, <2>4, <2>5
<1>3. QED BY <1>1, <1>2

-----------------------------------------------------------------------------
(* What the cipher makes.                                                  *)

LEMMA CutInTwo ==
    ASSUME NEW S, NEW s \in Seq(S), NEW n \in 0 .. Len(s)
    PROVE  /\ SubSeq(s, 1, n) \in Seq(S) /\ Len(SubSeq(s, 1, n)) = n
           /\ SubSeq(s, n + 1, Len(s)) \in Seq(S)
           /\ Len(SubSeq(s, n + 1, Len(s))) = Len(s) - n
           /\ SubSeq(s, 1, n) \o SubSeq(s, n + 1, Len(s)) = s
<1>1. Len(s) \in Nat /\ \A i \in 1 .. Len(s) : s[i] \in S
  BY ElementOfSeq, LenProperties
<1>2. SubSeq(s, 1, n) \in Seq(S) /\ Len(SubSeq(s, 1, n)) = n
  BY <1>1, SubSeqProperties
<1>3. SubSeq(s, n + 1, Len(s)) \in Seq(S) /\ Len(SubSeq(s, n + 1, Len(s))) = Len(s) - n
  BY <1>1, SubSeqProperties
<1>4. SubSeq(s, 1, n) \o SubSeq(s, n + 1, Len(s)) = SubSeq(s, 1, Len(s))
  <2>1. 1 \in 1 .. Len(s) + 1 /\ n \in 1 - 1 .. Len(s) /\ Len(s) \in n .. Len(s)
    BY <1>1
  <2>2. QED BY <2>1, ConcatAdjacentSubSeq
<1>5. QED BY <1>2, <1>3, <1>4, SubSeqFull

LEMMA FunctionSeq ==
    ASSUME NEW S, NEW n \in Nat, NEW f \in [1 .. n -> S]
    PROVE  f \in Seq(S) /\ Len(f) = n
  OBVIOUS

LEMMA EncipheredIs ==
    ASSUME NEW units \in Seq(Unit), NEW count \in Nat
    PROVE  /\ Len(Enciphered(units, count)) = Len(units)
           /\ \A i \in 1 .. Len(units) :
                 Enciphered(units, count)[i] = [at |-> count + i, unit |-> units[i]]
           /\ Enciphered(units, count) \in Seq([at: Nat, unit: Unit])
           /\ count + Len(units) <= MaxLength => Enciphered(units, count) \in Seq(CipherUnit)
<1>1. Len(units) \in Nat /\ DOMAIN units = 1 .. Len(units)
      /\ \A i \in 1 .. Len(units) : units[i] \in Unit
  BY LenProperties, ElementOfSeq
<1> DEFINE e == Enciphered(units, count)
<1>2. e = [i \in 1 .. Len(units) |-> [at |-> count + i, unit |-> units[i]]]
  BY <1>1 DEF Enciphered
<1>3. e \in Seq([at: Nat, unit: Unit]) /\ Len(e) = Len(units)
  <2>1. e \in [1 .. Len(units) -> [at: Nat, unit: Unit]]
    BY <1>1, <1>2
  <2> HIDE DEF e
  <2>2. QED BY <1>1, <2>1, FunctionSeq
<1>4. ASSUME count + Len(units) <= MaxLength PROVE e \in Seq(CipherUnit)
  <2>1. e \in [1 .. Len(units) -> CipherUnit]
    BY <1>1, <1>2, <1>4, EncryptionAssumption DEF CipherUnit
  <2> HIDE DEF e
  <2>2. QED BY <1>1, <2>1, FunctionSeq
<1>5. QED BY <1>2, <1>3, <1>4

\* The cipher goes on where it left off.
LEMMA EncipheredJoins ==
    ASSUME NEW u \in Seq(Unit), NEW v \in Seq(Unit)
    PROVE  Enciphered(u \o v, 0) = Enciphered(u, 0) \o Enciphered(v, Len(u))
<1> DEFINE S == [at: Nat, unit: Unit]
           x == Enciphered(u, 0)
           y == Enciphered(v, Len(u))
           z == Enciphered(u \o v, 0)
<1>1. Len(u) \in Nat /\ Len(v) \in Nat
  BY LenProperties
<1>2. /\ u \o v \in Seq(Unit) /\ Len(u \o v) = Len(u) + Len(v)
      /\ \A i \in 1 .. Len(u) + Len(v) :
            (u \o v)[i] = IF i <= Len(u) THEN u[i] ELSE v[i - Len(u)]
  BY ConcatProperties
<1>3. /\ x \in Seq(S) /\ Len(x) = Len(u)
      /\ \A i \in 1 .. Len(u) : x[i] = [at |-> i, unit |-> u[i]]
  <2>1. \A i \in 1 .. Len(u) : 0 + i = i
    BY <1>1
  <2>2. /\ Enciphered(u, 0) \in Seq(S) /\ Len(Enciphered(u, 0)) = Len(u)
        /\ \A i \in 1 .. Len(u) : Enciphered(u, 0)[i] = [at |-> 0 + i, unit |-> u[i]]
    BY EncipheredIs
  <2>3. QED BY <2>1, <2>2
<1>4. /\ y \in Seq(S) /\ Len(y) = Len(v)
      /\ \A i \in 1 .. Len(v) : y[i] = [at |-> Len(u) + i, unit |-> v[i]]
  BY <1>1, EncipheredIs
<1>5. /\ z \in Seq(S) /\ Len(z) = Len(u) + Len(v)
      /\ \A i \in 1 .. Len(u) + Len(v) : z[i] = [at |-> i, unit |-> (u \o v)[i]]
  <2> DEFINE w == u \o v
  <2>1. \A i \in 1 .. Len(u) + Len(v) : 0 + i = i
    BY <1>1
  <2>2. w \in Seq(Unit) /\ Len(w) = Len(u) + Len(v)
    BY <1>2
  <2> HIDE DEF w
  <2>3. /\ Enciphered(w, 0) \in Seq(S) /\ Len(Enciphered(w, 0)) = Len(w)
        /\ \A i \in 1 .. Len(w) : Enciphered(w, 0)[i] = [at |-> 0 + i, unit |-> w[i]]
    BY <2>2, EncipheredIs
  <2>4. QED BY <2>1, <2>2, <2>3 DEF w
<1> HIDE DEF S, x, y, z
<1>6. /\ x \o y \in Seq(S) /\ Len(x \o y) = Len(u) + Len(v)
      /\ \A i \in 1 .. Len(u) + Len(v) :
            (x \o y)[i] = IF i <= Len(u) THEN x[i] ELSE y[i - Len(u)]
  <2>1. x \in Seq(S) /\ y \in Seq(S) /\ Len(x) = Len(u) /\ Len(y) = Len(v)
    BY <1>3, <1>4
  <2>2. /\ x \o y \in Seq(S) /\ Len(x \o y) = Len(x) + Len(y)
        /\ \A i \in 1 .. Len(x) + Len(y) :
              (x \o y)[i] = IF i <= Len(x) THEN x[i] ELSE y[i - Len(x)]
    BY <2>1, ConcatProperties
  <2>3. QED BY <2>1, <2>2
<1>7. ASSUME NEW i \in 1 .. Len(u) + Len(v) PROVE z[i] = (x \o y)[i]
  <2>1. CASE i <= Len(u)
    <3>1. i \in 1 .. Len(u)
      BY <1>1, <2>1
    <3>2. z[i] = [at |-> i, unit |-> u[i]] /\ (x \o y)[i] = x[i]
      BY <1>2, <1>5, <1>6, <2>1
    <3>3. QED BY <1>3, <3>1, <3>2
  <2>2. CASE ~(i <= Len(u))
    <3>1. i - Len(u) \in 1 .. Len(v) /\ Len(u) + (i - Len(u)) = i
      BY <1>1, <2>2
    <3>2. QED BY <1>2, <1>4, <1>5, <1>6, <2>2, <3>1
  <2>3. QED BY <2>1, <2>2
<1>8. z = x \o y
  BY <1>5, <1>6, <1>7, SeqEqual
<1>9. QED BY <1>8 DEF x, y, z

LEMMA TagIs ==
    ASSUME NEW plain \in Seq(Unit)
    PROVE  Tag(plain) \in Seq(FileUnit) /\ Len(Tag(plain)) = TagSize
<1>1. Tag(plain) \in [1 .. TagSize -> FileUnit]
  BY EncryptionAssumption DEF Tag, FileUnit
<1>2. QED BY <1>1, EncryptionAssumption DEF Tag

\* Whatever is behind it, the header stays the first.
LEMMA HeadStays ==
    ASSUME NEW s \in Seq(FileUnit), NEW t \in Seq(FileUnit), s # << >>
    PROVE  s \o t # << >> /\ Head(s \o t) = Head(s)
<1>1. Len(s) \in Nat \ {0} /\ Len(t) \in Nat
  BY EmptySeq, LenProperties
<1>2. s \o t \in Seq(FileUnit) /\ Len(s \o t) # 0 /\ (s \o t)[1] = s[1]
  BY <1>1, ConcatProperties
<1>3. QED BY <1>1, <1>2

LEMMA Associative ==
    ASSUME NEW s \in Seq(FileUnit), NEW t \in Seq(FileUnit), NEW u \in Seq(FileUnit)
    PROVE  (s \o t) \o u = s \o (t \o u)
  BY ConcatAssociative

LEMMA Units == CipherUnit \subseteq FileUnit /\ Header \in FileUnit
  BY DEF FileUnit

LEMMA CipherInFile == ASSUME NEW s \in Seq(CipherUnit) PROVE s \in Seq(FileUnit)
  BY Units, SeqMonotonic

-----------------------------------------------------------------------------
(* The steps.                                                              *)

LEMMA NothingEnciphered == Enciphered(<< >>, 0) = << >>
  BY DEF Enciphered

LEMMA InitIInv == Init => IInv
<1> SUFFICES ASSUME Init PROVE IInv
  OBVIOUS
<1>1. /\ request \in Request /\ pc = "readKey" /\ consumed = << >> /\ piece = << >>
      /\ enciphered = << >> /\ held = << >> /\ file = << >> /\ processed = 0
      /\ indicator = Off /\ destination = "before" /\ error = "none"
  BY DEF Init
<1>2. TypeOK
  BY <1>1, EncryptionAssumption DEF TypeOK, Preparing, Off, Error
<1>3. ReadInOrder /\ FileIs /\ PublishesAll
  BY <1>1, ConcatEmptySeq, EmptySeq DEF ReadInOrder, FileIs, PublishesAll
<1>4. Tells
  BY <1>1 DEF Tells, Streaming
<1>5. QED BY <1>2, <1>3, <1>4 DEF IInv

\* A step that moves no unit.
Quiet ==
    \/ ReadKey \/ PrepareEncryption \/ OpenInput \/ NewOutput \/ (WriteHeader /\ pc' = "err")
    \/ ReadEnds \/ StreamFails \/ Commit \/ CommitFails \/ Finish

LEMMA QuietMoves ==
    ASSUME IInv, Quiet
    PROVE  /\ UNCHANGED <<request, consumed, piece, enciphered, held, file, processed>>
           /\ \/ pc \in Preparing /\ pc' \in Preparing \cup {"err"} /\ UNCHANGED indicator
              \/ pc = "read" /\ pc' = "finalize" /\ UNCHANGED indicator
              \/ pc = "commit" /\ pc' = "finish" /\ UNCHANGED indicator
              \/ pc \in Streaming /\ pc' \in Terminal /\ Clear
           /\ pc' = "ok" => pc = "finish"
           /\ destination' # destination => pc = "commit"
           /\ destination' \in {"before", "part", "result"}
           /\ error' \in Error
<1>1. UNCHANGED <<request, consumed, piece, enciphered, held, file, processed>>
  BY DEF Quiet, ReadKey, PrepareEncryption, OpenInput, NewOutput, WriteHeader, ReadEnds,
         StreamFails, Commit, CommitFails, Finish, stream, FailEarly, Goto
<1>2. \/ pc \in Preparing /\ pc' \in Preparing \cup {"err"} /\ UNCHANGED indicator
      \/ pc = "read" /\ pc' = "finalize" /\ UNCHANGED indicator
      \/ pc = "commit" /\ pc' = "finish" /\ UNCHANGED indicator
      \/ pc \in Streaming /\ pc' \in Terminal /\ Clear
  BY DEF Quiet, ReadKey, PrepareEncryption, OpenInput, NewOutput, WriteHeader, ReadEnds,
         StreamFails, Commit, CommitFails, Finish, FailEarly, Fail, Goto, Preparing, Streaming,
         Terminal
<1>3. /\ pc' = "ok" => pc = "finish"
      /\ destination' # destination => pc = "commit"
      /\ destination' \in {"before", "part", "result"}
      /\ error' \in Error
  BY DEF Quiet, ReadKey, PrepareEncryption, OpenInput, NewOutput, WriteHeader, ReadEnds,
         StreamFails, Commit, CommitFails, Finish, FailEarly, Fail, Goto, Error, IInv, TypeOK
<1>4. QED BY <1>1, <1>2, <1>3

LEMMA QuietStep == ASSUME IInv, Quiet PROVE IInv'
<1>1. /\ UNCHANGED <<request, consumed, piece, enciphered, held, file, processed>>
      /\ \/ pc \in Preparing /\ pc' \in Preparing \cup {"err"} /\ UNCHANGED indicator
         \/ pc = "read" /\ pc' = "finalize" /\ UNCHANGED indicator
         \/ pc = "commit" /\ pc' = "finish" /\ UNCHANGED indicator
         \/ pc \in Streaming /\ pc' \in Terminal /\ Clear
      /\ pc' = "ok" => pc = "finish"
      /\ destination' # destination => pc = "commit"
      /\ destination' \in {"before", "part", "result"}
      /\ error' \in Error
  BY QuietMoves
<1>2. indicator' = Off \/ UNCHANGED indicator
  BY <1>1 DEF Clear
<1>3. TypeOK'
  <2>1. indicator' \in {0, 1, 4} \X (0 .. 100)
    BY <1>2 DEF IInv, TypeOK, Off
  <2>2. pc' \in Preparing \cup Streaming \cup Terminal
    BY <1>1 DEF Preparing, Streaming, Terminal
  <2>3. QED BY <1>1, <2>1, <2>2 DEF IInv, TypeOK
<1>4. ReadInOrder'
  BY <1>1 DEF IInv, ReadInOrder, Preparing, Streaming, Terminal
<1>5. FileIs'
  BY <1>1 DEF IInv, FileIs, Preparing, Streaming, Terminal
<1>6. PublishesAll'
  BY <1>1 DEF IInv, PublishesAll, Preparing, Streaming, Terminal
<1>7. Tells'
  <2>1. CASE pc \in Preparing /\ pc' \in Preparing \cup {"err"} /\ UNCHANGED indicator
    BY <1>1, <2>1 DEF IInv, Tells, Preparing, Streaming
  <2>2. CASE pc = "read" /\ pc' = "finalize" /\ UNCHANGED indicator
    BY <1>1, <2>2 DEF IInv, Tells, Preparing, Streaming, Terminal
  <2>3. CASE pc = "commit" /\ pc' = "finish" /\ UNCHANGED indicator
    BY <1>1, <2>3 DEF IInv, Tells, Preparing, Streaming, Terminal
  <2>4. CASE pc \in Streaming /\ pc' \in Terminal /\ Clear
    <3>1. ~request.terminal => indicator = Off
      BY DEF IInv, Tells
    <3>2. indicator' = Off
      BY <2>4, <3>1 DEF Clear
    <3>3. pc' \notin Streaming
      BY <2>4 DEF Streaming, Terminal
    <3>4. QED BY <1>1, <3>2, <3>3 DEF Tells
  <2>5. QED BY <1>1, <2>1, <2>2, <2>3, <2>4
<1>8. QED BY <1>3, <1>4, <1>5, <1>6, <1>7 DEF IInv

\* What is drawn is what the count comes to.
LEMMA DrawTells ==
    ASSUME IInv, NEW n \in Nat, processed <= n, Draw(n) \/ UNCHANGED indicator,
           pc \in Streaming \/ Draw(n)
    PROVE  /\ indicator' \in {0, 1, 4} \X (0 .. 100)
           /\ ~request.terminal => indicator' = Off
           /\ request.terminal =>
                 /\ indicator'[1] = TerminalProgress(request.size, n)[1]
                 /\ indicator'[2] \in 0 .. TerminalProgress(request.size, n)[2]
<1> DEFINE now == TerminalProgress(request.size, n)
           last == TerminalProgress(request.size, processed)
<1>1. request.size \in Nat \cup {Unknown} /\ processed \in Nat
  BY EncryptionAssumption DEF IInv, TypeOK
<1>2. /\ now \in {1, 4} \X (0 .. 100) /\ last \in {1, 4} \X (0 .. 100)
      /\ last[1] = now[1] /\ last[2] <= now[2]
  BY <1>1, ProgressGrows
<1>3. /\ indicator \in {0, 1, 4} \X (0 .. 100)
      /\ ~request.terminal => indicator = Off
  BY DEF IInv, TypeOK, Tells
<1>4. CASE Draw(n)
  <2>1. request.terminal => indicator' = now
    BY <1>4 DEF Draw
  <2>2. ~request.terminal => UNCHANGED indicator
    BY <1>4 DEF Draw
  <2> HIDE DEF now, last
  <2>3. now[2] \in 0 .. now[2] /\ now \in {0, 1, 4} \X (0 .. 100)
    BY <1>2
  <2>4. QED BY <1>3, <2>1, <2>2, <2>3 DEF now
<1>5. CASE UNCHANGED indicator /\ pc \in Streaming
  <2>1. request.terminal => indicator[1] = last[1] /\ indicator[2] \in 0 .. last[2]
    BY <1>5 DEF IInv, Tells
  <2> HIDE DEF now, last
  <2>2. request.terminal => indicator[1] = now[1] /\ indicator[2] \in 0 .. now[2]
    BY <1>2, <2>1
  <2>3. QED BY <1>3, <1>5, <2>2 DEF now
<1>6. QED BY <1>4, <1>5

LEMMA HeaderStep == ASSUME IInv, WriteHeader, pc' # "err" PROVE IInv'
<1>1. /\ pc = "writeHeader" /\ file' = <<Header>> /\ Draw(0) /\ pc' = "read"
      /\ UNCHANGED <<request, consumed, piece, enciphered, held, processed, destination, error>>
  BY DEF WriteHeader, FailEarly, Goto
<1>2. /\ file = << >> /\ held = << >> /\ enciphered = << >> /\ destination = "before"
      /\ processed = 0 /\ piece = << >>
  BY <1>1 DEF IInv, FileIs, PublishesAll, ReadInOrder, Preparing
<1>3. /\ indicator' \in {0, 1, 4} \X (0 .. 100)
      /\ ~request.terminal => indicator' = Off
      /\ request.terminal =>
            /\ indicator'[1] = TerminalProgress(request.size, 0)[1]
            /\ indicator'[2] \in 0 .. TerminalProgress(request.size, 0)[2]
  BY <1>1, <1>2, DrawTells
<1>4. TypeOK'
  <2>1. Head(<<Header>>) = Header
    OBVIOUS
  <2>2. QED BY <1>1, <1>3, <2>1 DEF IInv, TypeOK, Streaming
<1>5. ReadInOrder'
  BY <1>1, <1>2 DEF IInv, ReadInOrder
<1>6. FileIs'
  <2>1. <<Header>> \in Seq(FileUnit)
    BY Units
  <2>2. QED BY <1>1, <1>2, <2>1, NothingEnciphered DEF FileIs, Preparing
<1>7. PublishesAll'
  BY <1>1, <1>2 DEF PublishesAll
<1>8. Tells'
  BY <1>1, <1>2, <1>3 DEF Tells, Preparing, Terminal
<1>9. QED BY <1>4, <1>5, <1>6, <1>7, <1>8 DEF IInv

LEMMA ReadStep == ASSUME IInv, Read PROVE IInv'
<1>1. PICK count \in 1 .. Least(BufferSize, MaxLength - Len(consumed)) :
         piece' \in [1 .. count -> Unit]
  BY DEF Read
<1>2. /\ pc = "read" /\ pc' = "chunk" /\ consumed' = consumed \o piece'
      /\ UNCHANGED <<request, enciphered, held, file, processed, indicator, destination, error>>
  BY DEF Read, Goto
<1>3. /\ consumed \in Seq(Unit) /\ Len(consumed) \in Nat /\ Len(consumed) <= MaxLength
      /\ enciphered \in Seq(Unit) /\ piece = << >> /\ enciphered \o piece = consumed
  BY <1>2, LenProperties DEF IInv, TypeOK, ReadInOrder
<1>4. /\ count \in Nat /\ count <= BufferSize /\ Len(consumed) + count <= MaxLength
  BY <1>1, <1>3, EncryptionAssumption DEF Least
<1>5. piece' \in Seq(Unit) /\ Len(piece') = count
  BY <1>1, <1>4, FunctionSeq
<1>6. consumed = enciphered
  BY <1>3, ConcatEmptySeq
<1>7. consumed' \in Seq(Unit) /\ Len(consumed') = Len(consumed) + count
  BY <1>2, <1>3, <1>5, ConcatProperties
<1>8. TypeOK'
  BY <1>2, <1>4, <1>5, <1>7 DEF IInv, TypeOK, Streaming
<1>9. ReadInOrder'
  BY <1>2, <1>6 DEF IInv, ReadInOrder
<1>10. FileIs'
  BY <1>2 DEF IInv, FileIs, Preparing
<1>11. PublishesAll'
  BY <1>2 DEF IInv, PublishesAll
<1>12. Tells'
  BY <1>2 DEF IInv, Tells, Streaming, Preparing, Terminal
<1>13. QED BY <1>8, <1>9, <1>10, <1>11, <1>12 DEF IInv

LEMMA EncryptStep == ASSUME IInv, Encrypt PROVE IInv'
<1> DEFINE more == Enciphered(piece, Len(enciphered))
           made == held \o more
<1>1. PICK kept \in 0 .. Least(BlockSize - 1, Len(made)) :
         /\ file' = file \o SubSeq(made, 1, Len(made) - kept)
         /\ held' = SubSeq(made, Len(made) - kept + 1, Len(made))
  BY DEF Encrypt
<1>2. /\ pc = "chunk" /\ pc' = "read" /\ enciphered' = enciphered \o piece /\ piece' = << >>
      /\ processed' = processed + Len(piece) /\ (Draw(processed') \/ UNCHANGED indicator)
      /\ UNCHANGED <<request, consumed, destination, error>>
  BY DEF Encrypt, Goto
<1>3. /\ consumed \in Seq(Unit) /\ Len(consumed) \in Nat /\ Len(consumed) <= MaxLength
      /\ enciphered \in Seq(Unit) /\ piece \in Seq(Unit) /\ enciphered \o piece = consumed
      /\ Len(enciphered) \in Nat /\ Len(piece) \in Nat /\ processed = Len(enciphered)
      /\ held \in Seq(CipherUnit) /\ file \in Seq(FileUnit) /\ file # << >>
      /\ file \o held = <<Header>> \o Enciphered(enciphered, 0)
  BY <1>2, LenProperties DEF IInv, TypeOK, ReadInOrder, FileIs
<1>4. Len(consumed) = Len(enciphered) + Len(piece)
  BY <1>3, ConcatProperties
<1>5. more \in Seq(CipherUnit)
  BY <1>3, <1>4, EncipheredIs
<1> HIDE DEF more
<1>6. made \in Seq(CipherUnit) /\ Len(made) \in Nat
  BY <1>3, <1>5, ConcatProperties, LenProperties
<1> DEFINE cut == Len(made) - kept
           front == SubSeq(made, 1, cut)
           back == SubSeq(made, cut + 1, Len(made))
<1>7. /\ kept \in 0 .. Len(made) /\ kept < BlockSize /\ cut \in 0 .. Len(made)
      /\ Len(made) - cut = kept
  <2>1. Len(made) \in Nat /\ kept \in Nat
    BY <1>1, <1>6
  <2> HIDE DEF made
  <2>2. QED BY <1>1, <2>1, EncryptionAssumption DEF Least
<1>8. /\ front \in Seq(CipherUnit) /\ back \in Seq(CipherUnit) /\ Len(back) = kept
      /\ front \o back = made
  <2> HIDE DEF made, cut
  <2>1. /\ SubSeq(made, 1, cut) \in Seq(CipherUnit)
        /\ SubSeq(made, cut + 1, Len(made)) \in Seq(CipherUnit)
        /\ Len(SubSeq(made, cut + 1, Len(made))) = Len(made) - cut
        /\ SubSeq(made, 1, cut) \o SubSeq(made, cut + 1, Len(made)) = made
    BY <1>6, <1>7, CutInTwo
  <2>2. QED BY <1>7, <2>1
<1>9. file' = file \o front /\ held' = back
  BY <1>1
<1> DEFINE sofar == Enciphered(enciphered, 0)
<1>10. /\ sofar \in Seq(FileUnit) /\ more \in Seq(FileUnit) /\ held \in Seq(FileUnit)
       /\ front \in Seq(FileUnit) /\ back \in Seq(FileUnit) /\ <<Header>> \in Seq(FileUnit)
  <2>1. sofar \in Seq(CipherUnit)
    <3>1. 0 + Len(enciphered) <= MaxLength
      BY <1>3, <1>4, EncryptionAssumption
    <3>2. QED BY <1>3, <3>1, EncipheredIs
  <2> HIDE DEF sofar, front, back
  <2>2. QED BY <1>3, <1>5, <1>8, <2>1, CipherInFile, Units
<1> HIDE DEF made, cut, front, back
<1>11. file' \o held' = <<Header>> \o Enciphered(enciphered', 0)
  <2> HIDE DEF sofar
  <2>1. file \in Seq(FileUnit) /\ front \o back = held \o more
    BY <1>3, <1>8 DEF made
  <2>2. (file \o front) \o back = (file \o held) \o more
    <3>1. (file \o front) \o back = file \o (front \o back)
      BY <1>10, <2>1, Associative
    <3>2. (file \o held) \o more = file \o (held \o more)
      BY <1>10, <2>1, Associative
    <3>3. QED BY <2>1, <3>1, <3>2
  <2>3. (<<Header>> \o sofar) \o more = <<Header>> \o (sofar \o more)
    BY <1>10, Associative
  <2>4. sofar \o more = Enciphered(enciphered', 0)
    BY <1>2, <1>3, EncipheredJoins DEF more, sofar
  <2>5. QED BY <1>3, <1>9, <2>2, <2>3, <2>4 DEF sofar
<1>12. file' \in Seq(FileUnit) /\ file' # << >> /\ Head(file') = Header
  <2>1. Head(file) = Header
    BY <1>3 DEF IInv, TypeOK
  <2>2. file \o front \in Seq(FileUnit)
    BY <1>3, <1>10, ConcatProperties
  <2>3. QED BY <1>3, <1>9, <1>10, <2>1, <2>2, HeadStays
<1>13. /\ enciphered' = consumed /\ processed' = Len(enciphered') /\ processed' \in Nat
       /\ processed <= processed'
  BY <1>2, <1>3, <1>4
<1>14. /\ indicator' \in {0, 1, 4} \X (0 .. 100)
       /\ ~request.terminal => indicator' = Off
       /\ request.terminal =>
             /\ indicator'[1] = TerminalProgress(request.size, processed')[1]
             /\ indicator'[2] \in 0 .. TerminalProgress(request.size, processed')[2]
  BY <1>2, <1>13, DrawTells DEF Streaming
<1>15. TypeOK'
  <2>1. consumed' \in Seq(Unit) /\ Len(consumed') <= MaxLength /\ processed' \in 0 .. MaxLength
    BY <1>2, <1>3, <1>13
  <2>2. piece' \in Seq(Unit) /\ Len(piece') <= BufferSize
    BY <1>2, EncryptionAssumption
  <2>3. held' \in Seq(CipherUnit) /\ Len(held') < BlockSize
    BY <1>7, <1>8, <1>9
  <2>4. enciphered' \in Seq(Unit) /\ Len(enciphered') <= MaxLength
    BY <1>3, <1>13
  <2>5. QED BY <1>2, <1>12, <1>14, <2>1, <2>2, <2>3, <2>4 DEF IInv, TypeOK, Streaming
<1>16. ReadInOrder'
  <2>1. enciphered' \o << >> = consumed'
    BY <1>2, <1>3, <1>13, ConcatEmptySeq
  <2>2. QED BY <1>2, <1>13, <2>1 DEF ReadInOrder
<1>17. FileIs'
  BY <1>2, <1>11, <1>12 DEF FileIs, Preparing
<1>18. PublishesAll'
  BY <1>2 DEF IInv, PublishesAll
<1>19. Tells'
  BY <1>2, <1>14 DEF Tells, Preparing, Terminal
<1>20. QED BY <1>15, <1>16, <1>17, <1>18, <1>19 DEF IInv

\* Nothing is held back any more, and the tag comes behind the last unit.
LEMMA FinalizeStep == ASSUME IInv, Finalize PROVE IInv'
<1>1. /\ pc = "finalize" /\ pc' = "tag" /\ file' = file \o held /\ held' = << >>
      /\ UNCHANGED <<request, consumed, piece, enciphered, processed, indicator, destination,
                     error>>
  BY DEF Finalize, Goto
<1>2. /\ file \in Seq(FileUnit) /\ file # << >> /\ held \in Seq(FileUnit) /\ Head(file) = Header
      /\ file \o held = <<Header>> \o Enciphered(enciphered, 0)
  BY <1>1, CipherInFile DEF IInv, TypeOK, FileIs
<1>3. file' \in Seq(FileUnit) /\ file' # << >> /\ Head(file') = Header
  <2>1. file \o held \in Seq(FileUnit)
    BY <1>2, ConcatProperties
  <2>2. QED BY <1>1, <1>2, <2>1, HeadStays
<1>4. TypeOK'
  <2>1. held' \in Seq(CipherUnit) /\ Len(held') < BlockSize
    BY <1>1, EncryptionAssumption
  <2>2. QED BY <1>1, <1>3, <2>1 DEF IInv, TypeOK, Streaming
<1>5. ReadInOrder'
  BY <1>1 DEF IInv, ReadInOrder
<1>6. FileIs'
  <2>1. file' \o held' = file'
    BY <1>1, <1>3, ConcatEmptySeq
  <2>2. QED BY <1>1, <1>2, <1>3, <2>1 DEF FileIs, Preparing
<1>7. PublishesAll'
  BY <1>1 DEF IInv, PublishesAll
<1>8. Tells'
  BY <1>1 DEF IInv, Tells, Streaming, Preparing, Terminal
<1>9. QED BY <1>4, <1>5, <1>6, <1>7, <1>8 DEF IInv

LEMMA TagStep == ASSUME IInv, WriteTag PROVE IInv'
<1>1. /\ pc = "tag" /\ pc' = "commit" /\ file' = file \o Tag(enciphered)
      /\ UNCHANGED <<request, consumed, piece, enciphered, held, processed, indicator,
                     destination, error>>
  BY DEF WriteTag, Goto
<1>2. /\ file \in Seq(FileUnit) /\ file # << >> /\ Head(file) = Header
      /\ file \o held = <<Header>> \o Enciphered(enciphered, 0) /\ held = << >>
      /\ enciphered \in Seq(Unit) /\ Len(enciphered) \in Nat /\ Len(enciphered) <= MaxLength
      /\ enciphered \o piece = consumed /\ piece = << >>
  BY <1>1, LenProperties DEF IInv, TypeOK, FileIs, ReadInOrder
<1>3. file = <<Header>> \o Enciphered(enciphered, 0) /\ enciphered = consumed
  BY <1>2, ConcatEmptySeq
<1>4. Tag(enciphered) \in Seq(FileUnit)
  BY <1>2, TagIs
<1>5. file' \in Seq(FileUnit) /\ file' # << >> /\ Head(file') = Header
  <2>1. file \o Tag(enciphered) \in Seq(FileUnit)
    BY <1>2, <1>4, ConcatProperties
  <2>2. QED BY <1>1, <1>2, <1>4, <2>1, HeadStays
<1>6. file' = <<Header>> \o Sealing(consumed)
  <2>1. Enciphered(enciphered, 0) \in Seq(FileUnit) /\ <<Header>> \in Seq(FileUnit)
    <3>1. 0 + Len(enciphered) <= MaxLength
      BY <1>2
    <3>2. Enciphered(enciphered, 0) \in Seq(CipherUnit)
      BY <1>2, <3>1, EncipheredIs
    <3>3. QED BY <3>2, CipherInFile, Units
  <2>2. (<<Header>> \o Enciphered(enciphered, 0)) \o Tag(enciphered)
          = <<Header>> \o (Enciphered(enciphered, 0) \o Tag(enciphered))
    BY <1>4, <2>1, ConcatAssociative
  <2>3. QED BY <1>1, <1>3, <2>2 DEF Sealing
<1>7. TypeOK'
  BY <1>1, <1>5 DEF IInv, TypeOK, Streaming
<1>8. ReadInOrder'
  BY <1>1 DEF IInv, ReadInOrder
<1>9. FileIs'
  BY <1>1, <1>5 DEF FileIs, Preparing
<1>10. PublishesAll'
  BY <1>1, <1>3, <1>6 DEF IInv, PublishesAll
<1>11. Tells'
  BY <1>1 DEF IInv, Tells, Streaming, Preparing, Terminal
<1>12. QED BY <1>7, <1>8, <1>9, <1>10, <1>11 DEF IInv

LEMMA StepIs ==
    ASSUME Step
    PROVE  Quiet \/ (WriteHeader /\ pc' # "err") \/ Read \/ Encrypt \/ Finalize \/ WriteTag
<1>1. WriteHeader => Quiet \/ (WriteHeader /\ pc' # "err")
  BY DEF Quiet
<1>2. Step => Quiet \/ WriteHeader \/ Read \/ Encrypt \/ Finalize \/ WriteTag
  BY DEF Step, Prepare, Loop, Conclude, Quiet
<1>3. QED BY <1>1, <1>2

LEMMA NextIInv == IInv /\ [Next]_vars => IInv'
<1> SUFFICES ASSUME IInv, [Next]_vars PROVE IInv'
  OBVIOUS
<1>1. CASE UNCHANGED vars
  BY <1>1 DEF vars, IInv, TypeOK, ReadInOrder, FileIs, PublishesAll, Tells
<1>2. CASE Step
  BY <1>2, StepIs, QuietStep, HeaderStep, ReadStep, EncryptStep, FinalizeStep, TagStep
<1>3. QED BY <1>1, <1>2 DEF Next, Returned

\* What holds in every state of an encryption.
THEOREM Inductive == Spec => []IInv
<1>1. Init => IInv
  BY InitIInv
<1>2. IInv /\ [Next]_vars => IInv'
  BY NextIInv
<1>3. QED BY <1>1, <1>2, PTL DEF Spec

\* The types, for inputs of any length (encrypt).
THEOREM TypeCorrect == Spec => []TypeOK
<1>1. IInv => TypeOK
  BY DEF IInv
<1>2. QED BY <1>1, Inductive, PTL

\* Whatever is published, and all that a successful run published, is the header, the
\* encryption of every unit that was read, in order, and the tag over all of them
\* (application.rs, encrypt: the header first, what finalize returns, the tag last).
SealsAll ==
    /\ destination = "result" => file = <<Header>> \o Sealing(consumed)
    /\ pc = "ok" => destination = "result"

\* SealsAll needs that a run does not end well before it has committed.
Committed == pc \in {"finish", "ok"} => destination = "result"

LEMMA CommittedStep == ASSUME Committed, [Next]_vars PROVE Committed'
<1>1. CASE Finish \/ UNCHANGED vars \/ Returned
  BY <1>1 DEF Committed, Finish, Returned, vars, Goto
<1>2. CASE Commit
  BY <1>2 DEF Committed, Commit, Goto
<1>3. CASE Prepare \/ Loop \/ Finalize \/ WriteTag \/ CommitFails
  <2>1. pc' \notin {"finish", "ok"}
    BY <1>3 DEF Prepare, ReadKey, PrepareEncryption, OpenInput, NewOutput, WriteHeader, Loop, Read,
       ReadEnds, Encrypt, StreamFails, Finalize, WriteTag, CommitFails, FailEarly, Fail, Goto
  <2>2. QED BY <2>1 DEF Committed
<1>4. QED BY <1>1, <1>2, <1>3 DEF Next, Step, Conclude

\* SealsAll, for inputs of any length, in whatever pieces they are read and however
\* much the cipher holds back (application.rs, encrypt).
THEOREM AllIsSealed == Spec => []SealsAll
<1>1. Init => Committed
  BY DEF Init, Committed
<1>2. Committed /\ [Next]_vars => Committed'
  BY CommittedStep
<1>3. Spec => []Committed
  BY <1>1, <1>2, PTL DEF Spec
<1>4. IInv /\ Committed => SealsAll
  BY DEF IInv, PublishesAll, Committed, SealsAll
<1>5. QED BY <1>3, <1>4, Inductive, PTL

\* The progress shown only grows, and is gone when the run is over, whatever the size
\* of the input was said to be (progress.rs, terminal_progress and drop).
THEOREM HonestIndicator == Spec => IndicatorHonest
<1> DEFINE Honest ==
       /\ pc' \in Terminal => indicator' = Off
       /\ indicator # Off /\ indicator' # Off =>
             /\ indicator'[1] = indicator[1]
             /\ indicator'[2] \in indicator[2] .. 100
<1>1. IInv /\ IInv' /\ [Next]_vars => [Honest]_vars
  <2> SUFFICES ASSUME IInv, IInv', Next PROVE Honest
    OBVIOUS
  <2>1. pc' \in Terminal => indicator' = Off
    BY DEF IInv, Tells
  <2>2. ASSUME UNCHANGED indicator \/ indicator = Off \/ indicator' = Off PROVE Honest
    <3>1. indicator \in {0, 1, 4} \X (0 .. 100)
      BY DEF IInv, TypeOK
    <3>2. QED BY <2>1, <2>2, <3>1
  <2>3. CASE Quiet
    <3>1. UNCHANGED indicator \/ Clear
      BY <2>3, QuietMoves
    <3>2. QED BY <2>2, <3>1 DEF Clear
  <2>4. CASE WriteHeader
    <3>1. indicator = Off
      BY <2>4 DEF IInv, Tells, WriteHeader, Preparing
    <3>2. QED BY <2>2, <3>1
  <2>5. CASE Read \/ Finalize \/ WriteTag \/ Returned
    BY <2>2, <2>5 DEF Read, Finalize, WriteTag, Returned, vars
  <2>6. CASE Encrypt
    <3>1. CASE UNCHANGED indicator
      BY <2>2, <3>1
    <3>2. CASE Draw(processed')
      <4>1. CASE ~request.terminal
        BY <2>2, <3>2, <4>1 DEF Draw
      <4>2. CASE request.terminal
        <5> DEFINE now == TerminalProgress(request.size, processed')
                   last == TerminalProgress(request.size, processed)
        <5>1. indicator' = now
          BY <3>2, <4>2 DEF Draw
        <5>2. indicator[1] = last[1] /\ indicator[2] \in 0 .. last[2]
          BY <2>6, <4>2 DEF IInv, Tells, Encrypt, Streaming
        <5>3. /\ request.size \in Nat \cup {Unknown} /\ processed \in Nat /\ processed' \in Nat
              /\ processed <= processed'
          <6>1. piece \in Seq(Unit) /\ processed' = processed + Len(piece) /\ processed \in Nat
            BY <2>6 DEF IInv, TypeOK, Encrypt
          <6>2. QED BY <6>1, LenProperties, EncryptionAssumption DEF IInv, TypeOK
        <5>4. /\ now \in {1, 4} \X (0 .. 100) /\ last \in {1, 4} \X (0 .. 100)
              /\ last[1] = now[1] /\ last[2] <= now[2]
          BY <5>3, ProgressGrows
        <5> HIDE DEF now, last
        <5>5. QED BY <2>1, <5>1, <5>2, <5>4
      <4>3. QED BY <4>1, <4>2
    <3>3. QED BY <2>6, <3>1, <3>2 DEF Encrypt
  <2>7. QED BY <2>3, <2>4, <2>5, <2>6, StepIs DEF Next
<1>2. QED BY <1>1, Inductive, PTL DEF Spec, IndicatorHonest

=====
