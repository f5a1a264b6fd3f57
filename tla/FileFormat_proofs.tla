-------------------------- MODULE FileFormat_proofs --------------------------
(***************************************************************************)
(* FileFormat: proofs, for every base, every limit and every stored file.  *)
(***************************************************************************)
EXTENDS FileFormat, SequenceTheorems, TLAPS

-----------------------------------------------------------------------------
(* Numbers and their bytes.                                                *)

\* A byte is a natural number, and 0 and 1 are bytes.
LEMMA Bytes01 == Byte \subseteq Nat /\ 0 \in Byte /\ 1 \in Byte
  BY FormatAssumption DEF Byte

\* Quotients of natural numbers are natural numbers.
LEMMA QuotientNat == ASSUME NEW n \in Nat, NEW d \in Nat, d > 0 PROVE n \div d \in Nat
  OBVIOUS

\* to_be_bytes gives bytes.
LEMMA ToU16Bytes ==
    ASSUME NEW n \in Nat PROVE ToU16(n) \in Seq(Byte) /\ Len(ToU16(n)) = 2
<1>1. n % Base \in Byte /\ n \div Base \in Nat
  BY FormatAssumption DEF Byte
<1>2. (n \div Base) % Base \in Byte
  BY <1>1, FormatAssumption DEF Byte
<1>3. QED BY <1>1, <1>2 DEF ToU16

\* The version numbers are their own low bytes.
LEMMA ToU16Versions == ToU16(1) = <<0, 1>> /\ ToU16(0) = <<0, 0>>
<1>1. 1 % Base = 1 /\ 1 \div Base = 0 /\ 0 % Base = 0 /\ 0 \div Base = 0
  BY FormatAssumption
<1>2. QED BY <1>1 DEF ToU16

\* from_be_bytes gives numbers.
LEMMA FromU16Nat ==
    ASSUME NEW bytes \in Seq(Byte), Len(bytes) = 2
    PROVE  FromU16(bytes) \in Nat
<1>1. bytes[1] \in Nat /\ bytes[2] \in Nat
  <2>1. 1 \in 1 .. Len(bytes) /\ 2 \in 1 .. Len(bytes)
    OBVIOUS
  <2>2. bytes[1] \in Byte /\ bytes[2] \in Byte
    BY <2>1, ElementOfSeq
  <2>3. QED BY <2>2, Bytes01
<1>2. QED BY <1>1, FormatAssumption DEF FromU16

\* Only 0, 1 is read as the number one.
LEMMA FromU16One ==
    ASSUME NEW bytes \in Seq(Byte), Len(bytes) = 2, FromU16(bytes) = 1
    PROVE  bytes = <<0, 1>>
<1>1. bytes[1] \in Nat /\ bytes[2] \in Nat
  <2>1. 1 \in 1 .. Len(bytes) /\ 2 \in 1 .. Len(bytes)
    OBVIOUS
  <2>2. bytes[1] \in Byte /\ bytes[2] \in Byte
    BY <2>1, ElementOfSeq
  <2>3. QED BY <2>2, Bytes01
<1>2. bytes[1] * Base + bytes[2] = 1
  BY DEF FromU16
<1>3. bytes[1] = 0
  <2>1. SUFFICES ASSUME bytes[1] # 0 PROVE FALSE
    OBVIOUS
  <2>2. PICK n \in Nat : bytes[1] = n + 1
    BY <1>1, <2>1
  <2>3. bytes[1] * Base = n * Base + Base /\ n * Base \in Nat
    BY <2>2, FormatAssumption
  <2>4. QED BY <1>1, <1>2, <2>3, FormatAssumption
<1>4. bytes[2] = 1
  BY <1>1, <1>2, <1>3, FormatAssumption
<1>5. QED BY <1>3, <1>4

\* A number is a quotient and a remainder, and no others fit.
LEMMA Euclid ==
    ASSUME NEW n \in Nat, NEW d \in Nat, d > 0
    PROVE  n \div d \in Nat /\ n % d \in 0 .. d - 1 /\ n = d * (n \div d) + (n % d)
  OBVIOUS

LEMMA Quotient ==
    ASSUME NEW d \in Nat, d > 0, NEW q \in Nat, NEW r \in 0 .. d - 1, NEW n \in Nat,
           n = d * q + r
    PROVE  n \div d = q /\ n % d = r
<1> DEFINE p == n \div d
           s == n % d
<1>1. p \in Nat /\ s \in 0 .. d - 1 /\ n = d * p + s
  BY Euclid
<1> HIDE DEF p, s
<1>2. ASSUME NEW i \in Nat, NEW j \in Nat, i < j PROVE d * i + d <= d * j
  <2>1. PICK k \in Nat : j = i + 1 + k
    <3>1. j - i - 1 \in Nat /\ j = i + 1 + (j - i - 1)
      BY <1>2
    <3>2. QED BY <3>1
  <2>2. d * j = d * i + d + d * k /\ d * k \in Nat
    BY <2>1
  <2>3. QED BY <2>2
<1>3. p = q
  <2>1. ~(p < q)
    <3>1. SUFFICES ASSUME p < q PROVE FALSE
      OBVIOUS
    <3>2. d * p + d <= d * q
      BY <1>1, <1>2, <3>1
    <3>3. d * p \in Nat /\ d * q \in Nat
      BY <1>1
    <3>4. QED BY <1>1, <3>2, <3>3
  <2>2. ~(q < p)
    <3>1. SUFFICES ASSUME q < p PROVE FALSE
      OBVIOUS
    <3>2. d * q + d <= d * p
      BY <1>1, <1>2, <3>1
    <3>3. d * p \in Nat /\ d * q \in Nat
      BY <1>1
    <3>4. QED BY <1>1, <3>2, <3>3
  <2>3. QED BY <1>1, <2>1, <2>2
<1>4. s = r
  <2>1. d * q \in Nat
    OBVIOUS
  <2>2. QED BY <1>1, <1>3, <2>1
<1>5. QED BY <1>3, <1>4 DEF p, s

\* A quotient is less than what the number is less than that many times of.
LEMMA QuotientLess ==
    ASSUME NEW d \in Nat, d > 0, NEW m \in Nat, NEW n \in Nat, n < d * m
    PROVE  n \div d < m
<1> DEFINE p == n \div d
           s == n % d
<1>1. p \in Nat /\ s \in 0 .. d - 1 /\ n = d * p + s
  BY Euclid
<1> HIDE DEF p, s
<1>2. SUFFICES ASSUME m <= p PROVE FALSE
  BY <1>1 DEF p
<1>3. PICK k \in Nat : p = m + k
  <2>1. p - m \in Nat /\ p = m + (p - m)
    BY <1>1, <1>2
  <2>2. QED BY <2>1
<1>4. d * p = d * m + d * k /\ d * k \in Nat /\ d * m \in Nat
  BY <1>3
<1>5. QED BY <1>1, <1>4

\* What is less than the divisor is its own remainder.
LEMMA OwnRemainder == ASSUME NEW d \in Nat, d > 0, NEW n \in 0 .. d - 1 PROVE n % d = n
<1>1. n = d * 0 + n
  OBVIOUS
<1>2. QED BY <1>1, Quotient

\* from_be_bytes gives back what to_be_bytes was given, where it fits.
LEMMA FromTo16 ==
    ASSUME NEW n \in Nat, n < Base * Base
    PROVE  FromU16(ToU16(n)) = n
<1> DEFINE q == n \div Base
           r == n % Base
<1>1. Base \in Nat /\ Base > 0
  BY FormatAssumption
<1>2. q \in Nat /\ r \in 0 .. Base - 1 /\ n = Base * q + r
  BY <1>1, Euclid
<1>3. q < Base
  BY <1>1, QuotientLess
<1>4. q % Base = q
  <2> HIDE DEF q, r
  <2>1. q \in 0 .. Base - 1
    BY <1>1, <1>2, <1>3
  <2>2. QED BY <1>1, <2>1, OwnRemainder
<1>5. ToU16(n) = <<q % Base, r>>
  BY DEF ToU16
<1> HIDE DEF q, r
<1>6. FromU16(<<q, r>>) = q * Base + r
  BY DEF FromU16
<1>7. QED BY <1>1, <1>2, <1>4, <1>5, <1>6

LEMMA FromTo32 ==
    ASSUME NEW n \in Nat, n < Base * Base * Base * Base
    PROVE  FromU32(ToU32(n)) = n
<1> DEFINE q == n \div Base
           r == n % Base
           a == q \div Base
           b == q % Base
           x == a \div Base
           y == a % Base
<1>1. Base \in Nat /\ Base > 0 /\ Base * Base \in Nat /\ Base * Base > 0
      /\ Base * Base * Base \in Nat
  BY FormatAssumption
<1>2. q \in Nat /\ r \in 0 .. Base - 1 /\ n = Base * q + r
  BY <1>1, Euclid
<1>3. q < Base * Base * Base
  <2>1. n < Base * (Base * Base * Base)
    BY <1>1
  <2>2. QED BY <1>1, <2>1, QuotientLess
<1> HIDE DEF q, r
<1>4. a \in Nat /\ b \in 0 .. Base - 1 /\ q = Base * a + b
  BY <1>1, <1>2, Euclid
<1>5. a < Base * Base
  <2>1. q < Base * (Base * Base)
    BY <1>1, <1>2, <1>3
  <2>2. QED BY <1>1, <1>2, <2>1, QuotientLess
<1> HIDE DEF a, b
<1>6. x \in Nat /\ y \in 0 .. Base - 1 /\ a = Base * x + y
  BY <1>1, <1>4, Euclid
<1>7. x < Base
  BY <1>1, <1>4, <1>5, QuotientLess
<1>8. x % Base = x
  <2> HIDE DEF x, y
  <2>1. x \in 0 .. Base - 1
    BY <1>1, <1>6, <1>7
  <2>2. QED BY <1>1, <2>1, OwnRemainder
<1>9. n \div (Base * Base) = a
  <2> DEFINE rest == Base * b + r
  <2>1. rest \in 0 .. Base * Base - 1
    <3>1. PICK k \in Nat : Base = b + 1 + k
      <4>1. Base - 1 - b \in Nat /\ Base = b + 1 + (Base - 1 - b)
        BY <1>1, <1>4
      <4>2. QED BY <4>1
    <3>2. Base * Base = Base * b + Base + Base * k /\ Base * k \in Nat /\ Base * b \in Nat
      BY <1>1, <1>4, <3>1
    <3>3. QED BY <1>1, <1>2, <3>2
  <2>2. n = (Base * Base) * a + rest
    <3>1. Base * (Base * a + b) = (Base * Base) * a + Base * b
      BY <1>1, <1>4
    <3>2. QED BY <1>1, <1>2, <1>4, <3>1
  <2> HIDE DEF rest
  <2>3. QED BY <1>1, <1>4, <2>1, <2>2, Quotient
<1>10. ToU32(n) = <<x % Base, y>> \o <<b, r>>
  BY <1>9 DEF ToU32, ToU16, q, r, a, b
<1> HIDE DEF x, y
<1>11. FromU32(<<x, y>> \o <<b, r>>) = ((x * Base + y) * Base + b) * Base + r
  BY DEF FromU32
<1>12. x * Base + y = a /\ a * Base + b = q /\ q * Base + r = n
  BY <1>1, <1>2, <1>4, <1>6
<1>13. QED BY <1>8, <1>10, <1>11, <1>12

-----------------------------------------------------------------------------
(* Headers are bytes.                                                      *)

LEMMA PreambleBytes ==
    ASSUME NEW n \in Nat
    PROVE  Preamble(n) \in Seq(Byte) /\ Len(Preamble(n)) = PreambleSize
<1>1. ToU16(n) \in Seq(Byte) /\ Len(ToU16(n)) = 2
  BY ToU16Bytes
<1>2. MagicPrefix \in Seq(Byte)
  BY FormatAssumption
<1>3. /\ MagicPrefix \o ToU16(n) \in Seq(Byte)
      /\ Len(MagicPrefix \o ToU16(n)) = Len(MagicPrefix) + Len(ToU16(n))
  BY ONLY <1>1, <1>2, ConcatProperties
<1>4. QED BY <1>1, <1>3 DEF Preamble, PreambleSize

-----------------------------------------------------------------------------
(* The layout of a header.                                                 *)

\* The part in the middle of three.
LEMMA Middle ==
    ASSUME NEW s \in Seq(Byte), NEW t \in Seq(Byte), NEW u \in Seq(Byte)
    PROVE  SubSeq((s \o t) \o u, Len(s) + 1, Len(s) + Len(t)) = t
<1> DEFINE w == (s \o t) \o u
           i == Len(s)
           n == Len(t)
<1>1. i \in Nat /\ n \in Nat /\ Len(u) \in Nat
  BY LenProperties
<1>2. s \o t \in Seq(Byte) /\ Len(s \o t) = i + n
  BY ConcatProperties
<1>3. w \in Seq(Byte) /\ Len(w) = i + n + Len(u)
  BY <1>2, ConcatProperties
<1>4. \A j \in 1 .. n : w[i + j] = t[j]
  <2> TAKE j \in 1 .. n
  <2>1. i + j \in 1 .. Len(s \o t) + Len(u) /\ i + j <= Len(s \o t)
    BY <1>1, <1>2
  <2>2. w[i + j] = (s \o t)[i + j]
    BY <1>2, <2>1, ConcatProperties
  <2>3. i + j \in 1 .. Len(s) + Len(t) /\ ~(i + j <= Len(s)) /\ i + j - Len(s) = j
    BY <1>1
  <2>4. (s \o t)[i + j] = t[i + j - Len(s)]
    BY <2>3, ConcatProperties
  <2>5. QED BY <2>2, <2>3, <2>4
<1> HIDE DEF w, i, n
<1> DEFINE v == SubSeq(w, i + 1, i + n)
<1>5. \A j \in i + 1 .. i + n : w[j] \in Byte
  <2>1. \A j \in 1 .. Len(w) : w[j] \in Byte
    BY <1>3, ElementOfSeq
  <2>2. i + 1 .. i + n \subseteq 1 .. Len(w)
    BY <1>1, <1>3
  <2>3. QED BY <2>1, <2>2
<1>6. /\ v \in Seq(Byte)
      /\ Len(v) = IF i + 1 <= i + n THEN i + n - (i + 1) + 1 ELSE 0
      /\ \A j \in 1 .. i + n - (i + 1) + 1 : v[j] = w[i + 1 + j - 1]
  BY <1>1, <1>5, SubSeqProperties
<1>7. Len(v) = n
  BY <1>1, <1>6
<1>8. \A j \in 1 .. Len(v) : v[j] = t[j]
  <2> TAKE j \in 1 .. Len(v)
  <2>1. j \in 1 .. i + n - (i + 1) + 1 /\ i + 1 + j - 1 = i + j /\ j \in 1 .. n
    BY <1>1, <1>7
  <2>2. QED BY <1>4, <1>6, <2>1
<1> HIDE DEF v
<1>9. v = t
  BY <1>6, <1>7, <1>8, SeqEqual DEF n
<1>10. QED BY <1>9 DEF v, w, i, n

\* The order of concatenation does not matter.
LEMMA Reassociate ==
    ASSUME NEW s \in Seq(Byte), NEW t \in Seq(Byte), NEW u \in Seq(Byte)
    PROVE  (s \o t) \o u = s \o (t \o u)
  BY ConcatAssociative

\* Concatenation of bytes.
LEMMA Joined ==
    ASSUME NEW s \in Seq(Byte), NEW t \in Seq(Byte)
    PROVE  s \o t \in Seq(Byte) /\ Len(s \o t) = Len(s) + Len(t)
  BY ConcatProperties

\* The parts at either end.
LEMMA Ends ==
    ASSUME NEW s \in Seq(Byte), NEW t \in Seq(Byte)
    PROVE  /\ SubSeq(s \o t, 1, Len(s)) = s
           /\ SubSeq(s \o t, Len(s) + 1, Len(s) + Len(t)) = t
<1>1. << >> \in Seq(Byte) /\ Len(<< >>) = 0
  BY EmptySeq
<1>2. << >> \o s = s
  BY ConcatEmptySeq
<1>3. (s \o t) \o << >> = s \o t
  BY Joined, ConcatEmptySeq
<1>4. SubSeq((<< >> \o s) \o t, Len(<< >>) + 1, Len(<< >>) + Len(s)) = s
  BY <1>1, Middle
<1>5. SubSeq((s \o t) \o << >>, Len(s) + 1, Len(s) + Len(t)) = t
  BY <1>1, Middle
<1>6. Len(s) \in Nat
  BY LenProperties
<1>7. Len(<< >>) + 1 = 1 /\ Len(<< >>) + Len(s) = Len(s)
  BY <1>1, <1>6
<1>8. QED BY <1>2, <1>3, <1>4, <1>5, <1>7

\* m is the five fields, one after the other, and reads as them.
Joins(m, a, b, c, d, e) == m = (((a \o b) \o c) \o d) \o e
Reads(m, a, b, c, d, e) ==
    /\ m \in Seq(Byte) /\ Len(m) = 12
    /\ SubSeq(m, 1, 2) = a /\ SubSeq(m, 3, 4) = b /\ SubSeq(m, 5, 8) = c
    /\ SubSeq(m, 9, 10) = d /\ SubSeq(m, 11, 12) = e

\* The five fields of the metadata.
LEMMA Fields ==
    ASSUME NEW a \in Seq(Byte), NEW b \in Seq(Byte), NEW c \in Seq(Byte),
           NEW d \in Seq(Byte), NEW e \in Seq(Byte),
           Len(a) = 2, Len(b) = 2, Len(c) = 4, Len(d) = 2, Len(e) = 2,
           NEW m, Joins(m, a, b, c, d, e)
    PROVE  Reads(m, a, b, c, d, e)
<1> DEFINE ab == a \o b
           abc == ab \o c
           abcd == abc \o d
           de == d \o e
           cde == c \o de
<1>0. m = abcd \o e
  BY DEF Joins
<1>1. ab \in Seq(Byte) /\ Len(ab) = 4
  <2>1. ab \in Seq(Byte) /\ Len(ab) = Len(a) + Len(b)
    BY Joined
  <2>2. QED BY <2>1
<1>2. de \in Seq(Byte) /\ Len(de) = 4
  <2>1. de \in Seq(Byte) /\ Len(de) = Len(d) + Len(e)
    BY Joined
  <2>2. QED BY <2>1
<1> HIDE DEF ab, de
<1>3. abc \in Seq(Byte) /\ Len(abc) = 8
  <2>1. abc \in Seq(Byte) /\ Len(abc) = Len(ab) + Len(c)
    BY <1>1, Joined
  <2>2. QED BY <1>1, <2>1
<1>4. cde \in Seq(Byte) /\ Len(cde) = 8
  <2>1. cde \in Seq(Byte) /\ Len(cde) = Len(c) + Len(de)
    BY <1>2, Joined
  <2>2. QED BY <1>2, <2>1
<1> HIDE DEF abc, cde
<1>5. abcd \in Seq(Byte) /\ Len(abcd) = 10
  <2>1. abcd \in Seq(Byte) /\ Len(abcd) = Len(abc) + Len(d)
    BY <1>3, Joined
  <2>2. QED BY <1>3, <2>1
<1> HIDE DEF abcd
<1>6. m \in Seq(Byte) /\ Len(m) = 12
  <2>1. m \in Seq(Byte) /\ Len(m) = Len(abcd) + Len(e)
    BY <1>0, <1>5, Joined
  <2>2. QED BY <1>5, <2>1
<1>7. m = abc \o de
  BY <1>0, <1>3, Reassociate DEF abcd, de
<1>8. m = ab \o cde
  BY <1>1, <1>2, <1>7, Reassociate DEF abc, cde
<1>9. SubSeq(m, 1, 2) = a
  <2>1. b \o cde \in Seq(Byte)
    BY <1>4, Joined
  <2>2. (a \o b) \o cde = a \o (b \o cde)
    BY <1>4, Reassociate
  <2>3. SubSeq(a \o (b \o cde), 1, Len(a)) = a
    BY <2>1, Ends
  <2>4. QED BY <1>8, <2>2, <2>3 DEF ab
<1>10. SubSeq(m, 3, 4) = b
  <2>1. SubSeq((a \o b) \o cde, Len(a) + 1, Len(a) + Len(b)) = b
    BY <1>4, Middle
  <2>2. Len(a) + 1 = 3 /\ Len(a) + Len(b) = 4
    OBVIOUS
  <2>3. QED BY <1>8, <2>1, <2>2 DEF ab
<1>11. SubSeq(m, 5, 8) = c
  <2>1. SubSeq((ab \o c) \o de, Len(ab) + 1, Len(ab) + Len(c)) = c
    BY <1>1, <1>2, Middle
  <2>2. Len(ab) + 1 = 5 /\ Len(ab) + Len(c) = 8
    BY <1>1
  <2>3. QED BY <1>7, <2>1, <2>2 DEF abc
<1>12. SubSeq(m, 9, 10) = d
  <2>1. SubSeq((abc \o d) \o e, Len(abc) + 1, Len(abc) + Len(d)) = d
    BY <1>3, Middle
  <2>2. Len(abc) + 1 = 9 /\ Len(abc) + Len(d) = 10
    BY <1>3
  <2>3. QED BY <1>0, <2>1, <2>2 DEF abcd
<1>13. SubSeq(m, 11, 12) = e
  <2>1. SubSeq(abcd \o e, Len(abcd) + 1, Len(abcd) + Len(e)) = e
    BY <1>5, Ends
  <2>2. Len(abcd) + 1 = 11 /\ Len(abcd) + Len(e) = 12
    BY <1>5
  <2>3. QED BY <1>0, <2>1, <2>2
<1>14. QED BY <1>6, <1>9, <1>10, <1>11, <1>12, <1>13 DEF Reads

\* What a header that is written is made of.
LEMMA HeaderParts ==
    ASSUME NEW h \in Header
    PROVE  /\ h.keyEstablishment \in KeyEstablishment /\ h.dataCipher \in DataCipher
           /\ h.tagSize = TagSize
           /\ h.keyMaterial \in Seq(Byte) /\ h.nonce \in Seq(Byte)
           /\ Len(h.keyMaterial) \in 1 .. MaxKeyMaterial /\ Len(h.nonce) = NonceSize
           /\ h = [keyEstablishment |-> h.keyEstablishment, dataCipher |-> h.dataCipher,
                   keyMaterial |-> h.keyMaterial, nonce |-> h.nonce, tagSize |-> h.tagSize]
  BY HeaderAssumption

\* Its numbers fit their fields.
LEMMA HeaderFits ==
    ASSUME NEW h \in Header
    PROVE  /\ h.keyEstablishment \in Nat /\ h.keyEstablishment < Base * Base
           /\ h.dataCipher \in Nat /\ h.dataCipher < Base * Base
           /\ h.tagSize \in Nat /\ h.tagSize < Base * Base
           /\ Len(h.nonce) \in Nat /\ Len(h.nonce) < Base * Base
           /\ Len(h.keyMaterial) \in Nat /\ Len(h.keyMaterial) < Base * Base * Base * Base
<1> DEFINE square == Base * Base
           fourth == Base * Base * Base * Base
<1>1. square \in Nat /\ fourth \in Nat
  BY FormatAssumption
<1>2. /\ KeyEstablishment \subseteq 0 .. square - 1 /\ DataCipher \subseteq 0 .. square - 1
      /\ MaxKeyMaterial < fourth
      /\ NonceSize \in 1 .. MaxNonce /\ MaxNonce < square
      /\ TagSize \in 1 .. MaxTag /\ MaxTag < square
  BY WidthAssumption
<1>3. MaxKeyMaterial \in Nat /\ MaxNonce \in Nat /\ MaxTag \in Nat
  BY FormatAssumption
<1> HIDE DEF square, fourth
<1>4. /\ h.keyEstablishment \in 0 .. square - 1 /\ h.dataCipher \in 0 .. square - 1
      /\ h.tagSize = TagSize /\ Len(h.nonce) = NonceSize
      /\ Len(h.keyMaterial) \in 1 .. MaxKeyMaterial
  BY <1>2, HeaderParts
<1>5. /\ h.keyEstablishment \in Nat /\ h.keyEstablishment < square
      /\ h.dataCipher \in Nat /\ h.dataCipher < square
      /\ h.tagSize \in Nat /\ h.tagSize < square
      /\ Len(h.nonce) \in Nat /\ Len(h.nonce) < square
      /\ Len(h.keyMaterial) \in Nat /\ Len(h.keyMaterial) < fourth
  BY <1>1, <1>2, <1>3, <1>4
<1>6. QED BY <1>5 DEF square, fourth

\* to_be_bytes gives four bytes.
LEMMA ToU32Bytes ==
    ASSUME NEW n \in Nat PROVE ToU32(n) \in Seq(Byte) /\ Len(ToU32(n)) = 4
<1>1. Base * Base \in Nat /\ Base * Base > 0
  BY FormatAssumption
<1>2. n \div (Base * Base) \in Nat
  BY <1>1, QuotientNat
<1> DEFINE s == ToU16(n \div (Base * Base))
           t == ToU16(n)
<1>3. s \in Seq(Byte) /\ Len(s) = 2 /\ t \in Seq(Byte) /\ Len(t) = 2
  BY <1>2, ToU16Bytes
<1>4. ToU32(n) = s \o t
  BY DEF ToU32
<1> HIDE DEF s, t
<1>5. s \o t \in Seq(Byte) /\ Len(s \o t) = Len(s) + Len(t)
  BY <1>3, Joined
<1>6. QED BY <1>3, <1>4, <1>5

\* The fields of the metadata are read as they were written.
LEMMA MetadataReads ==
    ASSUME NEW h \in Header
    PROVE  /\ Metadata(h) \in Seq(Byte) /\ Len(Metadata(h)) = MetadataSize
           /\ FromU16(SubSeq(Metadata(h), 1, 2)) = h.keyEstablishment
           /\ FromU16(SubSeq(Metadata(h), 3, 4)) = h.dataCipher
           /\ KeyMaterialLength(Metadata(h)) = Len(h.keyMaterial)
           /\ NonceLength(Metadata(h)) = Len(h.nonce)
           /\ TagLength(Metadata(h)) = h.tagSize
<1> DEFINE a == ToU16(h.keyEstablishment)
           b == ToU16(h.dataCipher)
           c == ToU32(Len(h.keyMaterial))
           d == ToU16(Len(h.nonce))
           e == ToU16(h.tagSize)
           m == (((a \o b) \o c) \o d) \o e
<1>1. /\ a \in Seq(Byte) /\ b \in Seq(Byte) /\ c \in Seq(Byte)
      /\ d \in Seq(Byte) /\ e \in Seq(Byte)
      /\ Len(a) = 2 /\ Len(b) = 2 /\ Len(c) = 4 /\ Len(d) = 2 /\ Len(e) = 2
  BY HeaderFits, ToU16Bytes, ToU32Bytes
<1>2. /\ FromU16(a) = h.keyEstablishment /\ FromU16(b) = h.dataCipher
      /\ FromU32(c) = Len(h.keyMaterial) /\ FromU16(d) = Len(h.nonce)
      /\ FromU16(e) = h.tagSize
  BY HeaderFits, FromTo16, FromTo32
<1>3. Metadata(h) = m
  BY DEF Metadata
<1>4. Joins(m, a, b, c, d, e)
  BY DEF Joins
<1> HIDE DEF a, b, c, d, e, m
<1>5. Reads(m, a, b, c, d, e)
  BY ONLY <1>1, <1>4, Fields
<1>6. QED
  BY <1>2, <1>3, <1>5 DEF Reads, KeyMaterialLength, NonceLength, TagLength, MetadataSize

\* A header: the preamble, the metadata, the key material and the nonce.
LEMMA HeaderLayout ==
    ASSUME NEW h \in Header
    PROVE  LET e == EncodeVersionedHeader(h)
               p == PreambleSize
               k == PreambleSize + MetadataSize
               n == PreambleSize + MetadataSize + Len(h.keyMaterial)
           IN  /\ e \in Seq(Byte) /\ Len(e) = n + Len(h.nonce)
               /\ SubSeq(e, 1, p) = Preamble(CurrentVersion)
               /\ SubSeq(e, p + 1, k) = Metadata(h)
               /\ SubSeq(e, k + 1, n) = h.keyMaterial
               /\ SubSeq(e, n + 1, n + Len(h.nonce)) = h.nonce
<1> DEFINE pre == Preamble(CurrentVersion)
           m == Metadata(h)
           km == h.keyMaterial
           nn == h.nonce
           e == EncodeVersionedHeader(h)
<1>1. /\ pre \in Seq(Byte) /\ Len(pre) = PreambleSize /\ PreambleSize \in Nat
      /\ m \in Seq(Byte) /\ Len(m) = MetadataSize /\ MetadataSize = 12
      /\ km \in Seq(Byte) /\ nn \in Seq(Byte) /\ Len(km) \in Nat /\ Len(nn) \in Nat
  BY HeaderParts, PreambleBytes, MetadataReads, LenProperties, FormatAssumption
     DEF CurrentVersion, MetadataSize, PreambleSize
<1>2. e = ((pre \o m) \o km) \o nn
  BY DEF EncodeVersionedHeader
<1> HIDE DEF pre, m, km, nn, e
<1> DEFINE pm == pre \o m
           pk == pm \o km
           kn == km \o nn
<1>3. pm \in Seq(Byte) /\ Len(pm) = PreambleSize + MetadataSize
  <2>1. pm \in Seq(Byte) /\ Len(pm) = Len(pre) + Len(m)
    BY <1>1, Joined
  <2>2. QED BY <1>1, <2>1
<1>4. kn \in Seq(Byte)
  BY <1>1, Joined
<1>5. e = (pre \o m) \o kn
  BY <1>1, <1>2, <1>3, Reassociate
<1> HIDE DEF pm, kn
<1>6. pk \in Seq(Byte) /\ Len(pk) = PreambleSize + MetadataSize + Len(km)
  BY <1>1, <1>3, Joined
<1>7. e = pk \o nn
  BY <1>2 DEF pm
<1>8. e = pre \o (m \o kn) /\ m \o kn \in Seq(Byte)
  <2>1. m \o kn \in Seq(Byte)
    BY <1>1, <1>4, Joined
  <2>2. (pre \o m) \o kn = pre \o (m \o kn)
    BY <1>1, <1>4, Reassociate
  <2>3. QED BY <1>5, <2>1, <2>2
<1>9. e = (pm \o km) \o nn
  BY <1>2 DEF pm
<1> HIDE DEF pk
<1>10. e \in Seq(Byte) /\ Len(e) = PreambleSize + MetadataSize + Len(km) + Len(nn)
  BY <1>1, <1>6, <1>7, Joined
<1>11. SubSeq(e, 1, PreambleSize) = pre
  <2>1. SubSeq(pre \o (m \o kn), 1, Len(pre)) = pre
    BY <1>1, <1>8, Ends
  <2>2. QED BY <1>1, <1>8, <2>1
<1>12. SubSeq(e, PreambleSize + 1, PreambleSize + MetadataSize) = m
  <2>1. SubSeq((pre \o m) \o kn, Len(pre) + 1, Len(pre) + Len(m)) = m
    BY <1>1, <1>4, Middle
  <2>2. QED BY <1>1, <1>5, <2>1
<1>13. SubSeq(e, PreambleSize + MetadataSize + 1,
              PreambleSize + MetadataSize + Len(km)) = km
  <2>1. SubSeq((pm \o km) \o nn, Len(pm) + 1, Len(pm) + Len(km)) = km
    BY <1>1, <1>3, Middle
  <2>2. QED BY <1>3, <1>9, <2>1
<1>14. SubSeq(e, PreambleSize + MetadataSize + Len(km) + 1,
              PreambleSize + MetadataSize + Len(km) + Len(nn)) = nn
  <2>1. SubSeq(pk \o nn, Len(pk) + 1, Len(pk) + Len(nn)) = nn
    BY <1>1, <1>6, Ends
  <2>2. QED BY <1>6, <1>7, <2>1
<1>15. QED
  BY <1>10, <1>11, <1>12, <1>13, <1>14 DEF pre, m, km, nn, e

\* So a header is bytes.
LEMMA HeaderBytes == ASSUME NEW h \in Header PROVE EncodeVersionedHeader(h) \in Seq(Byte)
  BY HeaderLayout

\* What storage does to a file leaves it a file.
LEMMA StoredBytes ==
    ASSUME NEW bytes \in Seq(Byte), NEW stored \in Stored(bytes) PROVE stored \in Seq(Byte)
<1>1. Len(bytes) \in Nat /\ DOMAIN bytes = 1 .. Len(bytes)
  BY LenProperties
<1>2. CASE \E length \in 0 .. Len(bytes) : stored = SubSeq(bytes, 1, length)
  <2>1. PICK length \in 0 .. Len(bytes) : stored = SubSeq(bytes, 1, length)
    BY <1>2
  <2>2. \A i \in 1 .. length : bytes[i] \in Byte
    BY <1>1, ElementOfSeq
  <2>3. QED BY <1>1, <2>1, <2>2, SubSeqProperties
<1>3. CASE \E i \in DOMAIN bytes, byte \in Byte : stored = [bytes EXCEPT ![i] = byte]
  BY <1>1, <1>3, ExceptSeq
<1>4. QED BY <1>2, <1>3 DEF Stored

-----------------------------------------------------------------------------
(* read_exact                                                              *)

ReaderTypeOK == file \in Seq(Byte) /\ position \in 0 .. Len(file) /\ buffer \in Nat

\* The buffer is filled with the bytes that continue what was read.
LEMMA Filled ==
    ASSUME ReaderTypeOK, ReadExact
    PROVE  /\ Bytes \in Seq(Byte) /\ Len(Bytes) = buffer
           /\ position' \in 0 .. Len(file) /\ position' = position + buffer
           /\ SubSeq(file, 1, position) \o Bytes = SubSeq(file, 1, position')
<1>1. Len(file) \in Nat /\ position \in Nat /\ position + buffer \in position .. Len(file)
  BY LenProperties DEF ReaderTypeOK, ReadExact
<1>2. position' = position + buffer
  BY DEF ReadExact
<1>3. Bytes \in Seq(Byte) /\ Len(Bytes) = buffer
  <2>1. \A i \in position + 1 .. position + buffer : file[i] \in Byte
    BY <1>1, ElementOfSeq DEF ReaderTypeOK
  <2>2. Bytes \in Seq(Byte)
    BY <1>1, <2>1, SubSeqProperties DEF Bytes, ReaderTypeOK
  <2>3. Len(Bytes) = IF position + 1 <= position + buffer
                       THEN position + buffer - (position + 1) + 1 ELSE 0
    BY <1>1, <2>1, SubSeqProperties DEF Bytes, ReaderTypeOK
  <2>4. QED BY <1>1, <2>2, <2>3 DEF ReaderTypeOK
<1>4. SubSeq(file, 1, position) \o Bytes = SubSeq(file, 1, position + buffer)
  <2>1. 1 \in 1 .. Len(file) + 1 /\ position \in 1 - 1 .. Len(file)
    BY <1>1
  <2>2. QED BY <1>1, <2>1, ConcatAdjacentSubSeq DEF Bytes, ReaderTypeOK
<1>5. QED BY <1>1, <1>2, <1>3, <1>4

\* A preamble ends with a number.
LEMMA PreambleNumber ==
    ASSUME NEW bytes \in Seq(Byte), Len(bytes) = PreambleSize
    PROVE  LET last == SubSeq(bytes, Len(MagicPrefix) + 1, PreambleSize)
           IN  last \in Seq(Byte) /\ Len(last) = 2 /\ FromU16(last) \in Nat
<1> DEFINE n == Len(MagicPrefix)
           last == SubSeq(bytes, n + 1, PreambleSize)
<1>1. n \in Nat /\ PreambleSize = n + 2
  BY FormatAssumption, LenProperties DEF PreambleSize
<1>2. last \in Seq(Byte) /\ Len(last) = 2
  <2>1. \A i \in n + 1 .. PreambleSize : bytes[i] \in Byte
    BY <1>1, ElementOfSeq
  <2>2. QED BY <1>1, <2>1, SubSeqProperties
<1>3. QED BY <1>2, FromU16Nat

\* The bytes of an accepted preamble are the preamble that is authenticated.
LEMMA PreambleIsOwn ==
    ASSUME NEW bytes \in Seq(Byte), Len(bytes) = PreambleSize,
           SubSeq(bytes, 1, Len(MagicPrefix)) = MagicPrefix,
           FromU16(SubSeq(bytes, Len(MagicPrefix) + 1, PreambleSize)) = CurrentVersion
    PROVE  bytes = Preamble(CurrentVersion)
<1> DEFINE n == Len(MagicPrefix)
           last == SubSeq(bytes, n + 1, PreambleSize)
<1>1. n \in Nat /\ PreambleSize = n + 2
  BY FormatAssumption, LenProperties DEF PreambleSize
<1>2. last \in Seq(Byte) /\ Len(last) = 2
  BY PreambleNumber
<1>3. bytes = MagicPrefix \o last
  <2>1. 1 \in 1 .. Len(bytes) + 1 /\ n \in 1 - 1 .. Len(bytes) /\ Len(bytes) \in n .. Len(bytes)
    BY <1>1
  <2>2. SubSeq(bytes, 1, n) \o SubSeq(bytes, n + 1, Len(bytes)) = SubSeq(bytes, 1, Len(bytes))
    BY <2>1, ConcatAdjacentSubSeq
  <2>3. QED BY <2>2, SubSeqFull
<1>4. FromU16(last) = 1
  BY DEF CurrentVersion
<1> HIDE DEF last
<1>5. last = ToU16(1)
  BY <1>2, <1>4, FromU16One, ToU16Versions
<1>6. QED BY <1>3, <1>5 DEF Preamble, CurrentVersion

-----------------------------------------------------------------------------
(* The inductive invariant.                                                *)

\* Where the reader is in the file, and that what it put together so far is what
\* it read so far.
Located ==
    /\ pc = "preamble" => position = 0 /\ buffer = PreambleSize
    /\ pc \in {"metadata", "keyMaterial", "nonce"} => version = CurrentVersion
    /\ pc = "metadata" =>
          buffer = MetadataSize /\ Preamble(CurrentVersion) = SubSeq(file, 1, position)
    /\ pc = "keyMaterial" =>
          Preamble(CurrentVersion) \o metadata = SubSeq(file, 1, position)
    /\ pc = "nonce" =>
          Preamble(CurrentVersion) \o metadata \o keyMaterial = SubSeq(file, 1, position)
    /\ version = CurrentVersion /\ pc \in {"method", "prepare", "session"} =>
          authenticated = SubSeq(file, 1, position)
    /\ pc \in {"method", "prepare"} =>
          \/ version = LegacyVersion /\ position = PreambleSize
          \/ version = CurrentVersion
    /\ pc \in {"legacyKey", "legacyNonce"} => version = LegacyVersion
    /\ pc = "legacyKey" => position = PreambleSize
    /\ pc = "legacyNonce" => position = PreambleSize + Len(keyMaterial)
    /\ pc = "session" => headerSize = position

\* Only lengths within the limits are waited for.
Limited ==
    /\ pc \in {"keyMaterial", "nonce"} => ValidateLengths(metadata)
    /\ AllocationBounded

IInv == TypeOK /\ Located /\ Limited

\* What a step leaves alone keeps its type.
LEMMA ReaderType == TypeOK => ReaderTypeOK
  BY DEF TypeOK, ReaderTypeOK

\* The first bytes of a file are bytes.
LEMMA ReadBytes ==
    ASSUME ReaderTypeOK
    PROVE  SubSeq(file, 1, position) \in Seq(Byte) /\ Len(SubSeq(file, 1, position)) = position
<1>1. position \in Nat /\ \A i \in 1 .. position : file[i] \in Byte
  BY ElementOfSeq, LenProperties DEF ReaderTypeOK
<1>2. QED BY <1>1, SubSeqProperties

LEMMA InitIInv == Init => IInv
<1> SUFFICES ASSUME Init PROVE IInv
  OBVIOUS
<1>1. Encoded \in Seq(Byte)
  BY HeaderBytes, StoredAssumption DEF Init, Encoded
<1>2. file \in Seq(Byte)
  <2>1. PICK body \in Body : file \in Stored(Encoded \o body)
    BY DEF Init
  <2>2. body \in Seq(Byte)
    BY StoredAssumption
  <2>3. Encoded \o body \in Seq(Byte)
    BY <1>1, <2>2, ConcatProperties
  <2>4. QED BY <2>1, <2>3, StoredBytes
<1>3. << >> \in Seq(Byte) /\ Len(<< >>) = 0
  BY EmptySeq
<1>4. PreambleSize \in Nat /\ Len(file) \in Nat
  BY <1>2, FormatAssumption, LenProperties DEF PreambleSize
<1>5. TypeOK
  BY <1>2, <1>3, <1>4 DEF Init, TypeOK, Reading, LegacyVersion, Error
<1>6. Located /\ Limited
  BY DEF Init, Located, Limited, AllocationBounded
<1>7. QED BY <1>5, <1>6 DEF IInv

-----------------------------------------------------------------------------
(* The steps that read.                                                    *)

LEMMA PreambleStep == IInv /\ ReadPreamble => IInv'
<1> SUFFICES ASSUME IInv, ReadPreamble PROVE IInv'
  OBVIOUS
<1>1. ReaderTypeOK /\ ReadExact /\ position = 0 /\ buffer = PreambleSize
  BY ReaderType DEF IInv, Located, ReadPreamble
<1>2. /\ Bytes \in Seq(Byte) /\ Len(Bytes) = PreambleSize
      /\ position' \in 0 .. Len(file) /\ position' = PreambleSize
      /\ SubSeq(file, 1, 0) \o Bytes = SubSeq(file, 1, position')
  BY <1>1, Filled, PreambleBytes DEF IInv, TypeOK
<1>3. Bytes = SubSeq(file, 1, position')
  <2>1. SubSeq(file, 1, 0) = << >>
    BY SubSeqEmpty
  <2>2. QED BY <1>2, <2>1, ConcatEmptySeq
<1> DEFINE magic == SubSeq(Bytes, 1, Len(MagicPrefix))
           number == FromU16(SubSeq(Bytes, Len(MagicPrefix) + 1, PreambleSize))
<1>4. /\ version' = number
      /\ IF magic = MagicPrefix /\ number \in {LegacyVersion, CurrentVersion}
           THEN IF number = LegacyVersion THEN Goto("method") /\ UNCHANGED buffer
                                          ELSE Await("metadata", MetadataSize)
           ELSE Fail("InvalidFormat")
      /\ UNCHANGED <<original, file, rsaSize, metadata, keyMaterial, nonce, authenticated, headerSize>>
  BY DEF ReadPreamble
<1>5. number \in Nat
  BY <1>2, PreambleNumber
<1>6. magic = MagicPrefix /\ number = CurrentVersion => Bytes = Preamble(CurrentVersion)
  BY <1>2, PreambleIsOwn
<1> HIDE DEF magic, number
<1>7. TypeOK'
  BY <1>1, <1>2, <1>4, <1>5
     DEF IInv, TypeOK, Goto, Await, Fail, Reading, Terminal, Error, MetadataSize
<1>8. Located'
  BY <1>2, <1>3, <1>4, <1>6
     DEF Located, Goto, Await, Fail, LegacyVersion, CurrentVersion
<1>9. Limited'
  BY <1>1, <1>4 DEF Limited, AllocationBounded, Goto, Await, Fail
<1>10. QED BY <1>7, <1>8, <1>9 DEF IInv

LEMMA MetadataStep == IInv /\ ReadMetadata => IInv'
<1> SUFFICES ASSUME IInv, ReadMetadata PROVE IInv'
  OBVIOUS
<1>1. /\ ReaderTypeOK /\ ReadExact /\ version = CurrentVersion /\ buffer = MetadataSize
      /\ Preamble(CurrentVersion) = SubSeq(file, 1, position)
  BY ReaderType DEF IInv, Located, ReadMetadata
<1>2. /\ Bytes \in Seq(Byte) /\ Len(Bytes) = MetadataSize
      /\ position' \in 0 .. Len(file)
      /\ SubSeq(file, 1, position) \o Bytes = SubSeq(file, 1, position')
  BY <1>1, Filled
<1>3. /\ metadata' = Bytes
      /\ IF ValidateLengths(Bytes)
           THEN Await("keyMaterial", KeyMaterialLength(Bytes))
           ELSE Fail("InvalidFormat")
      /\ UNCHANGED <<original, file, rsaSize, version, keyMaterial, nonce, authenticated, headerSize>>
  BY DEF ReadMetadata
<1>4. ValidateLengths(Bytes) =>
          KeyMaterialLength(Bytes) \in Nat /\ KeyMaterialLength(Bytes) <= MaxKeyMaterial
  BY FormatAssumption DEF ValidateLengths
<1>5. TypeOK'
  BY <1>2, <1>3, <1>4 DEF IInv, TypeOK, Goto, Await, Fail, Reading, Terminal, Error
<1>6. Located'
  BY <1>1, <1>2, <1>3 DEF Located, Goto, Await, Fail
<1>7. Limited'
  BY <1>1, <1>3, <1>4 DEF Limited, AllocationBounded, Goto, Await, Fail
<1>8. QED BY <1>5, <1>6, <1>7 DEF IInv

LEMMA KeyMaterialStep == IInv /\ ReadKeyMaterial => IInv'
<1> SUFFICES ASSUME IInv, ReadKeyMaterial PROVE IInv'
  OBVIOUS
<1>1. /\ ReaderTypeOK /\ ReadExact /\ version = CurrentVersion /\ ValidateLengths(metadata)
      /\ Preamble(CurrentVersion) \o metadata = SubSeq(file, 1, position)
  BY ReaderType DEF IInv, Located, Limited, ReadKeyMaterial
<1>2. /\ Bytes \in Seq(Byte) /\ position' \in 0 .. Len(file)
      /\ SubSeq(file, 1, position) \o Bytes = SubSeq(file, 1, position')
  BY <1>1, Filled
<1>3. /\ keyMaterial' = Bytes
      /\ Await("nonce", NonceLength(metadata))
      /\ UNCHANGED <<original, file, rsaSize, version, metadata, nonce, authenticated, headerSize>>
  BY DEF ReadKeyMaterial
<1>4. NonceLength(metadata) \in Nat /\ NonceLength(metadata) <= MaxNonce
  BY <1>1, FormatAssumption DEF ValidateLengths
<1>5. TypeOK'
  BY <1>2, <1>3, <1>4 DEF IInv, TypeOK, Goto, Await, Reading
<1>6. Located'
  BY <1>1, <1>2, <1>3 DEF Located, Goto, Await
<1>7. Limited'
  BY <1>1, <1>3, <1>4 DEF Limited, AllocationBounded, Goto, Await
<1>8. QED BY <1>5, <1>6, <1>7 DEF IInv

LEMMA NonceStep == IInv /\ ReadNonce => IInv'
<1> SUFFICES ASSUME IInv, ReadNonce PROVE IInv'
  OBVIOUS
<1>1. /\ ReaderTypeOK /\ ReadExact /\ version = CurrentVersion
      /\ Preamble(CurrentVersion) \o metadata \o keyMaterial = SubSeq(file, 1, position)
  BY ReaderType DEF IInv, Located, ReadNonce
<1>2. /\ Bytes \in Seq(Byte) /\ position' \in 0 .. Len(file)
      /\ SubSeq(file, 1, position) \o Bytes = SubSeq(file, 1, position')
  BY <1>1, Filled
<1>3. /\ nonce' = Bytes /\ authenticated' = AuthenticatedBytes(Bytes) /\ Goto("method")
      /\ UNCHANGED <<original, file, rsaSize, buffer, version, metadata, keyMaterial, headerSize>>
  BY DEF ReadNonce
<1>4. authenticated' = SubSeq(file, 1, position')
  BY <1>1, <1>2, <1>3 DEF AuthenticatedBytes
<1>5. authenticated' \in Seq(Byte)
  BY <1>1, <1>2, <1>4, ReadBytes, ConcatProperties
<1>6. TypeOK'
  BY <1>2, <1>3, <1>5 DEF IInv, TypeOK, Goto
<1>7. Located'
  BY <1>1, <1>3, <1>4 DEF Located, Goto
<1>8. Limited'
  BY <1>3 DEF IInv, Limited, AllocationBounded, Goto, ReadNonce
<1>9. QED BY <1>6, <1>7, <1>8 DEF IInv

LEMMA LegacyKeyStep == IInv /\ ReadLegacyKey => IInv'
<1> SUFFICES ASSUME IInv, ReadLegacyKey PROVE IInv'
  OBVIOUS
<1>1. ReaderTypeOK /\ ReadExact /\ version = LegacyVersion /\ position = PreambleSize
  BY ReaderType DEF IInv, Located, ReadLegacyKey
<1>2. /\ Bytes \in Seq(Byte) /\ Len(Bytes) = buffer
      /\ position' \in 0 .. Len(file) /\ position' = position + buffer
  BY <1>1, Filled
<1>3. /\ keyMaterial' = Bytes
      /\ Await("legacyNonce", LegacyNonceSize)
      /\ UNCHANGED <<original, file, rsaSize, version, metadata, nonce, authenticated, headerSize>>
  BY DEF ReadLegacyKey
<1>4. TypeOK'
  BY <1>2, <1>3, FormatAssumption DEF IInv, TypeOK, Goto, Await, Reading
<1>5. Located'
  BY <1>1, <1>2, <1>3 DEF Located, Goto, Await
<1>6. Limited'
  BY <1>3 DEF Limited, AllocationBounded, Goto, Await
<1>7. QED BY <1>4, <1>5, <1>6 DEF IInv

LEMMA LegacyNonceStep == IInv /\ ReadLegacyNonce => IInv'
<1> SUFFICES ASSUME IInv, ReadLegacyNonce PROVE IInv'
  OBVIOUS
<1>1. /\ ReaderTypeOK /\ ReadExact /\ version = LegacyVersion /\ pc = "legacyNonce"
      /\ position = PreambleSize + Len(keyMaterial)
  BY ReaderType DEF IInv, Located, ReadLegacyNonce
<1>2. /\ Bytes \in Seq(Byte) /\ Len(Bytes) = buffer
      /\ position' \in 0 .. Len(file) /\ position' = position + buffer
  BY <1>1, Filled
<1>3. /\ nonce' = Bytes
      /\ \/ /\ Unwraps(keyMaterial) /\ Goto("session") /\ UNCHANGED buffer
            /\ headerSize' = PreambleSize + Len(keyMaterial) + Len(Bytes)
         \/ Fail("Key") /\ UNCHANGED headerSize
      /\ UNCHANGED <<original, file, rsaSize, version, metadata, keyMaterial, authenticated>>
  BY DEF ReadLegacyNonce
<1>4. headerSize' = position' \/ (pc' = "err" /\ UNCHANGED headerSize)
  <2>1. position' = PreambleSize + Len(keyMaterial) + Len(Bytes)
    BY <1>1, <1>2
  <2>2. \/ headerSize' = PreambleSize + Len(keyMaterial) + Len(Bytes)
        \/ pc' = "err" /\ UNCHANGED headerSize
    BY <1>3 DEF Fail
  <2>3. QED BY <2>1, <2>2
<1>5. position' \in Nat
  BY <1>2
<1>6. TypeOK'
  BY <1>2, <1>3, <1>4, <1>5 DEF IInv, TypeOK, Goto, Fail, Terminal, Error
<1>7. Located'
  BY <1>1, <1>3, <1>4 DEF Located, Goto, Fail, LegacyVersion, CurrentVersion
<1>8. Limited'
  BY <1>1, <1>3 DEF IInv, Limited, AllocationBounded, Goto, Fail
<1>9. QED BY <1>6, <1>7, <1>8 DEF IInv

-----------------------------------------------------------------------------
(* The steps that do not.                                                  *)

LEMMA RefuseStep == IInv /\ (EndOfFile \/ ReadFails) => IInv'
<1> SUFFICES ASSUME IInv, EndOfFile \/ ReadFails PROVE IInv'
  OBVIOUS
<1>1. /\ pc' = "err" /\ error' \in Error
      /\ UNCHANGED <<original, file, rsaSize, position, buffer, parsed, headerSize>>
  BY DEF EndOfFile, ReadFails, Fail, Error
<1>2. TypeOK'
  BY <1>1 DEF IInv, TypeOK, parsed, Terminal
<1>3. Located' /\ Limited'
  BY <1>1 DEF IInv, Located, Limited, AllocationBounded, parsed
<1>4. QED BY <1>2, <1>3 DEF IInv

LEMMA MethodStep == IInv /\ MethodForHeader => IInv'
<1> SUFFICES ASSUME IInv, MethodForHeader PROVE IInv'
  OBVIOUS
<1>1. /\ pc = "method" /\ pc' \in {"prepare", "err"} /\ error' \in Error
      /\ UNCHANGED <<original, file, rsaSize, position, buffer, parsed, headerSize>>
  BY DEF MethodForHeader, Goto, Fail, Error, IInv, TypeOK
<1>2. TypeOK'
  BY <1>1 DEF IInv, TypeOK, parsed, Terminal
<1>3. Located' /\ Limited'
  BY <1>1 DEF IInv, Located, Limited, AllocationBounded, parsed
<1>4. QED BY <1>2, <1>3 DEF IInv

LEMMA PrepareVersionedStep == IInv /\ PrepareVersioned => IInv'
<1> SUFFICES ASSUME IInv, PrepareVersioned PROVE IInv'
  OBVIOUS
<1>1. /\ pc = "prepare" /\ version = CurrentVersion
      /\ error' \in Error
      /\ UNCHANGED <<original, file, rsaSize, position, buffer, parsed>>
      /\ \/ pc' = "session" /\ headerSize' = Len(authenticated)
         \/ pc' = "err" /\ UNCHANGED headerSize
  BY DEF PrepareVersioned, Goto, Fail, Error, IInv, TypeOK
<1>2. authenticated = SubSeq(file, 1, position)
  BY <1>1 DEF IInv, Located
<1>3. Len(authenticated) = position /\ position \in Nat
  BY <1>2, ReadBytes, ReaderType DEF IInv, ReaderTypeOK
<1>4. TypeOK'
  BY <1>1, <1>3 DEF IInv, TypeOK, parsed, Terminal
<1>5. Located' /\ Limited'
  BY <1>1, <1>2, <1>3 DEF IInv, Located, Limited, AllocationBounded, parsed
<1>6. QED BY <1>4, <1>5 DEF IInv

LEMMA PrepareLegacyStep == IInv /\ PrepareLegacy => IInv'
<1> SUFFICES ASSUME IInv, PrepareLegacy PROVE IInv'
  OBVIOUS
<1>1. /\ pc = "prepare" /\ version = LegacyVersion
      /\ error' \in Error
      /\ UNCHANGED <<original, file, rsaSize, position, parsed, headerSize>>
      /\ \/ pc' = "legacyKey" /\ buffer' = rsaSize
         \/ pc' = "err" /\ UNCHANGED buffer
  BY DEF PrepareLegacy, Goto, Await, Fail, Error, IInv, TypeOK
<1>2. position = PreambleSize
  BY <1>1 DEF IInv, Located, LegacyVersion, CurrentVersion
<1>0. rsaSize \in Nat
  BY FormatAssumption DEF IInv, TypeOK
<1>3. TypeOK'
  BY <1>0, <1>1 DEF IInv, TypeOK, parsed, Terminal, Reading
<1>4. Located' /\ Limited'
  BY <1>1, <1>2 DEF IInv, Located, Limited, AllocationBounded, parsed
<1>5. QED BY <1>3, <1>4 DEF IInv

LEMMA NextIInv == IInv /\ [Next]_vars => IInv'
<1>1. ASSUME IInv, UNCHANGED vars PROVE IInv'
  <2>1. TypeOK'
    BY <1>1 DEF IInv, TypeOK, vars, parsed
  <2>2. Located'
    BY <1>1 DEF IInv, Located, vars, parsed
  <2>3. UNCHANGED <<pc, metadata, buffer, rsaSize>>
    BY <1>1 DEF vars, parsed
  <2>4. Limited'
    BY <1>1, <2>3 DEF IInv, Limited, AllocationBounded
  <2>5. QED BY <2>1, <2>2, <2>4 DEF IInv
<1>2. QED
  BY <1>1, PreambleStep, MetadataStep, KeyMaterialStep, NonceStep, LegacyKeyStep,
     LegacyNonceStep, RefuseStep, MethodStep, PrepareVersionedStep, PrepareLegacyStep
     DEF Next, ReadHeader, PrepareDecryption, Returned

-----------------------------------------------------------------------------
(* Reading what was written.                                               *)

\* The file is what was written, as far as both go.
Agrees == \A i \in 1 .. Len(file) : i <= Len(Encoded) => file[i] = Encoded[i]

\* Where the reader of a file of this version is, and what it has.
FollowsHeader(h) ==
    /\ pc \notin {"legacyKey", "legacyNonce"}
    /\ pc = "metadata" => position = PreambleSize
    /\ pc \in {"keyMaterial", "nonce", "method", "prepare", "session"} =>
          metadata = Metadata(h)
    /\ pc = "keyMaterial" =>
          position = PreambleSize + MetadataSize /\ buffer = Len(h.keyMaterial)
    /\ pc \in {"nonce", "method", "prepare", "session"} => keyMaterial = h.keyMaterial
    /\ pc = "nonce" =>
          /\ position = PreambleSize + MetadataSize + Len(h.keyMaterial)
          /\ buffer = Len(h.nonce)
    /\ pc \in {"method", "prepare", "session"} =>
          /\ version = CurrentVersion /\ nonce = h.nonce
          /\ position = PreambleSize + MetadataSize + Len(h.keyMaterial) + Len(h.nonce)

\* Where the reader of a legacy file is.
FollowsLegacy ==
    /\ pc \notin {"metadata", "keyMaterial", "nonce"}
    /\ pc \in {"method", "prepare"} => version = LegacyVersion
    /\ pc = "legacyKey" => buffer = rsaSize
    /\ pc = "legacyNonce" =>
          position = PreambleSize + rsaSize /\ buffer = LegacyNonceSize
    /\ pc = "session" =>
          /\ position = PreambleSize + rsaSize + LegacyNonceSize
          /\ rsaSize = LegacyKeySize

\* What is read of a file before a session: of a legacy file, what the key tried asks for.
ReadSize == IF original = Legacy THEN PreambleSize + rsaSize + LegacyNonceSize
                                 ELSE Len(Encoded)

\* A file that agrees with what was written is only refused for its format where it ends.
Follows ==
    Agrees =>
        /\ original = Legacy => FollowsLegacy
        /\ original # Legacy => FollowsHeader(original)
        /\ error = "InvalidFormat" => Len(file) < ReadSize
        /\ error # "UnsupportedAlgorithms"

\* What was written is bytes.
LEMMA EncodedBytes ==
    ASSUME TypeOK
    PROVE  /\ Encoded \in Seq(Byte)
           /\ original = Legacy => Encoded = LegacyBytes
           /\ original # Legacy =>
                 original \in Header /\ Encoded = EncodeVersionedHeader(original)
  BY HeaderBytes, StoredAssumption DEF TypeOK, Encoded

\* What is read of a file that agrees with what was written is that part of it.
LEMMA SamePart ==
    ASSUME TypeOK, Agrees, ReadExact, NEW e, e = Encoded, e \in Seq(Byte),
           NEW i \in Nat, NEW n \in Nat, position = i, buffer = n, i + n <= Len(e)
    PROVE  Bytes = SubSeq(e, i + 1, i + n)
<1>1. /\ file \in Seq(Byte) /\ Len(file) \in Nat /\ Len(e) \in Nat /\ i + n <= Len(file)
      /\ \A k \in 1 .. Len(file) : k <= Len(e) => file[k] = e[k]
  BY LenProperties DEF TypeOK, ReadExact, Agrees
<1> DEFINE s == SubSeq(file, i + 1, i + n)
           t == SubSeq(e, i + 1, i + n)
<1>2. \A k \in i + 1 .. i + n : file[k] \in Byte /\ e[k] \in Byte /\ file[k] = e[k]
  <2> TAKE k \in i + 1 .. i + n
  <2>1. k \in 1 .. Len(file) /\ k \in 1 .. Len(e) /\ k <= Len(e)
    BY <1>1
  <2>2. QED BY <1>1, <2>1, ElementOfSeq
<1>3. /\ s \in Seq(Byte) /\ Len(s) = (IF i + 1 <= i + n THEN i + n - (i + 1) + 1 ELSE 0)
      /\ \A k \in 1 .. i + n - (i + 1) + 1 : s[k] = file[i + 1 + k - 1]
  BY <1>2, SubSeqProperties
<1>4. /\ t \in Seq(Byte) /\ Len(t) = (IF i + 1 <= i + n THEN i + n - (i + 1) + 1 ELSE 0)
      /\ \A k \in 1 .. i + n - (i + 1) + 1 : t[k] = e[i + 1 + k - 1]
  BY <1>2, SubSeqProperties
<1>5. Bytes = s
  BY DEF Bytes
<1> HIDE DEF s, t
<1>6. \A k \in 1 .. Len(s) : s[k] = t[k]
  <2> TAKE k \in 1 .. Len(s)
  <2>1. k \in 1 .. i + n - (i + 1) + 1 /\ i + 1 + k - 1 \in i + 1 .. i + n
    BY <1>3
  <2>2. QED BY <1>2, <1>3, <1>4, <2>1
<1>7. s = t
  BY <1>3, <1>4, <1>6, SeqEqual
<1>8. QED BY <1>5, <1>7 DEF t

\* A preamble is read as it was written.
LEMMA PreambleReads ==
    ASSUME NEW n \in {0, 1}
    PROVE  /\ SubSeq(Preamble(n), 1, Len(MagicPrefix)) = MagicPrefix
           /\ FromU16(SubSeq(Preamble(n), Len(MagicPrefix) + 1, PreambleSize)) = n
<1>1. MagicPrefix \in Seq(Byte) /\ ToU16(n) \in Seq(Byte) /\ Len(ToU16(n)) = 2
  BY ToU16Bytes, FormatAssumption
<1> DEFINE s == ToU16(n)
<1>2. Preamble(n) = MagicPrefix \o s
  BY DEF Preamble
<1> HIDE DEF s
<1>3. /\ SubSeq(MagicPrefix \o s, 1, Len(MagicPrefix)) = MagicPrefix
      /\ SubSeq(MagicPrefix \o s, Len(MagicPrefix) + 1, Len(MagicPrefix) + Len(s)) = s
  BY <1>1, Ends DEF s
<1>4. Len(MagicPrefix) + Len(s) = PreambleSize
  BY <1>1 DEF PreambleSize, s
<1>5. FromU16(s) = n
  <2>1. n < Base * Base
    BY FormatAssumption
  <2>2. QED BY <2>1, FromTo16 DEF s
<1>6. QED BY <1>2, <1>3, <1>4, <1>5

\* The header of a legacy file starts with a preamble, and so does every other.
LEMMA Starts ==
    ASSUME TypeOK
    PROVE  /\ PreambleSize \in Nat /\ PreambleSize <= Len(Encoded)
           /\ original = Legacy =>
                 SubSeq(Encoded, 1, PreambleSize) = Preamble(LegacyVersion)
           /\ original # Legacy =>
                 SubSeq(Encoded, 1, PreambleSize) = Preamble(CurrentVersion)
<1>1. PreambleSize \in Nat /\ LegacyKeySize \in Nat /\ LegacyNonceSize \in Nat
  BY FormatAssumption, LenProperties DEF PreambleSize
<1>2. CASE original = Legacy
  <2>1. Encoded = LegacyBytes
    BY <1>2, EncodedBytes
  <2>2. Preamble(LegacyVersion) = MagicPrefix \o <<0, 0>>
    BY ToU16Versions DEF Preamble, LegacyVersion
  <2>3. QED BY <1>1, <1>2, <2>1, <2>2, StoredAssumption
<1>3. CASE original # Legacy
  <2>1. original \in Header /\ Encoded = EncodeVersionedHeader(original)
    BY <1>3, EncodedBytes
  <2> DEFINE e == EncodeVersionedHeader(original)
             k == Len(original.keyMaterial)
             n == Len(original.nonce)
  <2>2. k \in Nat /\ n \in Nat
    BY <2>1, HeaderFits
  <2>3. /\ Len(e) = PreambleSize + MetadataSize + k + n
        /\ SubSeq(e, 1, PreambleSize) = Preamble(CurrentVersion)
    BY <2>1, HeaderLayout
  <2> HIDE DEF e, k, n
  <2>4. PreambleSize <= Len(e)
    BY <1>1, <2>2, <2>3 DEF MetadataSize
  <2>5. QED BY <1>1, <1>3, <2>1, <2>3, <2>4 DEF e
<1>4. QED BY <1>2, <1>3

\* What was written does not change.
LEMMA Kept ==
    ASSUME UNCHANGED <<original, file, rsaSize>>, Agrees'
    PROVE  Encoded' = Encoded /\ ReadSize' = ReadSize /\ Agrees
  BY DEF Encoded, ReadSize, Agrees

LEMMA InitFollows == Init => Follows
  BY DEF Init, Follows, FollowsHeader, FollowsLegacy

LEMMA PreambleFollows == IInv /\ Follows /\ ReadPreamble => Follows'
<1> SUFFICES ASSUME IInv, Follows, ReadPreamble, Agrees'
             PROVE  /\ original' = Legacy => FollowsLegacy'
                    /\ original' # Legacy => FollowsHeader(original)'
                    /\ error' = "InvalidFormat" => Len(file') < ReadSize'
                    /\ error' # "UnsupportedAlgorithms"
  BY DEF Follows
<1> DEFINE magic == SubSeq(Bytes, 1, Len(MagicPrefix))
           number == FromU16(SubSeq(Bytes, Len(MagicPrefix) + 1, PreambleSize))
<1>1. /\ ReadExact /\ version' = number
      /\ IF magic = MagicPrefix /\ number \in {LegacyVersion, CurrentVersion}
           THEN IF number = LegacyVersion THEN Goto("method") /\ UNCHANGED buffer
                                          ELSE Await("metadata", MetadataSize)
           ELSE Fail("InvalidFormat")
      /\ UNCHANGED <<original, file, rsaSize, metadata, keyMaterial, nonce, authenticated, headerSize>>
  BY DEF ReadPreamble
<1>2. Encoded' = Encoded /\ ReadSize' = ReadSize /\ Agrees
  BY <1>1, Kept
<1>3. TypeOK /\ position = 0 /\ buffer = PreambleSize
  BY DEF IInv, Located, ReadPreamble
<1>4. PreambleSize \in Nat /\ PreambleSize <= Len(Encoded)
  BY <1>3, Starts
<1>5. position' = PreambleSize
  BY <1>1, <1>3, <1>4 DEF ReadExact
<1>6. Bytes = SubSeq(Encoded, 1, PreambleSize)
  <2>1. Encoded \in Seq(Byte) /\ 0 + PreambleSize <= Len(Encoded)
    BY <1>3, <1>4, EncodedBytes
  <2>2. Bytes = SubSeq(Encoded, 0 + 1, 0 + PreambleSize)
    BY <1>1, <1>2, <1>3, <1>4, <2>1, SamePart
  <2>3. QED BY <1>4, <2>2
<1>7. magic = MagicPrefix /\ number = IF original = Legacy THEN 0 ELSE 1
  <2>1. CASE original = Legacy
    <3>1. Bytes = Preamble(0)
      BY <1>3, <1>6, <2>1, Starts DEF LegacyVersion
    <3>2. QED BY <2>1, <3>1, PreambleReads
  <2>2. CASE original # Legacy
    <3>1. Bytes = Preamble(1)
      BY <1>3, <1>6, <2>2, Starts DEF CurrentVersion
    <3>2. QED BY <2>2, <3>1, PreambleReads
  <2>3. QED BY <2>1, <2>2
<1> HIDE DEF magic, number
<1>8. /\ error' = error
      /\ original = Legacy => pc' = "method"
      /\ original # Legacy => pc' = "metadata"
  BY <1>1, <1>7 DEF Goto, Await, LegacyVersion, CurrentVersion
<1>9. version' = IF original = Legacy THEN LegacyVersion ELSE CurrentVersion
  BY <1>1, <1>7 DEF LegacyVersion, CurrentVersion
<1>10. /\ error = "InvalidFormat" => Len(file) < ReadSize
       /\ error # "UnsupportedAlgorithms"
  BY <1>2 DEF Follows
<1>11. QED
  BY <1>1, <1>2, <1>5, <1>8, <1>9, <1>10 DEF FollowsLegacy, FollowsHeader

\* Its parts lie within it.
LEMMA Within ==
    ASSUME NEW p \in Nat, NEW m \in Nat, NEW k \in Nat, NEW n \in Nat,
           NEW l, l = p + m + k + n
    PROVE  /\ p + m <= l /\ p + m + k <= l /\ p + m + k + n <= l
           /\ p + m \in Nat /\ p + m + k \in Nat
  OBVIOUS

\* What the reader of a header knows of it.
LEMMA HeaderSizes ==
    ASSUME TypeOK, original # Legacy
    PROVE  /\ PreambleSize \in Nat /\ original \in Header
           /\ Len(original.keyMaterial) \in Nat /\ Len(original.nonce) \in Nat
           /\ Len(Encoded) = PreambleSize + MetadataSize + Len(original.keyMaterial)
                                + Len(original.nonce)
<1>1. original \in Header /\ Encoded = EncodeVersionedHeader(original)
  BY EncodedBytes
<1>2. PreambleSize \in Nat
  BY FormatAssumption, LenProperties DEF PreambleSize
<1>3. Len(original.keyMaterial) \in Nat /\ Len(original.nonce) \in Nat
  BY <1>1, HeaderFits
<1>4. Len(EncodeVersionedHeader(original)) =
          PreambleSize + MetadataSize + Len(original.keyMaterial) + Len(original.nonce)
  BY <1>1, HeaderLayout
<1>5. QED BY <1>1, <1>2, <1>3, <1>4

LEMMA MetadataFollows == IInv /\ Follows /\ ReadMetadata => Follows'
<1> SUFFICES ASSUME IInv, Follows, ReadMetadata, Agrees'
             PROVE  /\ original' = Legacy => FollowsLegacy'
                    /\ original' # Legacy => FollowsHeader(original)'
                    /\ error' = "InvalidFormat" => Len(file') < ReadSize'
                    /\ error' # "UnsupportedAlgorithms"
  BY DEF Follows
<1>1. /\ pc = "metadata" /\ ReadExact /\ metadata' = Bytes
      /\ IF ValidateLengths(Bytes)
           THEN Await("keyMaterial", KeyMaterialLength(Bytes))
           ELSE Fail("InvalidFormat")
      /\ UNCHANGED <<original, file, rsaSize, version, keyMaterial, nonce, authenticated, headerSize>>
  BY DEF ReadMetadata
<1>2. Encoded' = Encoded /\ ReadSize' = ReadSize /\ Agrees
  BY <1>1, Kept
<1>3. /\ TypeOK /\ original # Legacy /\ position = PreambleSize /\ buffer = MetadataSize
      /\ error = "InvalidFormat" => Len(file) < ReadSize
      /\ error # "UnsupportedAlgorithms"
  BY <1>1, <1>2 DEF IInv, Located, Follows, FollowsLegacy, FollowsHeader
<1>4. /\ PreambleSize \in Nat /\ original \in Header
      /\ Len(original.keyMaterial) \in Nat /\ Len(original.nonce) \in Nat
      /\ Len(Encoded) = PreambleSize + MetadataSize + Len(original.keyMaterial)
                           + Len(original.nonce)
  BY <1>3, HeaderSizes
<1>5. Bytes = Metadata(original)
  <2>1. /\ Encoded \in Seq(Byte) /\ PreambleSize + MetadataSize <= Len(Encoded)
        /\ MetadataSize \in Nat /\ Encoded = EncodeVersionedHeader(original)
    <3>1. MetadataSize \in Nat
      BY DEF MetadataSize
    <3>2. QED BY <1>3, <1>4, <3>1, EncodedBytes, Within
  <2>2. Bytes = SubSeq(Encoded, PreambleSize + 1, PreambleSize + MetadataSize)
    BY <1>1, <1>2, <1>3, <1>4, <2>1, SamePart
  <2>3. SubSeq(EncodeVersionedHeader(original), PreambleSize + 1,
               PreambleSize + MetadataSize) = Metadata(original)
    BY <1>4, HeaderLayout
  <2>4. QED BY <2>1, <2>2, <2>3
<1>6. /\ KeyMaterialLength(Bytes) = Len(original.keyMaterial)
      /\ NonceLength(Bytes) = Len(original.nonce)
      /\ TagLength(Bytes) = original.tagSize
  BY <1>4, <1>5, MetadataReads
<1>7. ValidateLengths(Bytes)
  BY <1>4, <1>6, HeaderParts, WidthAssumption DEF ValidateLengths
<1>8. /\ pc' = "keyMaterial" /\ error' = error /\ buffer' = Len(original.keyMaterial)
      /\ position' = PreambleSize + MetadataSize
  BY <1>1, <1>3, <1>6, <1>7 DEF Await, Goto, ReadExact
<1>9. QED
  BY <1>1, <1>2, <1>3, <1>5, <1>8 DEF FollowsHeader

LEMMA KeyMaterialFollows == IInv /\ Follows /\ ReadKeyMaterial => Follows'
<1> SUFFICES ASSUME IInv, Follows, ReadKeyMaterial, Agrees'
             PROVE  /\ original' = Legacy => FollowsLegacy'
                    /\ original' # Legacy => FollowsHeader(original)'
                    /\ error' = "InvalidFormat" => Len(file') < ReadSize'
                    /\ error' # "UnsupportedAlgorithms"
  BY DEF Follows
<1>1. /\ pc = "keyMaterial" /\ ReadExact /\ keyMaterial' = Bytes
      /\ pc' = "nonce" /\ error' = error /\ buffer' = NonceLength(metadata)
      /\ UNCHANGED <<original, file, rsaSize, version, metadata, nonce, authenticated, headerSize>>
  BY DEF ReadKeyMaterial, Await, Goto
<1>2. Encoded' = Encoded /\ ReadSize' = ReadSize /\ Agrees
  BY <1>1, Kept
<1>3. /\ TypeOK /\ original # Legacy /\ position = PreambleSize + MetadataSize
      /\ buffer = Len(original.keyMaterial) /\ metadata = Metadata(original)
      /\ error = "InvalidFormat" => Len(file) < ReadSize
      /\ error # "UnsupportedAlgorithms"
  BY <1>1, <1>2 DEF IInv, Follows, FollowsLegacy, FollowsHeader
<1>4. /\ PreambleSize \in Nat /\ original \in Header
      /\ Len(original.keyMaterial) \in Nat /\ Len(original.nonce) \in Nat
      /\ Len(Encoded) = PreambleSize + MetadataSize + Len(original.keyMaterial)
                           + Len(original.nonce)
  BY <1>3, HeaderSizes
<1> DEFINE k == PreambleSize + MetadataSize
           n == Len(original.keyMaterial)
<1>5. Bytes = original.keyMaterial
  <2>1. /\ Encoded \in Seq(Byte) /\ k + n <= Len(Encoded)
        /\ k \in Nat /\ n \in Nat /\ Encoded = EncodeVersionedHeader(original)
        /\ position = k /\ buffer = n
    <3>1. MetadataSize \in Nat
      BY DEF MetadataSize
    <3>2. k + n <= Len(Encoded)
      BY <1>4, <3>1, Within
    <3>3. k \in Nat /\ n \in Nat
      BY <1>4, <3>1, Within
    <3>4. Encoded \in Seq(Byte) /\ Encoded = EncodeVersionedHeader(original)
      BY <1>3, EncodedBytes
    <3>5. position = k /\ buffer = n
      BY <1>3
    <3>6. QED BY <3>2, <3>3, <3>4, <3>5
  <2>2. SubSeq(EncodeVersionedHeader(original), k + 1, k + n) = original.keyMaterial
    BY <1>4, HeaderLayout
  <2> HIDE DEF k, n
  <2>3. Bytes = SubSeq(Encoded, k + 1, k + n)
    BY <1>1, <1>2, <1>3, <2>1, SamePart
  <2>4. QED BY <2>1, <2>2, <2>3
<1>6. buffer' = Len(original.nonce)
  BY <1>1, <1>3, <1>4, MetadataReads
<1>7. position' = PreambleSize + MetadataSize + Len(original.keyMaterial)
  BY <1>1, <1>3 DEF ReadExact
<1>8. QED
  BY <1>1, <1>2, <1>3, <1>5, <1>6, <1>7 DEF FollowsHeader

LEMMA NonceFollows == IInv /\ Follows /\ ReadNonce => Follows'
<1> SUFFICES ASSUME IInv, Follows, ReadNonce, Agrees'
             PROVE  /\ original' = Legacy => FollowsLegacy'
                    /\ original' # Legacy => FollowsHeader(original)'
                    /\ error' = "InvalidFormat" => Len(file') < ReadSize'
                    /\ error' # "UnsupportedAlgorithms"
  BY DEF Follows
<1>1. /\ pc = "nonce" /\ ReadExact /\ nonce' = Bytes
      /\ pc' = "method" /\ error' = error
      /\ UNCHANGED <<original, file, rsaSize, buffer, version, metadata, keyMaterial, headerSize>>
  BY DEF ReadNonce, Goto
<1>2. Encoded' = Encoded /\ ReadSize' = ReadSize /\ Agrees
  BY <1>1, Kept
<1>3. /\ TypeOK /\ original # Legacy /\ version = CurrentVersion
      /\ position = PreambleSize + MetadataSize + Len(original.keyMaterial)
      /\ buffer = Len(original.nonce) /\ metadata = Metadata(original)
      /\ keyMaterial = original.keyMaterial
      /\ error = "InvalidFormat" => Len(file) < ReadSize
      /\ error # "UnsupportedAlgorithms"
  BY <1>1, <1>2 DEF IInv, Located, Follows, FollowsLegacy, FollowsHeader
<1>4. /\ PreambleSize \in Nat /\ original \in Header
      /\ Len(original.keyMaterial) \in Nat /\ Len(original.nonce) \in Nat
      /\ Len(Encoded) = PreambleSize + MetadataSize + Len(original.keyMaterial)
                           + Len(original.nonce)
  BY <1>3, HeaderSizes
<1> DEFINE k == PreambleSize + MetadataSize + Len(original.keyMaterial)
           n == Len(original.nonce)
<1>5. Bytes = original.nonce
  <2>1. /\ Encoded \in Seq(Byte) /\ k + n <= Len(Encoded)
        /\ k \in Nat /\ n \in Nat /\ Encoded = EncodeVersionedHeader(original)
        /\ position = k /\ buffer = n
    <3>1. MetadataSize \in Nat
      BY DEF MetadataSize
    <3>2. k + n <= Len(Encoded)
      BY <1>4, <3>1, Within
    <3>3. k \in Nat /\ n \in Nat
      BY <1>4, <3>1, Within
    <3>4. Encoded \in Seq(Byte) /\ Encoded = EncodeVersionedHeader(original)
      BY <1>3, EncodedBytes
    <3>5. position = k /\ buffer = n
      BY <1>3
    <3>6. QED BY <3>2, <3>3, <3>4, <3>5
  <2>2. SubSeq(EncodeVersionedHeader(original), k + 1, k + n) = original.nonce
    BY <1>4, HeaderLayout
  <2> HIDE DEF k, n
  <2>3. Bytes = SubSeq(Encoded, k + 1, k + n)
    BY <1>1, <1>2, <1>3, <2>1, SamePart
  <2>4. QED BY <2>1, <2>2, <2>3
<1>6. position' = PreambleSize + MetadataSize + Len(original.keyMaterial)
                     + Len(original.nonce)
  BY <1>1, <1>3 DEF ReadExact
<1>7. QED
  BY <1>1, <1>2, <1>3, <1>5, <1>6 DEF FollowsHeader

LEMMA EndFollows == IInv /\ Follows /\ EndOfFile => Follows'
<1> SUFFICES ASSUME IInv, Follows, EndOfFile, Agrees'
             PROVE  /\ original' = Legacy => FollowsLegacy'
                    /\ original' # Legacy => FollowsHeader(original)'
                    /\ error' = "InvalidFormat" => Len(file') < ReadSize'
                    /\ error' # "UnsupportedAlgorithms"
  BY DEF Follows
<1>1. /\ pc \in Reading /\ position + buffer > Len(file) /\ pc' = "err" /\ error' = "InvalidFormat"
      /\ UNCHANGED <<original, file, rsaSize>>
  BY DEF EndOfFile, Fail
<1>2. Encoded' = Encoded /\ ReadSize' = ReadSize /\ Agrees
  BY <1>1, Kept
<1>3. TypeOK /\ Located
  BY DEF IInv
<1>4. position + buffer <= ReadSize
  <2>1. CASE pc = "preamble"
    <3>1. /\ position = 0 /\ buffer = PreambleSize
          /\ PreambleSize \in Nat /\ PreambleSize <= Len(Encoded)
      BY <1>3, <2>1, Starts DEF Located
    <3>2. rsaSize \in Nat /\ LegacyNonceSize \in Nat
      BY <1>3, FormatAssumption DEF TypeOK
    <3>3. QED BY <3>1, <3>2 DEF ReadSize
  <2>2. CASE pc # "preamble" /\ original = Legacy
    <3>1. FollowsLegacy
      BY <1>2, <2>2 DEF Follows
    <3>2. \/ pc = "legacyKey" /\ position = PreambleSize /\ buffer = rsaSize
          \/ pc = "legacyNonce" /\ position = PreambleSize + rsaSize
                /\ buffer = LegacyNonceSize
      BY <1>1, <1>3, <2>2, <3>1 DEF FollowsLegacy, Reading, Located
    <3>3. PreambleSize \in Nat /\ rsaSize \in Nat /\ LegacyNonceSize \in Nat
      BY <1>3, Starts, FormatAssumption DEF TypeOK
    <3>4. QED BY <2>2, <3>2, <3>3 DEF ReadSize
  <2>3. CASE pc # "preamble" /\ original # Legacy
    <3>1. FollowsHeader(original)
      BY <1>2, <2>3 DEF Follows
    <3>2. /\ PreambleSize \in Nat
          /\ Len(original.keyMaterial) \in Nat /\ Len(original.nonce) \in Nat
          /\ Len(Encoded) = PreambleSize + MetadataSize + Len(original.keyMaterial)
                               + Len(original.nonce)
      BY <1>3, <2>3, HeaderSizes
    <3>3. \/ position = PreambleSize /\ buffer = MetadataSize
          \/ position = PreambleSize + MetadataSize /\ buffer = Len(original.keyMaterial)
          \/ /\ position = PreambleSize + MetadataSize + Len(original.keyMaterial)
             /\ buffer = Len(original.nonce)
      BY <1>1, <1>3, <2>3, <3>1 DEF FollowsHeader, Reading, Located
    <3>4. MetadataSize \in Nat
      BY DEF MetadataSize
    <3>5. position + buffer <= Len(Encoded)
      BY <3>2, <3>3, <3>4, Within
    <3>6. QED BY <2>3, <3>5 DEF ReadSize
  <2>4. QED BY <2>1, <2>2, <2>3
<1>5. Len(file) < ReadSize
  <2>1. /\ position \in Nat /\ buffer \in Nat /\ Len(file) \in Nat
        /\ ReadSize \in Nat
    BY <1>3, EncodedBytes, LenProperties, Starts, FormatAssumption DEF TypeOK, ReadSize
  <2>2. QED BY <1>1, <1>4, <2>1
<1>6. QED BY <1>1, <1>2, <1>5 DEF FollowsLegacy, FollowsHeader

LEMMA ReadFailsFollows == IInv /\ Follows /\ ReadFails => Follows'
<1> SUFFICES ASSUME IInv, Follows, ReadFails, Agrees'
             PROVE  /\ original' = Legacy => FollowsLegacy'
                    /\ original' # Legacy => FollowsHeader(original)'
                    /\ error' = "InvalidFormat" => Len(file') < ReadSize'
                    /\ error' # "UnsupportedAlgorithms"
  BY DEF Follows
<1>1. pc' = "err" /\ error' = "Io"
  BY DEF ReadFails, Fail
<1>2. QED BY <1>1 DEF FollowsLegacy, FollowsHeader

LEMMA MethodFollows == IInv /\ Follows /\ MethodForHeader => Follows'
<1> SUFFICES ASSUME IInv, Follows, MethodForHeader, Agrees'
             PROVE  /\ original' = Legacy => FollowsLegacy'
                    /\ original' # Legacy => FollowsHeader(original)'
                    /\ error' = "InvalidFormat" => Len(file') < ReadSize'
                    /\ error' # "UnsupportedAlgorithms"
  BY DEF Follows
<1>1. /\ pc = "method"
      /\ IF \/ version = LegacyVersion
            \/ /\ FromU16(SubSeq(metadata, 1, 2)) \in KeyEstablishment
               /\ FromU16(SubSeq(metadata, 3, 4)) \in DataCipher
           THEN pc' = "prepare" /\ error' = error
           ELSE pc' = "err" /\ error' = "UnsupportedAlgorithms"
      /\ UNCHANGED <<original, file, rsaSize, position, parsed, headerSize>>
  BY DEF MethodForHeader, Goto, Fail
<1>2. Encoded' = Encoded /\ ReadSize' = ReadSize /\ Agrees
  BY <1>1, Kept
<1>3. /\ error = "InvalidFormat" => Len(file) < ReadSize
      /\ error # "UnsupportedAlgorithms"
      /\ original = Legacy => FollowsLegacy
      /\ original # Legacy => FollowsHeader(original)
  BY <1>2 DEF Follows
<1>4. pc' = "prepare" /\ error' = error
  <2>1. CASE original = Legacy
    BY <1>1, <1>3, <2>1 DEF FollowsLegacy
  <2>2. CASE original # Legacy
    <3>1. metadata = Metadata(original) /\ original \in Header
      BY <1>1, <1>3, <2>2 DEF FollowsHeader, IInv, TypeOK
    <3>2. /\ FromU16(SubSeq(metadata, 1, 2)) \in KeyEstablishment
          /\ FromU16(SubSeq(metadata, 3, 4)) \in DataCipher
      BY <3>1, MetadataReads, HeaderParts
    <3>3. QED BY <1>1, <3>2
  <2>3. QED BY <2>1, <2>2
<1>5. QED
  BY <1>1, <1>2, <1>3, <1>4 DEF FollowsLegacy, FollowsHeader, parsed

LEMMA PrepareVersionedFollows == IInv /\ Follows /\ PrepareVersioned => Follows'
<1> SUFFICES ASSUME IInv, Follows, PrepareVersioned, Agrees'
             PROVE  /\ original' = Legacy => FollowsLegacy'
                    /\ original' # Legacy => FollowsHeader(original)'
                    /\ error' = "InvalidFormat" => Len(file') < ReadSize'
                    /\ error' # "UnsupportedAlgorithms"
  BY DEF Follows
<1>1. /\ pc = "prepare" /\ version = CurrentVersion
      /\ IF Len(nonce) = NonceSize /\ TagLength(metadata) = TagSize
           THEN \/ pc' = "session" /\ error' = error
                \/ pc' = "err" /\ error' = "Key"
                \/ ~MaterialFits /\ pc' = "err" /\ error' = "InvalidFormat"
           ELSE pc' = "err" /\ error' = "InvalidFormat"
      /\ UNCHANGED <<original, file, rsaSize, position, parsed>>
  BY DEF PrepareVersioned, Goto, Fail
<1>2. Encoded' = Encoded /\ ReadSize' = ReadSize /\ Agrees
  BY <1>1, Kept
<1>3. /\ error = "InvalidFormat" => Len(file) < ReadSize
      /\ error # "UnsupportedAlgorithms"
      /\ original # Legacy /\ original \in Header /\ FollowsHeader(original)
  BY <1>1, <1>2
     DEF Follows, FollowsLegacy, LegacyVersion, CurrentVersion, IInv, TypeOK
<1>4. /\ metadata = Metadata(original) /\ nonce = original.nonce
      /\ keyMaterial = original.keyMaterial
  BY <1>1, <1>3 DEF FollowsHeader
<1>5. /\ Len(nonce) = NonceSize /\ TagLength(metadata) = TagSize
      /\ MaterialFits
  BY <1>3, <1>4, MetadataReads, HeaderParts DEF MaterialFits
<1>6. \/ pc' = "session" /\ error' = error
      \/ pc' = "err" /\ error' = "Key"
  BY <1>1, <1>5
<1>7. QED
  BY <1>1, <1>2, <1>3, <1>6 DEF FollowsHeader, parsed

LEMMA PrepareLegacyFollows == IInv /\ Follows /\ PrepareLegacy => Follows'
<1> SUFFICES ASSUME IInv, Follows, PrepareLegacy, Agrees'
             PROVE  /\ original' = Legacy => FollowsLegacy'
                    /\ original' # Legacy => FollowsHeader(original)'
                    /\ error' = "InvalidFormat" => Len(file') < ReadSize'
                    /\ error' # "UnsupportedAlgorithms"
  BY DEF Follows
<1>1. /\ pc = "prepare" /\ version = LegacyVersion
      /\ \/ pc' = "legacyKey" /\ error' = error /\ buffer' = rsaSize
         \/ pc' = "err" /\ error' = "Key"
      /\ UNCHANGED <<original, file, rsaSize, position, parsed>>
  BY DEF PrepareLegacy, Await, Goto, Fail
<1>2. Encoded' = Encoded /\ ReadSize' = ReadSize /\ Agrees
  BY <1>1, Kept
<1>3. /\ error = "InvalidFormat" => Len(file) < ReadSize
      /\ error # "UnsupportedAlgorithms"
      /\ original = Legacy
  BY <1>1, <1>2 DEF Follows, FollowsHeader, LegacyVersion, CurrentVersion
<1>4. QED
  BY <1>1, <1>2, <1>3 DEF FollowsLegacy, parsed

LEMMA LegacyKeyFollows == IInv /\ Follows /\ ReadLegacyKey => Follows'
<1> SUFFICES ASSUME IInv, Follows, ReadLegacyKey, Agrees'
             PROVE  /\ original' = Legacy => FollowsLegacy'
                    /\ original' # Legacy => FollowsHeader(original)'
                    /\ error' = "InvalidFormat" => Len(file') < ReadSize'
                    /\ error' # "UnsupportedAlgorithms"
  BY DEF Follows
<1>1. /\ pc = "legacyKey" /\ ReadExact
      /\ pc' = "legacyNonce" /\ error' = error /\ buffer' = LegacyNonceSize
      /\ UNCHANGED <<original, file, rsaSize>>
  BY DEF ReadLegacyKey, Await, Goto
<1>2. Encoded' = Encoded /\ ReadSize' = ReadSize /\ Agrees
  BY <1>1, Kept
<1>3. /\ error = "InvalidFormat" => Len(file) < ReadSize
      /\ error # "UnsupportedAlgorithms"
      /\ original = Legacy /\ position = PreambleSize /\ buffer = rsaSize
  BY <1>1, <1>2 DEF Follows, FollowsHeader, FollowsLegacy, IInv, Located
<1>4. position' = PreambleSize + rsaSize
  BY <1>1, <1>3 DEF ReadExact
<1>5. QED
  BY <1>1, <1>2, <1>3, <1>4 DEF FollowsLegacy

LEMMA LegacyNonceFollows == IInv /\ Follows /\ ReadLegacyNonce => Follows'
<1> SUFFICES ASSUME IInv, Follows, ReadLegacyNonce, Agrees'
             PROVE  /\ original' = Legacy => FollowsLegacy'
                    /\ original' # Legacy => FollowsHeader(original)'
                    /\ error' = "InvalidFormat" => Len(file') < ReadSize'
                    /\ error' # "UnsupportedAlgorithms"
  BY DEF Follows
<1>1. /\ pc = "legacyNonce" /\ ReadExact
      /\ \/ pc' = "session" /\ error' = error /\ rsaSize = LegacyKeySize
         \/ pc' = "err" /\ error' = "Key"
      /\ UNCHANGED <<original, file, rsaSize>>
  BY DEF ReadLegacyNonce, Goto, Fail, Unwraps
<1>2. Encoded' = Encoded /\ ReadSize' = ReadSize /\ Agrees
  BY <1>1, Kept
<1>3. /\ error = "InvalidFormat" => Len(file) < ReadSize
      /\ error # "UnsupportedAlgorithms"
      /\ original = Legacy /\ position = PreambleSize + rsaSize
      /\ buffer = LegacyNonceSize
  BY <1>1, <1>2 DEF Follows, FollowsHeader, FollowsLegacy
<1>4. position' = PreambleSize + rsaSize + LegacyNonceSize
  BY <1>1, <1>3 DEF ReadExact
<1>5. QED
  BY <1>1, <1>2, <1>3, <1>4 DEF FollowsLegacy

LEMMA NextFollows == IInv /\ Follows /\ [Next]_vars => Follows'
<1>1. ASSUME Follows, UNCHANGED vars PROVE Follows'
  BY <1>1 DEF Follows, Agrees, Encoded, ReadSize, FollowsLegacy, FollowsHeader, vars, parsed
<1>2. QED
  BY <1>1, PreambleFollows, MetadataFollows, KeyMaterialFollows, NonceFollows,
     EndFollows, ReadFailsFollows, MethodFollows, PrepareVersionedFollows,
     PrepareLegacyFollows, LegacyKeyFollows, LegacyNonceFollows
     DEF Next, ReadHeader, PrepareDecryption, Returned

-----------------------------------------------------------------------------
\* The conjunction that is inductive holds in every behaviour.
THEOREM Inductive == Spec => []IInv
  BY InitIInv, NextIInv, PTL DEF Spec

\* The types of the variables (file_format.rs, read_header).
THEOREM TypeCorrect == Spec => []TypeOK
<1>1. IInv => TypeOK
  BY DEF IInv
<1>2. QED BY <1>1, Inductive, PTL

\* Every byte that was read is authenticated, and in the order it is stored
\* (file_format.rs, authenticated_bytes).
THEOREM EveryByteAuthenticated == Spec => []AuthenticatesWhatItRead
<1>1. IInv => AuthenticatesWhatItRead
  BY DEF IInv, Located, AuthenticatesWhatItRead
<1>2. QED BY <1>1, Inductive, PTL

\* No stored length makes the reader allocate more than the limits (file_format.rs,
\* validate_lengths).
THEOREM AllocationsBounded == Spec => []AllocationBounded
<1>1. IInv => AllocationBounded
  BY DEF IInv, Limited
<1>2. QED BY <1>1, Inductive, PTL

\* What the reader is and has, wherever it is.
LEMMA FollowsAlways == Spec => []Follows
<1>1. Init => Follows
  BY InitFollows
<1>2. IInv /\ Follows /\ [Next]_vars => Follows'
  BY NextFollows
<1>3. QED BY <1>1, <1>2, Inductive, PTL DEF Spec

\* A file that starts with what was written agrees with it.
LEMMA WholeAgrees ==
    ASSUME TypeOK, Len(Encoded) <= Len(file), SubSeq(file, 1, Len(Encoded)) = Encoded
    PROVE  Agrees
<1> DEFINE e == Encoded
           n == Len(e)
<1>1. n \in Nat /\ Len(file) \in Nat /\ file \in Seq(Byte) /\ n <= Len(file)
  BY EncodedBytes, LenProperties DEF TypeOK
<1>2. SubSeq(file, 1, n) = e
  OBVIOUS
<1>3. \A i \in 1 .. n : file[i] \in Byte
  BY <1>1, ElementOfSeq
<1> HIDE DEF e, n
<1>4. \A i \in 1 .. n - 1 + 1 : SubSeq(file, 1, n)[i] = file[1 + i - 1]
  BY <1>1, <1>3, SubSeqProperties
<1>5. \A i \in 1 .. n : e[i] = file[i]
  <2> TAKE i \in 1 .. n
  <2>1. i \in 1 .. n - 1 + 1 /\ 1 + i - 1 = i
    BY <1>1
  <2>2. QED BY <1>2, <1>4, <2>1
<1>6. QED BY <1>1, <1>5 DEF Agrees, e, n

\* So does one that was cut within it.
LEMMA CutAgrees ==
    ASSUME TypeOK, NEW k \in 0 .. Len(Encoded) - 1, file = SubSeq(Encoded, 1, k)
    PROVE  Agrees /\ Len(file) < Len(Encoded)
<1> DEFINE e == Encoded
           n == Len(e)
<1>1. n \in Nat /\ e \in Seq(Byte) /\ k \in Nat /\ k < n
  BY EncodedBytes, LenProperties
<1>2. file = SubSeq(e, 1, k)
  OBVIOUS
<1>3. \A i \in 1 .. k : e[i] \in Byte
  BY <1>1, ElementOfSeq
<1> HIDE DEF e, n
<1>4. /\ Len(SubSeq(e, 1, k)) = (IF 1 <= k THEN k - 1 + 1 ELSE 0)
      /\ \A i \in 1 .. k - 1 + 1 : SubSeq(e, 1, k)[i] = e[1 + i - 1]
  BY <1>1, <1>3, SubSeqProperties
<1>5. Len(file) = k
  BY <1>1, <1>2, <1>4
<1>6. \A i \in 1 .. k : file[i] = e[i]
  <2> TAKE i \in 1 .. k
  <2>1. i \in 1 .. k - 1 + 1 /\ 1 + i - 1 = i
    BY <1>1
  <2>2. QED BY <1>2, <1>4, <2>1
<1>7. QED BY <1>1, <1>5, <1>6 DEF Agrees, e, n

\* Where a session starts, everything that was written has been read, as it was
\* written.
LEMMA SessionReads ==
    ASSUME TypeOK, Follows, Agrees, pc = "session"
    PROVE  /\ position = Len(Encoded)
           /\ original # Legacy =>
                 [keyEstablishment |-> FromU16(SubSeq(metadata, 1, 2)),
                  dataCipher |-> FromU16(SubSeq(metadata, 3, 4)),
                  keyMaterial |-> keyMaterial, nonce |-> nonce,
                  tagSize |-> TagLength(metadata)] = original
<1>1. CASE original = Legacy
  BY <1>1, EncodedBytes, StoredAssumption DEF Follows, FollowsLegacy
<1>2. CASE original # Legacy
  <2>1. /\ metadata = Metadata(original) /\ keyMaterial = original.keyMaterial
        /\ nonce = original.nonce
        /\ position = PreambleSize + MetadataSize + Len(original.keyMaterial)
                         + Len(original.nonce)
    BY <1>2 DEF Follows, FollowsHeader
  <2>2. original \in Header /\ position = Len(Encoded)
    BY <1>2, <2>1, HeaderSizes
  <2>3. /\ FromU16(SubSeq(metadata, 1, 2)) = original.keyEstablishment
        /\ FromU16(SubSeq(metadata, 3, 4)) = original.dataCipher
        /\ TagLength(metadata) = original.tagSize
    BY <2>1, <2>2, MetadataReads
  <2>4. original = [keyEstablishment |-> original.keyEstablishment,
                    dataCipher |-> original.dataCipher,
                    keyMaterial |-> original.keyMaterial, nonce |-> original.nonce,
                    tagSize |-> original.tagSize]
    BY <2>2, HeaderParts
  <2>5. QED BY <2>1, <2>2, <2>3, <2>4
<1>3. QED BY <1>1, <1>2

\* A file that starts with what was written is read as it was written, and refused
\* for its format only if it is a legacy file and too short for a larger RSA key that
\* it is tried with; one cut within its header never gets a session (file_format.rs,
\* encode_versioned_header, read_versioned_header; legacy_rsa_aes_gcm.rs).
THEOREM WrittenIsRead == Spec => []ReadsWhatWasWritten
<1>1. TypeOK /\ Follows => ReadsWhatWasWritten
  <2> SUFFICES ASSUME TypeOK, Follows PROVE ReadsWhatWasWritten
    OBVIOUS
  <2>1. ASSUME Len(Encoded) <= Len(file), SubSeq(file, 1, Len(Encoded)) = Encoded
        PROVE  /\ error # "UnsupportedAlgorithms"
               /\ error = "InvalidFormat" =>
                     /\ original = Legacy
                     /\ Len(file) < PreambleSize + rsaSize + LegacyNonceSize
    <3>1. Agrees /\ ~(Len(file) < Len(Encoded))
      BY <2>1, WholeAgrees, EncodedBytes, LenProperties DEF TypeOK
    <3>2. /\ error # "UnsupportedAlgorithms"
          /\ error = "InvalidFormat" => Len(file) < ReadSize
      BY <3>1 DEF Follows
    <3>3. QED BY <3>1, <3>2 DEF ReadSize
  <2>2. ASSUME Len(Encoded) <= Len(file), SubSeq(file, 1, Len(Encoded)) = Encoded,
               pc = "session"
        PROVE  /\ position = Len(Encoded)
               /\ original # Legacy =>
                     [keyEstablishment |-> FromU16(SubSeq(metadata, 1, 2)),
                      dataCipher |-> FromU16(SubSeq(metadata, 3, 4)),
                      keyMaterial |-> keyMaterial, nonce |-> nonce,
                      tagSize |-> TagLength(metadata)] = original
    <3>1. Agrees
      BY <2>2, WholeAgrees
    <3>2. QED BY <2>2, <3>1, SessionReads
  <2>3. ASSUME NEW length \in 0 .. Len(Encoded) - 1, file = SubSeq(Encoded, 1, length)
        PROVE  pc # "session"
    <3>1. Agrees /\ Len(file) < Len(Encoded)
      BY <2>3, CutAgrees
    <3>2. position <= Len(file) /\ position \in Nat /\ Len(file) \in Nat
          /\ Len(Encoded) \in Nat
      BY EncodedBytes, LenProperties DEF TypeOK
    <3>3. pc = "session" => position = Len(Encoded)
      BY <3>1, SessionReads
    <3>4. QED BY <3>1, <3>2, <3>3
  <2>4. QED BY <2>1, <2>2, <2>3 DEF ReadsWhatWasWritten
<1>2. QED BY <1>1, TypeCorrect, FollowsAlways, PTL
=============================================================================
