------------------------------ MODULE CodecProofs ------------------------------
(***************************************************************************)
(* What the codecs compute, for texts of every length: decoding gives back *)
(* what was encoded, and the output fits where the codec did not refuse.   *)
(***************************************************************************)
EXTENDS Codecs, FiniteSetTheorems, SequenceTheorems, TLAPS

-----------------------------------------------------------------------------
(* Pieces of a text.                                                       *)

LEMMA Piece ==
  ASSUME NEW S, NEW t \in Seq(S), NEW m \in Nat, NEW n \in Nat, m <= n, n <= Len(t)
  PROVE  /\ SubSeq(t, m + 1, n) \in Seq(S)
         /\ Len(SubSeq(t, m + 1, n)) = n - m
         /\ \A i \in 1..n - m : SubSeq(t, m + 1, n)[i] = t[m + i]
<1>1. \A i \in m + 1..n : t[i] \in S
  OBVIOUS
<1>2. n - (m + 1) + 1 = n - m /\ (m + 1 <= n <=> m # n)
  OBVIOUS
<1>3. /\ SubSeq(t, m + 1, n) \in Seq(S)
      /\ Len(SubSeq(t, m + 1, n)) = n - m
      /\ \A i \in 1..n - m : SubSeq(t, m + 1, n)[i] = t[m + 1 + i - 1]
  BY <1>1, <1>2, SubSeqProperties
<1>4. \A i \in 1..n - m : m + 1 + i - 1 = m + i
  OBVIOUS
<1> QED
  BY <1>3, <1>4

LEMMA PieceOfPiece ==
  ASSUME NEW S, NEW t \in Seq(S), NEW m \in Nat, NEW n \in Nat, m <= n, n <= Len(t),
         NEW j \in Nat, NEW k \in Nat, j <= k, k <= n - m
  PROVE  SubSeq(SubSeq(t, m + 1, n), j + 1, k) = SubSeq(t, m + j + 1, m + k)
<1> DEFINE s == SubSeq(t, m + 1, n)
           u == SubSeq(s, j + 1, k)
           v == SubSeq(t, m + j + 1, m + k)
<1>1. /\ s \in Seq(S) /\ Len(s) = n - m /\ \A i \in 1..n - m : s[i] = t[m + i]
  BY Piece
<1>2. /\ u \in Seq(S) /\ Len(u) = k - j /\ \A i \in 1..k - j : u[i] = s[j + i]
  <2> HIDE DEF s
  <2> QED BY <1>1, Piece
<1>3. /\ v \in Seq(S) /\ Len(v) = m + k - (m + j)
      /\ \A i \in 1..m + k - (m + j) : v[i] = t[m + j + i]
  <2>1. m + j \in Nat /\ m + k \in Nat /\ m + j <= m + k /\ m + k <= Len(t)
    OBVIOUS
  <2> QED BY <2>1, Piece
<1> HIDE DEF s, u, v
<1>4. ASSUME NEW i \in 1..k - j
      PROVE  u[i] = v[i]
  <2>1. j + i \in 1..n - m /\ m + (j + i) = m + j + i /\ m + k - (m + j) = k - j
    OBVIOUS
  <2> QED BY <1>1, <1>2, <1>3, <2>1
<1>5. m + k - (m + j) = k - j
  OBVIOUS
<1>6. u = v
  BY <1>2, <1>3, <1>4, <1>5, SeqEqual
<1> QED
  BY <1>6 DEF u, v, s

-----------------------------------------------------------------------------
(* xor                                                                     *)

Bit(x, w) == (x \div w) % 2

Differ(p, q) == IF p = q THEN 0 ELSE 1

Weights == {1, 2, 4, 8, 16, 32, 64, 128}

\* A byte is the sum of its bits.
LEMMA ByteBits ==
  ASSUME NEW x \in Byte
  PROVE  x = Bit(x, 1) + 2 * Bit(x, 2) + 4 * Bit(x, 4) + 8 * Bit(x, 8)
             + 16 * Bit(x, 16) + 32 * Bit(x, 32) + 64 * Bit(x, 64)
             + 128 * Bit(x, 128)
BY SMTT(60) DEF Byte, Bit

\* The bits of a sum of bits.
LEMMA SumOfBits ==
  ASSUME NEW b1 \in 0..1, NEW b2 \in 0..1, NEW b4 \in 0..1, NEW b8 \in 0..1,
         NEW b16 \in 0..1, NEW b32 \in 0..1, NEW b64 \in 0..1, NEW b128 \in 0..1,
         NEW x,
         x = b1 + 2 * b2 + 4 * b4 + 8 * b8 + 16 * b16 + 32 * b32 + 64 * b64
               + 128 * b128
  PROVE  /\ x \in Byte
         /\ Bit(x, 1) = b1 /\ Bit(x, 2) = b2 /\ Bit(x, 4) = b4 /\ Bit(x, 8) = b8
         /\ Bit(x, 16) = b16 /\ Bit(x, 32) = b32 /\ Bit(x, 64) = b64
         /\ Bit(x, 128) = b128
BY SMTT(60) DEF Byte, Bit

\* The parts of XorByte, in terms of bits.
LEMMA XorBitIsDiffer ==
  ASSUME NEW a \in Byte, NEW b \in Byte, NEW w \in Weights
  PROVE  /\ Bit(a, w) \in 0..1
         /\ Differ(Bit(a, w), Bit(b, w)) \in 0..1
         /\ Differ(Differ(Bit(a, w), Bit(b, w)), Bit(b, w)) = Bit(a, w)
         /\ XorBit(a, b, w) = w * Differ(Bit(a, w), Bit(b, w))
<1>1. Bit(a, w) \in 0..1 /\ Bit(b, w) \in 0..1
  BY DEF Bit, Byte, Weights
<1>2. XorBit(a, b, w) = IF Bit(a, w) = Bit(b, w) THEN 0 ELSE w
  BY DEF XorBit, Bit
<1> QED
  BY <1>1, <1>2 DEF Differ, Weights

\* Coding a byte twice with the same key.
LEMMA XorByteTwice ==
  ASSUME NEW a \in Byte, NEW b \in Byte
  PROVE  XorByte(a, b) \in Byte /\ XorByte(XorByte(a, b), b) = a
<1> DEFINE x == XorByte(a, b)
           d(w) == Differ(Bit(a, w), Bit(b, w))
<1>1. \A w \in Weights : /\ Bit(a, w) \in 0..1 /\ d(w) \in 0..1
                         /\ Differ(d(w), Bit(b, w)) = Bit(a, w)
                         /\ XorBit(a, b, w) = w * d(w)
  BY XorBitIsDiffer
<1>2. /\ d(1) \in 0..1 /\ d(2) \in 0..1 /\ d(4) \in 0..1 /\ d(8) \in 0..1
      /\ d(16) \in 0..1 /\ d(32) \in 0..1 /\ d(64) \in 0..1 /\ d(128) \in 0..1
  BY <1>1 DEF Weights
<1>3. /\ XorBit(a, b, 1) = d(1) /\ XorBit(a, b, 2) = 2 * d(2)
      /\ XorBit(a, b, 4) = 4 * d(4) /\ XorBit(a, b, 8) = 8 * d(8)
      /\ XorBit(a, b, 16) = 16 * d(16) /\ XorBit(a, b, 32) = 32 * d(32)
      /\ XorBit(a, b, 64) = 64 * d(64) /\ XorBit(a, b, 128) = 128 * d(128)
  <2> HIDE DEF d
  <2> QED BY <1>1, <1>2 DEF Weights
<1>4. x = d(1) + 2 * d(2) + 4 * d(4) + 8 * d(8) + 16 * d(16) + 32 * d(32)
            + 64 * d(64) + 128 * d(128)
  <2> HIDE DEF d
  <2> QED BY <1>3 DEF XorByte
<1>5. x \in Byte /\ \A w \in Weights : Bit(x, w) = d(w)
  <2> HIDE DEF d, x
  <2> QED BY <1>2, <1>4, SumOfBits DEF Weights
<1>6. \A w \in Weights : XorBit(x, b, w) = w * Bit(a, w)
  <2> HIDE DEF x
  <2> QED BY <1>1, <1>5, XorBitIsDiffer
<1>7. XorByte(x, b) = a
  <2> HIDE DEF x
  <2>1. /\ XorBit(x, b, 1) = Bit(a, 1) /\ XorBit(x, b, 2) = 2 * Bit(a, 2)
        /\ XorBit(x, b, 4) = 4 * Bit(a, 4) /\ XorBit(x, b, 8) = 8 * Bit(a, 8)
        /\ XorBit(x, b, 16) = 16 * Bit(a, 16) /\ XorBit(x, b, 32) = 32 * Bit(a, 32)
        /\ XorBit(x, b, 64) = 64 * Bit(a, 64)
        /\ XorBit(x, b, 128) = 128 * Bit(a, 128)
    BY <1>1, <1>6 DEF Weights
  <2> QED BY <2>1, ByteBits DEF XorByte
<1> QED
  BY <1>5, <1>7

\* xorDecode with the key of xorEncode gives back the text.
THEOREM XorRoundTrip ==
  ASSUME NEW text \in Seq(Byte), NEW key \in Byte
  PROVE  /\ xorCode(text, key) \in Seq(Byte)
         /\ Len(xorCode(text, key)) = Len(text)
         /\ xorCode(xorCode(text, key), key) = text
<1>1. \A i \in DOMAIN text : text[i] \in Byte
  OBVIOUS
<1>2. \A i \in DOMAIN text : XorByte(text[i], key) \in Byte
  BY <1>1, XorByteTwice
<1>3. \A i \in DOMAIN text : XorByte(XorByte(text[i], key), key) = text[i]
  BY <1>1, XorByteTwice
<1> QED
  BY <1>2, <1>3 DEF xorCode

-----------------------------------------------------------------------------
(* base64                                                                  *)

\* The alphabet has no = sign, and a character tells its index.
LEMMA Alphabet ==
  ASSUME NEW i \in 0..63
  PROVE  /\ BASE64_MAPPING[i] \in Byte
         /\ BASE64_MAPPING[i] # Equals
         /\ getIndexForC(BASE64_MAPPING[i]) = i
<1>1. /\ BASE64_MAPPING[i] \in Byte
      /\ BASE64_MAPPING[i] # Equals
  BY DEF BASE64_MAPPING, Byte, Equals
<1>2. \A j \in 0..63 : BASE64_MAPPING[j] = BASE64_MAPPING[i] => j = i
  BY DEF BASE64_MAPPING
<1> QED
  BY <1>1, <1>2 DEF getIndexForC

\* Three bytes make four indices, and those make the bytes again.
LEMMA Segment ==
  ASSUME NEW a \in Byte, NEW b \in Byte, NEW c \in Byte
  PROVE  /\ a \div 4 \in 0..63
         /\ (a % 4) * 16 + b \div 16 \in 0..63
         /\ (b % 16) * 4 + c \div 64 \in 0..63
         /\ c % 64 \in 0..63
         /\ (((a \div 4) * 4) % 256) + ((a % 4) * 16 + b \div 16) \div 16 = a
         /\ (((a % 4) * 16 + b \div 16) % 16) * 16
              + ((b % 16) * 4 + c \div 64) \div 4 = b
         /\ (((b % 16) * 4 + c \div 64) % 4) * 64 + (c % 64) = c
<1> DEFINE a1 == a \div 4    a0 == a % 4
           b1 == b \div 16   b0 == b % 16
           c1 == c \div 64   c0 == c % 64
<1>1. /\ a1 \in 0..63 /\ a0 \in 0..3 /\ a = 4 * a1 + a0
      /\ b1 \in 0..15 /\ b0 \in 0..15 /\ b = 16 * b1 + b0
      /\ c1 \in 0..3 /\ c0 \in 0..63 /\ c = 64 * c1 + c0
  BY DEF Byte
<1> HIDE DEF a1, a0, b1, b0, c1, c0
<1>2. a0 * 16 + b1 \in 0..63 /\ b0 * 4 + c1 \in 0..63
  BY <1>1
<1>3. ((a1 * 4) % 256) + (a0 * 16 + b1) \div 16 = a
  <2>1. (a1 * 4) % 256 = a1 * 4 /\ (a0 * 16 + b1) \div 16 = a0
    BY <1>1
  <2> QED BY <2>1, <1>1
<1>4. ((a0 * 16 + b1) % 16) * 16 + (b0 * 4 + c1) \div 4 = b
  <2>1. (a0 * 16 + b1) % 16 = b1 /\ (b0 * 4 + c1) \div 4 = b0
    BY <1>1
  <2> QED BY <2>1, <1>1
<1>5. ((b0 * 4 + c1) % 4) * 64 + c0 = c
  <2>1. (b0 * 4 + c1) % 4 = c1
    BY <1>1
  <2> QED BY <2>1, <1>1
<1> QED
  BY <1>1, <1>2, <1>3, <1>4, <1>5 DEF a1, a0, b1, b0, c1, c0

\* The lengths: s segments of three bytes, P of the bytes added.
LEMMA Segments ==
  ASSUME NEW n \in Nat
  PROVE  \E s \in Nat : /\ n + Padding(n) = 3 * s
                        /\ (n + Padding(n)) \div 3 = s
                        /\ Padding(n) \in 0..2
                        /\ n = 0 <=> s = 0
                        /\ (n * 4) \div 3 > 4 * (s - 1)
<1> DEFINE s == (n + 2) \div 3
<1>1. s \in Nat
  OBVIOUS
<1>2. CASE n % 3 = 0
  BY <1>2 DEF Padding
<1>3. CASE n % 3 = 1
  BY <1>3 DEF Padding
<1>4. CASE n % 3 = 2
  BY <1>4 DEF Padding
<1> QED
  BY <1>2, <1>3, <1>4

\* The indices of a padded text, and the lengths of the encoding.
LEMMA Base64Encoding ==
  ASSUME NEW S, NEW text \in Seq(S), text # <<>>
  PROVE  LET n == Len(text)
             P == Padding(n)
             p == Padded(text)
             c == base64Encode(text)
         IN  \E s \in Nat \ {0} :
               /\ n + P = 3 * s /\ P \in 0..2
               /\ Len(c) = 4 * s /\ DOMAIN c = 1..4 * s
               /\ (n * 4) \div 3 > 4 * (s - 1)
               /\ DOMAIN p = 1..3 * s
               /\ \A i \in 1..3 * s : p[i] = IF i <= n THEN text[i] ELSE 0
               /\ \A i \in 1..4 * s : c[i] = IF i > 4 * s - P THEN Equals
                                             ELSE BASE64_MAPPING[Sextet(p, i)]
<1> DEFINE n == Len(text)
           P == Padding(n)
           p == Padded(text)
           c == base64Encode(text)
           z == [i \in 1..P |-> 0]
<1>1. n \in Nat /\ n > 0
  OBVIOUS
<1>2. PICK s \in Nat : /\ n + P = 3 * s /\ (n + P) \div 3 = s /\ P \in 0..2
                       /\ (n = 0 <=> s = 0)
                       /\ (n * 4) \div 3 > 4 * (s - 1)
  BY <1>1, Segments
<1>3. z \in Seq({0}) /\ Len(z) = P
  BY <1>2
<1>4. /\ Len(p) = 3 * s /\ DOMAIN p = 1..3 * s
      /\ \A i \in 1..3 * s : p[i] = IF i <= n THEN text[i] ELSE 0
  <2>1. p = text \o z
    BY DEF Padded
  <2>2. z \in Seq(S \cup {0}) /\ text \in Seq(S \cup {0})
    <3> HIDE DEF z
    <3> QED BY <1>3
  <2>3. p \in Seq(S \cup {0}) /\ Len(p) = n + P
    <3> HIDE DEF z, p
    <3> QED BY <2>1, <2>2, <1>3, ConcatProperties
  <2>4. \A i \in 1..n + P : p[i] = IF i <= n THEN text[i] ELSE z[i - n]
    <3> HIDE DEF z
    <3> QED BY <2>1, <2>2, <1>3
  <2>5. \A i \in 1..3 * s : i > n => z[i - n] = 0
    BY <1>1, <1>2
  <2> QED
    <3> HIDE DEF z, p, n, P
    <3>1. Len(p) = 3 * s /\ DOMAIN p = 1..3 * s
      BY <2>3, <1>2
    <3>2. ASSUME NEW i \in 1..3 * s PROVE p[i] = IF i <= n THEN text[i] ELSE 0
      <4>1. p[i] = IF i <= n THEN text[i] ELSE z[i - n]
        BY <2>4, <1>2
      <4>2. i > n => z[i - n] = 0
        BY <2>5
      <4>3. CASE i <= n
        BY <4>1, <4>3
      <4>4. CASE i > n
        BY <4>1, <4>2, <4>4, <1>1
      <4> QED BY <4>3, <4>4, <1>1
    <3> QED BY <3>1, <3>2
<1>5. c = [i \in 1..4 * s |-> IF i > 4 * s - P THEN Equals
                              ELSE BASE64_MAPPING[Sextet(p, i)]]
  <2>1. Len(p) \div 3 = s
    BY <1>4, <1>2
  <2> QED
    BY <2>1 DEF base64Encode
<1>6. 4 * s \in Nat
  BY <1>2
<1>7. /\ Len(c) = 4 * s /\ DOMAIN c = 1..4 * s
      /\ \A i \in 1..4 * s : c[i] = IF i > 4 * s - P THEN Equals
                                    ELSE BASE64_MAPPING[Sextet(p, i)]
  <2> HIDE DEF c, p
  <2> QED BY <1>5, <1>6
<1> HIDE DEF c, p, P
<1>8. s \in Nat \ {0}
  BY <1>1, <1>2
<1> QED
  BY <1>2, <1>4, <1>7, <1>8 DEF c, p, P

\* The room that base64Encode asks for is enough where the size of the buffer is
\* a multiple of four, although it is computed before the zero bytes are added.
THEOREM Base64EncodingFits ==
  ASSUME NEW S, NEW text \in Seq(S), NEW size \in Nat, size % 4 = 0,
         ~base64EncodeFails(text, size)
  PROVE  Len(base64Encode(text)) <= size
<1>1. CASE text = <<>>
  <2>1. Len(text) = 0 /\ Padding(0) = 0
    BY <1>1 DEF Padding
  <2>2. Len(Padded(text)) = 0
    BY <1>1, <2>1 DEF Padded
  <2>3. Len(base64Encode(text)) = 0
    BY <2>2 DEF base64Encode
  <2> QED BY <2>3
<1>2. CASE text # <<>>
  <2>1. PICK s \in Nat \ {0} : /\ Len(base64Encode(text)) = 4 * s
                               /\ (Len(text) * 4) \div 3 > 4 * (s - 1)
    BY <1>2, Base64Encoding
  <2>2. size >= (Len(text) * 4) \div 3
    BY DEF base64EncodeFails
  <2>3. (Len(text) * 4) \div 3 \in Nat
    OBVIOUS
  <2>4. size > 4 * (s - 1)
    BY <2>1, <2>2, <2>3
  <2> QED BY <2>1, <2>4
<1> QED
  BY <1>1, <1>2

\* The number of = signs is one.
LEMMA AdditionsType ==
  ASSUME NEW S, NEW text \in Seq(S)
  PROVE  Signs(text) \in Nat /\ Additions(text) \in Nat
<1> DEFINE K == {k \in 1..Len(text) - 1 :
                   \A i \in (Len(text) - k + 1)..Len(text) : text[i] = Equals}
<1>1. IsFiniteSet(1..Len(text) - 1)
  BY FS_Interval
<1>2. IsFiniteSet(K)
  BY <1>1, FS_Subset
<1> QED
  BY <1>2, FS_CardinalityType DEF Signs, Additions

\* The text that base64Decode returns is no longer than the room that it asks for.
LEMMA Base64DecodedLength ==
  ASSUME NEW S, NEW text \in Seq(S), NEW size \in Nat,
         ~base64DecodeFails(text, size)
  PROVE  Len(base64Decode(text)) <= size
<1> DEFINE A == Additions(text)
           N == 3 * (Len(text) \div 4) - A
<1>1. Len(text) \in Nat /\ 3 * (Len(text) \div 4) <= size
  BY DEF base64DecodeFails
<1>2. A \in Nat
  BY AdditionsType
<1>3. N \in Int /\ N <= size
  BY <1>1, <1>2
<1>4. \E f : base64Decode(text) = [j \in 1..N |-> f[j]]
  <2> DEFINE kept == Len(text) - Signs(text)
             m == [i \in 1..Len(text) |-> IF i <= kept THEN getIndexForC(text[i]) ELSE 0]
             f == [j \in 1..N |-> Joined(m, j)]
  <2>1. base64Decode(text) = [j \in 1..N |-> Joined(m, j)]
    BY DEF base64Decode
  <2>2. f = [j \in 1..N |-> f[j]]
    OBVIOUS
  <2> QED BY <2>1, <2>2
<1>5. PICK f : base64Decode(text) = [j \in 1..N |-> f[j]]
  BY <1>4
<1> HIDE DEF N
<1>6. CASE N >= 0
  BY <1>3, <1>5, <1>6
<1>7. CASE N < 0
  <2>1. 1..N = 1..0
    BY <1>3, <1>7
  <2>2. base64Decode(text) = [j \in 1..0 |-> f[j]]
    BY <1>5, <2>1
  <2>3. Len([j \in 1..0 |-> f[j]]) = 0
    OBVIOUS
  <2> QED BY <2>2, <2>3
<1> QED
  BY <1>3, <1>6, <1>7

\* The indices of a padded text, segment by segment.
LEMMA Sextets ==
  ASSUME NEW text \in Seq(Byte), text # <<>>,
         NEW s \in Nat \ {0}, Len(text) + Padding(Len(text)) = 3 * s
  PROVE  LET p == Padded(text)
         IN  /\ \A i \in 1..3 * s : p[i] \in Byte
             /\ \A q \in 0..s - 1 :
                  /\ Sextet(p, 4 * q + 1) = p[3 * q + 1] \div 4
                  /\ Sextet(p, 4 * q + 2)
                       = (p[3 * q + 1] % 4) * 16 + p[3 * q + 2] \div 16
                  /\ Sextet(p, 4 * q + 3)
                       = (p[3 * q + 2] % 16) * 4 + p[3 * q + 3] \div 64
                  /\ Sextet(p, 4 * q + 4) = p[3 * q + 3] % 64
             /\ \A i \in 1..4 * s : Sextet(p, i) \in 0..63
<1> DEFINE n == Len(text)
           p == Padded(text)
<1>1. \A i \in 1..3 * s : p[i] = IF i <= n THEN text[i] ELSE 0
  <2>1. PICK k \in Nat \ {0} :
          /\ n + Padding(n) = 3 * k
          /\ \A i \in 1..3 * k : p[i] = IF i <= n THEN text[i] ELSE 0
    BY Base64Encoding
  <2>2. k = s
    BY <2>1
  <2> QED BY <2>1, <2>2
<1>2. n \in Nat /\ \A i \in 1..n : text[i] \in Byte
  OBVIOUS
<1> HIDE DEF p, n
<1>3. \A i \in 1..3 * s : p[i] \in Byte
  <2> SUFFICES ASSUME NEW i \in 1..3 * s PROVE p[i] \in Byte
    OBVIOUS
  <2>1. 0 \in Byte
    BY DEF Byte
  <2>2. i <= n => i \in 1..n
    BY <1>1, <1>2
  <2> QED
    BY <2>1, <2>2, <1>1, <1>2
\* The indices of the segment after the q-th.
<1>4. ASSUME NEW q \in 0..s - 1
      PROVE  /\ Sextet(p, 4 * q + 1) = p[3 * q + 1] \div 4
             /\ Sextet(p, 4 * q + 2) = (p[3 * q + 1] % 4) * 16 + p[3 * q + 2] \div 16
             /\ Sextet(p, 4 * q + 3) = (p[3 * q + 2] % 16) * 4 + p[3 * q + 3] \div 64
             /\ Sextet(p, 4 * q + 4) = p[3 * q + 3] % 64
  <2>1. /\ (4 * q + 1) % 4 = 1 /\ (4 * q + 2) % 4 = 2
        /\ (4 * q + 3) % 4 = 3 /\ (4 * q + 4) % 4 = 0
    OBVIOUS
  <2>2. /\ ((4 * q + 1) - 1) \div 4 = q /\ ((4 * q + 2) - 1) \div 4 = q
        /\ ((4 * q + 3) - 1) \div 4 = q /\ ((4 * q + 4) - 1) \div 4 = q
    OBVIOUS
  <2> QED
    BY <2>1, <2>2 DEF Sextet
<1>5. ASSUME NEW q \in 0..s - 1
      PROVE  /\ p[3 * q + 1] \in Byte /\ p[3 * q + 2] \in Byte
             /\ p[3 * q + 3] \in Byte
             /\ \A r \in 1..4 : Sextet(p, 4 * q + r) \in 0..63
  <2>1. 3 * q + 1 \in 1..3 * s /\ 3 * q + 2 \in 1..3 * s /\ 3 * q + 3 \in 1..3 * s
    BY <1>1
  <2>2. p[3 * q + 1] \in Byte /\ p[3 * q + 2] \in Byte /\ p[3 * q + 3] \in Byte
    BY <2>1, <1>3
  <2>3. /\ Sextet(p, 4 * q + 1) \in 0..63 /\ Sextet(p, 4 * q + 2) \in 0..63
        /\ Sextet(p, 4 * q + 3) \in 0..63 /\ Sextet(p, 4 * q + 4) \in 0..63
    <3>1. /\ p[3 * q + 1] \div 4 \in 0..63
          /\ (p[3 * q + 1] % 4) * 16 + p[3 * q + 2] \div 16 \in 0..63
          /\ (p[3 * q + 2] % 16) * 4 + p[3 * q + 3] \div 64 \in 0..63
          /\ p[3 * q + 3] % 64 \in 0..63
      <4> DEFINE x == p[3 * q + 1]
                 y == p[3 * q + 2]
                 z == p[3 * q + 3]
      <4>1. x \in Byte /\ y \in Byte /\ z \in Byte
        BY <2>2
      <4> HIDE DEF x, y, z
      <4>2. /\ x \div 4 \in 0..63 /\ (x % 4) * 16 + y \div 16 \in 0..63
            /\ (y % 16) * 4 + z \div 64 \in 0..63 /\ z % 64 \in 0..63
        BY <4>1, Segment
      <4> QED BY <4>2 DEF x, y, z
    <3> QED BY <3>1, <1>4
  <2>4. \A r \in 1..4 : r = 1 \/ r = 2 \/ r = 3 \/ r = 4
    OBVIOUS
  <2> QED
    BY <2>2, <2>3, <2>4
<1>6. \A i \in 1..4 * s : Sextet(p, i) \in 0..63
  <2> SUFFICES ASSUME NEW i \in 1..4 * s PROVE Sextet(p, i) \in 0..63
    OBVIOUS
  <2> DEFINE q == (i - 1) \div 4
             r == ((i - 1) % 4) + 1
  <2>1. q \in 0..s - 1 /\ r \in 1..4 /\ i = 4 * q + r
    BY <1>1
  <2> HIDE DEF q, r
  <2> QED BY <2>1, <1>5
<1> QED
  BY <1>3, <1>4, <1>6 DEF p

\* base64Decode gives back what base64Encode was given, whatever its length, and
\* fails only for want of room.
THEOREM Base64RoundTrip ==
  ASSUME NEW text \in Seq(Byte), text # <<>>
  PROVE  /\ base64Decode(base64Encode(text)) = text
         /\ \A size \in Nat :
              base64DecodeFails(base64Encode(text), size)
                <=> size < 3 * (Len(base64Encode(text)) \div 4)
<1> DEFINE n == Len(text)
           P == Padding(n)
           p == Padded(text)
           c == base64Encode(text)
<1>1. PICK s \in Nat \ {0} :
        /\ n + P = 3 * s /\ P \in 0..2
        /\ Len(c) = 4 * s /\ DOMAIN c = 1..4 * s
        /\ DOMAIN p = 1..3 * s
        /\ \A i \in 1..3 * s : p[i] = IF i <= n THEN text[i] ELSE 0
        /\ \A i \in 1..4 * s : c[i] = IF i > 4 * s - P THEN Equals
                                      ELSE BASE64_MAPPING[Sextet(p, i)]
  BY Base64Encoding
<1>2. n \in Nat /\ \A i \in 1..n : text[i] \in Byte
  OBVIOUS
<1> HIDE DEF c, p, P, n
<1>3. /\ \A i \in 1..3 * s : p[i] \in Byte
      /\ \A i \in 1..4 * s : Sextet(p, i) \in 0..63
  BY <1>1, Sextets DEF p, P, n
<1>4. ASSUME NEW q \in 0..s - 1
      PROVE  /\ Sextet(p, 4 * q + 1) = p[3 * q + 1] \div 4
             /\ Sextet(p, 4 * q + 2) = (p[3 * q + 1] % 4) * 16 + p[3 * q + 2] \div 16
             /\ Sextet(p, 4 * q + 3) = (p[3 * q + 2] % 16) * 4 + p[3 * q + 3] \div 64
             /\ Sextet(p, 4 * q + 4) = p[3 * q + 3] % 64
  BY <1>1, Sextets DEF p, P, n
\* The = signs at the end are those that base64Encode has put there.
<1>7. Signs(c) = P /\ Additions(c) = P
  <2>1. \A i \in 1..4 * s : c[i] = Equals <=> i > 4 * s - P
    BY <1>1, <1>3, Alphabet
  <2>2. {k \in 1..4 * s - 1 : \A i \in (4 * s - k + 1)..4 * s : c[i] = Equals} = 1..P
    <3>1. ASSUME NEW k \in 1..P PROVE /\ k \in 1..4 * s - 1
                                      /\ \A i \in (4 * s - k + 1)..4 * s : c[i] = Equals
      BY <1>1, <2>1
    <3>2. ASSUME NEW k \in 1..4 * s - 1, k > P
          PROVE  ~\A i \in (4 * s - k + 1)..4 * s : c[i] = Equals
      <4>1. /\ 4 * s - P \in (4 * s - k + 1)..4 * s
            /\ 4 * s - P \in 1..4 * s
        BY <1>1, <3>2
      <4>2. c[4 * s - P] # Equals
        BY <2>1, <4>1, <1>1
      <4> QED BY <4>1, <4>2
    <3> QED BY <1>1, <3>1, <3>2
  <2>3. Cardinality(1..P) = P
    <3>1. P \in Int /\ P >= 0
      BY <1>1
    <3>2. Cardinality(1..P) = IF 1 > P THEN 0 ELSE P - 1 + 1
      BY <3>1, FS_Interval
    <3> QED BY <3>1, <3>2
  <2>4. Signs(c) = P
    BY <1>1, <2>2, <2>3 DEF Signs
  <2> QED BY <1>1, <2>4 DEF Additions
\* The indices are found again, and are 0 for the = signs.
<1> DEFINE m == [i \in 1..4 * s |-> IF i <= 4 * s - P THEN getIndexForC(c[i]) ELSE 0]
<1>8. \A i \in 1..4 * s : m[i] = Sextet(p, i)
  <2> SUFFICES ASSUME NEW i \in 1..4 * s PROVE m[i] = Sextet(p, i)
    OBVIOUS
  <2>1. CASE i <= 4 * s - P
    <3>1. c[i] = BASE64_MAPPING[Sextet(p, i)] /\ Sextet(p, i) \in 0..63
      BY <1>1, <1>3, <2>1
    <3>2. getIndexForC(c[i]) = Sextet(p, i)
      BY <3>1, Alphabet
    <3> QED BY <3>2, <2>1
  <2>2. CASE i > 4 * s - P
    <3>1. s - 1 \in 0..s - 1 /\ 4 * s = 4 * (s - 1) + 4
      BY <1>1
    <3>2. /\ Sextet(p, 4 * s - 1) = (p[3 * s - 1] % 16) * 4 + p[3 * s] \div 64
          /\ Sextet(p, 4 * s) = p[3 * s] % 64
      <4>1. /\ 4 * (s - 1) + 3 = 4 * s - 1 /\ 3 * (s - 1) + 2 = 3 * s - 1
            /\ 3 * (s - 1) + 3 = 3 * s /\ 4 * (s - 1) + 4 = 4 * s
        OBVIOUS
      <4>2. /\ Sextet(p, 4 * (s - 1) + 3)
                 = (p[3 * (s - 1) + 2] % 16) * 4 + p[3 * (s - 1) + 3] \div 64
            /\ Sextet(p, 4 * (s - 1) + 4) = p[3 * (s - 1) + 3] % 64
        BY <3>1, <1>4
      <4> QED BY <4>1, <4>2
    <3>3. p[3 * s] = 0 /\ (P = 2 => p[3 * s - 1] = 0)
      BY <1>1, <1>2, <2>2
    <3>4. i = 4 * s \/ (P = 2 /\ i = 4 * s - 1)
      BY <1>1, <2>2
    <3>5. m[i] = 0
      BY <2>2, <1>1
    <3>6. CASE i = 4 * s
      BY <3>2, <3>3, <3>5, <3>6
    <3>7. CASE P = 2 /\ i = 4 * s - 1
      BY <3>2, <3>3, <3>5, <3>7
    <3> QED BY <3>4, <3>6, <3>7
  <2> QED BY <1>1, <2>1, <2>2
<1> HIDE DEF m
\* Three bytes from the indices of a segment.
<1>9. \A j \in 1..3 * s : Joined(m, j) = p[j]
  <2> SUFFICES ASSUME NEW j \in 1..3 * s PROVE Joined(m, j) = p[j]
    OBVIOUS
  <2> DEFINE q == (j - 1) \div 3
  <2>1. q \in 0..s - 1 /\ (j = 3 * q + 1 \/ j = 3 * q + 2 \/ j = 3 * q + 3)
    BY <1>1
  <2>2. /\ m[4 * q + 1] = Sextet(p, 4 * q + 1) /\ m[4 * q + 2] = Sextet(p, 4 * q + 2)
        /\ m[4 * q + 3] = Sextet(p, 4 * q + 3) /\ m[4 * q + 4] = Sextet(p, 4 * q + 4)
    <3> HIDE DEF q
    <3>1. /\ 4 * q + 1 \in 1..4 * s /\ 4 * q + 2 \in 1..4 * s
          /\ 4 * q + 3 \in 1..4 * s /\ 4 * q + 4 \in 1..4 * s
      BY <2>1
    <3> QED BY <3>1, <1>8
  <2>3. Joined(m, j) =
          IF j % 3 = 1 THEN ((m[4 * q + 1] * 4) % 256) + m[4 * q + 2] \div 16
          ELSE IF j % 3 = 2 THEN (m[4 * q + 2] % 16) * 16 + m[4 * q + 3] \div 4
          ELSE (m[4 * q + 3] % 4) * 64 + m[4 * q + 4]
    BY DEF Joined
  <2> HIDE DEF q
  <2>4. p[3 * q + 1] \in Byte /\ p[3 * q + 2] \in Byte /\ p[3 * q + 3] \in Byte
    BY <2>1, <1>1, <1>3
  <2>5. /\ ((m[4 * q + 1] * 4) % 256) + m[4 * q + 2] \div 16 = p[3 * q + 1]
        /\ (m[4 * q + 2] % 16) * 16 + m[4 * q + 3] \div 4 = p[3 * q + 2]
        /\ (m[4 * q + 3] % 4) * 64 + m[4 * q + 4] = p[3 * q + 3]
    BY <2>1, <2>2, <2>4, <1>4, Segment
  <2>6. /\ (3 * q + 1) % 3 = 1 /\ (3 * q + 2) % 3 = 2 /\ (3 * q + 3) % 3 = 0
    BY <2>1
  <2>7. CASE j = 3 * q + 1
    BY <2>3, <2>5, <2>6, <2>7
  <2>8. CASE j = 3 * q + 2
    BY <2>3, <2>5, <2>6, <2>8
  <2>9. CASE j = 3 * q + 3
    BY <2>3, <2>5, <2>6, <2>9
  <2> QED BY <2>1, <2>7, <2>8, <2>9
<1>10. base64Decode(c) = [j \in 1..n |-> Joined(m, j)]
  <2>1. 3 * (Len(c) \div 4) - Additions(c) = n
    BY <1>1, <1>2, <1>7
  <2> QED BY <2>1, <1>1, <1>7 DEF base64Decode, m
<1>11. \A j \in 1..n : Joined(m, j) = text[j]
  BY <1>1, <1>2, <1>9
<1>12. base64Decode(c) = text
  BY <1>2, <1>10, <1>11 DEF n
<1>13. \A i \in 1..Len(c) - Signs(c) : getIndexForC(c[i]) # 64
  <2> SUFFICES ASSUME NEW i \in 1..4 * s - P PROVE getIndexForC(c[i]) # 64
    BY <1>1, <1>7
  <2>1. i \in 1..4 * s /\ i <= 4 * s - P
    BY <1>1
  <2>2. c[i] = BASE64_MAPPING[Sextet(p, i)] /\ Sextet(p, i) \in 0..63
    BY <1>1, <1>3, <2>1
  <2>3. getIndexForC(c[i]) = Sextet(p, i)
    BY <2>2, Alphabet
  <2>4. \A x \in 0..63 : x # 64
    OBVIOUS
  <2> QED
    BY <2>2, <2>3, <2>4
<1>14. Len(c) % 4 = 0
  BY <1>1
<1> QED
  BY <1>12, <1>13, <1>14 DEF base64DecodeFails, c

\* Four characters for every three bytes that were begun.
CodeLength(n) == 4 * ((n + 2) \div 3)

LEMMA CodeLengths ==
  ASSUME NEW n \in Nat
  PROVE  /\ CodeLength(n) \in Nat /\ CodeLength(n) % 4 = 0
         /\ CodeLength(n) = 4 * ((n + Padding(n)) \div 3)
         /\ n = 0 <=> CodeLength(n) = 0
<1>1. CASE n % 3 = 0
  BY <1>1 DEF Padding, CodeLength
<1>2. CASE n % 3 = 1
  BY <1>2 DEF Padding, CodeLength
<1>3. CASE n % 3 = 2
  BY <1>3 DEF Padding, CodeLength
<1> QED
  BY <1>1, <1>2, <1>3

\* An encoding is a text again.
LEMMA EncodingType ==
  ASSUME NEW text \in Seq(Byte)
  PROVE  /\ base64Encode(text) \in Seq(Byte)
         /\ Len(base64Encode(text)) = CodeLength(Len(text))
<1> DEFINE c == base64Encode(text)
           p == Padded(text)
<1>1. CASE text = <<>>
  <2>1. Len(text) = 0 /\ Padding(0) = 0
    BY <1>1 DEF Padding
  <2>2. Len(Padded(text)) = 0
    BY <1>1, <2>1 DEF Padded
  <2>3. base64Encode(text) = <<>>
    BY <2>2 DEF base64Encode
  <2> QED BY <2>1, <2>3 DEF CodeLength
<1>2. CASE text # <<>>
  <2>1. PICK s \in Nat \ {0} :
          /\ Len(text) + Padding(Len(text)) = 3 * s
          /\ Len(c) = 4 * s /\ DOMAIN c = 1..4 * s
          /\ \A i \in 1..4 * s : c[i] = IF i > 4 * s - Padding(Len(text)) THEN Equals
                                        ELSE BASE64_MAPPING[Sextet(p, i)]
    BY <1>2, Base64Encoding
  <2>2. \A i \in 1..4 * s : Sextet(p, i) \in 0..63
    BY <1>2, <2>1, Sextets DEF p
  <2>3. \A i \in 1..4 * s : c[i] \in Byte
    <3>1. Equals \in Byte
      BY DEF Equals, Byte
    <3> QED BY <2>1, <2>2, <3>1, Alphabet
  <2>4. c = [i \in 1..4 * s |-> c[i]]
    <3>1. c = [i \in DOMAIN c |-> c[i]]
      BY DEF base64Encode
    <3> HIDE DEF c
    <3> QED BY <2>1, <3>1
  <2>5. c \in Seq(Byte)
    <3> HIDE DEF c
    <3> QED BY <2>1, <2>3, <2>4
  <2>6. CodeLength(Len(text)) = 4 * s
    <3>1. (3 * s) \div 3 = s
      OBVIOUS
    <3> QED BY <2>1, <3>1, CodeLengths
  <2> QED BY <2>1, <2>5, <2>6
<1> QED
  BY <1>1, <1>2

\* Whole segments can be encoded by themselves: a piece of the text that begins
\* after a segments and ends with a segment, or with the text, has the encoding
\* that stands at its place in the encoding of the text.
THEOREM EncodingOfPiece ==
  ASSUME NEW text \in Seq(Byte), NEW a \in Nat, NEW b \in Nat,
         3 * a < b, b <= Len(text), b % 3 = 0 \/ b = Len(text)
  PROVE  base64Encode(SubSeq(text, 3 * a + 1, b))
           = SubSeq(base64Encode(text), 4 * a + 1, CodeLength(b))
<1> DEFINE n == Len(text)
           p == Padded(text)
           c == base64Encode(text)
           t == SubSeq(text, 3 * a + 1, b)
           l == b - 3 * a
           pt == Padded(t)
           ct == base64Encode(t)
           u == SubSeq(c, 4 * a + 1, CodeLength(b))
<1>1. /\ n \in Nat /\ text # <<>> /\ l \in Nat \ {0}
      /\ \A i \in 1..n : text[i] \in Byte
  OBVIOUS
<1>2. /\ t \in Seq(Byte) /\ Len(t) = l /\ t # <<>>
      /\ \A i \in 1..l : t[i] = text[3 * a + i]
  <2>1. 3 * a \in Nat /\ 3 * a <= b
    OBVIOUS
  <2>2. /\ t \in Seq(Byte) /\ Len(t) = l
        /\ \A i \in 1..l : t[i] = text[3 * a + i]
    BY <2>1, Piece
  <2> QED BY <2>2, <1>1
<1>3. PICK s \in Nat \ {0} :
        /\ n + Padding(n) = 3 * s /\ Padding(n) \in 0..2
        /\ Len(c) = 4 * s
        /\ \A i \in 1..3 * s : p[i] = IF i <= n THEN text[i] ELSE 0
        /\ \A i \in 1..4 * s : c[i] = IF i > 4 * s - Padding(n) THEN Equals
                                      ELSE BASE64_MAPPING[Sextet(p, i)]
  BY <1>1, Base64Encoding
<1>4. PICK k \in Nat \ {0} :
        /\ l + Padding(l) = 3 * k /\ Padding(l) \in 0..2
        /\ Len(ct) = 4 * k
        /\ \A i \in 1..3 * k : pt[i] = IF i <= l THEN t[i] ELSE 0
        /\ \A i \in 1..4 * k : ct[i] = IF i > 4 * k - Padding(l) THEN Equals
                                       ELSE BASE64_MAPPING[Sextet(pt, i)]
  <2> HIDE DEF t, l
  <2> QED BY <1>2, Base64Encoding
<1>5. c \in Seq(Byte) /\ ct \in Seq(Byte)
  <2> HIDE DEF t
  <2> QED BY <1>2, EncodingType
<1> HIDE DEF c, ct, p, pt, t
<1>6. Padding(l) = Padding(b)
  <2>1. l % 3 = b % 3
    OBVIOUS
  <2> QED BY <2>1 DEF Padding
<1> HIDE DEF l
<1>7. /\ CodeLength(b) = 4 * (a + k) /\ a + k <= s
      /\ \/ b = n /\ a + k = s
         \/ b < n /\ b = 3 * (a + k) /\ Padding(l) = 0 /\ a + k < s
  <2>1. b + Padding(b) = 3 * (a + k)
    <3>1. b = l + 3 * a
      BY DEF l
    <3>2. l \in Nat /\ l + Padding(b) = 3 * k /\ Padding(b) \in 0..2
      BY <1>1, <1>4, <1>6
    <3> QED BY <3>1, <3>2
  <2>2. (3 * (a + k)) \div 3 = a + k
    OBVIOUS
  <2>3. CodeLength(b) = 4 * (a + k)
    BY <2>1, <2>2, CodeLengths
  <2>4. CASE b = n
    BY <2>1, <2>3, <2>4, <1>3
  <2>5. CASE b < n
    <3>1. b % 3 = 0
      BY <2>5
    <3>2. Padding(b) = 0
      BY <3>1 DEF Padding
    <3> QED BY <2>1, <2>3, <2>5, <3>2, <1>1, <1>3, <1>6
  <2> QED BY <2>4, <2>5, <1>1
<1> HIDE DEF n
<1>8. \A i \in 1..3 * k : pt[i] = p[3 * a + i]
  <2> SUFFICES ASSUME NEW i \in 1..3 * k PROVE pt[i] = p[3 * a + i]
    OBVIOUS
  <2>1. 3 * a + i \in 1..3 * s
    BY <1>7
  <2>2. i <= l <=> 3 * a + i <= n
    BY <1>1, <1>4, <1>7 DEF l
  <2>3. i <= l => t[i] = text[3 * a + i]
    BY <1>1, <1>2
  <2> QED BY <2>1, <2>2, <2>3, <1>3, <1>4
<1>9. \A i \in 1..4 * k : Sextet(pt, i) = Sextet(p, 4 * a + i)
  <2> SUFFICES ASSUME NEW i \in 1..4 * k PROVE Sextet(pt, i) = Sextet(p, 4 * a + i)
    OBVIOUS
  <2> DEFINE q == (i - 1) \div 4
  <2>1. /\ q \in 0..k - 1 /\ (4 * a + i) % 4 = i % 4
        /\ ((4 * a + i) - 1) \div 4 = a + q
    OBVIOUS
  <2> HIDE DEF q
  <2>2. /\ 3 * q + 1 \in 1..3 * k /\ 3 * q + 2 \in 1..3 * k /\ 3 * q + 3 \in 1..3 * k
        /\ 3 * (a + q) + 1 = 3 * a + (3 * q + 1)
        /\ 3 * (a + q) + 2 = 3 * a + (3 * q + 2)
        /\ 3 * (a + q) + 3 = 3 * a + (3 * q + 3)
    BY <2>1
  <2>3. /\ pt[3 * q + 1] = p[3 * (a + q) + 1] /\ pt[3 * q + 2] = p[3 * (a + q) + 2]
        /\ pt[3 * q + 3] = p[3 * (a + q) + 3]
    BY <2>2, <1>8
  <2> QED BY <2>1, <2>3 DEF Sextet, q
<1>10. /\ u \in Seq(Byte) /\ Len(u) = 4 * k
       /\ \A i \in 1..4 * k : u[i] = c[4 * a + i]
  <2>1. /\ 4 * a \in Nat /\ CodeLength(b) \in Nat /\ 4 * a <= CodeLength(b)
        /\ CodeLength(b) <= Len(c) /\ CodeLength(b) - 4 * a = 4 * k
    BY <1>3, <1>7
  <2> QED BY <1>5, <2>1, Piece
<1> HIDE DEF u
<1>11. \A i \in 1..4 * k : ct[i] = u[i]
  <2> SUFFICES ASSUME NEW i \in 1..4 * k PROVE ct[i] = u[i]
    OBVIOUS
  <2>1. 4 * a + i \in 1..4 * s
    BY <1>7
  <2>2. i > 4 * k - Padding(l) <=> 4 * a + i > 4 * s - Padding(n)
    <3>1. CASE b = n /\ a + k = s
      <4>1. Padding(l) = Padding(n) /\ Padding(n) \in Nat
        BY <1>3, <1>6, <3>1
      <4>2. 4 * s = 4 * a + 4 * k /\ 4 * k \in Nat /\ 4 * a \in Nat
        BY <3>1
      <4>3. i > 4 * k - Padding(n) <=> 4 * a + i > 4 * a + 4 * k - Padding(n)
        BY <4>1, <4>2
      <4> QED BY <4>1, <4>2, <4>3
    <3>2. CASE b < n /\ b = 3 * (a + k) /\ Padding(l) = 0 /\ a + k < s
      BY <3>2, <1>3
    <3> QED BY <3>1, <3>2, <1>7
  <2> QED BY <2>1, <2>2, <1>3, <1>4, <1>9, <1>10
<1> QED
  <2>1. ct = u
    BY <1>4, <1>5, <1>10, <1>11, SeqEqual
  <2> QED BY <2>1 DEF ct, u, t, c

-----------------------------------------------------------------------------
(* The one-two-map                                                         *)

\* A table: no character stands in it twice.
Table(list) ==
  /\ list \in Seq(Byte) /\ Len(list) = TextLength
  /\ \A i, j \in 1..TextLength : list[i] = list[j] => i = j

\* position finds an entry of a table again.
LEMMA PositionOfEntry ==
  ASSUME NEW list, Table(list), NEW k \in 0..TextLength - 1
  PROVE  position(list[k + 1], list) = k
<1>1. k + 1 \in 1..TextLength
  BY DEF TextLength
<1>2. \A i \in 1..TextLength : list[i] = list[k + 1] => i = k + 1
  BY <1>1 DEF Table
<1>3. (CHOOSE i \in 1..TextLength : list[i] = list[k + 1]) = k + 1
  BY <1>1, <1>2
<1>4. position(list[k + 1], list)
        = (CHOOSE i \in 1..TextLength : list[i] = list[k + 1]) - 1
  BY ZenonT(20) DEF position
<1>5. position(list[k + 1], list) = (k + 1) - 1
  BY <1>3, <1>4, ZenonT(20)
<1>6. (k + 1) - 1 = k
  OBVIOUS
<1> QED
  BY <1>5, <1>6

\* A byte from its quotient and remainder.
LEMMA ScaledByte ==
  ASSUME NEW x \in OtmByte
  PROVE  LET high == (Scale * x) \div TextLength
             low == (Scale * x) % TextLength
         IN  /\ high \in 0..TextLength - 1 /\ low \in 0..TextLength - 1
             /\ ((high * TextLength + low) \div Scale) % 256 = x
<1> DEFINE high == (7 * x) \div 32
           low == (7 * x) % 32
<1>1. x \in 0..255 /\ high < 32
  BY DEF OtmByte, Byte, Scale, TextLength
<1>2. high \in 0..31 /\ low \in 0..31 /\ high * 32 + low = 7 * x
  BY <1>1
<1>3. (7 * x) \div 7 = x /\ x % 256 = x
  BY <1>1
<1>4. ((high * 32 + low) \div 7) % 256 = x
  <2> HIDE DEF high, low
  <2> QED BY <1>2, <1>3
<1> QED
  BY <1>2, <1>4 DEF Scale, TextLength

\* otmDecode gives back what otmEncode was given, with any two tables, for bytes
\* whose quotient has an entry.
THEOREM OtmRoundTrip ==
  ASSUME NEW text \in Seq(OtmByte), NEW q, NEW r, Table(q), Table(r)
  PROVE  otmDecode(otmEncode(text, q, r), q, r) = text
<1> DEFINE n == Len(text)
           c == otmEncode(text, q, r)
           high(j) == (Scale * text[j]) \div TextLength
           low(j) == (Scale * text[j]) % TextLength
<1>1. n \in Nat /\ \A j \in 1..n : text[j] \in OtmByte
  OBVIOUS
<1>2. ASSUME NEW j \in 1..n
      PROVE  /\ high(j) \in 0..TextLength - 1 /\ low(j) \in 0..TextLength - 1
             /\ ((high(j) * TextLength + low(j)) \div Scale) % 256 = text[j]
  BY <1>1, ScaledByte
<1>3. /\ Len(c) = 2 * n
      /\ \A j \in 1..n : c[2 * j - 1] = q[high(j) + 1] /\ c[2 * j] = r[low(j) + 1]
  <2>1. c = [i \in 1..2 * n |->
               IF i % 2 = 1 THEN q[high((i + 1) \div 2) + 1]
                            ELSE r[low((i + 1) \div 2) + 1]]
    BY DEF otmEncode
  <2> HIDE DEF high, low, c, n
  <2>2. 2 * n \in Nat
    BY <1>1
  <2>3. ASSUME NEW j \in 1..n
        PROVE  /\ 2 * j - 1 \in 1..2 * n /\ 2 * j \in 1..2 * n
               /\ (2 * j - 1) % 2 = 1 /\ (2 * j) % 2 = 0
               /\ ((2 * j - 1) + 1) \div 2 = j /\ (2 * j + 1) \div 2 = j
    BY <1>1
  <2> QED BY <2>1, <2>2, <2>3
<1> HIDE DEF high, low, c, n
<1>4. \A j \in 1..n : /\ position(c[2 * j - 1], q) = high(j)
                      /\ position(c[2 * j], r) = low(j)
  BY <1>2, <1>3, PositionOfEntry
<1>5. Len(c) \div 2 = n
  BY <1>1, <1>3
<1>6. otmDecode(c, q, r) =
        [j \in 1..n |-> ((high(j) * TextLength + low(j)) \div Scale) % 256]
  BY <1>4, <1>5 DEF otmDecode
<1>7. otmDecode(c, q, r) = [j \in 1..n |-> text[j]]
  BY <1>2, <1>6
<1> QED
  BY <1>1, <1>7 DEF c, n

\* The tables of the source are tables, and stay tables when they are sorted.
LEMMA SourceTables ==
  Table(Q_TEXT) /\ Table(R_TEXT)
<1>1. /\ Q_TEXT \in Seq(Byte) /\ Len(Q_TEXT) = 32
      /\ R_TEXT \in Seq(Byte) /\ Len(R_TEXT) = 32
  BY DEF Q_TEXT, R_TEXT, Byte
<1>2. \A i, j \in 1..32 : Q_TEXT[i] = Q_TEXT[j] => i = j
  BY SMTT(60) DEF Q_TEXT
<1>3. \A i, j \in 1..32 : R_TEXT[i] = R_TEXT[j] => i = j
  BY SMTT(60) DEF R_TEXT
<1> QED
  BY <1>1, <1>2, <1>3 DEF Table, TextLength

\* The place in a list that entry i of the sorted list comes from.
Origin(i, s) ==
  IF s = 0 THEN i ELSE IF i + s <= TextLength THEN i + s ELSE ((i - 1) % s) + 1

LEMMA Residues ==
  ASSUME NEW s \in 1..31, NEW i \in 0..31, NEW j \in 0..31, i < j, j - i < s
  PROVE  i % s # j % s
OBVIOUS

LEMMA OriginType ==
  ASSUME NEW s \in 0..TextLength - 1, NEW i \in 1..TextLength
  PROVE  Origin(i, s) \in 1..TextLength
<1>1. s # 0 => (i - 1) % s \in 0..s - 1
  BY DEF TextLength
<1> QED
  BY <1>1 DEF Origin, TextLength

LEMMA OriginsDiffer ==
  ASSUME NEW s \in 0..TextLength - 1, NEW i \in 1..TextLength, NEW j \in 1..TextLength,
         i < j
  PROVE  Origin(i, s) # Origin(j, s)
<1> USE DEF TextLength
<1>1. CASE s = 0
  BY <1>1 DEF Origin
<1>2. CASE s # 0 /\ j + s <= 32
  BY <1>2 DEF Origin
<1>3. CASE s # 0 /\ i + s <= 32 /\ j + s > 32
  <2>1. (j - 1) % s \in 0..s - 1
    BY <1>3
  <2>2. Origin(i, s) = i + s /\ Origin(j, s) = ((j - 1) % s) + 1
    BY <1>3 DEF Origin
  <2> QED BY <2>1, <2>2
<1>4. CASE s # 0 /\ i + s > 32
  <2>1. /\ i - 1 \in 0..31 /\ j - 1 \in 0..31 /\ i - 1 < j - 1
        /\ (j - 1) - (i - 1) < s /\ s \in 1..31
    BY <1>4
  <2>2. (i - 1) % s # (j - 1) % s
    BY <2>1, Residues
  <2>3. /\ Origin(i, s) = ((i - 1) % s) + 1
        /\ Origin(j, s) = ((j - 1) % s) + 1
    BY <1>4 DEF Origin
  <2>4. (i - 1) % s \in Int /\ (j - 1) % s \in Int
    BY <2>1
  <2> QED BY <2>2, <2>3, <2>4
<1> QED
  BY <1>1, <1>2, <1>3, <1>4

LEMMA SortedTable ==
  ASSUME NEW list, Table(list), NEW s \in 0..TextLength - 1
  PROVE  Table(sortHashList(list, s))
<1> DEFINE sorted == sortHashList(list, s)
           n == TextLength
<1>1. /\ list \in Seq(Byte) /\ Len(list) = n
      /\ \A i, j \in 1..n : list[i] = list[j] => i = j
  BY DEF Table
<1>2. sorted = [i \in 1..n |-> list[Origin(i, s)]]
  <2>1. \A i \in 1..n : (IF s = 0 THEN list[i]
                         ELSE IF i + s <= n THEN list[i + s]
                         ELSE list[((i - 1) % s) + 1]) = list[Origin(i, s)]
    BY DEF Origin
  <2> QED BY <1>1, <2>1 DEF sortHashList
<1>3. n \in Nat
  BY DEF TextLength
<1>4. \A i \in 1..n : Origin(i, s) \in 1..n
  BY OriginType
<1> HIDE DEF sorted, n
<1>5. \A i \in 1..n : sorted[i] = list[Origin(i, s)] /\ sorted[i] \in Byte
  BY <1>1, <1>2, <1>4
<1>6. sorted \in Seq(Byte) /\ Len(sorted) = n
  <2>1. sorted \in [1..n -> Byte]
    BY <1>2, <1>5
  <2> QED BY <1>3, <2>1
<1>7. ASSUME NEW i \in 1..n, NEW j \in 1..n, sorted[i] = sorted[j]
      PROVE  i = j
  <2>1. Origin(i, s) = Origin(j, s)
    BY <1>1, <1>4, <1>5, <1>7
  <2>2. ~(i < j) /\ ~(j < i)
    BY <2>1, OriginsDiffer DEF n
  <2> QED BY <1>3, <2>2
<1> QED
  BY <1>6, <1>7 DEF Table, sorted, n

LEMMA ResortType ==
  ASSUME NEW x \in Nat
  PROVE  Resort(x) \in 0..TextLength - 1
BY DEF Resort, TextLength

LEMMA OtmEncodingType ==
  ASSUME NEW text \in Seq(OtmByte), NEW q, NEW r, Table(q), Table(r)
  PROVE  /\ otmEncode(text, q, r) \in Seq(Byte)
         /\ Len(otmEncode(text, q, r)) = 2 * Len(text)
<1> DEFINE n == Len(text)
           high(j) == (Scale * text[j]) \div TextLength
           low(j) == (Scale * text[j]) % TextLength
<1>1. n \in Nat /\ \A j \in 1..n : text[j] \in OtmByte
  OBVIOUS
<1>2. ASSUME NEW j \in 1..n
      PROVE  high(j) + 1 \in 1..TextLength /\ low(j) + 1 \in 1..TextLength
  <2>1. high(j) \in 0..TextLength - 1 /\ low(j) \in 0..TextLength - 1
    BY <1>1, ScaledByte
  <2>2. TextLength \in Nat
    BY DEF TextLength
  <2> HIDE DEF high, low
  <2> QED BY <2>1, <2>2
<1>3. \A i \in 1..TextLength : q[i] \in Byte /\ r[i] \in Byte
  BY DEF Table
<1> DEFINE c == otmEncode(text, q, r)
<1>4. c = [i \in 1..2 * n |-> IF i % 2 = 1 THEN q[high((i + 1) \div 2) + 1]
                                           ELSE r[low((i + 1) \div 2) + 1]]
  BY DEF otmEncode
<1> HIDE DEF high, low, n, c
<1>5. ASSUME NEW i \in 1..2 * n
      PROVE  c[i] \in Byte
  <2>1. (i + 1) \div 2 \in 1..n
    BY <1>1
  <2> QED BY <1>2, <1>3, <1>4, <2>1
<1>6. 2 * n \in Nat
  BY <1>1
<1>7. c \in [1..2 * n -> Byte]
  BY <1>4, <1>5
<1> QED
  BY <1>6, <1>7 DEF n, c

=============================================================================
