-------------------------------- MODULE Codecs ---------------------------------
(***************************************************************************)
(* The codecs of src/src/operation_definition.cc and its header: xor, the  *)
(* one-two-map and base64.  A text is a sequence of bytes.  X(text) is     *)
(* what codec function X leaves in the output buffer, XFails(text, size)   *)
(* whether it returns -1 instead for an output buffer of that size.  The   *)
(* null-pointer tests are left out, and texts are shorter than 2^15 and    *)
(* their encodings than 2^16, so that the unsigned short loop counters do  *)
(* not wrap.                                                               *)
(***************************************************************************)
EXTENDS Integers, SequencesExt

Byte == 0..255

-----------------------------------------------------------------------------
(* bitwise_xor                                                             *)

\* The bit of weight w in a ^ b.
XorBit(a, b, w) == IF (a \div w) % 2 = (b \div w) % 2 THEN 0 ELSE w

XorByte(a, b) ==
  XorBit(a, b, 1) + XorBit(a, b, 2) + XorBit(a, b, 4) + XorBit(a, b, 8)
    + XorBit(a, b, 16) + XorBit(a, b, 32) + XorBit(a, b, 64) + XorBit(a, b, 128)

\* xorEncode and xorDecode.
xorCode(text, key) == [i \in DOMAIN text |-> XorByte(text[i], key)]

xorFails(text, size) == size < Len(text)

-----------------------------------------------------------------------------
(* base64_coding                                                           *)

\* The alphabet A-Z a-z 0-9 + / and the = sign, as character codes.
BASE64_MAPPING ==
  [i \in 0..63 |-> IF i < 26 THEN 65 + i
                   ELSE IF i < 52 THEN 71 + i
                   ELSE IF i < 62 THEN i - 4
                   ELSE IF i = 62 THEN 43 ELSE 47]

Equals == 61

\* Zero bytes that complete the last segment of three.
Padding(n) == (3 - (n % 3)) % 3

Padded(text) == text \o [i \in 1..Padding(Len(text)) |-> 0]

\* The i-th index into the mapping: four for every segment of three bytes.
Sextet(p, i) ==
  LET entry == 3 * ((i - 1) \div 4)
      first == p[entry + 1]
      second == p[entry + 2]
      third == p[entry + 3]
  IN  IF i % 4 = 1 THEN first \div 4
      ELSE IF i % 4 = 2 THEN (first % 4) * 16 + second \div 16
      ELSE IF i % 4 = 3 THEN (second % 16) * 4 + third \div 64
      ELSE third % 64

base64Encode(text) ==
  LET p == Padded(text)
      length == 4 * (Len(p) \div 3)
  IN  [i \in 1..length |-> IF i > length - Padding(Len(text))
                           THEN Equals
                           ELSE BASE64_MAPPING[Sextet(p, i)]]

\* Faulty: the test forgets that the output is longer than the input.
base64EncodeFails_SameLength(text, size) == size < Len(text)

\* The length is taken before the zero bytes are added.
base64EncodeFails(text, size) == size < (Len(text) * 4) \div 3

\* 64 for a character that is not in the alphabet.
getIndexForC(c) ==
  IF \E i \in 0..63 : BASE64_MAPPING[i] = c
  THEN CHOOSE i \in 0..63 : BASE64_MAPPING[i] = c
  ELSE 64

\* The = signs at the end, which are replaced; the first character stays.
Signs(text) ==
  Cardinality({k \in 1..Len(text) - 1 :
                 \A i \in (Len(text) - k + 1)..Len(text) : text[i] = Equals})

\* count_for_addition, an unsigned char.
Additions(text) == Signs(text) % 256

\* The j-th byte of the output: three for every segment of four indices.
Joined(m, j) ==
  LET entry == 4 * ((j - 1) \div 3)
  IN  IF j % 3 = 1 THEN ((m[entry + 1] * 4) % 256) + m[entry + 2] \div 16
      ELSE IF j % 3 = 2 THEN (m[entry + 2] % 16) * 16 + m[entry + 3] \div 4
      ELSE (m[entry + 3] % 4) * 64 + m[entry + 4]

\* The = signs are replaced by A, whose index is 0.
base64Decode(text) ==
  LET kept == Len(text) - Signs(text)
      m == [i \in 1..Len(text) |-> IF i <= kept THEN getIndexForC(text[i]) ELSE 0]
  IN  [j \in 1..3 * (Len(text) \div 4) - Additions(text) |-> Joined(m, j)]

base64DecodeFails(text, size) ==
  \/ size < 3 * (Len(text) \div 4)
  \/ Len(text) % 4 # 0
  \/ \E i \in 1..Len(text) - Signs(text) : getIndexForC(text[i]) = 64

-----------------------------------------------------------------------------
(* one_two_map                                                             *)

\* _Q_TEXT and _R_TEXT, as character codes.
Q_TEXT == <<120, 98, 101, 100, 80, 102, 118, 104, 83, 122, 87, 43, 45, 49, 109,
            125, 63, 64, 35, 116, 81, 38, 99, 40, 37, 72, 115, 113, 59, 97, 60, 62>>

R_TEXT == <<88, 74, 119, 100, 33, 102, 71, 90, 105, 98, 60, 108, 44, 41, 79, 112,
            113, 124, 40, 116, 117, 118, 67, 97, 121, 104, 83, 110, 69, 82, 107, 109>>

TextLength == 32   \* _text_length and _division
Scale == 7

Resort(x) == ((x * 61) % 65536) % TextLength

\* From the left, every entry changes places with the one _resort further: the
\* first _resort entries travel to the end, the others move up.
sortHashList(list, resort) ==
  [i \in 1..Len(list) |->
     IF resort = 0 THEN list[i]
     ELSE IF i + resort <= Len(list) THEN list[i + resort]
     ELSE list[((i - 1) % resort) + 1]]

otmEncode(text, q, r) ==
  [i \in 1..2 * Len(text) |->
     LET scaled == Scale * text[(i + 1) \div 2]
     IN  IF i % 2 = 1 THEN q[scaled \div TextLength + 1]
                      ELSE r[(scaled % TextLength) + 1]]

otmEncodeFails(text, size) == size < 2 * Len(text)

\* The bytes whose quotient is an index of the table.
OtmByte == {x \in Byte : (Scale * x) \div TextLength < TextLength}

\* Only for characters of the table: the search for another one has no end.
position(c, list) == (CHOOSE i \in 1..TextLength : list[i] = c) - 1

otmDecode(text, q, r) ==
  [j \in 1..Len(text) \div 2 |->
     ((position(text[2 * j - 1], q) * TextLength + position(text[2 * j], r))
        \div Scale) % 256]

otmDecodeFails(text, size) == size < Len(text) \div 2

=============================================================================
