----------------------------- MODULE WrapperProofs -----------------------------
(***************************************************************************)
(* For every buffer size that is a multiple of 8, every text and every     *)
(* key: no wrapper writes past its output buffer, whatever is coded and in *)
(* which order, and encodings that were all undone leave the text.         *)
(***************************************************************************)
EXTENDS WrapperUse, CodecProofs

\* A sequence, of whatever.
IsSequence(s) == \E S : s \in Seq(S)

\* What holds of both buffers.
Fits(s) == IsSequence(s) /\ Len(s) <= BuffSize

FitInv == Fits(buff1) /\ Fits(buff2)

\* A function on 1..n is a sequence.
LEMMA FunctionIsSequence ==
  ASSUME NEW n \in Int, NEW f, f = [i \in 1..n |-> f[i]]
  PROVE  IsSequence(f) /\ (n \in Nat => Len(f) = n)
<1> DEFINE S == {f[i] : i \in 1..n}
<1>1. CASE n \in Nat
  <2>1. f \in Seq(S)
    BY <1>1
  <2> QED BY <2>1, <1>1 DEF IsSequence
<1>2. CASE n < 0
  <2>1. 1..n = 1..0
    BY <1>2
  <2>2. f = [i \in 1..0 |-> f[i]]
    BY <2>1
  <2>3. [i \in 1..0 |-> f[i]] \in Seq({})
    OBVIOUS
  <2>4. f \in Seq({})
    BY <2>2, <2>3
  <2> QED BY <2>4, <1>2 DEF IsSequence
<1> QED
  BY <1>1, <1>2

LEMMA NothingFits ==
  Fits(<<>>)
BY BuffSizeAssumption DEF Fits, IsSequence

LEMMA XorFits ==
  ASSUME NEW t, Fits(t), NEW key
  PROVE  Fits(xorCode(t, key))
<1>1. PICK S : t \in Seq(S)
  BY DEF Fits, IsSequence
<1> DEFINE n == Len(t)
           f == xorCode(t, key)
<1>2. n \in Nat /\ f = [i \in 1..n |-> XorByte(t[i], key)]
  BY <1>1 DEF xorCode
<1>3. f = [i \in 1..n |-> f[i]]
  BY <1>2
<1> QED
  BY <1>2, <1>3, FunctionIsSequence DEF Fits

LEMMA Base64EncodeFits ==
  ASSUME NEW t, Fits(t), ~base64EncodeFails(t, BuffSize)
  PROVE  Fits(base64Encode(t))
<1>1. PICK S : t \in Seq(S)
  BY DEF Fits, IsSequence
<1>2. Len(base64Encode(t)) <= BuffSize
  BY <1>1, BuffSizeAssumption, Base64EncodingFits
<1> DEFINE f == base64Encode(t)
           n == 4 * (Len(Padded(t)) \div 3)
<1>3. Len(Padded(t)) \in Nat
  <2>1. Padding(Len(t)) \in 0..2
    BY <1>1, Segments
  <2>2. [i \in 1..Padding(Len(t)) |-> 0] \in Seq(S \cup {0})
    BY <2>1
  <2>3. t \in Seq(S \cup {0})
    BY <1>1
  <2>4. Padded(t) \in Seq(S \cup {0})
    BY <2>2, <2>3, ConcatProperties DEF Padded
  <2> QED BY <2>4
<1>4. n \in Int /\ f = [i \in 1..n |-> f[i]]
  BY <1>3 DEF base64Encode
<1> QED
  BY <1>2, <1>4, FunctionIsSequence DEF Fits

LEMMA Base64DecodeFits ==
  ASSUME NEW t, Fits(t), ~base64DecodeFails(t, BuffSize)
  PROVE  Fits(base64Decode(t))
<1>1. PICK S : t \in Seq(S)
  BY DEF Fits, IsSequence
<1>2. Len(base64Decode(t)) <= BuffSize
  BY <1>1, BuffSizeAssumption, Base64DecodedLength
<1> DEFINE f == base64Decode(t)
           n == 3 * (Len(t) \div 4) - Additions(t)
<1>3. Additions(t) \in Nat
  BY <1>1, AdditionsType
<1>4. n \in Int /\ f = [i \in 1..n |-> f[i]]
  BY <1>1, <1>3 DEF base64Decode
<1> QED
  BY <1>2, <1>4, FunctionIsSequence DEF Fits

LEMMA OtmEncodeFits ==
  ASSUME NEW t, Fits(t), NEW q, NEW r, ~otmEncodeFails(t, BuffSize)
  PROVE  Fits(otmEncode(t, q, r))
<1>1. PICK S : t \in Seq(S)
  BY DEF Fits, IsSequence
<1> DEFINE n == 2 * Len(t)
           f == otmEncode(t, q, r)
<1>2. n \in Nat /\ n <= BuffSize
  BY <1>1, BuffSizeAssumption DEF otmEncodeFails
<1>3. f = [i \in 1..n |-> f[i]]
  BY DEF otmEncode
<1> QED
  BY <1>2, <1>3, FunctionIsSequence DEF Fits

LEMMA OtmDecodeFits ==
  ASSUME NEW t, Fits(t), NEW q, NEW r, ~otmDecodeFails(t, BuffSize)
  PROVE  Fits(otmDecode(t, q, r))
<1>1. PICK S : t \in Seq(S)
  BY DEF Fits, IsSequence
<1> DEFINE n == Len(t) \div 2
           f == otmDecode(t, q, r)
<1>2. n \in Nat /\ n <= BuffSize
  BY <1>1, BuffSizeAssumption DEF otmDecodeFails
<1>3. f = [i \in 1..n |-> f[i]]
  BY DEF otmDecode
<1> QED
  BY <1>2, <1>3, FunctionIsSequence DEF Fits

LEMMA FitInvInit ==
  UseInit => FitInv
BY NothingFits DEF UseInit, WrapperInit, FitInv

LEMMA FitInvStep ==
  FitInv /\ [UseNext]_useVars => FitInv'
<1> SUFFICES ASSUME FitInv, [UseNext]_useVars PROVE FitInv'
  OBVIOUS
<1>1. ASSUME NEW t \in Texts, Fill(t) PROVE FitInv'
  <2>1. Fits(t)
    BY <1>1, TextsAssumption DEF Fill, Fits, IsSequence
  <2> QED BY <1>1, <2>1 DEF Fill, FitInv, Fits, IsSequence
<1>2. ASSUME NEW k \in Keys, SetKey(k) PROVE FitInv'
  BY <1>2 DEF SetKey, ops_wrapper_otm_key, ops_wrapper_xor_key, buffVars,
              FitInv, Fits, IsSequence
<1>3. CASE InitWrappers
  BY <1>3 DEF InitWrappers, ops_wrapper_init, otm_init, xor_init, wrapperVars,
              buffVars, FitInv,
              Fits, IsSequence
\* Every codec leaves its output or nothing in the second buffer.
<1>4. ASSUME buff1' = buff1, NEW s, buff2' = s, Fits(s)
      PROVE  FitInv'
  BY <1>4 DEF FitInv, Fits, IsSequence
<1>5. Fits(buff1)
  BY DEF FitInv
<1>6. CASE ops_wrapper_xor
  <2> DEFINE s == IF xorFails(buff1, BuffSize) THEN <<>>
                  ELSE xorCode(buff1, xor_key)
  <2>1. buff1' = buff1 /\ buff2' = s
    BY <1>6 DEF ops_wrapper_xor, Wrap
  <2>2. Fits(s)
    BY <1>5, XorFits, NothingFits
  <2> QED
    BY <2>1, <2>2, <1>4
<1>7. CASE ops_wrapper_base64_encode
  <2> DEFINE s == IF base64EncodeFails(buff1, BuffSize) THEN <<>>
                  ELSE base64Encode(buff1)
  <2>1. buff1' = buff1 /\ buff2' = s
    BY <1>7 DEF ops_wrapper_base64_encode, Wrap
  <2>2. Fits(s)
    BY <1>5, Base64EncodeFits, NothingFits
  <2> QED
    BY <2>1, <2>2, <1>4
<1>8. CASE ops_wrapper_base64_decode
  <2> DEFINE s == IF base64DecodeFails(buff1, BuffSize) THEN <<>>
                  ELSE base64Decode(buff1)
  <2>1. buff1' = buff1 /\ buff2' = s
    BY <1>8 DEF ops_wrapper_base64_decode, Wrap
  <2>2. Fits(s)
    BY <1>5, Base64DecodeFits, NothingFits
  <2> QED
    BY <2>1, <2>2, <1>4
<1>9. CASE ops_wrapper_otm_encode
  <2> DEFINE s == IF otmEncodeFails(buff1, BuffSize) THEN <<>>
                  ELSE otmEncode(buff1, q_text, r_text)
  <2>1. buff1' = buff1 /\ buff2' = s
    BY <1>9 DEF ops_wrapper_otm_encode, Wrap
  <2>2. Fits(s)
    BY <1>5, OtmEncodeFits, NothingFits
  <2> QED
    BY <2>1, <2>2, <1>4
<1>10. CASE ops_wrapper_otm_decode
  <2> DEFINE s == IF otmDecodeFails(buff1, BuffSize) THEN <<>>
                  ELSE otmDecode(buff1, q_text, r_text)
  <2>1. buff1' = buff1 /\ buff2' = s
    BY <1>10 DEF ops_wrapper_otm_decode, Wrap
  <2>2. Fits(s)
    BY <1>5, OtmDecodeFits, NothingFits
  <2> QED
    BY <2>1, <2>2, <1>4
<1>11. CASE Encode
  BY <1>11, <1>6, <1>7, <1>9 DEF Encode
<1>12. CASE Decode
  BY <1>12, <1>6, <1>8, <1>10 DEF Decode
<1>13. CASE WorkTogether
  BY <1>13 DEF WorkTogether, ops_wrapper_gcwt, ow_gcs_all_wt, FitInv, Fits, IsSequence
<1>14. CASE UNCHANGED useVars
  BY <1>14 DEF useVars, wrapperVars, buffVars, FitInv, Fits, IsSequence
<1> QED
  BY <1>1, <1>2, <1>3, <1>11, <1>12, <1>13, <1>14 DEF UseNext

\* No codec writes past its output buffer.
THEOREM WrappersStayInBuffers ==
  UseSpec => []BuffersFit
<1>1. FitInv => BuffersFit
  BY DEF FitInv, Fits, BuffersFit
<1> QED
  BY <1>1, FitInvInit, FitInvStep, PTL DEF UseSpec

-----------------------------------------------------------------------------
(* What the buffers hold: the text under the codecs that were used on it.  *)

\* The text t as a codec encodes it, with the objects o: the xor key and the tables.
Encoded(o, codec, t) ==
  IF codec = "xor" THEN xorCode(t, o[1])
  ELSE IF codec = "base64" THEN base64Encode(t)
  ELSE otmEncode(t, o[2], o[3])

\* The codec can encode t so that it comes back.
Encodable(codec, t) ==
  t \in Seq(Byte) /\ t # <<>> /\ (codec = "otm" => t \in Seq(OtmByte))

\* From the buffer b down to the text t: under every layer what it was made from.
Unpacks(o, t, b, layers, under) ==
  /\ under[0] = b /\ under[Len(layers)] = t
  /\ \A i \in 0..Len(layers) : under[i] \in Seq(Byte) /\ under[i] # <<>>
  /\ \A i \in 1..Len(layers) : /\ under[i - 1] = Encoded(o, layers[i], under[i])
                               /\ Encodable(layers[i], under[i])

Packed(o, t, b, layers) ==
  \/ layers = Nothing /\ b = <<>>
  \/ layers \in Seq(Codec) /\ \E under : Unpacks(o, t, b, layers, under)

Objects == <<xor_key, q_text, r_text>>

GoodObjects(o) == o[1] \in Byte /\ Table(o[2]) /\ Table(o[3])

KeyInv ==
  /\ gckul \in 0..UShortMax /\ init_record \in BOOLEAN
  /\ GoodObjects(Objects)
  /\ cwer \in {"CWER_OTM", "CWER_BASE64", "CWER_XOR"}

PackedInv ==
  /\ text = <<>> => layers1 = Nothing /\ layers2 = Nothing
  /\ ~init_record => layers1 \in {Nothing, <<>>} /\ layers2 \in {Nothing, <<>>}
  /\ Packed(Objects, text, buff1, layers1) /\ Packed(Objects, text, buff2, layers2)

LEMMA NothingIsNoLayers ==
  Nothing \notin Seq(Codec) /\ Nothing # <<>>
<1>1. Nothing[1] \notin Codec /\ Len(Nothing) = 1
  BY DEF Nothing, Codec
<1> QED
  BY <1>1

\* Every codec undoes its encoding, if there is room.
LEMMA Undoes ==
  ASSUME NEW o, GoodObjects(o), NEW codec \in Codec, NEW t, Encodable(codec, t)
  PROVE  /\ Encoded(o, codec, t) \in Seq(Byte) /\ Encoded(o, codec, t) # <<>>
         /\ codec = "xor" => xorCode(Encoded(o, codec, t), o[1]) = t
         /\ codec = "base64" => base64Decode(Encoded(o, codec, t)) = t
         /\ codec = "otm" => otmDecode(Encoded(o, codec, t), o[2], o[3]) = t
<1>1. t \in Seq(Byte) /\ t # <<>> /\ Len(t) \in Nat \ {0}
  BY DEF Encodable
<1>2. CASE codec = "xor"
  <2>1. /\ xorCode(t, o[1]) \in Seq(Byte) /\ Len(xorCode(t, o[1])) = Len(t)
        /\ xorCode(xorCode(t, o[1]), o[1]) = t
    BY <1>1, XorRoundTrip DEF GoodObjects
  <2> QED BY <1>1, <1>2, <2>1 DEF Encoded
<1>3. CASE codec = "base64"
  <2>1. base64Encode(t) \in Seq(Byte) /\ Len(base64Encode(t)) = CodeLength(Len(t))
    BY <1>1, EncodingType
  <2>2. base64Decode(base64Encode(t)) = t
    BY <1>1, Base64RoundTrip
  <2>3. CodeLength(Len(t)) # 0
    BY <1>1, CodeLengths
  <2> QED BY <1>3, <2>1, <2>2, <2>3 DEF Encoded
<1>4. CASE codec = "otm"
  <2>1. t \in Seq(OtmByte) /\ Table(o[2]) /\ Table(o[3])
    BY <1>4 DEF Encodable, GoodObjects
  <2>2. /\ otmEncode(t, o[2], o[3]) \in Seq(Byte)
        /\ Len(otmEncode(t, o[2], o[3])) = 2 * Len(t)
    BY <2>1, OtmEncodingType
  <2>3. otmDecode(otmEncode(t, o[2], o[3]), o[2], o[3]) = t
    BY <2>1, OtmRoundTrip
  <2>4. otmEncode(t, o[2], o[3]) # <<>>
    BY <1>1, <2>2
  <2> QED BY <1>4, <2>2, <2>3, <2>4 DEF Encoded
<1> QED
  BY <1>2, <1>3, <1>4 DEF Codec

\* One more encoding.
LEMMA LayerAdded ==
  ASSUME NEW o, GoodObjects(o), NEW t, NEW b, NEW layers, layers # Nothing,
         Packed(o, t, b, layers), NEW codec \in Codec, Encodable(codec, b)
  PROVE  Packed(o, t, Encoded(o, codec, b), <<codec>> \o layers)
<1>1. PICK under : layers \in Seq(Codec) /\ Unpacks(o, t, b, layers, under)
  BY DEF Packed
<1> DEFINE n == Len(layers)
           new == <<codec>> \o layers
           e == Encoded(o, codec, b)
           over == [i \in 0..n + 1 |-> IF i = 0 THEN e ELSE under[i - 1]]
<1>2. n \in Nat
  BY <1>1
<1>3. /\ new \in Seq(Codec) /\ Len(new) = n + 1 /\ new[1] = codec
      /\ \A i \in 2..n + 1 : new[i] = layers[i - 1]
  BY <1>1
<1>4. e \in Seq(Byte) /\ e # <<>>
  BY Undoes
<1>5. /\ under[0] = b /\ under[n] = t
      /\ \A i \in 0..n : under[i] \in Seq(Byte) /\ under[i] # <<>>
      /\ \A i \in 1..n : /\ under[i - 1] = Encoded(o, layers[i], under[i])
                         /\ Encodable(layers[i], under[i])
  BY <1>1 DEF Unpacks
<1> HIDE DEF n, new
<1>6. over[0] = e /\ over[1] = b /\ over[n + 1] = t
  BY <1>2, <1>5
<1>7. \A i \in 0..n + 1 : over[i] \in Seq(Byte) /\ over[i] # <<>>
  <2> SUFFICES ASSUME NEW i \in 0..n + 1
               PROVE  over[i] \in Seq(Byte) /\ over[i] # <<>>
    OBVIOUS
  <2>1. CASE i = 0
    BY <1>4, <1>6, <2>1
  <2>2. CASE i # 0
    <3>1. i - 1 \in 0..n /\ over[i] = under[i - 1]
      BY <1>2, <2>2
    <3> HIDE DEF over
    <3> QED BY <1>5, <3>1
  <2> QED BY <2>1, <2>2
<1>8. ASSUME NEW i \in 1..n + 1
      PROVE  over[i - 1] = Encoded(o, new[i], over[i]) /\ Encodable(new[i], over[i])
  <2>1. CASE i = 1
    <3>1. over[i - 1] = e /\ over[i] = b /\ new[i] = codec
      BY <1>3, <1>6, <2>1
    <3> HIDE DEF over
    <3> QED BY <3>1
  <2>2. CASE i # 1
    <3>1. /\ i - 1 \in 1..n /\ over[i] = under[i - 1] /\ over[i - 1] = under[i - 1 - 1]
          /\ new[i] = layers[i - 1]
      BY <1>2, <1>3, <2>2
    <3> HIDE DEF over
    <3> QED BY <1>5, <3>1
  <2> QED BY <2>1, <2>2
<1> HIDE DEF over, e
<1>9. Unpacks(o, t, e, new, over)
  BY <1>3, <1>6, <1>7, <1>8 DEF Unpacks
<1> QED
  BY <1>3, <1>9 DEF Packed, new, e

\* One encoding less.
LEMMA LayerUndone ==
  ASSUME NEW o, NEW t, NEW b, NEW layers, layers \notin {Nothing, <<>>},
         Packed(o, t, b, layers)
  PROVE  \E s : /\ b = Encoded(o, Head(layers), s) /\ Encodable(Head(layers), s)
                /\ Head(layers) \in Codec /\ Packed(o, t, s, Tail(layers))
<1>1. PICK under : layers \in Seq(Codec) /\ Unpacks(o, t, b, layers, under)
  BY DEF Packed
<1> DEFINE n == Len(layers)
           rest == Tail(layers)
           s == under[1]
           below == [i \in 0..n - 1 |-> under[i + 1]]
<1>2. n \in Nat \ {0} /\ Head(layers) = layers[1] /\ Head(layers) \in Codec
  BY <1>1
<1>3. /\ rest \in Seq(Codec) /\ Len(rest) = n - 1
      /\ \A i \in 1..n - 1 : rest[i] = layers[i + 1]
  BY <1>1, <1>2
<1>4. /\ under[0] = b /\ under[n] = t
      /\ \A i \in 0..n : under[i] \in Seq(Byte) /\ under[i] # <<>>
      /\ \A i \in 1..n : /\ under[i - 1] = Encoded(o, layers[i], under[i])
                         /\ Encodable(layers[i], under[i])
  BY <1>1 DEF Unpacks
<1> HIDE DEF n, rest
<1>5. b = Encoded(o, Head(layers), s) /\ Encodable(Head(layers), s)
  <2>1. 1 \in 1..n /\ 1 - 1 = 0
    BY <1>2
  <2> QED BY <1>2, <1>4, <2>1
<1>6. below[0] = s /\ below[n - 1] = t
  BY <1>2, <1>4
<1>7. ASSUME NEW i \in 0..n - 1
      PROVE  below[i] \in Seq(Byte) /\ below[i] # <<>>
  <2>1. i + 1 \in 0..n /\ below[i] = under[i + 1]
    BY <1>2
  <2> HIDE DEF below
  <2> QED BY <1>4, <2>1
<1>8. ASSUME NEW i \in 1..n - 1
      PROVE  below[i - 1] = Encoded(o, rest[i], below[i]) /\ Encodable(rest[i],
      below[i])
  <2>1. /\ i + 1 \in 1..n /\ below[i] = under[i + 1] /\ below[i - 1] = under[i + 1 - 1]
        /\ rest[i] = layers[i + 1]
    BY <1>2, <1>3
  <2> HIDE DEF below
  <2> QED BY <1>4, <2>1
<1> HIDE DEF below, s
<1>9. Unpacks(o, t, s, rest, below)
  BY <1>3, <1>6, <1>7, <1>8 DEF Unpacks
<1> QED
  BY <1>2, <1>3, <1>5, <1>9 DEF Packed, rest

LEMMA NothingPacked ==
  ASSUME NEW o, NEW t
  PROVE  Packed(o, t, <<>>, Nothing)
BY DEF Packed

\* A text by itself.
LEMMA TextPacked ==
  ASSUME NEW o, NEW t \in Seq(Byte), t # <<>>
  PROVE  Packed(o, t, t, <<>>)
<1> DEFINE under == [i \in 0..0 |-> t]
<1>1. under[0] = t /\ \A i \in 0..0 : under[i] = t
  OBVIOUS
<1> HIDE DEF under
<1>2. Unpacks(o, t, t, <<>>, under)
  BY <1>1 DEF Unpacks
<1> QED
  BY <1>2 DEF Packed

\* A buffer without layers holds the text, one with layers some bytes.
LEMMA PackedText ==
  ASSUME NEW o, NEW t, NEW b, NEW layers, Packed(o, t, b, layers)
  PROVE  /\ layers = Nothing => b = <<>>
         /\ layers = <<>> => b = t
         /\ layers # Nothing => b # <<>>
         /\ b \in Seq(Byte)
<1>1. CASE layers = Nothing /\ b = <<>>
  BY <1>1, NothingIsNoLayers
<1>2. CASE layers \in Seq(Codec) /\ \E under : Unpacks(o, t, b, layers, under)
  <2>1. PICK under : Unpacks(o, t, b, layers, under)
    BY <1>2
  <2>2. /\ under[0] = b /\ under[Len(layers)] = t
        /\ under[0] \in Seq(Byte) /\ under[0] # <<>>
    BY <1>2, <2>1 DEF Unpacks
  <2> QED BY <1>2, <2>2, NothingIsNoLayers
<1> QED
  BY <1>1, <1>2 DEF Packed

\* Without layers the objects do not matter.
LEMMA ObjectsDoNotMatter ==
  ASSUME NEW o, NEW t, NEW b, NEW layers \in {Nothing, <<>>}, Packed(o, t, b, layers),
         NEW other
  PROVE  Packed(other, t, b, layers)
<1>1. CASE layers = Nothing
  BY <1>1, PackedText, NothingPacked
<1>2. CASE layers = <<>>
  <2>1. b = t /\ b \in Seq(Byte) /\ b # <<>>
    BY <1>2, PackedText, NothingIsNoLayers
  <2> QED BY <1>2, <2>1, TextPacked
<1> QED
  BY <1>1, <1>2

UseInv == KeyInv /\ PackedInv

LEMMA UseInvInit ==
  UseInit => UseInv
<1> SUFFICES ASSUME UseInit PROVE UseInv
  OBVIOUS
<1>1. Objects[1] = 0 /\ Objects[2] = Q_TEXT /\ Objects[3] = R_TEXT
  BY DEF UseInit, WrapperInit, Objects
<1>2. KeyInv
  <2>1. 0 \in 0..UShortMax
    BY DEF UShortMax
  <2>2. 0 \in Byte
    BY DEF Byte
  <2>3. GoodObjects(Objects)
    BY <1>1, <2>2, SourceTables DEF GoodObjects
  <2> QED
    BY <2>1, <2>3 DEF UseInit, WrapperInit, KeyInv
<1>3. PackedInv
  BY NothingPacked DEF UseInit, WrapperInit, PackedInv
<1> QED
  BY <1>2, <1>3 DEF UseInv

\* The lowest byte of an unsigned short is replaced.
LEMMA LowByteSet ==
  ASSUME NEW g \in 0..UShortMax, NEW k \in Nat
  PROVE  (g \div 256) * 256 + (k % 256) \in 0..UShortMax
<1>1. UShortMax \in Nat /\ UShortMax <= 65535 /\ UShortMax >= 65535
  BY DEF UShortMax
<1> DEFINE high == g \div 256
           low == k % 256
<1>2. g \in Nat /\ g <= 65535
  BY <1>1
<1>3. low \in Nat /\ low <= 255
  OBVIOUS
<1>4. high \in Nat /\ high <= 255
  BY <1>2
<1> HIDE DEF high, low
<1>5. high * 256 + low \in Nat /\ high * 256 + low <= 65535
  BY <1>3, <1>4
<1>6. high * 256 + low \in 0..UShortMax
  BY <1>1, <1>5
<1> QED
  BY <1>6 DEF high, low

\* The keys change only before the first layer.
LEMMA KeyInvStep ==
  UseInv /\ [UseNext]_useVars => KeyInv' /\ (init_record => Objects' = Objects /\ init_record')
<1> SUFFICES ASSUME UseInv, [UseNext]_useVars
             PROVE  KeyInv' /\ (init_record => Objects' = Objects /\ init_record')
  OBVIOUS
<1>1. /\ gckul \in 0..UShortMax /\ init_record \in BOOLEAN /\ GoodObjects(Objects)
      /\ cwer \in {"CWER_OTM", "CWER_BASE64", "CWER_XOR"}
  BY DEF UseInv, KeyInv
<1>2. ASSUME UNCHANGED keyVars, cwer' \in {"CWER_OTM", "CWER_BASE64", "CWER_XOR"}
      PROVE  KeyInv' /\ Objects' = Objects /\ (init_record => init_record')
  BY <1>1, <1>2 DEF keyVars, KeyInv, Objects, GoodObjects
<1>3. ASSUME NEW t \in Texts, Fill(t)
      PROVE  KeyInv' /\ Objects' = Objects /\ (init_record => init_record')
  BY <1>1, <1>2, <1>3 DEF Fill
<1>4. ASSUME NEW k \in Keys, SetKey(k)
      PROVE  KeyInv' /\ Objects' = Objects /\ (init_record => init_record')
  <2>1. k \in 0..UShortMax
    BY KeysAssumption
  <2>2. k \in Nat
    BY <2>1 DEF UShortMax
  <2>3. (gckul \div 256) * 256 + (k % 256) \in 0..UShortMax
    BY <1>1, <2>2, LowByteSet
  <2>4. gckul' \in 0..UShortMax /\ UNCHANGED <<init_record, xor_key, q_text, r_text, cwer>>
    BY <1>4, <2>1, <2>3 DEF SetKey, ops_wrapper_otm_key, ops_wrapper_xor_key, buffVars
  <2> QED BY <1>1, <2>4 DEF KeyInv, Objects, GoodObjects
<1>5. CASE InitWrappers /\ init_record
  BY <1>1, <1>2, <1>5 DEF InitWrappers, ops_wrapper_init, otm_init, xor_init,
                          wrapperVars, buffVars
<1>6. CASE InitWrappers /\ ~init_record
  <2>1. /\ init_record' = TRUE /\ xor_key' = gckul % 256
        /\ q_text' = sortHashList(Q_TEXT, Resort(gckul))
        /\ r_text' = sortHashList(R_TEXT, Resort(gckul))
        /\ gckul' = gckul /\ cwer' = cwer
    BY <1>6 DEF InitWrappers, ops_wrapper_init, otm_init, xor_init, buffVars
  <2>2. Resort(gckul) \in 0..TextLength - 1 /\ gckul % 256 \in Byte
    <3>1. gckul \in Nat /\ gckul % 256 \in 0..255
      BY <1>1 DEF UShortMax
    <3> QED BY <3>1, ResortType DEF Byte
  <2>3. Table(q_text') /\ Table(r_text')
    BY <2>1, <2>2, SourceTables, SortedTable
  <2>4. KeyInv'
    BY <1>1, <2>1, <2>2, <2>3 DEF KeyInv, GoodObjects, Objects
  <2> QED BY <1>6, <2>4
<1>7. CASE Encode
  BY <1>2, <1>7 DEF Encode, ops_wrapper_xor, ops_wrapper_base64_encode,
                    ops_wrapper_otm_encode, Wrap
<1>8. CASE Decode
  BY <1>2, <1>8 DEF Decode, ops_wrapper_xor, ops_wrapper_base64_decode,
                    ops_wrapper_otm_decode, Wrap
<1>9. CASE WorkTogether
  BY <1>1, <1>2, <1>9 DEF WorkTogether, ops_wrapper_gcwt, ow_gcs_all_wt
<1>10. CASE UNCHANGED useVars
  BY <1>1, <1>2, <1>10 DEF useVars, wrapperVars, buffVars
<1> QED
  BY <1>3, <1>4, <1>5, <1>6, <1>7, <1>8, <1>9, <1>10 DEF UseNext

\* An encoding puts a layer on top, or leaves nothing.
LEMMA EncodePacks ==
  UseInv /\ Encode => Packed(Objects, text, buff2', layers2')
<1> SUFFICES ASSUME UseInv, Encode PROVE Packed(Objects, text, buff2', layers2')
  OBVIOUS
<1>1. GoodObjects(Objects) /\ Packed(Objects, text, buff1, layers1)
  BY DEF UseInv, KeyInv, PackedInv
\* One argument for the three codecs.
<1>2. ASSUME NEW codec \in Codec, NEW fails, Layered(codec, fails),
             Encodable(codec, buff1),
             buff2' = IF fails THEN <<>> ELSE Encoded(Objects, codec, buff1)
      PROVE  Packed(Objects, text, buff2', layers2')
  <2>1. CASE fails
    BY <1>2, <2>1, NothingPacked DEF Layered
  <2>2. CASE ~fails
    <3>1. /\ layers1 # Nothing /\ layers2' = <<codec>> \o layers1
          /\ buff2' = Encoded(Objects, codec, buff1)
      BY <1>2, <2>2 DEF Layered
    <3>2. Packed(Objects, text, Encoded(Objects, codec, buff1), <<codec>> \o layers1)
      BY <1>1, <1>2, <3>1, LayerAdded
    <3> QED BY <3>1, <3>2
  <2> QED BY <2>1, <2>2
<1>3. layers1 # Nothing /\ buff1 \in Seq(Byte) /\ buff1 # <<>>
  BY <1>1, PackedText DEF Encode, Layered
<1>4. Objects[1] = xor_key /\ Objects[2] = q_text /\ Objects[3] = r_text
  BY DEF Objects
<1>5. CASE ops_wrapper_xor /\ Layered("xor", xorFails(buff1, BuffSize))
  <2>1. Encodable("xor", buff1) /\ "xor" \in Codec
    BY <1>3 DEF Encodable, Codec
  <2>2. buff2' = IF xorFails(buff1, BuffSize) THEN <<>>
                 ELSE Encoded(Objects, "xor", buff1)
    BY <1>4, <1>5 DEF ops_wrapper_xor, Wrap, Encoded
  <2> QED BY <1>2, <1>5, <2>1, <2>2
<1>6. CASE /\ ops_wrapper_base64_encode
           /\ Layered("base64", base64EncodeFails(buff1, BuffSize))
  <2>1. Encodable("base64", buff1) /\ "base64" \in Codec
    BY <1>3 DEF Encodable, Codec
  <2>2. buff2' = IF base64EncodeFails(buff1, BuffSize) THEN <<>>
                 ELSE Encoded(Objects, "base64", buff1)
    BY <1>6 DEF ops_wrapper_base64_encode, Wrap, Encoded
  <2> QED BY <1>2, <1>6, <2>1, <2>2
<1>7. CASE /\ \A i \in DOMAIN buff1 : buff1[i] \in OtmByte
           /\ ops_wrapper_otm_encode
           /\ Layered("otm", otmEncodeFails(buff1, BuffSize))
  <2>1. Encodable("otm", buff1) /\ "otm" \in Codec
    <3>1. buff1 \in Seq(OtmByte)
      BY <1>3, <1>7
    <3> QED BY <1>3, <3>1 DEF Encodable, Codec
  <2>2. buff2' = IF otmEncodeFails(buff1, BuffSize) THEN <<>>
                 ELSE Encoded(Objects, "otm", buff1)
    BY <1>4, <1>7 DEF ops_wrapper_otm_encode, Wrap, Encoded
  <2> QED BY <1>2, <1>7, <2>1, <2>2
<1> QED
  BY <1>5, <1>6, <1>7 DEF Encode

\* A decoding takes the topmost layer away, or leaves nothing.
LEMMA DecodeUnpacks ==
  UseInv /\ Decode => Packed(Objects, text, buff2', layers2')
<1> SUFFICES ASSUME UseInv, Decode PROVE Packed(Objects, text, buff2', layers2')
  OBVIOUS
<1>1. GoodObjects(Objects) /\ Packed(Objects, text, buff1, layers1)
  BY DEF UseInv, KeyInv, PackedInv
<1>2. layers1 \notin {Nothing, <<>>}
  BY DEF Decode, Undone
<1>3. PICK s : /\ buff1 = Encoded(Objects, Head(layers1), s)
               /\ Encodable(Head(layers1), s) /\ Head(layers1) \in Codec
               /\ Packed(Objects, text, s, Tail(layers1))
  BY <1>1, <1>2, LayerUndone
<1>4. /\ Head(layers1) = "xor" => xorCode(buff1, xor_key) = s
      /\ Head(layers1) = "base64" => base64Decode(buff1) = s
      /\ Head(layers1) = "otm" => otmDecode(buff1, q_text, r_text) = s
  <2>1. Objects[1] = xor_key /\ Objects[2] = q_text /\ Objects[3] = r_text
    BY DEF Objects
  <2> QED BY <1>1, <1>3, <2>1, Undoes
\* One argument for the three codecs.
<1>5. ASSUME NEW fails, layers2' = IF fails THEN Nothing ELSE Tail(layers1),
             buff2' = IF fails THEN <<>> ELSE s
      PROVE  Packed(Objects, text, buff2', layers2')
  BY <1>3, <1>5, NothingPacked
<1>6. CASE Undone("xor", xorFails(buff1, BuffSize)) /\ ops_wrapper_xor
  <2>1. buff2' = IF xorFails(buff1, BuffSize) THEN <<>> ELSE s
    BY <1>4, <1>6 DEF Undone, ops_wrapper_xor, Wrap
  <2> QED BY <1>5, <1>6, <2>1 DEF Undone
<1>7. CASE /\ Undone("base64", base64DecodeFails(buff1, BuffSize))
           /\ ops_wrapper_base64_decode
  <2>1. buff2' = IF base64DecodeFails(buff1, BuffSize) THEN <<>> ELSE s
    BY <1>4, <1>7 DEF Undone, ops_wrapper_base64_decode, Wrap
  <2> QED BY <1>5, <1>7, <2>1 DEF Undone
<1>8. CASE Undone("otm", otmDecodeFails(buff1, BuffSize)) /\ ops_wrapper_otm_decode
  <2>1. buff2' = IF otmDecodeFails(buff1, BuffSize) THEN <<>> ELSE s
    BY <1>4, <1>8 DEF Undone, ops_wrapper_otm_decode, Wrap
  <2> QED BY <1>5, <1>8, <2>1 DEF Undone
<1> QED
  BY <1>6, <1>7, <1>8 DEF Decode

LEMMA PackedInvStep ==
  UseInv /\ [UseNext]_useVars => PackedInv'
<1> SUFFICES ASSUME UseInv, [UseNext]_useVars PROVE PackedInv'
  OBVIOUS
<1>1. /\ text = <<>> => layers1 = Nothing /\ layers2 = Nothing
      /\ ~init_record => layers1 \in {Nothing, <<>>} /\ layers2 \in {Nothing, <<>>}
      /\ Packed(Objects, text, buff1, layers1) /\ Packed(Objects, text, buff2, layers2)
  BY DEF UseInv, PackedInv
<1>2. init_record => Objects' = Objects /\ init_record'
  BY KeyInvStep
\* Steps that leave the text and the buffers alone.
<1>3. ASSUME UNCHANGED <<text, buff1, buff2, layers1, layers2>>,
             init_record => Objects' = Objects /\ init_record'
      PROVE  PackedInv'
  <2>1. /\ Packed(Objects', text, buff1, layers1)
        /\ Packed(Objects', text, buff2, layers2)
    BY <1>1, <1>3, ObjectsDoNotMatter
  <2> QED BY <1>1, <1>3, <2>1 DEF PackedInv
<1>4. ASSUME NEW t \in Texts, Fill(t) PROVE PackedInv'
  <2>1. t \in Seq(Byte) /\ t # <<>>
    BY TextsAssumption
  <2>2. /\ text = <<>> /\ text' = t /\ buff1' = t /\ layers1' = <<>>
        /\ UNCHANGED <<keyVars, buff2, layers2>>
    BY <1>4 DEF Fill
  <2>3. layers2 = Nothing /\ buff2 = <<>>
    BY <1>1, <2>2, PackedText
  <2>4. /\ Packed(Objects', t, t, <<>>) /\ Packed(Objects', t, <<>>, Nothing)
    BY <2>1, TextPacked, NothingPacked
  <2> QED BY <2>1, <2>2, <2>3, <2>4 DEF PackedInv
<1>5. ASSUME NEW k \in Keys, SetKey(k) PROVE PackedInv'
  BY <1>2, <1>3, <1>5 DEF SetKey, ops_wrapper_otm_key, ops_wrapper_xor_key, buffVars
<1>6. CASE InitWrappers
  BY <1>2, <1>3, <1>6 DEF InitWrappers, ops_wrapper_init, otm_init, xor_init,
                          wrapperVars, buffVars
\* The codecs, which need the objects, fill the second buffer.
<1>7. ASSUME init_record, layers1 # Nothing,
             UNCHANGED <<text, buff1, layers1>>,
             Packed(Objects, text, buff2', layers2')
      PROVE  PackedInv'
  <2>1. text # <<>> /\ Objects' = Objects /\ init_record'
    BY <1>1, <1>2, <1>7
  <2> QED BY <1>1, <1>7, <2>1 DEF PackedInv
<1>8. CASE Encode
  <2>1. /\ init_record /\ layers1 # Nothing /\ UNCHANGED <<text, buff1, layers1>>
    BY <1>8 DEF Encode, Layered, ops_wrapper_xor, ops_wrapper_base64_encode,
                ops_wrapper_otm_encode, Wrap
  <2> QED BY <1>7, <1>8, <2>1, EncodePacks
<1>9. CASE Decode
  <2>1. /\ init_record /\ layers1 # Nothing /\ UNCHANGED <<text, buff1, layers1>>
    BY <1>9 DEF Decode, Undone, ops_wrapper_xor, ops_wrapper_base64_decode,
                ops_wrapper_otm_decode, Wrap
  <2> QED BY <1>7, <1>9, <2>1, DecodeUnpacks
<1>10. CASE WorkTogether
  <2>1. /\ buff1' = buff2 /\ buff2' = buff1 /\ layers1' = layers2 /\ layers2' = layers1
        /\ text' = text /\ init_record' = init_record /\ Objects' = Objects
    BY <1>10 DEF WorkTogether, ops_wrapper_gcwt, ow_gcs_all_wt, keyVars, Objects
  <2> QED BY <1>1, <2>1 DEF PackedInv
<1>11. CASE UNCHANGED useVars
  BY <1>2, <1>3, <1>11 DEF useVars, wrapperVars, buffVars
<1> QED
  BY <1>4, <1>5, <1>6, <1>8, <1>9, <1>10, <1>11 DEF UseNext

LEMMA UseInvAlways ==
  UseSpec => []UseInv
<1>1. UseInv /\ [UseNext]_useVars => UseInv'
  BY KeyInvStep, PackedInvStep DEF UseInv
<1> QED
  BY <1>1, UseInvInit, PTL DEF UseSpec

\* The buffers hold bytes, and the xor key is one byte of the union of the keys,
\* whichever key was set last and however often the objects are initialised.
THEOREM WrappersKeepTypes ==
  UseSpec => []WrapperTypeOK
<1>1. UseInv => WrapperTypeOK
  <2> SUFFICES ASSUME UseInv PROVE WrapperTypeOK
    OBVIOUS
  <2>1. KeyInv /\ PackedInv
    BY DEF UseInv
  <2>2. buff1 \in Seq(Byte) /\ buff2 \in Seq(Byte)
    BY <2>1, PackedText DEF PackedInv
  <2>3. xor_key \in Byte /\ q_text \in Seq(Byte) /\ r_text \in Seq(Byte)
    BY <2>1 DEF KeyInv, GoodObjects, Objects, Table
  <2> QED BY <2>1, <2>2, <2>3 DEF KeyInv, WrapperTypeOK
<1> QED
  BY <1>1, UseInvAlways, PTL

\* A buffer whose encodings were all undone holds the text again, for every text
\* and key, however many codecs were on top of each other and in whatever order,
\* and a codec that failed leaves no data.
THEOREM WrappersDecodeBack ==
  UseSpec => []DecodesBack
<1>1. UseInv => DecodesBack
  BY PackedText DEF UseInv, PackedInv, DecodesBack
<1> QED
  BY <1>1, UseInvAlways, PTL

=============================================================================
