------------------------------ MODULE WrapperUse -------------------------------
(***************************************************************************)
(* A user of the wrappers, as ops_wrapper.h and the test program have it:  *)
(* it puts a text into the first buffer, encodes it any number of times,   *)
(* going from one codec to the next with ops_wrapper_gcwt, and decodes in  *)
(* the opposite order.                                                     *)
(***************************************************************************)
EXTENDS OpsWrapper

CONSTANTS
  Texts,     \* the texts of the users
  Keys,      \* the arguments of ops_wrapper_otm_key and ops_wrapper_xor_key
  MaxLayers  \* bound: encodings on top of each other

ASSUME TextsAssumption == \A t \in Texts : t \in Seq(Byte) /\ t # <<>>

ASSUME KeysAssumption == Keys \subseteq 0..UShortMax

VARIABLES
  text,            \* the text of the user
  layers1, layers2 \* history: the codecs that have yet to be undone to get the
                   \* text from buff1 and from buff2

useVars == <<wrapperVars, text, layers1, layers2>>

Codec == {"xor", "base64", "otm"}

\* What the buffer of a failed codec, or one that was never filled, holds.
Nothing == <<"nothing">>

UseInit ==
  /\ WrapperInit
  /\ text = <<>>
  /\ layers1 = Nothing /\ layers2 = Nothing

Fill(t) ==
  /\ text = <<>> /\ Len(t) <= BuffSize
  /\ text' = t /\ buff1' = t /\ layers1' = <<>>
  /\ UNCHANGED <<keyVars, cwer, buff2, layers2>>

SetKey(k) ==
  /\ ops_wrapper_otm_key(k) \/ ops_wrapper_xor_key(k % 256)
  /\ UNCHANGED <<text, layers1, layers2>>

InitWrappers == ops_wrapper_init /\ UNCHANGED <<text, layers1, layers2>>

Layered(codec, fails) ==
  /\ layers1 # Nothing /\ Len(layers1) < MaxLayers
  /\ layers2' = IF fails THEN Nothing ELSE <<codec>> \o layers1
  /\ UNCHANGED <<text, layers1>>

\* The one-two-map has no entries for the bytes that are not in OtmByte.
Encode ==
  \/ ops_wrapper_xor /\ Layered("xor", xorFails(buff1, BuffSize))
  \/ /\ ops_wrapper_base64_encode
     /\ Layered("base64", base64EncodeFails(buff1, BuffSize))
  \/ /\ \A i \in DOMAIN buff1 : buff1[i] \in OtmByte
     /\ ops_wrapper_otm_encode
     /\ Layered("otm", otmEncodeFails(buff1, BuffSize))

Undone(codec, fails) ==
  /\ layers1 \notin {Nothing, <<>>} /\ Head(layers1) = codec
  /\ layers2' = IF fails THEN Nothing ELSE Tail(layers1)
  /\ UNCHANGED <<text, layers1>>

Decode ==
  \/ Undone("xor", xorFails(buff1, BuffSize)) /\ ops_wrapper_xor
  \/ /\ Undone("base64", base64DecodeFails(buff1, BuffSize))
     /\ ops_wrapper_base64_decode
  \/ Undone("otm", otmDecodeFails(buff1, BuffSize)) /\ ops_wrapper_otm_decode

WorkTogether ==
  /\ ops_wrapper_gcwt
  /\ layers1' = layers2 /\ layers2' = layers1
  /\ UNCHANGED text

UseNext ==
  \/ \E t \in Texts : Fill(t)
  \/ \E k \in Keys : SetKey(k)
  \/ InitWrappers \/ Encode \/ Decode \/ WorkTogether

UseSpec == UseInit /\ [][UseNext]_useVars

-----------------------------------------------------------------------------

\* The types; in particular the xor key is one byte of the union, whichever key
\* was set last.
WrapperTypeOK ==
  /\ gckul \in 0..UShortMax /\ init_record \in BOOLEAN
  /\ xor_key \in Byte
  /\ q_text \in Seq(Byte) /\ r_text \in Seq(Byte)
  /\ cwer \in {"CWER_OTM", "CWER_BASE64", "CWER_XOR"}
  /\ buff1 \in Seq(Byte) /\ buff2 \in Seq(Byte)

\* No codec writes past its output buffer: in buffers whose size is a multiple
\* of 8 the room that base64Encode and the others ask for beforehand is all they
\* use, also for the zero bytes added later.
BuffersFit == Len(buff1) <= BuffSize /\ Len(buff2) <= BuffSize

\* A buffer whose encodings were all undone holds the text again, through any
\* order of codecs, detours over the other buffer, keys set too late and
\* repeated initialisations; a codec that failed leaves no data.
DecodesBack ==
  /\ layers1 = <<>> => buff1 = text
  /\ layers2 = <<>> => buff2 = text
  /\ layers1 = Nothing => buff1 = <<>>
  /\ layers2 = Nothing => buff2 = <<>>

=============================================================================
