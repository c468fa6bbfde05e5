------------------------------ MODULE OpsWrapper -------------------------------
(***************************************************************************)
(* The wrappers of src/src/ops_wrapper.cc: the keys, the objects made by   *)
(* ops_wrapper_init and the procedures that code one buffer of the general *)
(* coding structure into the other.                                        *)
(*                                                                         *)
(* buff1 and buff2 are the bytes of the buffers up to their lengths.  Both *)
(* buffers have the same size, as main() and the tests allocate them.      *)
(***************************************************************************)
EXTENDS Codecs

CONSTANT BuffSize

\* The program has 4096 and the test 512.
ASSUME BuffSizeAssumption == BuffSize \in Nat /\ BuffSize > 0 /\ BuffSize % 8 = 0

UShortMax == 65535   \* the largest unsigned short, which otm_key is

VARIABLES
  gckul,             \* the union of the keys, read as otm_key
  init_record,       \* ops_wrapper_init_record
  xor_key,           \* xor_bewrapped->xor_key_
  q_text, r_text,    \* otm_bewrapped's tables
  cwer,              \* which object worked last
  buff1, buff2

keyVars  == <<gckul, init_record, xor_key, q_text, r_text>>
buffVars == <<cwer, buff1, buff2>>
wrapperVars == <<keyVars, buffVars>>

WrapperInit ==
  /\ gckul = 0 /\ init_record = FALSE
  /\ xor_key = 0 /\ q_text = Q_TEXT /\ r_text = R_TEXT
  /\ cwer = "CWER_OTM"
  /\ buff1 = <<>> /\ buff2 = <<>>

-----------------------------------------------------------------------------
(* Keys and initialisation.                                                *)

ops_wrapper_otm_key(x) ==
  /\ gckul' = x
  /\ UNCHANGED <<init_record, xor_key, q_text, r_text, buffVars>>

\* The union's lowest byte.
ops_wrapper_xor_key(k) ==
  /\ gckul' = (gckul \div 256) * 256 + k
  /\ UNCHANGED <<init_record, xor_key, q_text, r_text, buffVars>>

\* The tables of the new object are those of the class.
otm_init(x) ==
  /\ q_text' = sortHashList(Q_TEXT, Resort(x))
  /\ r_text' = sortHashList(R_TEXT, Resort(x))

xor_init(k) == xor_key' = k

\* Faulty: the xor object gets the whole union.
ops_wrapper_init_WideKey ==
  IF init_record
  THEN UNCHANGED wrapperVars
  ELSE /\ init_record' = TRUE
       /\ otm_init(gckul) /\ xor_init(gckul)
       /\ UNCHANGED <<gckul, buffVars>>

\* Faulty: every call gives the objects the keys of the moment.
ops_wrapper_init_Again ==
  /\ init_record' = TRUE
  /\ otm_init(gckul) /\ xor_init(gckul % 256)
  /\ UNCHANGED <<gckul, buffVars>>

ops_wrapper_init ==
  IF init_record
  THEN UNCHANGED wrapperVars
  ELSE /\ init_record' = TRUE
       /\ otm_init(gckul) /\ xor_init(gckul % 256)
       /\ UNCHANGED <<gckul, buffVars>>

-----------------------------------------------------------------------------
(* The wrappers.  They need the objects of ops_wrapper_init.               *)

\* generateOPSWrapper: a failure leaves an empty output and is not reported.  Its
\* lambda captures the parameters by reference and is called after they ended; it
\* is modelled as finding them unchanged.
Wrap(object, fails, out) ==
  /\ init_record
  /\ buff2' = IF fails THEN <<>> ELSE out
  /\ cwer' = object
  /\ UNCHANGED <<keyVars, buff1>>

ops_wrapper_xor ==
  Wrap("CWER_XOR", xorFails(buff1, BuffSize), xorCode(buff1, xor_key))

ops_wrapper_base64_encode ==
  Wrap("CWER_BASE64", base64EncodeFails(buff1, BuffSize), base64Encode(buff1))

ops_wrapper_base64_decode ==
  Wrap("CWER_BASE64", base64DecodeFails(buff1, BuffSize), base64Decode(buff1))

ops_wrapper_otm_encode ==
  Wrap("CWER_OTM", otmEncodeFails(buff1, BuffSize),
       otmEncode(buff1, q_text, r_text))

ops_wrapper_otm_decode ==
  Wrap("CWER_OTM", otmDecodeFails(buff1, BuffSize),
       otmDecode(buff1, q_text, r_text))

\* The buffers are exchanged, with their sizes and lengths.
ow_gcs_all_wt == buff1' = buff2 /\ buff2' = buff1

\* It is done whichever object worked last.
ops_wrapper_gcwt ==
  /\ cwer \in {"CWER_OTM", "CWER_BASE64", "CWER_XOR"}
  /\ ow_gcs_all_wt
  /\ UNCHANGED <<keyVars, cwer>>

=============================================================================
