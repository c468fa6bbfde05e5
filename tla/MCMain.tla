-------------------------------- MODULE MCMain ---------------------------------
(***************************************************************************)
(* Bounded instances of MainCoding: the input is one of Inputs.            *)
(***************************************************************************)
EXTENDS MainProperties

CONSTANTS
  Inputs,
  good, bad    \* chunks; bad is not base64 text

OneChunk == {<<good>>}
Encoding == {EncodeChain}
GoodThenBad == {<<good, bad>>}

MCMainInit == input \in Inputs /\ MainInit

MCMainSpec == MCMainInit /\ [][MainNext]_allVars /\ MainFairness

=============================================================================
