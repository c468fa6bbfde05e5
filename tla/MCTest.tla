-------------------------------- MODULE MCTest ---------------------------------
(***************************************************************************)
(* The instance of AbstractTest that TLC checks.                           *)
(***************************************************************************)
EXTENDS AbstractTest

TestChains == {TestChain}

=============================================================================
