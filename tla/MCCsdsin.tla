-------------------------------- MODULE MCCsdsin -------------------------------
(***************************************************************************)
(* Bounded instances of CsdsinUse.                                         *)
(***************************************************************************)
EXTENDS CsdsinUse

UpToFour == {<<>>, <<1>>, <<1, 2>>, <<1, 2, 3>>, <<2, 1, 2, 3>>}

=============================================================================
