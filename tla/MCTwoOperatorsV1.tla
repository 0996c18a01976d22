-------------------------- MODULE MCTwoOperatorsV1 --------------------------
(***************************************************************************)
(* The instance of TwoOperatorsV1 for TLC.                                 *)
(***************************************************************************)
EXTENDS TwoOperatorsV1, MCOperatorV1
=============================================================================
