---------------------------- MODULE MCVerifierV1 ----------------------------
(***************************************************************************)
(* Instances of VerifierV1 for TLC.                                        *)
(***************************************************************************)
EXTENDS VerifierV1, MCOperatorV1
=============================================================================
