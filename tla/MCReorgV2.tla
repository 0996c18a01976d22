----------------------------- MODULE MCReorgV2 ------------------------------
(***************************************************************************)
(* The instance of ReorgV2 for TLC.                                        *)
(***************************************************************************)
EXTENDS ReorgV2

MCVersion == [k \in Keys \cup {ZeroKey} |-> IF k = ZeroKey THEN 0 ELSE 2]

Forward == {p \in Keys \X Keys : p[1] < p[2]}

\* One send that is lost.
OneLoss == [f \in Failures |-> IF f = "loss" THEN 1 ELSE 0]
=============================================================================
