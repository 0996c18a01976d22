--------------------------- MODULE MCPublisherV2 ----------------------------
(***************************************************************************)
(* Instances of PublisherV2 for TLC.                                       *)
(***************************************************************************)
EXTENDS PublisherV2

\* Revision keys are numbers here; every one has protocol version 2.
MCVersion == [k \in Keys \cup {ZeroKey} |-> IF k = ZeroKey THEN 0 ELSE 2]

\* A Deployment that only moves forward.
Forward == {p \in Keys \X Keys : p[1] < p[2]}

\* A Deployment that may be rolled back to any earlier revision.
Anywhere == Keys \X Keys

\* A limit for each kind of failure.
Limits(rpc, loss, revert, crash, foreign, dropped) ==
  [f \in Failures |->
     CASE f = "rpc" -> rpc
       [] f = "loss" -> loss
       [] f = "revert" -> revert
       [] f = "crash" -> crash
       [] f = "foreign" -> foreign
       [] f = "evict" -> dropped]

NoFailures == Limits(0, 0, 0, 0, 0, 0)
OneLoss == Limits(0, 1, 0, 0, 0, 0)
\* Another writer, and a node that loses, evicts and reverts.
Hostile == Limits(0, 1, 1, 1, 1, 1)
\* All that may happen to an operator that is alone with its account.
Alone == Limits(1, 1, 1, 1, 0, 0)
=============================================================================
