---------------------------- MODULE MCOperatorV1 ----------------------------
(***************************************************************************)
(* Instances of OperatorV1 for TLC.                                        *)
(***************************************************************************)
EXTENDS OperatorV1

\* Config hashes are numbers: a Deployment that only moves forward, and one
\* that may be rolled back.
Forward == {p \in Hashes \X Hashes : p[1] < p[2]}
Anywhere == Hashes \X Hashes

\* Keys are numbers: 0 is one the operator cannot use.
MCKeyInfo ==
  [k \in KmsKeys |->
     IF k = 0
     THEN [usage |-> "SIGN_VERIFY", spec |-> "ECC_NIST_P384",
           algorithms |-> {"ECDSA_SHA_384"}, curve |-> "P-384"]
     ELSE [usage |-> "SIGN_VERIFY", spec |-> "ECC_NIST_P256",
           algorithms |-> {"ECDSA_SHA_256"}, curve |-> "P-256"]]

\* One of each of these failures.
Once(kinds) == [f \in Failures |-> IF f \in kinds THEN 1 ELSE 0]

OneCrash == Once({"crash"})
Losing == Once({"crash", "drop"})
OneRpcError == Once({"rpc"})
Rotation == Once({"api", "crash", "repoint"})
Failing == Once(Failures \ {"api", "repoint"})
=============================================================================
