----------------------------- MODULE VerifierV1 -----------------------------
(***************************************************************************)
(* cmd/verify/main.go: pod-verify, run now and then against the operator   *)
(* of OperatorV1.  It reads the Deployment, then the registry, then the    *)
(* public key, while the cluster, the operator and the alias move on.      *)
(*                                                                         *)
(* It asks the API server, not the operator's informer.  An informer that  *)
(* lags is a Reconcile that has read and not yet enqueued.                 *)
(*                                                                         *)
(* Operator and verifier are of the same build, so every record has a      *)
(* supported version, and equal configs have equal hashes.                 *)
(***************************************************************************)
EXTENDS OperatorV1

CONSTANT
  PublicKeys   \* the keys --public-key may hold, and Nil where it is not given

ASSUME VerifierAssumption == PublicKeys \subseteq KmsKeys \cup {Nil}

VARIABLE
  verifier     \* runVerify: where it is, and its local variables

Stopped ==
  [pc |-> "stopped", dep |-> Nil, file |-> Nil, hash |-> Nil, att |-> Nil, pub |-> Nil,
   steady |-> FALSE]

VerifierState ==
  [pc: {"stopped", "latest", "key", "PASS", "FAIL"}, dep: Deployments \cup {Nil},
   file: KmsKeys \cup {Nil}, hash: Hashes \cup {Nil}, att: Attestation \cup {Nil},
   pub: KmsKeys \cup {Nil}, steady: BOOLEAN]

VerifierInit == Init /\ verifier = Stopped

\* runVerify ends with an error, which is no verdict.
Error == verifier' = Stopped

\* runVerify ends with PASS or FAIL, having found the expected key pub.
Verdict(result, pub) == verifier' = [verifier EXCEPT !.pc = result, !.pub = pub]

\* The operator is done, signs with the key the verifier will expect, and
\* would still do so if it were started again.
Settled(d, file) ==
  /\ AtRest
  /\ rolloutConverged(d)
  /\ signer.pub = alias /\ file \in {alias, Nil}

\* getDeployment, with a public key in a file or not.  steady is history: d is
\* settled, and the cluster and the alias have not changed since.
getDeployment(d, file) ==
  /\ verifier.pc \in {"stopped", "PASS", "FAIL"}
  /\ \/ Error
     \/ /\ live[d].exists
        /\ verifier' = [pc |-> "latest", dep |-> d, file |-> file, hash |-> live[d].spec,
                        att |-> Nil, pub |-> Nil, steady |-> Settled(d, file)]

\* LatestAttestation: the record, or Nil where it does not exist.
LatestAttestation(d) == latest[d]

\* The record, and the comparison of the hashes.
readLatest ==
  LET att == LatestAttestation(verifier.dep) IN
  /\ verifier.pc = "latest"
  /\ \/ Error
     \/ att = Nil /\ Verdict("FAIL", Nil)
     \/ att # Nil /\ att.hash # verifier.hash /\ Verdict("FAIL", Nil)
     \/ /\ att # Nil /\ att.hash = verifier.hash
        /\ verifier' = [verifier EXCEPT !.pc = "key", !.att = att]

\* loadPublicKey, from the file or from KMS; Nil for an error.
loadPublicKey ==
  IF verifier.file # Nil THEN verifier.file
  ELSE LET s == newWithClient(Alias) IN IF s = Nil THEN Nil ELSE s.pub

\* The key, the comparison of the fingerprints and the signature.
checkSignature ==
  LET pub == loadPublicKey
      good == /\ pub = verifier.att.fingerprint
              /\ VerifyConfigHashSignature(pub, verifier.hash, verifier.att.sig)
  IN
  /\ verifier.pc = "key"
  /\ \/ Error
     \/ pub # Nil /\ good /\ Verdict("PASS", pub)
     \/ pub # Nil /\ ~ good /\ Verdict("FAIL", pub)

runVerify ==
  \/ \E d \in Deployments, file \in PublicKeys : getDeployment(d, file)
  \/ readLatest
  \/ checkSignature

VerifierNext ==
  \/ runVerify /\ UNCHANGED vars
  \/ Next /\ verifier' = [verifier EXCEPT !.steady = @ /\ live' = live /\ alias' = alias]

VerifierSpec == VerifierInit /\ [][VerifierNext]_<<vars, verifier>>

-----------------------------------------------------------------------------
(***************************************************************************)
(* Properties.                                                             *)
(***************************************************************************)

\* A PASS has evidence behind it that stays: the config runVerify read had
\* converged, although it does not look at the status, and the contract has
\* recorded it under a valid signature of the key the verifier was given.
PassHasEvidence ==
  verifier.pc = "PASS" =>
    /\ [dep |-> verifier.dep, hash |-> verifier.hash] \in rolledOut
    /\ \E i \in 1..Len(events) :
         /\ jobOf(events[i]) = [dep |-> verifier.dep, hash |-> verifier.hash]
         /\ events[i].sig = <<verifier.pub, verifier.hash>>
         /\ events[i].fingerprint = verifier.pub

\* A FAIL means that something changed: a converged Deployment, an operator
\* that was done and that signs with the expected key, and nothing that
\* changed since, is a PASS.  After the alias was moved this takes a restart
\* of the operator, which then attests every Deployment again.
SteadyPasses == verifier.pc = "FAIL" => ~ verifier.steady
=============================================================================
