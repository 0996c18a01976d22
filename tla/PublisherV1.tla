---------------------------- MODULE PublisherV1 -----------------------------
(***************************************************************************)
(* internal/publisher/publisher.go with the parts it drives: the v1 chain  *)
(* client, internal/chain/client.go, and the v1 registry contract,         *)
(* contracts/AttestationRegistry.sol.                                      *)
(*                                                                         *)
(* A Job is its Deployment and its config hash: the version is the same in *)
(* all jobs of a build, and the name is for logs.                          *)
(***************************************************************************)
EXTENDS KmsSigner, Naturals, Sequences, FiniteSets

CONSTANTS
  Deployments, \* the Deployment identifiers
  Limit        \* bound: how often each kind of failure happens

Failures == {"api", "kms", "rpc", "timeout", "drop", "revert", "crash", "repoint"}

Jobs == [dep: Deployments, hash: Hashes]

\* The arguments of the contract's publish, and the record it keeps of them.
Attestation == [dep: Deployments, hash: Hashes, sig: Signatures, fingerprint: KmsKeys]

jobOf(att) == [dep |-> att.dep, hash |-> att.hash]

ASSUME PublisherV1Assumption ==
  /\ Nil \notin Jobs \cup Attestation
  /\ Limit \in [Failures -> Nat]

VARIABLES
  queue, dirty, processing, delayed,  \* p.queue
  job,         \* the job the worker processes, or Nil
  sig,         \* its signature, or Nil before it is signed
  mempool,     \* external: transactions the node took, in nonce order
  latest,      \* the contract's mapping; Nil where exists is false
  events,      \* history: all records, from the log and the calls' arguments
  spent        \* history: failures so far, by kind

INSTANCE WorkQueue WITH Items <- Jobs

queueVars == <<queue, dirty, processing, delayed>>
chainVars == <<mempool, latest, events>>
workerVars == <<job, sig>>
signerVars == <<alias, signer>>
publisherVars == <<queueVars, workerVars, chainVars, signerVars>>

PublisherTypeOK ==
  /\ QueueTypeOK
  /\ SignerTypeOK
  /\ job \in Jobs \cup {Nil}
  /\ sig \in Signatures \cup {Nil}
  /\ mempool \in Seq(Attestation)
  /\ latest \in [Deployments -> Attestation \cup {Nil}]
  /\ events \in Seq(Attestation)
  /\ spent \in [Failures -> Nat]

PublisherInit ==
  /\ QueueInit
  /\ alias \in KmsKeys
  /\ signer = Nil
  /\ job = Nil
  /\ sig = Nil
  /\ mempool = << >>
  /\ latest = [d \in Deployments |-> Nil]
  /\ events = << >>
  /\ spent = [f \in Failures |-> 0]

\* One more failure of kind f happens.
Fail(f) ==
  /\ spent[f] < Limit[f]
  /\ spent' = [spent EXCEPT ![f] = @ + 1]

\* processNext gets a job.
Get ==
  /\ signer # Nil
  /\ job = Nil
  /\ \E j \in Jobs : get(j) /\ job' = j
  /\ UNCHANGED <<sig, chainVars, signerVars, spent>>

\* Mutant: a failed job is not put back.
dropErrors(failed) ==
  /\ job' = Nil
  /\ sig' = Nil
  /\ delayed' = delayed
  /\ done(job, dirty)

\* The rest of processNext: back off after an error, and Done.
finish(failed) ==
  /\ job' = Nil
  /\ sig' = Nil
  /\ delayed' = IF failed THEN delayed \cup {job} ELSE delayed
  /\ done(job, dirty)

\* process, its first half: SignDigest.  KMS fails, or answers as it should,
\* or answers something else.
SignDigest ==
  /\ job # Nil /\ sig = Nil
  /\ \/ Fail("rpc") /\ finish(TRUE)
     \/ \E out \in SignOutput :
          /\ \/ out = kmsSign(signer.keyID, job.hash) /\ UNCHANGED spent
             \/ Fail("kms")
          /\ \/ /\ acceptsOutput(job.hash, out)
                /\ sig' = out.signature
                /\ UNCHANGED <<queueVars, job>>
             \/ ~ acceptsOutput(job.hash, out) /\ finish(TRUE)
  /\ UNCHANGED <<chainVars, signerVars>>

\* PublishAttestation: Transact takes the next pending nonce and sends.
PublishAttestation(att) == mempool' = Append(mempool, att)

\* Mutant: the signature is left out of the call.
unsigned == [dep |-> job.dep, hash |-> job.hash, sig |-> Nil, fingerprint |-> signer.pub]

\* What process sends for the job it has signed.
signed == [dep |-> job.dep, hash |-> job.hash, sig |-> sig, fingerprint |-> signer.pub]

\* process, its second half: PublishAttestation.  The transaction is sent; it
\* is not; it is sent and the answer is lost; or it is sent, acknowledged and
\* then dropped by the node.  The account has no other sender, so no nonce is
\* taken between the two halves of Transact.
Process ==
  /\ sig # Nil
  /\ \/ PublishAttestation(signed) /\ finish(FALSE) /\ UNCHANGED spent
     \/ Fail("rpc") /\ finish(TRUE) /\ UNCHANGED mempool
     \/ Fail("timeout") /\ PublishAttestation(signed) /\ finish(TRUE)
     \/ Fail("drop") /\ finish(FALSE) /\ UNCHANGED mempool
  /\ UNCHANGED <<latest, events, signerVars>>

\* The same where another sender of the account has used the nonce Transact
\* took, the n-th from the next to be mined: the node refuses the transaction,
\* or takes it in place of the one it held, which is lost.
Contended(n) ==
  /\ sig # Nil
  /\ \/ finish(TRUE) /\ UNCHANGED <<mempool, spent>>
     \/ /\ n \in 1..Len(mempool)
        /\ Fail("drop")
        /\ mempool' = [mempool EXCEPT ![n] = signed]
        /\ finish(FALSE)
  /\ UNCHANGED <<latest, events, signerVars>>

\* The backoff of a failed job elapses.
Ripen ==
  /\ \E j \in Jobs : ripen(j)
  /\ UNCHANGED <<workerVars, chainVars, signerVars, spent>>

\* The contract's publish: overwrite and log.
publish(att) ==
  /\ latest' = [latest EXCEPT ![att.dep] = att]
  /\ events' = Append(events, att)

\* The alias is pointed at another key.
Repoint ==
  /\ Fail("repoint")
  /\ alias' \in KmsKeys \ {alias}
  /\ UNCHANGED <<signer, queueVars, workerVars, chainVars>>

\* A block takes the account's next transaction, which succeeds or reverts.
Mine ==
  /\ mempool # << >>
  /\ mempool' = Tail(mempool)
  /\ \/ publish(Head(mempool)) /\ UNCHANGED spent
     \/ Fail("revert") /\ UNCHANGED <<latest, events>>
  /\ UNCHANGED <<queueVars, workerVars, signerVars>>
=============================================================================
