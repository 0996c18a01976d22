-------------------------- MODULE OperatorV1Proofs --------------------------
(***************************************************************************)
(* What OperatorV1 publishes had converged and verifies, for every value   *)
(* of its constants.  The strengthening follows a job from the reconciler  *)
(* through the queue, the worker and the node to the registry: wherever    *)
(* it is, it was converged when Reconcile read it, and from SignDigest on  *)
(* it carries a signature of the key whose fingerprint it carries.         *)
(*                                                                         *)
(* Then the types, the queue and the dedup map, and what a job may still   *)
(* be sent for, on which OperatorV1Duplicates and VerifierV1Proofs build.  *)
(***************************************************************************)
EXTENDS OperatorV1, Integers, TLAPS

\* Appending to a sequence, and taking its head.
LEMMA AppendProperties ==
  ASSUME NEW S, NEW q \in Seq(S), NEW x \in S
  PROVE  /\ Append(q, x) \in Seq(S)
         /\ Len(q) \in Nat
         /\ Len(Append(q, x)) = Len(q) + 1
         /\ \A i \in 1..Len(q) : Append(q, x)[i] = q[i]
         /\ Append(q, x)[Len(q) + 1] = x
<1>1. Append(q, x) \in Seq(S)
  OBVIOUS
<1>2. Len(q) \in Nat /\ Len(Append(q, x)) = Len(q) + 1 /\ Append(q, x)[Len(q) + 1] = x
  OBVIOUS
<1>3. \A i \in 1..Len(q) : Append(q, x)[i] = q[i]
  OBVIOUS
<1> QED
  BY <1>1, <1>2, <1>3

LEMMA HeadTailProperties ==
  ASSUME NEW S, NEW q \in Seq(S), q # << >>
  PROVE  /\ Head(q) \in S
         /\ Tail(q) \in Seq(S)
         /\ Len(Tail(q)) = Len(q) - 1
         /\ \A i \in 1..Len(Tail(q)) : Tail(q)[i] = q[i + 1]
<1>1. Head(q) \in S /\ Tail(q) \in Seq(S)
  OBVIOUS
<1>2. Len(Tail(q)) = Len(q) - 1
  OBVIOUS
<1>3. \A i \in 1..Len(Tail(q)) : Tail(q)[i] = q[i + 1]
  OBVIOUS
<1> QED
  BY <1>1, <1>2, <1>3

\* The queue's keys all converged, whether ready, dirty, out or backing off.
QueueConverged ==
  /\ queue \in Seq(rolledOut)
  /\ dirty \cup processing \cup delayed \subseteq rolledOut

\* So did the reconciler's job and the worker's, and the worker holds a
\* signature only if its signer made it for the job.
HandsConverged ==
  /\ adding \in rolledOut \cup {Nil}
  /\ job \in (Jobs \cap rolledOut) \cup {Nil}
  /\ job # Nil => signer # Nil
  /\ sig # Nil => /\ job # Nil
                  /\ sig \in Signatures
                  /\ sig = <<signer.pub, job.hash>>

\* The attestations that may be on their way or recorded.
Good == {att \in Attestation :
           /\ jobOf(att) \in rolledOut
           /\ VerifyConfigHashSignature(att.fingerprint, att.hash, att.sig)}

ChainGood == mempool \in Seq(Good) /\ events \in Seq(Good)

\* What rolloutConverged reads of a Deployment was recorded when it came about.
LiveRecorded ==
  /\ live \in [Deployments -> Deployment]
  /\ \A d \in Deployments :
       rolloutConverged(d) => [dep |-> d, hash |-> live[d].spec] \in rolledOut

ConvergedInv == SignerTypeOK /\ QueueConverged /\ HandsConverged /\ ChainGood /\ LiveRecorded

LEMMA ConvergedInit == Init => ConvergedInv
<1> SUFFICES ASSUME Init PROVE ConvergedInv
  OBVIOUS
<1>1. SignerTypeOK
  BY DEF Init, PublisherInit, SignerTypeOK
<1>2. QueueConverged
  BY DEF Init, PublisherInit, QueueInit, QueueConverged
<1>3. HandsConverged
  BY DEF Init, PublisherInit, HandsConverged
<1>4. ChainGood
  BY DEF Init, PublisherInit, ChainGood
<1>5. LiveRecorded
  BY DEF Init, LiveRecorded, Deployment, Gone, rolloutConverged
<1> QED
  BY <1>1, <1>2, <1>3, <1>4, <1>5, ZenonT(60) DEF ConvergedInv

\* A sequence over S is one over every superset of S.
LEMMA SeqMonotone ==
  ASSUME NEW S, NEW T, S \subseteq T, NEW s \in Seq(S)
  PROVE  s \in Seq(T)
  OBVIOUS

\* A change of a Deployment records the state it brings about.
LEMMA ConvergedBecomes ==
  ASSUME ConvergedInv, NEW d \in Deployments, NEW new \in Deployment, Becomes(d, new)
  PROVE  ConvergedInv'
<1>1. rolledOut \subseteq rolledOut'
  BY DEF Becomes
<1>2. UNCHANGED <<queue, dirty, processing, delayed, adding, job, sig, mempool, events, alias, signer>>
  BY DEF Becomes, publisherVars, queueVars, workerVars, chainVars, signerVars
<1>3. SignerTypeOK'
  BY <1>2, ZenonT(60) DEF ConvergedInv, SignerTypeOK
<1>4. QueueConverged'
  BY <1>1, <1>2, SeqMonotone, ZenonT(60) DEF ConvergedInv, QueueConverged
<1>5. HandsConverged'
  BY <1>1, <1>2 DEF ConvergedInv, HandsConverged
<1>6. Good \subseteq Good'
  BY <1>1 DEF Good
<1>7. ChainGood'
  BY <1>2, <1>6, SeqMonotone DEF ConvergedInv, ChainGood
<1>8. live' = [live EXCEPT ![d] = new]
  BY DEF Becomes
<1>9. live' \in [Deployments -> Deployment]
  BY <1>8 DEF ConvergedInv, LiveRecorded
<1>10. ASSUME NEW e \in Deployments, live'[e].observed, live'[e].complete
       PROVE  [dep |-> e, hash |-> live'[e].spec] \in rolledOut'
  <2>1. CASE e = d
    BY <1>8, <1>10, <2>1, ZenonT(60) DEF ConvergedInv, LiveRecorded, Becomes
  <2>2. CASE e # d
    BY <1>1, <1>8, <1>10, <2>2 DEF ConvergedInv, LiveRecorded, rolloutConverged
  <2> QED
    BY <2>1, <2>2, ZenonT(60)
<1> QED
  BY <1>3, <1>4, <1>5, <1>7, <1>9, <1>10, ZenonT(60) DEF ConvergedInv, LiveRecorded, rolloutConverged

\* Users and the Deployment controller.
LEMMA ConvergedCluster ==
  ASSUME ConvergedInv, NEW d \in Deployments,
         \/ \E h \in Hashes : Apply(d, h)
         \/ \E b \in BOOLEAN : Observe(d, b) \/ Status(d, b)
         \/ Delete(d)
  PROVE  ConvergedInv'
<1>1. live[d] \in Deployment
  BY DEF ConvergedInv, LiveRecorded
<1>2. \E new \in Deployment : Becomes(d, new)
  <2>1. ASSUME NEW h \in Hashes, Apply(d, h)
        PROVE  \E new \in Deployment : Becomes(d, new)
    BY <1>1, <2>1, ZenonT(60) DEF Apply, Deployment
  <2>2. ASSUME NEW b \in BOOLEAN, Observe(d, b)
        PROVE  \E new \in Deployment : Becomes(d, new)
    BY <1>1, <2>2, ZenonT(60) DEF Observe, Deployment
  <2>3. ASSUME NEW b \in BOOLEAN, Status(d, b)
        PROVE  \E new \in Deployment : Becomes(d, new)
    BY <1>1, <2>3, ZenonT(60) DEF Status, Deployment
  <2>4. ASSUME Delete(d)
        PROVE  \E new \in Deployment : Becomes(d, new)
    BY <1>1, <2>4, ZenonT(60) DEF Delete, Gone, Deployment
  <2> QED
    BY <2>1, <2>2, <2>3, <2>4
<1> QED
  BY <1>2, ConvergedBecomes, ZenonT(60)

\* The queue's steps of the worker, with or without an error.
LEMMA ConvergedFinish ==
  ASSUME ConvergedInv, job # Nil, NEW failed \in BOOLEAN, finish(failed), UNCHANGED <<rolledOut, adding>>
  PROVE  QueueConverged' /\ HandsConverged'
<1>1. job \in rolledOut
  BY DEF ConvergedInv, HandsConverged
<1>2. /\ dirty' = dirty /\ processing' \subseteq processing /\ job' = Nil /\ sig' = Nil
      /\ delayed' \subseteq delayed \cup {job}
      /\ queue' = queue \/ queue' = Append(queue, job)
  BY DEF finish, done
<1>3. queue' \in Seq(rolledOut)
  BY <1>1, <1>2, AppendProperties DEF ConvergedInv, QueueConverged
<1> QED
  BY <1>1, <1>2, <1>3 DEF ConvergedInv, QueueConverged, HandsConverged

\* Steps of the operator and of the node leave the cluster alone.
LEMMA SameCluster ==
  ASSUME ConvergedInv, UNCHANGED <<live, rolledOut>>
  PROVE  LiveRecorded' /\ Good' = Good
  BY DEF ConvergedInv, LiveRecorded, rolloutConverged, Good

LEMMA ConvergedReconcile ==
  ASSUME ConvergedInv, NEW d \in Deployments, Reconcile(d)
  PROVE  ConvergedInv'
<1>1. UNCHANGED <<live, rolledOut, queue, dirty, processing, delayed, job, sig, mempool, events, alias, signer>>
  BY DEF Reconcile, clusterVars, publisherVars, queueVars, workerVars, chainVars, signerVars
<1>2. \/ UNCHANGED adding
      \/ adding' = Nil
      \/ rolloutConverged(d) /\ adding' = [dep |-> d, hash |-> live[d].spec]
  BY DEF Reconcile, reconcilerVars
<1>3. adding' \in rolledOut \cup {Nil}
  BY <1>2, ZenonT(60) DEF ConvergedInv, HandsConverged, LiveRecorded
<1>4. LiveRecorded' /\ Good' = Good
  BY <1>1, SameCluster, ZenonT(60)
<1> QED
  BY <1>1, <1>3, <1>4, ZenonT(60) DEF ConvergedInv, SignerTypeOK, QueueConverged, HandsConverged, ChainGood

LEMMA ConvergedEnqueue ==
  ASSUME ConvergedInv, Enqueue
  PROVE  ConvergedInv'
<1>1. adding \in rolledOut
  BY DEF Enqueue, ConvergedInv, HandsConverged
<1>2. UNCHANGED <<live, rolledOut, job, sig, mempool, events, alias, signer>> /\ adding' = Nil
  BY DEF Enqueue, clusterVars, workerVars, chainVars, signerVars
<1>3. /\ dirty' = dirty \cup {adding} /\ UNCHANGED <<processing, delayed>>
      /\ queue' = queue \/ queue' = Append(queue, adding)
  BY DEF Enqueue, add
<1>4. queue' \in Seq(rolledOut)
  BY <1>1, <1>3, AppendProperties DEF ConvergedInv, QueueConverged
<1>5. LiveRecorded' /\ Good' = Good
  BY <1>2, SameCluster
<1> QED
  BY <1>1, <1>2, <1>3, <1>4, <1>5
     DEF ConvergedInv, SignerTypeOK, QueueConverged, HandsConverged, ChainGood

\* A new signer is typed, and nothing is signed before there is one.
LEMMA ConvergedStart ==
  ASSUME ConvergedInv, Start
  PROVE  ConvergedInv'
<1>1. UNCHANGED <<live, rolledOut, queue, dirty, processing, delayed, adding, job, sig, mempool, events, alias>>
  BY ZenonT(60) DEF Start, clusterVars, queueVars, workerVars, chainVars
<1>2. signer' \in Signer /\ job = Nil /\ sig = Nil
  BY DEF Start, newWithClient, resolve, Signer, ConvergedInv, SignerTypeOK, HandsConverged
<1>3. LiveRecorded' /\ Good' = Good
  BY <1>1, SameCluster
<1> QED
  BY <1>1, <1>2, <1>3 DEF ConvergedInv, SignerTypeOK, QueueConverged, HandsConverged, ChainGood

LEMMA ConvergedCrash ==
  ASSUME ConvergedInv, Crash
  PROVE  ConvergedInv'
<1>1. UNCHANGED <<live, rolledOut, mempool, events, alias>>
  BY DEF Crash, clusterVars, chainVars
<1>2. LiveRecorded' /\ Good' = Good
  BY <1>1, SameCluster, ZenonT(60)
<1> QED
  BY <1>1, <1>2 DEF Crash, ConvergedInv, SignerTypeOK, QueueConverged, HandsConverged, ChainGood

LEMMA ConvergedGet ==
  ASSUME ConvergedInv, Get, UNCHANGED <<clusterVars, reconcilerVars>>
  PROVE  ConvergedInv'
<1>1. UNCHANGED <<live, rolledOut, adding, sig, mempool, events, alias, signer>> /\ job = Nil /\ signer # Nil
  BY DEF Get, clusterVars, reconcilerVars, chainVars, signerVars
<1>2. PICK j \in Jobs : get(j) /\ job' = j
  BY DEF Get
<1>3. j \in rolledOut /\ queue' \in Seq(rolledOut)
  BY <1>2, HeadTailProperties, ZenonT(60) DEF get, ConvergedInv, QueueConverged
<1>4. QueueConverged'
  BY <1>1, <1>2, <1>3, ZenonT(60) DEF get, ConvergedInv, QueueConverged
<1>5. HandsConverged'
  BY <1>1, <1>2, <1>3 DEF ConvergedInv, HandsConverged
<1>6. LiveRecorded' /\ Good' = Good
  BY <1>1, SameCluster, ZenonT(60)
<1> QED
  BY <1>1, <1>4, <1>5, <1>6, ZenonT(60) DEF ConvergedInv, SignerTypeOK, ChainGood

\* Whatever KMS answers, the signature the worker keeps verifies.
LEMMA ConvergedSignDigest ==
  ASSUME ConvergedInv, SignDigest, UNCHANGED <<clusterVars, reconcilerVars>>
  PROVE  ConvergedInv'
<1>1. UNCHANGED <<live, rolledOut, adding, mempool, events, alias, signer>> /\ job # Nil
  BY DEF SignDigest, clusterVars, reconcilerVars, chainVars, signerVars
<1>2. QueueConverged' /\ HandsConverged'
  <2>1. CASE finish(TRUE)
    BY <1>1, <2>1, ConvergedFinish, ZenonT(60)
  <2>2. ASSUME NEW out \in SignOutput, acceptsOutput(job.hash, out), sig' = out.signature,
               signer # Nil, UNCHANGED <<queueVars, job>>
        PROVE  QueueConverged' /\ HandsConverged'
    <3>1. sig' = <<signer.pub, job.hash>> /\ sig' \in Signatures
      BY <2>2 DEF acceptsOutput, VerifyConfigHashSignature, SignOutput
    <3> QED
      BY <1>1, <2>2, <3>1, ZenonT(60) DEF queueVars, ConvergedInv, QueueConverged, HandsConverged
  <2> QED
    BY <1>1, <2>1, <2>2, ZenonT(60) DEF SignDigest, ConvergedInv, HandsConverged
<1>3. LiveRecorded' /\ Good' = Good
  BY <1>1, SameCluster
<1> QED
  BY <1>1, <1>2, <1>3 DEF ConvergedInv, SignerTypeOK, ChainGood

\* What process sends is of its job, which was rolled out, and verifies.
LEMMA SignedIsGood ==
  ASSUME ConvergedInv, sig # Nil
  PROVE  /\ job \in Jobs /\ job # Nil
         /\ jobOf(signed) = job
         /\ signed \in Good
<1>1. /\ job \in Jobs /\ job \in rolledOut /\ job # Nil
      /\ signer \in Signer
      /\ sig \in Signatures /\ sig = <<signer.pub, job.hash>>
  BY ZenonT(60) DEF ConvergedInv, HandsConverged, SignerTypeOK
<1>2. signed \in Attestation
  BY <1>1 DEF Attestation, Jobs, Signer, signed
<1>3. jobOf(signed) = job
  BY <1>1 DEF jobOf, Jobs, signed
<1>4. signed.fingerprint = signer.pub /\ signed.hash = job.hash /\ signed.sig = sig
  BY DEF signed
<1> QED
  BY <1>1, <1>2, <1>3, <1>4, ZenonT(60) DEF Good, VerifyConfigHashSignature

LEMMA ConvergedProcess ==
  ASSUME ConvergedInv, Process, UNCHANGED <<clusterVars, reconcilerVars>>
  PROVE  ConvergedInv'
<1>1. UNCHANGED <<live, rolledOut, adding, events, alias, signer>> /\ sig # Nil
  BY ZenonT(60) DEF Process, clusterVars, reconcilerVars, signerVars
<1>2. job \in Jobs /\ job # Nil /\ signed \in Good
  BY <1>1, SignedIsGood, ZenonT(60)
<1>3. mempool' = mempool \/ mempool' = Append(mempool, signed)
  BY ZenonT(60) DEF Process, PublishAttestation
<1>4. mempool' \in Seq(Good)
  BY <1>2, <1>3, AppendProperties DEF ConvergedInv, ChainGood
<1>5. finish(TRUE) \/ finish(FALSE)
  BY ZenonT(60) DEF Process
<1>6. QueueConverged' /\ HandsConverged'
  BY <1>1, <1>2, <1>5, ConvergedFinish, ZenonT(60)
<1>7. LiveRecorded' /\ Good' = Good
  BY <1>1, SameCluster
<1> QED
  BY <1>1, <1>4, <1>6, <1>7, ZenonT(60) DEF ConvergedInv, SignerTypeOK, ChainGood

LEMMA ConvergedRipen ==
  ASSUME ConvergedInv, Ripen, UNCHANGED <<clusterVars, reconcilerVars>>
  PROVE  ConvergedInv'
<1>1. UNCHANGED <<live, rolledOut, adding, job, sig, mempool, events, alias, signer>>
  BY DEF Ripen, clusterVars, reconcilerVars, workerVars, chainVars, signerVars
<1>2. PICK j \in Jobs : ripen(j)
  BY DEF Ripen
<1>3. j \in rolledOut
  BY <1>2 DEF ripen, ConvergedInv, QueueConverged
<1>4. queue' \in Seq(rolledOut)
  BY <1>2, <1>3, AppendProperties, ZenonT(60) DEF ripen, ConvergedInv, QueueConverged
<1>5. QueueConverged'
  BY <1>1, <1>2, <1>3, <1>4, ZenonT(60) DEF ripen, ConvergedInv, QueueConverged
<1>6. LiveRecorded' /\ Good' = Good
  BY <1>1, SameCluster, ZenonT(60)
<1> QED
  BY <1>1, <1>5, <1>6, ZenonT(60) DEF ConvergedInv, SignerTypeOK, HandsConverged, ChainGood

LEMMA ConvergedMine ==
  ASSUME ConvergedInv, Mine, UNCHANGED <<clusterVars, reconcilerVars>>
  PROVE  ConvergedInv'
<1>1. UNCHANGED <<live, rolledOut, adding, queue, dirty, processing, delayed, job, sig, alias, signer>>
  BY DEF Mine, clusterVars, reconcilerVars, queueVars, workerVars, signerVars
<1>2. Head(mempool) \in Good /\ mempool' \in Seq(Good)
  BY HeadTailProperties, ZenonT(60) DEF Mine, ConvergedInv, ChainGood
<1>3. \E att \in Good : events' = events \/ events' = Append(events, att)
  BY <1>2, ZenonT(60) DEF Mine, publish
<1>4. events' \in Seq(Good)
  BY <1>3, AppendProperties DEF ConvergedInv, ChainGood
<1>5. LiveRecorded' /\ Good' = Good
  BY <1>1, SameCluster
<1> QED
  BY <1>1, <1>2, <1>4, <1>5
     DEF ConvergedInv, SignerTypeOK, QueueConverged, HandsConverged, ChainGood

LEMMA ConvergedRepoint ==
  ASSUME ConvergedInv, Repoint, UNCHANGED <<clusterVars, reconcilerVars>>
  PROVE  ConvergedInv'
<1>1. UNCHANGED <<live, rolledOut, adding, queue, dirty, processing, delayed, job, sig, mempool, events, signer>>
  BY DEF Repoint, clusterVars, reconcilerVars, queueVars, workerVars, chainVars
<1>2. SignerTypeOK'
  BY <1>1 DEF Repoint, ConvergedInv, SignerTypeOK
<1>3. LiveRecorded' /\ Good' = Good
  BY <1>1, SameCluster
<1> QED
  BY <1>1, <1>2, <1>3 DEF ConvergedInv, QueueConverged, HandsConverged, ChainGood

LEMMA ConvergedNext == ConvergedInv /\ [Next]_vars => ConvergedInv'
<1> SUFFICES ASSUME ConvergedInv, [Next]_vars PROVE ConvergedInv'
  OBVIOUS
<1>1. CASE UNCHANGED vars
  <2>1. UNCHANGED <<live, rolledOut, adding, queue, dirty, processing, delayed, job, sig, mempool, events,
                    alias, signer>>
    BY <1>1 DEF vars, publisherVars, queueVars, workerVars, chainVars, signerVars, clusterVars, reconcilerVars
  <2>2. LiveRecorded' /\ Good' = Good
    BY <2>1, SameCluster, ZenonT(60)
  <2> QED
    BY <2>1, <2>2, ZenonT(60) DEF ConvergedInv, SignerTypeOK, QueueConverged, HandsConverged, ChainGood
<1>2. CASE Next
  BY <1>2, ConvergedCluster, ConvergedReconcile, ConvergedEnqueue, ConvergedStart, ConvergedCrash,
     ConvergedGet, ConvergedSignDigest, ConvergedProcess, ConvergedRipen, ConvergedMine,
     ConvergedRepoint, ZenonT(60) DEF Next
<1> QED
  BY <1>1, <1>2, ZenonT(60)

\* Every record of the registry is a config that converged in the cluster: a
\* spec Reconcile reads while its rollout is incomplete never gets past
\* rolloutConverged, through any retry, restart or recreation.
THEOREM OnlyConvergedThm == Spec => []OnlyConverged
<1>1. ConvergedInv => OnlyConverged
  BY DEF ConvergedInv, ChainGood, Good, OnlyConverged
<1> QED
  BY <1>1, ConvergedInit, ConvergedNext, PTL DEF Spec

\* Every record verifies under the key whose fingerprint it carries, whatever
\* KMS answers to SignDigest, wherever the alias points and however often the
\* process is restarted.
THEOREM RecordsVerifyThm == Spec => []RecordsVerify
<1>1. ConvergedInv => RecordsVerify
  BY DEF ConvergedInv, ChainGood, Good, RecordsVerify
<1> QED
  BY <1>1, ConvergedInit, ConvergedNext, PTL DEF Spec

-----------------------------------------------------------------------------
(***************************************************************************)
(* Type correctness.  ConvergedInv types the queue, the worker and the     *)
(* transactions; the rest of the state is typed on its own.                *)
(***************************************************************************)

RestTyped ==
  /\ latest \in [Deployments -> Attestation \cup {Nil}]
  /\ spent \in [Failures -> Nat]
  /\ \A d \in Deployments : live[d].exists => live[d].spec \in Hashes
  /\ changes \in Nat
  /\ due \subseteq Deployments
  /\ lastAttested \in [Deployments -> Hashes \cup {Nil}]
  /\ rolledOut \subseteq Jobs
  /\ created \in [Deployments -> Nat]

LEMMA RestTypedInit == Init => RestTyped
  BY DEF Init, PublisherInit, RestTyped, Gone

LEMMA FailType ==
  ASSUME RestTyped, NEW f \in Failures, Fail(f)
  PROVE  spent' \in [Failures -> Nat]
  BY DEF RestTyped, Fail

LEMMA RestTypedNext == ConvergedInv /\ RestTyped /\ [Next]_vars => RestTyped'
<1> SUFFICES ASSUME ConvergedInv, RestTyped, [Next]_vars PROVE RestTyped'
  OBVIOUS
<1>1. live \in [Deployments -> Deployment]
  BY ZenonT(60) DEF ConvergedInv, LiveRecorded
<1>2. ASSUME NEW d \in Deployments, NEW new, Becomes(d, new),
             new.exists => new.spec \in Hashes, new.observed => new.spec \in Hashes,
             changes' \in Nat, created' \in [Deployments -> Nat]
      PROVE  RestTyped'
  <2>1. UNCHANGED <<latest, spent, lastAttested>> /\ live' = [live EXCEPT ![d] = new]
        /\ due' \subseteq due \cup {d}
    BY <1>2, ZenonT(60) DEF Becomes, publisherVars, chainVars
  <2>2. rolledOut' \subseteq Jobs
    BY <1>2 DEF Becomes, RestTyped, Jobs
  <2> QED
    BY <1>1, <1>2, <2>1, <2>2, ZenonT(60) DEF RestTyped
<1>3. ASSUME NEW d \in Deployments, NEW h \in Hashes, Apply(d, h) PROVE RestTyped'
  <2>1. changes' \in Nat /\ created' \in [Deployments -> Nat]
    BY <1>3 DEF Apply, RestTyped
  <2>2. PICK new : new = [exists |-> TRUE, spec |-> h, observed |-> FALSE, complete |-> live[d].complete]
    BY ZenonT(60)
  <2>3. Becomes(d, new)
    BY <1>3, <2>2 DEF Apply
  <2> QED
    BY <1>2, <2>1, <2>2, <2>3, ZenonT(60)
<1>4. ASSUME NEW d \in Deployments, NEW b \in BOOLEAN, Observe(d, b) \/ Status(d, b) PROVE RestTyped'
  <2>1. changes' \in Nat /\ created' \in [Deployments -> Nat] /\ live[d].spec \in Hashes
    BY <1>4, ZenonT(60) DEF Observe, Status, RestTyped
  <2>2. PICK new : /\ new.spec = live[d].spec
                   /\ Becomes(d, new)
    BY <1>4 DEF Observe, Status
  <2> QED
    BY <1>2, <2>1, <2>2, ZenonT(60)
<1>5. ASSUME NEW d \in Deployments, Delete(d) PROVE RestTyped'
  <2>1. changes' \in Nat /\ created' \in [Deployments -> Nat] /\ live[d].spec \in Hashes
    BY <1>5 DEF Delete, RestTyped
  <2>2. Becomes(d, Gone(live[d].spec)) /\ Gone(live[d].spec).spec = live[d].spec
    BY <1>5, ZenonT(60) DEF Delete, Gone
  <2> QED
    BY <1>2, <2>1, <2>2
<1>6. ASSUME NEW d \in Deployments, Reconcile(d) PROVE RestTyped'
  <2>1. UNCHANGED <<latest, live, changes, rolledOut, created>>
    BY <1>6, ZenonT(60) DEF Reconcile, publisherVars, chainVars, clusterVars
  <2>2. spent' \in [Failures -> Nat]
    BY <1>6, FailType, ZenonT(60) DEF Reconcile, Failures, RestTyped
  <2>3. due' \subseteq due /\ lastAttested' \in [Deployments -> Hashes \cup {Nil}]
    BY <1>6, ZenonT(60) DEF Reconcile, reconcilerVars, forgetAttested, recordAttested, RestTyped
  <2> QED
    BY <2>1, <2>2, <2>3, ZenonT(60) DEF RestTyped
<1>7. CASE Enqueue
  BY <1>7, ZenonT(60) DEF Enqueue, chainVars, clusterVars, RestTyped
<1>8. CASE Start
  BY <1>8, ZenonT(60) DEF Start, chainVars, clusterVars, RestTyped
<1>9. CASE Crash
  <2>1. spent' \in [Failures -> Nat]
    BY <1>9, FailType, ZenonT(60) DEF Crash, Failures
  <2> QED
    BY <1>9, <2>1, ZenonT(60) DEF Crash, chainVars, clusterVars, newAttested, RestTyped
<1>10. ASSUME UNCHANGED <<clusterVars, reconcilerVars>>, spent' \in [Failures -> Nat],
              latest' \in [Deployments -> Attestation \cup {Nil}]
       PROVE  RestTyped'
  BY <1>10, ZenonT(60) DEF clusterVars, reconcilerVars, RestTyped
<1>11. CASE (Get \/ SignDigest \/ Process \/ Ripen \/ Repoint) /\ UNCHANGED <<clusterVars, reconcilerVars>>
  <2>1. UNCHANGED latest
    BY <1>11, ZenonT(60) DEF Get, SignDigest, Process, Ripen, Repoint, chainVars
  <2>2. spent' \in [Failures -> Nat]
    BY <1>11, FailType, ZenonT(60) DEF Get, SignDigest, Process, Ripen, Repoint, Failures, RestTyped
  <2> QED
    BY <1>10, <1>11, <2>1, <2>2 DEF RestTyped
<1>12. CASE Mine /\ UNCHANGED <<clusterVars, reconcilerVars>>
  <2>1. spent' \in [Failures -> Nat]
    BY <1>12, FailType, ZenonT(60) DEF Mine, Failures, RestTyped
  <2>2. Head(mempool) \in Attestation
    BY <1>12, HeadTailProperties DEF Mine, ConvergedInv, ChainGood, Good
  <2>3. latest' \in [Deployments -> Attestation \cup {Nil}]
    BY <1>12, <2>2, ZenonT(60) DEF Mine, publish, Attestation, RestTyped
  <2> QED
    BY <1>10, <1>12, <2>1, <2>3, ZenonT(60)
<1>13. CASE UNCHANGED vars
  BY <1>13 DEF vars, publisherVars, chainVars, clusterVars, reconcilerVars, RestTyped
<1> QED
  BY <1>3, <1>4, <1>5, <1>6, <1>7, <1>8, <1>9, <1>11, <1>12, <1>13, ZenonT(60) DEF Next

LEMMA TypeFromInv == ConvergedInv /\ RestTyped => TypeOK
<1> SUFFICES ASSUME ConvergedInv, RestTyped PROVE TypeOK
  OBVIOUS
<1>1. QueueTypeOK
  BY SeqMonotone DEF ConvergedInv, QueueConverged, RestTyped, QueueTypeOK
<1>2. mempool \in Seq(Attestation) /\ events \in Seq(Attestation)
  BY SeqMonotone DEF ConvergedInv, ChainGood, Good
<1>3. adding \in Jobs \cup {Nil} /\ job \in Jobs \cup {Nil} /\ sig \in Signatures \cup {Nil}
  BY DEF ConvergedInv, HandsConverged, RestTyped
<1> QED
  BY <1>1, <1>2, <1>3, ZenonT(60) DEF ConvergedInv, LiveRecorded, RestTyped, TypeOK, PublisherTypeOK

\* Every reachable state of the v1 operator is well typed: no handler of the
\* reconciler, the publisher or the signer leaves a value of another kind
\* behind, whatever fails.
THEOREM TypeCorrect == Spec => []TypeOK
  BY ConvergedInit, ConvergedNext, RestTypedInit, RestTypedNext, TypeFromInv, PTL DEF Spec

-----------------------------------------------------------------------------
(***************************************************************************)
(* The queue and the dedup map.                                            *)
(***************************************************************************)

\* A Deployment only moves forward: no spec comes back after another.
ForwardOnly ==
  /\ \A h \in Hashes : <<h, h>> \notin Follows
  /\ \A g, h, k \in Hashes : <<g, h>> \in Follows /\ <<h, k>> \in Follows => <<g, k>> \in Follows

\* Spec g is h or comes before it.
Precedes(g, h) == g = h \/ <<g, h>> \in Follows

\* The queue holds each item at most once, dirty and not out for processing,
\* and the worker's item is out.
QueueInv ==
  /\ \A i \in 1..Len(queue) : queue[i] \in dirty \ processing
  /\ \A i, k \in 1..Len(queue) : queue[i] = queue[k] => i = k
  /\ job # Nil => job \in processing

\* The dedup map is not ahead of the Deployments.
AttestedInv == \A d \in Deployments : lastAttested[d] # Nil => Precedes(lastAttested[d], live[d].spec)

\* What is in the queue when an item is appended that was not, and when its
\* head is taken.
LEMMA QueueAppend ==
  ASSUME NEW q \in Seq(Jobs), NEW i \in Jobs, \A k \in 1..Len(q) : q[k] # i,
         \A k, l \in 1..Len(q) : q[k] = q[l] => k = l
  PROVE  /\ \A k \in 1..Len(Append(q, i)) : Append(q, i)[k] = i \/ \E l \in 1..Len(q) : Append(q, i)[k] = q[l]
         /\ \A k, l \in 1..Len(Append(q, i)) : Append(q, i)[k] = Append(q, i)[l] => k = l
<1>1. /\ Len(Append(q, i)) = Len(q) + 1 /\ Append(q, i)[Len(q) + 1] = i /\ Len(q) \in Nat
      /\ \A k \in 1..Len(q) : Append(q, i)[k] = q[k]
  BY AppendProperties
<1>2. \A k \in 1..Len(Append(q, i)) : k \in 1..Len(q) \/ k = Len(q) + 1
  BY <1>1
<1> QED
  BY <1>1, <1>2, ZenonT(60)

LEMMA QueueTail ==
  ASSUME NEW q \in Seq(Jobs), q # << >>, \A k, l \in 1..Len(q) : q[k] = q[l] => k = l
  PROVE  /\ \A k \in 1..Len(Tail(q)) : Tail(q)[k] # Head(q) /\ \E l \in 1..Len(q) : Tail(q)[k] = q[l]
         /\ \A k, l \in 1..Len(Tail(q)) : Tail(q)[k] = Tail(q)[l] => k = l
         /\ 1 \in 1..Len(q) /\ Head(q) = q[1]
<1>1. /\ Len(q) \in Nat \ {0} /\ Head(q) = q[1]
      /\ Len(Tail(q)) = Len(q) - 1
      /\ \A i \in 1..Len(Tail(q)) : Tail(q)[i] = q[i + 1]
  BY HeadTailProperties
<1>2. \A k \in 1..Len(Tail(q)) : k \in Nat /\ k + 1 \in 1..Len(q) /\ k + 1 # 1
  BY <1>1
<1>3. \A k, l \in 1..Len(Tail(q)) : k + 1 = l + 1 => k = l
  BY <1>1, SMTT(30)
<1> QED
  BY <1>1, <1>2, <1>3

\* The worker's item goes back to the queue if it is dirty, where it was not.
LEMMA QueueInvFinish ==
  ASSUME TypeOK, QueueInv, job # Nil, NEW failed, finish(failed)
  PROVE  QueueInv'
<1>1. queue \in Seq(Jobs) /\ job \in Jobs
  BY DEF TypeOK, PublisherTypeOK, QueueTypeOK
<1>2. /\ dirty' = dirty /\ processing' = processing \ {job} /\ job' = Nil
      /\ queue' = IF job \in dirty THEN Append(queue, job) ELSE queue
  BY ZenonT(60) DEF finish, done
<1>3. job \in processing /\ \A k \in 1..Len(queue) : queue[k] # job
  BY ZenonT(60) DEF QueueInv
<1>4. CASE job \in dirty
  <2>1. /\ \A k \in 1..Len(queue') : queue'[k] = job \/ \E l \in 1..Len(queue) : queue'[k] = queue[l]
        /\ \A k, l \in 1..Len(queue') : queue'[k] = queue'[l] => k = l
    BY <1>1, <1>2, <1>3, <1>4, QueueAppend, SMTT(30) DEF QueueInv
  <2> QED
    BY <1>2, <1>3, <1>4, <2>1 DEF QueueInv
<1>5. CASE job \notin dirty
  BY <1>2, <1>5, ZenonT(60) DEF QueueInv
<1> QED
  BY <1>4, <1>5, ZenonT(60)

LEMMA QueueInvNext == ConvergedInv /\ TypeOK /\ QueueInv /\ [Next]_vars => QueueInv'
<1> SUFFICES ASSUME ConvergedInv, TypeOK, QueueInv, [Next]_vars PROVE QueueInv'
  BY ZenonT(60)
<1>1. queue \in Seq(Jobs) /\ job \in Jobs \cup {Nil} /\ Nil \notin Jobs
  BY PublisherV1Assumption DEF TypeOK, PublisherTypeOK, QueueTypeOK
<1>2. CASE UNCHANGED <<queue, dirty, processing, job>>
  BY <1>2, ZenonT(60) DEF QueueInv
<1>3. ASSUME NEW i \in Jobs, dirty' = dirty \cup {i}, UNCHANGED <<processing, job>>,
             queue' = IF i \in dirty \cup processing THEN queue ELSE Append(queue, i)
      PROVE  QueueInv'
  <2>1. CASE i \in dirty \cup processing
    BY <1>3, <2>1, ZenonT(60) DEF QueueInv
  <2>2. CASE i \notin dirty \cup processing
    <3>1. \A k \in 1..Len(queue) : queue[k] # i
      BY <2>2 DEF QueueInv
    <3>2. /\ \A k \in 1..Len(queue') : queue'[k] = i \/ \E l \in 1..Len(queue) : queue'[k] = queue[l]
          /\ \A k, l \in 1..Len(queue') : queue'[k] = queue'[l] => k = l
      BY <1>1, <1>3, <2>2, <3>1, QueueAppend DEF QueueInv
    <3> QED
      BY <1>3, <2>2, <3>2 DEF QueueInv
  <2> QED
    BY <2>1, <2>2, ZenonT(60)
<1>4. ASSUME NEW failed, finish(failed), job # Nil PROVE QueueInv'
  BY <1>4, QueueInvFinish, ZenonT(60)
<1>5. CASE Get
  <2>1. PICK j \in Jobs : get(j) /\ job' = j
    BY <1>5, ZenonT(60) DEF Get
  <2>2. /\ \A k \in 1..Len(queue') : queue'[k] # j /\ \E l \in 1..Len(queue) : queue'[k] = queue[l]
        /\ \A k, l \in 1..Len(queue') : queue'[k] = queue'[l] => k = l
    BY <1>1, <2>1, QueueTail, SMTT(30) DEF get, QueueInv
  <2> QED
    BY <2>1, <2>2, ZenonT(60) DEF get, QueueInv
<1>6. CASE SignDigest \/ Process
  <2>1. job # Nil
    BY <1>6, ZenonT(60) DEF SignDigest, Process, ConvergedInv, HandsConverged
  <2> QED
    BY <1>2, <1>4, <1>6, <2>1, ZenonT(60) DEF SignDigest, Process, queueVars
<1>7. CASE Enqueue
  <2>1. adding \in Jobs
    BY <1>7 DEF Enqueue, TypeOK
  <2> QED
    BY <1>3, <1>7, <2>1, ZenonT(60) DEF Enqueue, add, workerVars
<1>8. CASE Ripen
  BY <1>3, <1>8 DEF Ripen, ripen, workerVars
<1>9. CASE Crash
  BY <1>9 DEF Crash, QueueInv
<1> QED
  BY <1>2, <1>5, <1>6, <1>7, <1>8, <1>9, ZenonT(60) DEF Next, vars, Apply, Observe, Status, Delete,
     Becomes,
     Reconcile, Start, Mine, Repoint, publisherVars, queueVars, workerVars

LEMMA PrecedesTransitive ==
  ASSUME ForwardOnly, NEW g, NEW h, NEW k, Precedes(g, h), Precedes(h, k)
  PROVE  Precedes(g, k)
<1>1. \A x, y : <<x, y>> \in Follows => x \in Hashes /\ y \in Hashes
  BY OperatorV1Assumption
<1> QED
  BY <1>1 DEF ForwardOnly, Precedes

LEMMA PrecedesAntisymmetric ==
  ASSUME ForwardOnly, NEW g, NEW h, Precedes(g, h), Precedes(h, g)
  PROVE  g = h
<1>1. \A x, y : <<x, y>> \in Follows => x \in Hashes /\ y \in Hashes
  BY OperatorV1Assumption
<1> QED
  BY <1>1, ZenonT(60) DEF ForwardOnly, Precedes

\* The specs of a Deployment follow each other, even across a deletion.
LEMMA SpecMoves ==
  ASSUME TypeOK, [Next]_vars, NEW d \in Deployments
  PROVE  \/ live'[d].spec = live[d].spec /\ (live'[d].exists => live[d].exists)
            /\ created'[d] = created[d]
         \/ live[d].exists /\ <<live[d].spec, live'[d].spec>> \in Follows
            /\ created'[d] = created[d]
         \/ ~ live[d].exists /\ (live[d].spec = Nil \/ Precedes(live[d].spec, live'[d].spec))
            /\ created'[d] = created[d] + 1
<1> USE DEF TypeOK
<1>1. ASSUME NEW e \in Deployments, NEW new, Becomes(e, new)
      PROVE  live'[d] = IF d = e THEN new ELSE live[d]
  BY <1>1, SMTT(30) DEF Becomes
<1>2. ASSUME NEW e \in Deployments, NEW h \in Hashes, Apply(e, h)
      PROVE  \/ live'[d] = live[d] /\ created'[d] = created[d]
             \/ live[d].exists /\ <<live[d].spec, live'[d].spec>> \in Follows
                /\ created'[d] = created[d]
             \/ ~ live[d].exists /\ (live[d].spec = Nil \/ Precedes(live[d].spec, live'[d].spec))
                /\ created'[d] = created[d] + 1
  <2>1. PICK new : new = [exists |-> TRUE, spec |-> h, observed |-> FALSE, complete |-> live[e].complete]
    BY ZenonT(60)
  <2>2. live'[d] = IF d = e THEN new ELSE live[d]
    BY <1>1, <1>2, <2>1 DEF Apply
  <2>3. /\ ~ live[e].exists \/ live[e].spec # h
        /\ live[e].spec \in {Nil, h} \/ <<live[e].spec, h>> \in Follows
        /\ created' = IF live[e].exists THEN created ELSE [created EXCEPT ![e] = @ + 1]
    BY <1>2, ZenonT(60) DEF Apply
  <2>4. live[e].exists => live[e].spec # Nil
    BY KmsAssumption, ZenonT(60)
  <2>5. CASE d # e
    BY <2>2, <2>3, <2>5, ZenonT(60)
  <2>6. CASE d = e /\ live[e].exists
    BY <2>1, <2>2, <2>3, <2>4, <2>6, SMTT(30)
  <2>7. CASE d = e /\ ~ live[e].exists
    BY <2>1, <2>2, <2>3, <2>7 DEF Precedes
  <2> QED
    BY <2>5, <2>6, <2>7, ZenonT(60)
<1>3. ASSUME NEW e \in Deployments, NEW b \in BOOLEAN, Observe(e, b) \/ Status(e, b)
      PROVE  live'[d].spec = live[d].spec /\ (live'[d].exists => live[d].exists)
             /\ created'[d] = created[d]
  <2>1. PICK new : Becomes(e, new) /\ new.spec = live[e].spec /\ live[e].exists
    BY <1>3, ZenonT(60) DEF Observe, Status
  <2>2. UNCHANGED created
    BY <1>3 DEF Observe, Status
  <2> QED
    BY <1>1, <2>1, <2>2, SMTT(30)
<1>4. ASSUME NEW e \in Deployments, Delete(e)
      PROVE  live'[d].spec = live[d].spec /\ (live'[d].exists => live[d].exists)
             /\ created'[d] = created[d]
  <2>1. Becomes(e, Gone(live[e].spec)) /\ live[e].exists /\ UNCHANGED created
    BY <1>4 DEF Delete
  <2> QED
    BY <1>1, <2>1 DEF Gone
<1>5. CASE UNCHANGED <<live, created>>
  BY <1>5, SMTT(30)
<1> QED
  BY <1>2, <1>3, <1>4, <1>5, ZenonT(60) DEF Next, vars, Reconcile, Enqueue, Start, Crash, clusterVars

\* The dedup map changes when Reconcile records the spec it read or forgets a
\* Deployment that is gone, and with the process.
LEMMA AttestedMoves ==
  ASSUME TypeOK, [Next]_vars, NEW d \in Deployments
  PROVE  \/ lastAttested'[d] = lastAttested[d]
         \/ lastAttested'[d] = Nil /\ ~ live[d].exists /\ UNCHANGED live
         \/ lastAttested'[d] = Nil /\ Crash
         \/ lastAttested'[d] = live[d].spec /\ live[d].exists /\ lastAttested[d] # live[d].spec
            /\ UNCHANGED live /\ adding = Nil /\ adding' = [dep |-> d, hash |-> live[d].spec]
<1>1. lastAttested \in [Deployments -> Hashes \cup {Nil}]
  BY DEF TypeOK
<1>2. ASSUME NEW e \in Deployments, Reconcile(e)
      PROVE  \/ lastAttested'[d] = lastAttested[d]
             \/ lastAttested'[d] = Nil /\ ~ live[d].exists /\ UNCHANGED live
             \/ lastAttested'[d] = live[d].spec /\ live[d].exists /\ lastAttested[d] # live[d].spec
                /\ UNCHANGED live /\ adding = Nil /\ adding' = [dep |-> d, hash |-> live[d].spec]
  <2>1. UNCHANGED live /\ adding = Nil
    BY <1>2 DEF Reconcile, clusterVars
  <2>2. CASE UNCHANGED lastAttested
    BY <2>2
  <2>3. CASE ~ live[e].exists /\ forgetAttested(e)
    BY <1>1, <2>1, <2>3, ZenonT(60) DEF forgetAttested
  <2>4. CASE live[e].exists /\ ~ alreadyAttested(e, live[e].spec) /\ recordAttested(e, live[e].spec)
             /\ adding' = [dep |-> e, hash |-> live[e].spec]
    BY <1>1, <2>1, <2>4, ZenonT(60) DEF alreadyAttested, recordAttested
  <2> QED
    BY <1>2, <2>2, <2>3, <2>4, ZenonT(60) DEF Reconcile, reconcilerVars
<1>3. CASE Crash
  BY <1>3, SMTT(30) DEF Crash, newAttested
<1>4. CASE UNCHANGED lastAttested
  BY <1>4, ZenonT(60)
<1> QED
  BY <1>2, <1>3, <1>4, ZenonT(60) DEF Next, vars, Apply, Observe, Status, Delete, Becomes, Enqueue,
     Start, reconcilerVars

LEMMA AttestedInvNext ==
  ASSUME ForwardOnly
  PROVE  TypeOK /\ AttestedInv /\ [Next]_vars => AttestedInv'
<1> SUFFICES ASSUME TypeOK, AttestedInv, [Next]_vars, NEW d \in Deployments, lastAttested'[d] # Nil
             PROVE  Precedes(lastAttested'[d], live'[d].spec)
  BY DEF AttestedInv
<1>1. CASE lastAttested'[d] = live[d].spec /\ UNCHANGED live
  BY <1>1 DEF Precedes
<1>2. CASE lastAttested'[d] = lastAttested[d]
  <2>1. Precedes(lastAttested[d], live[d].spec)
    BY <1>2 DEF AttestedInv
  <2>2. live[d].spec # Nil
    BY <1>2, <2>1, OperatorV1Assumption, KmsAssumption, ZenonT(60) DEF Precedes
  <2>3. Precedes(live[d].spec, live'[d].spec)
    BY <2>2, SpecMoves DEF Precedes
  <2> QED
    BY <1>2, <2>1, <2>3, PrecedesTransitive, ZenonT(60)
<1> QED
  BY <1>1, <1>2, AttestedMoves, ZenonT(60)
-----------------------------------------------------------------------------
(***************************************************************************)
(* How often a job may still be sent: what a step adds to that is paid for *)
(* by a creation of its Deployment, a restart or a send whose answer was   *)
(* lost.  Nothing is said here of what others send to the same registry.   *)
(***************************************************************************)

\* Reconcile may yet attest j, in this life of its Deployment and of the
\* process.
MayAttest(j) ==
  /\ live[j.dep].exists
  /\ lastAttested[j.dep] # j.hash
  /\ Precedes(live[j.dep].spec, j.hash)

Bit(P) == IF P THEN 1 ELSE 0

\* How often j may still be sent.
Held(j) ==
  Bit(j \in dirty) + Bit(j \in processing) + Bit(j \in delayed) + Bit(adding = j) + Bit(MayAttest(j))

Budget(j) == created[j.dep] + spent["crash"] + spent["timeout"]

\* The step sends a transaction for j.
Sends(j) == job = j /\ Len(mempool') > Len(mempool)

\* Reconcile's licence to attest a job is renewed only by a creation and by a
\* restart, and is used up when it does so.
LEMMA MayMoves ==
  ASSUME ForwardOnly, TypeOK, AttestedInv, [Next]_vars, NEW j \in Jobs
  PROVE  /\ MayAttest(j)' => MayAttest(j) \/ created'[j.dep] = created[j.dep] + 1 \/ Crash
         /\ created'[j.dep] \in {created[j.dep], created[j.dep] + 1}
         /\ adding' = j => adding = j \/ (MayAttest(j) /\ ~ MayAttest(j)')
<1>1. j.dep \in Deployments /\ j.hash \in Hashes
  BY ZenonT(60) DEF Jobs
<1>2. created'[j.dep] \in {created[j.dep], created[j.dep] + 1}
  BY <1>1, SpecMoves, ZenonT(60)
<1>3. ASSUME MayAttest(j)', ~ Crash, created'[j.dep] # created[j.dep] + 1
      PROVE  MayAttest(j)
  <2>1. live'[j.dep].exists /\ lastAttested'[j.dep] # j.hash /\ Precedes(live'[j.dep].spec, j.hash)
    BY <1>3, ZenonT(60) DEF MayAttest
  <2>2. live[j.dep].exists /\ Precedes(live[j.dep].spec, live'[j.dep].spec)
    BY <1>1, <1>3, <2>1, SpecMoves, ZenonT(60) DEF Precedes
  <2>3. Precedes(live[j.dep].spec, j.hash)
    BY <2>1, <2>2, PrecedesTransitive, ZenonT(60)
  <2>4. lastAttested[j.dep] # j.hash
    <3>1. SUFFICES ASSUME lastAttested[j.dep] = j.hash PROVE FALSE
      BY ZenonT(60)
    <3>2. lastAttested'[j.dep] = live[j.dep].spec /\ lastAttested[j.dep] # live[j.dep].spec
      BY <1>1, <1>3, <2>1, <2>2, <3>1, AttestedMoves, ZenonT(60)
    <3>3. Precedes(j.hash, live[j.dep].spec)
      BY <1>1, <3>1, KmsAssumption, ZenonT(60) DEF AttestedInv
    <3> QED
      BY <2>3, <3>1, <3>2, <3>3, PrecedesAntisymmetric, ZenonT(60)
  <2> QED
    BY <2>2, <2>3, <2>4, ZenonT(60) DEF MayAttest
<1>4. ASSUME adding' = j, adding # j
      PROVE  MayAttest(j) /\ ~ MayAttest(j)'
  <2>1. j # Nil
    BY PublisherV1Assumption, ZenonT(60)
  <2>2. PICK d \in Deployments : Reconcile(d)
    BY <1>4, <2>1, ZenonT(60) DEF Next, vars, Apply, Observe, Status, Delete, Becomes, Enqueue, Start,
       Crash,
       reconcilerVars
  <2>3. /\ live[d].exists /\ ~ alreadyAttested(d, live[d].spec) /\ recordAttested(d, live[d].spec)
        /\ adding' = [dep |-> d, hash |-> live[d].spec] /\ UNCHANGED live
    BY <1>4, <2>1, <2>2, ZenonT(60) DEF Reconcile, reconcilerVars, clusterVars
  <2>4. d = j.dep /\ live[d].spec = j.hash
    BY <1>4, <2>3
  <2>5. lastAttested'[d] = j.hash
    BY <2>3, <2>4, ZenonT(60) DEF recordAttested, TypeOK
  <2> QED
    BY <2>3, <2>4, <2>5, ZenonT(60) DEF alreadyAttested, MayAttest, Precedes
<1> QED
  BY <1>2, <1>3, <1>4, ZenonT(60)

\* What a step does to the node's pool and the log.
LEMMA ChainMoves ==
  ASSUME ConvergedInv, TypeOK, [Next]_vars
  PROVE  \/ UNCHANGED <<events, mempool>>
         \/ \E att \in Good : /\ jobOf(att) = job
                             /\ mempool' = Append(mempool, att)
                             /\ UNCHANGED events
         \/ /\ mempool # << >>
            /\ mempool' = Tail(mempool)
            /\ events' = Append(events, Head(mempool)) \/ events' = events
<1>1. CASE Process
  <2>1. sig # Nil /\ UNCHANGED events
    BY <1>1, ZenonT(60) DEF Process
  <2>2. UNCHANGED mempool \/ mempool' = Append(mempool, signed)
    BY <1>1, ZenonT(60) DEF Process, PublishAttestation
  <2> QED
    BY <2>1, <2>2, SignedIsGood, ZenonT(60)
<1>2. CASE Mine
  BY <1>2, ZenonT(60) DEF Mine, publish
<1>3. CASE UNCHANGED <<events, mempool>>
  BY <1>3, ZenonT(60)
<1> QED
  BY <1>1, <1>2, <1>3, ZenonT(60)
     DEF Next, vars, Apply, Observe, Status, Delete, Becomes, Reconcile, Enqueue, Start, Crash, Get,
     SignDigest, Ripen, Repoint, publisherVars, chainVars

\* How a step changes the queue's sets and what is sent, next to the failures
\* it takes.
LEMMA QueueMoves ==
  ASSUME ConvergedInv, TypeOK, TypeOK', QueueInv, [Next]_vars, ~ Crash, NEW j \in Jobs
  PROVE  /\ spent'["crash"] = spent["crash"]
         /\ Bit(Sends(j)) + Bit(j \in dirty') + Bit(j \in processing') + Bit(j \in delayed')
               + Bit(adding' = j) + spent["timeout"]
             <= Bit(j \in dirty) + Bit(j \in processing) + Bit(j \in delayed)
               + Bit(adding = j) + spent'["timeout"]
               + Bit(adding' = j /\ adding # j)
<1> DEFINE Goal ==
             Bit(Sends(j)) + Bit(j \in dirty') + Bit(j \in processing') + Bit(j \in delayed')
               + Bit(adding' = j) + spent["timeout"]
             <= Bit(j \in dirty) + Bit(j \in processing) + Bit(j \in delayed)
               + Bit(adding = j) + spent'["timeout"]
               + Bit(adding' = j /\ adding # j)
<1>1. mempool \in Seq(Attestation) /\ spent \in [Failures -> Nat]
  BY ZenonT(60) DEF TypeOK, PublisherTypeOK
<1>2. ASSUME UNCHANGED mempool PROVE ~ Sends(j)
  BY <1>1, <1>2 DEF Sends
<1>3. Nil # j /\ job \in Jobs \cup {Nil}
  BY PublisherV1Assumption, ZenonT(60) DEF TypeOK, PublisherTypeOK
\* What fails is counted.
<1>4. ASSUME NEW f \in Failures \ {"crash"}, Fail(f)
      PROVE  /\ spent'["crash"] = spent["crash"]
             /\ spent'["timeout"] = spent["timeout"] + Bit(f = "timeout")
  BY <1>1, <1>4 DEF Fail, Failures, Bit
<1>5. /\ spent'["crash"] = spent["crash"]
      /\ spent["timeout"] \in Nat /\ spent'["timeout"] \in Nat /\ spent'["timeout"] >= spent["timeout"]
  <2>1. spent["timeout"] \in Nat /\ spent'["timeout"] \in Nat
    BY ZenonT(60) DEF TypeOK, PublisherTypeOK, Failures
  <2>2. UNCHANGED spent \/ \E f \in Failures \ {"crash"} : Fail(f)
    BY ZenonT(60) DEF Next, vars, Apply, Observe, Status, Delete, Becomes, Reconcile, Enqueue, Start,
       Get, SignDigest, Process, Ripen, Mine, Repoint, Failures
  <2> QED
    BY <1>4, <2>1, <2>2, SMTT(30) DEF Bit
<1> SUFFICES Goal
  BY <1>5, ZenonT(60)
<1> HIDE DEF Sends
<1>6. CASE UNCHANGED <<dirty, processing, delayed>> /\ ~ Sends(j)
  BY <1>5, <1>6 DEF Bit
<1>7. CASE Enqueue
  <2>1. /\ dirty' = dirty \cup {adding} /\ UNCHANGED <<processing, delayed>> /\ adding' = Nil
        /\ ~ Sends(j)
    BY <1>2, <1>7, ZenonT(60) DEF Enqueue, add, chainVars
  <2> QED
    BY <1>3, <1>5, <2>1 DEF Bit
<1>8. CASE Get /\ UNCHANGED <<clusterVars, reconcilerVars>>
  <2>1. PICK i \in Jobs : get(i)
    BY <1>8, ZenonT(60) DEF Get
  <2>2. i \in dirty
    <3>1. 1 \in 1..Len(queue) /\ i = queue[1]
      BY <2>1, QueueTail, ZenonT(60) DEF get, QueueInv, TypeOK, PublisherTypeOK, QueueTypeOK
    <3> QED
      BY <3>1, ZenonT(60) DEF QueueInv
  <2>3. /\ dirty' = dirty \ {i} /\ processing' = processing \cup {i} /\ UNCHANGED <<delayed, adding>>
        /\ ~ Sends(j)
    BY <1>2, <1>8, <2>1, ZenonT(60) DEF Get, get, chainVars, reconcilerVars
  <2> QED
    BY <1>5, <2>2, <2>3 DEF Bit
<1>9. CASE Ripen /\ UNCHANGED <<clusterVars, reconcilerVars>>
  <2>1. PICK i \in Jobs : ripen(i)
    BY <1>9, ZenonT(60) DEF Ripen
  <2>2. /\ i \in delayed /\ delayed' = delayed \ {i} /\ dirty' = dirty \cup {i}
        /\ UNCHANGED <<processing, adding>> /\ ~ Sends(j)
    BY <1>2, <1>9, <2>1, ZenonT(60) DEF Ripen, ripen, chainVars, reconcilerVars
  <2> QED
    BY <1>5, <2>2 DEF Bit
\* The worker ends with its job: it is out no more, and is delayed, sent or
\* both.
<1>10. ASSUME finish(TRUE), job # Nil, UNCHANGED adding,
              Bit(Sends(j)) + spent["timeout"] <= spent'["timeout"]
       PROVE  Goal
  <2>1. /\ dirty' = dirty /\ processing' = processing \ {job} /\ job \in processing
        /\ delayed' = delayed \cup {job}
    BY <1>10, ZenonT(60) DEF finish, done, QueueInv
  <2> QED
    BY <1>5, <1>10, <2>1, SMTT(30) DEF Bit
<1>11. ASSUME finish(FALSE), job # Nil, UNCHANGED adding, Sends(j) => j = job
       PROVE  Goal
  <2>1. /\ dirty' = dirty /\ processing' = processing \ {job} /\ job \in processing
        /\ delayed' = delayed
    BY <1>11, ZenonT(60) DEF finish, done, QueueInv
  <2> QED
    BY <1>5, <1>11, <2>1, SMTT(30) DEF Bit
<1> HIDE DEF Goal
<1>12. ASSUME ~ Sends(j) PROVE Bit(Sends(j)) + spent["timeout"] <= spent'["timeout"]
  BY <1>5, <1>12 DEF Bit
<1>13. CASE SignDigest /\ UNCHANGED <<clusterVars, reconcilerVars>>
  <2>1. ~ Sends(j) /\ UNCHANGED adding /\ job # Nil
    BY <1>2, <1>13, ZenonT(60) DEF SignDigest, chainVars, reconcilerVars
  <2>2. CASE finish(TRUE)
    BY <1>10, <1>12, <2>1, <2>2, ZenonT(60)
  <2>3. CASE UNCHANGED queueVars
    BY <1>6, <2>1, <2>3 DEF queueVars
  <2> QED
    BY <1>13, <2>2, <2>3, ZenonT(60) DEF SignDigest
<1>14. CASE Process /\ UNCHANGED <<clusterVars, reconcilerVars>>
  <2>1. job # Nil /\ UNCHANGED adding
    BY <1>14, ZenonT(60) DEF Process, ConvergedInv, HandsConverged, reconcilerVars
  <2>2. CASE finish(FALSE)
    BY <1>11, <2>1, <2>2, ZenonT(60) DEF Sends
  <2>3. CASE finish(TRUE) /\ UNCHANGED mempool
    BY <1>2, <1>10, <1>12, <2>1, <2>3, ZenonT(60)
  <2>4. CASE Fail("timeout") /\ finish(TRUE)
    <3>1. spent'["timeout"] = spent["timeout"] + 1
      BY <1>4, <2>4, ZenonT(60) DEF Failures, Bit
    <3>2. Bit(Sends(j)) + spent["timeout"] <= spent'["timeout"]
      BY <1>5, <3>1 DEF Bit
    <3> QED
      BY <1>10, <2>1, <2>4, <3>2, ZenonT(60)
  <2> QED
    BY <1>14, <2>2, <2>3, <2>4, ZenonT(60) DEF Process
<1>15. CASE Mine /\ UNCHANGED <<clusterVars, reconcilerVars>>
  <2>1. mempool # << >> /\ mempool' = Tail(mempool) /\ UNCHANGED <<dirty, processing, delayed>>
    BY <1>15, ZenonT(60) DEF Mine, queueVars
  <2>2. Len(mempool') = Len(mempool) - 1 /\ Len(mempool) \in Nat
    BY <1>1, <2>1, HeadTailProperties
  <2>3. ~ Sends(j)
    BY <2>2 DEF Sends
  <2> QED
    BY <1>6, <2>1, <2>3, ZenonT(60)
<1>16. CASE UNCHANGED <<dirty, processing, delayed, mempool>>
  BY <1>2, <1>6, <1>16
<1> QED
  BY <1>7, <1>8, <1>9, <1>13, <1>14, <1>15, <1>16, ZenonT(60)
     DEF Next, vars, Apply, Observe, Status, Delete,
     Becomes, Reconcile, Start, Repoint, publisherVars, queueVars, chainVars

\* A step pays for what it adds to the account of a job.
LEMMA HeldStep ==
  ASSUME ForwardOnly, ConvergedInv, TypeOK, TypeOK', QueueInv, AttestedInv, [Next]_vars, NEW j \in Jobs
  PROVE  /\ Held(j) \in Nat /\ Held(j)' \in Nat
         /\ Budget(j) \in Nat /\ Budget(j)' \in Nat
         /\ Held(j)' + Bit(Sends(j)) + Budget(j) <= Held(j) + Budget(j)'
<1>1. j.dep \in Deployments
  BY ZenonT(60) DEF Jobs
<1>2. /\ created[j.dep] \in Nat /\ spent["crash"] \in Nat /\ spent["timeout"] \in Nat
      /\ created'[j.dep] \in Nat /\ spent'["crash"] \in Nat /\ spent'["timeout"] \in Nat
  BY <1>1, ZenonT(60) DEF TypeOK, PublisherTypeOK, Failures
<1>3. /\ MayAttest(j)' => MayAttest(j) \/ created'[j.dep] = created[j.dep] + 1 \/ Crash
      /\ created'[j.dep] \in {created[j.dep], created[j.dep] + 1}
      /\ adding' = j => adding = j \/ (MayAttest(j) /\ ~ MayAttest(j)')
  BY MayMoves, ZenonT(60)
<1>4. Budget(j) \in Nat /\ Budget(j)' \in Nat
  BY <1>2 DEF Budget
<1>5. Held(j) \in Nat /\ Held(j)' \in Nat
  <2> HIDE DEF MayAttest
  <2> QED
    BY DEF Held, Bit
<1>6. CASE ~ Crash
  <2>1. /\ spent'["crash"] = spent["crash"]
        /\ Bit(Sends(j)) + Bit(j \in dirty') + Bit(j \in processing') + Bit(j \in delayed')
              + Bit(adding' = j) + spent["timeout"]
            <= Bit(j \in dirty) + Bit(j \in processing) + Bit(j \in delayed)
              + Bit(adding = j) + spent'["timeout"]
              + Bit(adding' = j /\ adding # j)
    BY <1>6, QueueMoves, ZenonT(60)
  <2>2. Bit(MayAttest(j)') + Bit(adding' = j /\ adding # j) + created[j.dep]
          <= Bit(MayAttest(j)) + created'[j.dep]
    <3> HIDE DEF MayAttest
    <3> QED
      BY <1>2, <1>3, <1>6 DEF Bit
  <2>3. Bit(MayAttest(j)') \in Nat /\ Bit(MayAttest(j)) \in Nat /\ Bit(Sends(j)) \in Nat
    BY ZenonT(60) DEF Bit
  <2> HIDE DEF Sends, MayAttest
  <2>4. Held(j)' + Bit(Sends(j)) + Budget(j) <= Held(j) + Budget(j)'
    BY <1>2, <2>1, <2>2, <2>3 DEF Held, Budget, Bit
  <2> QED
    BY <1>4, <1>5, <2>4, ZenonT(60)
<1>7. CASE Crash
  <2>1. /\ dirty' = {} /\ processing' = {} /\ delayed' = {} /\ adding' = Nil
        /\ spent'["crash"] = spent["crash"] + 1 /\ spent'["timeout"] = spent["timeout"]
        /\ UNCHANGED <<mempool, created>>
    BY <1>7, ZenonT(60) DEF Crash, Fail, Failures, chainVars, clusterVars, TypeOK, PublisherTypeOK
  <2>2. ~ Sends(j)
    <3>1. Len(mempool) \in Nat
      BY DEF TypeOK, PublisherTypeOK
    <3> QED
      BY <2>1, <3>1 DEF Sends
  <2>3. Held(j)' <= 1
    <3>1. j # Nil
      BY PublisherV1Assumption, ZenonT(60)
    <3> HIDE DEF MayAttest
    <3> QED
      BY <2>1, <3>1 DEF Held, Bit
  <2>4. Budget(j)' = Budget(j) + 1
    BY <1>2, <2>1 DEF Budget
  <2> HIDE DEF Sends, Held, Budget
  <2> QED
    BY <1>4, <1>5, <2>2, <2>3, <2>4 DEF Bit
<1> QED
  BY <1>6, <1>7, ZenonT(60)

-----------------------------------------------------------------------------
(***************************************************************************)
(* An operator that is not alone: all of the above, and what others may do *)
(* to the state it shares with them.                                       *)
(***************************************************************************)

OperatorInv == ConvergedInv /\ RestTyped /\ QueueInv /\ AttestedInv

LEMMA OperatorInit == Init => OperatorInv
<1>1. Init => QueueInv /\ AttestedInv
  BY DEF Init, PublisherInit, QueueInit, QueueInv, AttestedInv
<1> QED
  BY <1>1, ConvergedInit, RestTypedInit, ZenonT(60) DEF OperatorInv

LEMMA OperatorNext ==
  ASSUME ForwardOnly
  PROVE  OperatorInv /\ [Next]_vars => OperatorInv'
  BY ConvergedNext, RestTypedNext, TypeFromInv, QueueInvNext, AttestedInvNext, ZenonT(60) DEF OperatorInv

\* What a step of the operator does to the account of a job, the node's pool
\* and the log.
LEMMA OperatorStep ==
  ASSUME ForwardOnly, OperatorInv, [Next]_vars, NEW j \in Jobs
  PROVE  /\ Held(j) \in Nat /\ Held(j)' \in Nat
         /\ Budget(j) \in Nat /\ Budget(j)' \in Nat
         /\ Held(j)' + Bit(Sends(j)) + Budget(j) <= Held(j) + Budget(j)'
         /\ \/ UNCHANGED <<events, mempool>>
            \/ \E att \in Attestation : /\ jobOf(att) = job
                                       /\ mempool' = Append(mempool, att)
                                       /\ UNCHANGED events
            \/ /\ mempool # << >>
               /\ mempool' = Tail(mempool)
               /\ events' = Append(events, Head(mempool)) \/ events' = events
<1>1. /\ ConvergedInv /\ TypeOK /\ QueueInv /\ AttestedInv
      /\ ConvergedInv' /\ RestTyped'
  BY OperatorNext, TypeFromInv, ZenonT(60) DEF OperatorInv
<1>2. TypeOK'
  BY <1>1, TypeFromInv, PTL
<1>3. Good \subseteq Attestation
  BY ZenonT(60) DEF Good
<1> QED
  BY <1>1, <1>2, <1>3, HeldStep, ChainMoves, ZenonT(60)

\* A send whose nonce another sender has used.
Outrun == (\E n : Contended(n)) /\ UNCHANGED <<clusterVars, reconcilerVars>>

\* The item at one place of a sequence is replaced.
LEMMA ReplaceOne ==
  ASSUME NEW S, NEW s \in Seq(S), NEW n \in 1..Len(s), NEW e \in S
  PROVE  [s EXCEPT ![n] = e] \in Seq(S)
  OBVIOUS

LEMMA OutrunMoves ==
  ASSUME OperatorInv, Outrun
  PROVE  /\ sig # Nil /\ job # Nil
         /\ UNCHANGED <<latest, events, alias, signer, clusterVars, reconcilerVars>>
         /\ \/ finish(TRUE) /\ UNCHANGED <<mempool, spent>>
            \/ /\ finish(FALSE)
               /\ Fail("drop")
               /\ \E n \in 1..Len(mempool) : mempool' = [mempool EXCEPT ![n] = signed]
<1>1. PICK n : Contended(n)
  BY ZenonT(60) DEF Outrun
<1>2. sig # Nil /\ UNCHANGED <<latest, events, alias, signer, clusterVars, reconcilerVars>>
  BY <1>1, ZenonT(60) DEF Outrun, Contended, signerVars
<1>3. job # Nil
  BY <1>2, SignedIsGood, ZenonT(60) DEF OperatorInv
<1> QED
  BY <1>1, <1>2, <1>3, ZenonT(60) DEF Contended

LEMMA OutrunKept == OperatorInv /\ Outrun => OperatorInv'
<1> SUFFICES ASSUME OperatorInv, Outrun PROVE OperatorInv'
  BY ZenonT(60)
<1>1. ConvergedInv /\ RestTyped /\ TypeOK /\ QueueInv /\ AttestedInv
  BY TypeFromInv, ZenonT(60) DEF OperatorInv
<1>2. /\ sig # Nil /\ job # Nil
      /\ UNCHANGED <<latest, events, alias, signer, live, changes, rolledOut, created, due, lastAttested,
                     adding>>
      /\ finish(TRUE) \/ finish(FALSE)
  BY OutrunMoves, ZenonT(60) DEF clusterVars, reconcilerVars
<1>3. LiveRecorded' /\ Good' = Good
  BY <1>1, <1>2, SameCluster, ZenonT(60)
<1>4. mempool' \in Seq(Good)
  <2>1. signed \in Good /\ mempool \in Seq(Good)
    BY <1>1, <1>2, SignedIsGood, ZenonT(60) DEF ConvergedInv, ChainGood
  <2>2. UNCHANGED mempool \/ \E n \in 1..Len(mempool) : mempool' = [mempool EXCEPT ![n] = signed]
    BY OutrunMoves, ZenonT(60)
  <2> QED
    BY <2>1, <2>2, ReplaceOne, ZenonT(60)
<1>5. QueueConverged' /\ HandsConverged'
  BY <1>1, <1>2, ConvergedFinish, ZenonT(60)
<1>6. ConvergedInv'
  BY <1>1, <1>2, <1>3, <1>4, <1>5, ZenonT(60) DEF ConvergedInv, SignerTypeOK, ChainGood
<1>7. spent' \in [Failures -> Nat]
  BY <1>1, OutrunMoves, FailType, ZenonT(60) DEF Failures, RestTyped
<1>8. RestTyped'
  BY <1>1, <1>2, <1>7, ZenonT(60) DEF RestTyped
<1>9. QueueInv'
  BY <1>1, <1>2, QueueInvFinish, ZenonT(60)
<1>10. AttestedInv'
  BY <1>1, <1>2, ZenonT(60) DEF AttestedInv
<1> QED
  BY <1>6, <1>8, <1>9, <1>10, ZenonT(60) DEF OperatorInv

\* What it does to the account of a job: a refused transaction may be sent
\* again, and one that replaces another was.
LEMMA OutrunStep ==
  ASSUME OperatorInv, Outrun, NEW j \in Jobs
  PROVE  /\ spent'["crash"] = spent["crash"] /\ spent'["timeout"] = spent["timeout"]
         /\ UNCHANGED events
         /\ \/ UNCHANGED mempool /\ Held(j)' <= Held(j)
            \/ \E n \in 1..Len(mempool), att \in Attestation :
                 /\ jobOf(att) = job
                 /\ mempool' = [mempool EXCEPT ![n] = att]
                 /\ Held(j)' + Bit(job = j) <= Held(j)
<1>1. ConvergedInv /\ RestTyped /\ QueueInv
  BY ZenonT(60) DEF OperatorInv
<1>2. /\ sig # Nil /\ job # Nil
      /\ UNCHANGED <<events, live, adding, lastAttested>>
  BY OutrunMoves, ZenonT(60) DEF clusterVars, reconcilerVars
<1>3. job \in processing
  BY <1>1, <1>2, ZenonT(60) DEF QueueInv
<1>4. MayAttest(j)' <=> MayAttest(j)
  BY <1>2, ZenonT(60) DEF MayAttest
<1>5. ASSUME finish(TRUE) PROVE Held(j)' <= Held(j)
  <2>1. dirty' = dirty /\ processing' = processing \ {job} /\ delayed' = delayed \cup {job}
    BY <1>5, ZenonT(60) DEF finish, done
  <2> HIDE DEF MayAttest
  <2> QED
    BY <1>2, <1>3, <1>4, <2>1, SMTT(30) DEF Held, Bit
<1>6. ASSUME finish(FALSE) PROVE Held(j)' + Bit(job = j) <= Held(j)
  <2>1. dirty' = dirty /\ processing' = processing \ {job} /\ delayed' = delayed
    BY <1>6, ZenonT(60) DEF finish, done
  <2> HIDE DEF MayAttest
  <2> QED
    BY <1>2, <1>3, <1>4, <2>1, SMTT(30) DEF Held, Bit
<1>7. spent'["crash"] = spent["crash"] /\ spent'["timeout"] = spent["timeout"]
  <2>1. UNCHANGED spent \/ Fail("drop")
    BY OutrunMoves, ZenonT(60)
  <2> QED
    BY <1>1, <2>1 DEF Fail, RestTyped, Failures
<1>8. signed \in Attestation /\ jobOf(signed) = job
  BY <1>1, <1>2, SignedIsGood, ZenonT(60) DEF Good
<1> HIDE DEF Held, Bit, MayAttest
<1> QED
  BY <1>2, <1>5, <1>6, <1>7, <1>8, OutrunMoves, ZenonT(60)

\* A step of others, which leaves the operator itself and the cluster alone,
\* and of which the node and the registry take nothing that does not verify.
Aside ==
  /\ UNCHANGED <<queueVars, workerVars, signer, clusterVars, reconcilerVars>>
  /\ (alias \in KmsKeys)'
  /\ mempool' \in Seq(Good) /\ events' \in Seq(Good)
  /\ latest' \in [Deployments -> Attestation \cup {Nil}]
  /\ spent' \in [Failures -> Nat]

LEMMA KeptAside == OperatorInv /\ Aside => OperatorInv'
<1> SUFFICES ASSUME OperatorInv, Aside PROVE OperatorInv'
  BY ZenonT(60)
<1>1. UNCHANGED <<queue, dirty, processing, delayed, job, sig, signer, live, changes, rolledOut, created,
                  due, lastAttested, adding>>
  BY ZenonT(60) DEF Aside, queueVars, workerVars, clusterVars, reconcilerVars
<1>2. LiveRecorded' /\ Good' = Good
  BY <1>1, SameCluster, ZenonT(60) DEF OperatorInv
<1>3. ConvergedInv'
  BY <1>1, <1>2, ZenonT(60)
     DEF Aside, OperatorInv, ConvergedInv, SignerTypeOK, QueueConverged, HandsConverged, ChainGood
<1>4. RestTyped'
  BY <1>1, ZenonT(60) DEF Aside, OperatorInv, RestTyped
<1>5. QueueInv' /\ AttestedInv'
  BY <1>1, ZenonT(60) DEF OperatorInv, QueueInv, AttestedInv
<1> QED
  BY <1>3, <1>4, <1>5, ZenonT(60) DEF OperatorInv
=============================================================================
