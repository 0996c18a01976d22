-------------------------- MODULE VerifierV1Proofs --------------------------
(***************************************************************************)
(* What the registry says of a Deployment when the operator of OperatorV1  *)
(* is done, what a PASS of pod-verify rests on and what a FAIL means, for  *)
(* every value of the constants.                                           *)
(***************************************************************************)
EXTENDS VerifierV1, OperatorV1Proofs

-----------------------------------------------------------------------------
(***************************************************************************)
(* RestIsLive.  What Reconcile attests last of a Deployment is last in all *)
(* it goes through: the queue, the worker's hands, the node's pool and the *)
(* registry.  No failure delays a job, and the queue never finds a job it  *)
(* is given among those it has, so none is merged with or put behind a     *)
(* newer one.                                                              *)
(***************************************************************************)

\* Nothing fails but the reads of the reconciler, and no Deployment is
\* deleted; the operator may be restarted and the alias moved.
Undisturbed ==
  /\ Deletable = {}
  /\ \A f \in {"kms", "rpc", "timeout", "drop", "revert"} : Limit[f] = 0

\* The informer announces what exists, and what Reconcile is not called for
\* again is attested if it has converged.
SeenInv ==
  /\ \A d \in due : signer # Nil /\ live[d].exists
  /\ \A d \in Deployments :
       signer # Nil /\ d \notin due /\ live[d].exists /\ rolloutConverged(d)
         => lastAttested[d] = live[d].spec

\* The signer signs with the key it was constructed for.
SignerSound == signer # Nil => signer.keyID = signer.pub /\ suitable(KeyInfo[signer.pub])

\* No job is delayed or added while the queue has it.
FreshInv ==
  /\ delayed = {}
  /\ dirty \cap processing = {}
  /\ processing = {job} \ {Nil}
  /\ \A j \in dirty : \E i \in 1..Len(queue) : queue[i] = j
  /\ \A j \in dirty \cup processing :
       lastAttested[j.dep] # Nil /\ Precedes(j.hash, lastAttested[j.dep])
  /\ adding # Nil => /\ adding \notin dirty \cup processing
                     /\ adding.hash = lastAttested[adding.dep]

\* The last entry of s for d is at i, or there is none.
LastOf(s, d, i) ==
  /\ i \in 1..Len(s) /\ s[i].dep = d
  /\ \A k \in 1..Len(s) : k > i => s[k].dep # d

NoneOf(s, d) == \A i \in 1..Len(s) : s[i].dep # d

\* The operator, in this life, has signed hash h for att.
IsOurs(att, h) == att # Nil /\ att.hash = h /\ att.fingerprint = signer.pub

\* The last that the node has of d is hash h, of this operator's life.
LastSent(d, h) ==
  \/ \E i \in 1..Len(mempool) : LastOf(mempool, d, i) /\ IsOurs(mempool[i], h)
  \/ NoneOf(mempool, d) /\ IsOurs(latest[d], h)

\* What was attested last of d comes last, wherever it is.
Newest(d) ==
  LET h == lastAttested[d] IN
  /\ signer # Nil
  /\ \/ adding = [dep |-> d, hash |-> h]
     \/ /\ adding # Nil => adding.dep # d
        /\ \E i \in 1..Len(queue) : LastOf(queue, d, i) /\ queue[i].hash = h
     \/ /\ adding # Nil => adding.dep # d
        /\ NoneOf(queue, d)
        /\ job # Nil /\ job.dep = d /\ job.hash = h
     \/ /\ adding # Nil => adding.dep # d
        /\ NoneOf(queue, d)
        /\ job # Nil => job.dep # d
        /\ LastSent(d, h)

NewestInv == \A d \in Deployments : lastAttested[d] # Nil => Newest(d)

\* The last entry for d after one more, and after the first is taken.
LEMMA LastAppend ==
  ASSUME NEW S, NEW s \in Seq(S), NEW x \in S, NEW d
  PROVE  /\ Len(s) + 1 \in 1..Len(Append(s, x)) /\ Append(s, x)[Len(s) + 1] = x
         /\ x.dep = d => LastOf(Append(s, x), d, Len(s) + 1)
         /\ x.dep # d => /\ NoneOf(s, d) => NoneOf(Append(s, x), d)
                        /\ \A i \in 1..Len(s) : LastOf(s, d, i) =>
                             /\ i \in 1..Len(Append(s, x))
                             /\ LastOf(Append(s, x), d, i)
                             /\ Append(s, x)[i] = s[i]
<1>1. /\ Len(Append(s, x)) = Len(s) + 1 /\ Append(s, x)[Len(s) + 1] = x /\ Len(s) \in Nat
      /\ \A k \in 1..Len(s) : Append(s, x)[k] = s[k]
  BY AppendProperties
<1>2. \A k \in 1..Len(Append(s, x)) : k \in Int /\ (k \in 1..Len(s) \/ k = Len(s) + 1)
  BY <1>1
<1>3. Len(s) + 1 \in 1..Len(Append(s, x))
  BY <1>1
<1>4. ASSUME x.dep = d PROVE LastOf(Append(s, x), d, Len(s) + 1)
  BY <1>1, <1>2, <1>3, <1>4 DEF LastOf
<1>5. ASSUME x.dep # d, NoneOf(s, d) PROVE NoneOf(Append(s, x), d)
  BY <1>1, <1>2, <1>5, ZenonT(60) DEF NoneOf
<1>6. ASSUME x.dep # d, NEW i \in 1..Len(s), LastOf(s, d, i)
      PROVE  i \in 1..Len(Append(s, x)) /\ LastOf(Append(s, x), d, i) /\ Append(s, x)[i] = s[i]
  <2>1. i \in 1..Len(Append(s, x)) /\ Append(s, x)[i] = s[i]
    BY <1>1
  <2>2. \A k \in 1..Len(Append(s, x)) : k > i => Append(s, x)[k].dep # d
    BY <1>1, <1>2, <1>6, ZenonT(60) DEF LastOf
  <2> QED
    BY <1>6, <2>1, <2>2, ZenonT(60) DEF LastOf
<1> QED
  BY <1>1, <1>3, <1>4, <1>5, <1>6, ZenonT(60)

LEMMA LastTail ==
  ASSUME NEW S, NEW s \in Seq(S), s # << >>, NEW d
  PROVE  /\ NoneOf(s, d) => NoneOf(Tail(s), d) /\ Head(s).dep # d
         /\ \A i \in 1..Len(s) : LastOf(s, d, i) =>
              \/ Head(s) = s[i] /\ NoneOf(Tail(s), d)
              \/ \E k \in 1..Len(Tail(s)) : LastOf(Tail(s), d, k) /\ Tail(s)[k] = s[i]
<1>1. /\ Len(s) \in Nat \ {0} /\ Head(s) = s[1]
      /\ Len(Tail(s)) = Len(s) - 1
      /\ \A i \in 1..Len(Tail(s)) : Tail(s)[i] = s[i + 1]
  BY HeadTailProperties
<1>2. \A k \in 1..Len(Tail(s)) : k \in Int /\ k + 1 \in 1..Len(s) /\ k + 1 > 1
  BY <1>1
<1>3. ASSUME NoneOf(s, d) PROVE NoneOf(Tail(s), d) /\ Head(s).dep # d
  <2>1. 1 \in 1..Len(s)
    BY <1>1
  <2> QED
    BY <1>1, <1>2, <1>3, <2>1, ZenonT(60) DEF NoneOf
<1>4. ASSUME LastOf(s, d, 1) PROVE Head(s) = s[1] /\ NoneOf(Tail(s), d)
  BY <1>1, <1>2, <1>4, ZenonT(60) DEF LastOf, NoneOf
<1>5. ASSUME NEW i \in 1..Len(s), LastOf(s, d, i), i # 1
      PROVE  \E k \in 1..Len(Tail(s)) : LastOf(Tail(s), d, k) /\ Tail(s)[k] = s[i]
  <2>1. i - 1 \in 1..Len(Tail(s)) /\ Tail(s)[i - 1] = s[i] /\ i \in Int
    BY <1>1, <1>5
  <2>2. \A k \in 1..Len(Tail(s)) : k > i - 1 => k + 1 > i
    BY <1>2, <2>1
  <2>3. \A k \in 1..Len(Tail(s)) : k > i - 1 => Tail(s)[k].dep # d
    BY <1>1, <1>2, <1>5, <2>2, ZenonT(60) DEF LastOf
  <2> QED
    BY <1>5, <2>1, <2>3, ZenonT(60) DEF LastOf
<1> QED
  BY <1>3, <1>4, <1>5, ZenonT(60)

\* What cannot fail does not.
LEMMA NothingFails ==
  ASSUME Undisturbed, TypeOK, NEW f \in {"kms", "rpc", "timeout", "drop", "revert"}
  PROVE  ~ Fail(f)
  BY DEF Undisturbed, TypeOK, PublisherTypeOK, Failures, Fail

LEMMA SignerSoundNext == SignerSound /\ [Next]_vars => SignerSound'
<1> SUFFICES ASSUME SignerSound, [Next]_vars PROVE SignerSound'
  OBVIOUS
<1>1. CASE Start
  BY <1>1, ZenonT(60) DEF Start, newWithClient, SignerSound
<1>2. CASE Crash
  BY <1>2 DEF Crash, SignerSound
<1>3. CASE UNCHANGED signer
  BY <1>3, ZenonT(60) DEF SignerSound
<1> QED
  BY <1>1, <1>2, <1>3, ZenonT(60) DEF Next, vars, Apply, Observe, Status, Delete, Becomes, Reconcile,
     Enqueue,
     Get, SignDigest, Process, Ripen, Mine, Repoint, publisherVars, signerVars

\* SignDigest accepts what KMS should answer, and the worker keeps the job.
LEMMA SignDigestWorks ==
  ASSUME Undisturbed, ConvergedInv, TypeOK, SignerSound, SignDigest
  PROVE  UNCHANGED <<queue, dirty, processing, delayed, job, mempool, latest, signer>>
<1>1. job \in Jobs /\ signer \in Signer /\ signer # Nil
  BY DEF SignDigest, ConvergedInv, HandsConverged, SignerTypeOK
<1>2. PICK out \in SignOutput :
        /\ out = kmsSign(signer.keyID, job.hash)
        /\ \/ acceptsOutput(job.hash, out) /\ UNCHANGED <<queueVars, job>>
           \/ ~ acceptsOutput(job.hash, out)
  BY NothingFails, ZenonT(60) DEF SignDigest
<1>3. resolve(signer.keyID) = signer.pub /\ signer.pub \in KmsKeys /\ job.hash \in Hashes
  BY <1>1, KmsAssumption, PublisherV1Assumption, ZenonT(60) DEF SignerSound, Signer, resolve, Jobs
<1>4. acceptsOutput(job.hash, out)
  BY <1>1, <1>2, <1>3, KmsAssumption
     DEF acceptsOutput, kmsSign, VerifyConfigHashSignature, SignerSound
<1> QED
  BY <1>2, <1>4, ZenonT(60) DEF SignDigest, queueVars, chainVars, signerVars

\* The worker's other step sends the job, and the queue is done with it.
LEMMA ProcessWorks ==
  ASSUME Undisturbed, ConvergedInv, TypeOK, Process
  PROVE  /\ job \in Jobs /\ job # Nil /\ signer \in Signer /\ UNCHANGED <<latest, signer>>
         /\ finish(FALSE)
         /\ \E att \in Attestation :
              /\ mempool' = Append(mempool, att)
              /\ att.dep = job.dep /\ att.hash = job.hash /\ att.fingerprint = signer.pub
<1>1. job \in Jobs /\ job # Nil /\ sig \in Signatures /\ signer \in Signer
  BY DEF Process, ConvergedInv, HandsConverged, SignerTypeOK
<1>2. signed \in Attestation
  BY <1>1 DEF Attestation, Jobs, Signer, signed
<1>3. mempool' = Append(mempool, signed) /\ finish(FALSE)
  BY NothingFails, ZenonT(60) DEF Process, PublishAttestation
<1>4. signed.dep = job.dep /\ signed.hash = job.hash /\ signed.fingerprint = signer.pub
  BY DEF signed
<1> QED
  BY <1>1, <1>2, <1>3, <1>4, ZenonT(60) DEF Process, signerVars

LEMMA SeenNext ==
  ASSUME Undisturbed
  PROVE  TypeOK /\ SeenInv /\ [Next]_vars => SeenInv'
<1> SUFFICES ASSUME TypeOK, SeenInv, [Next]_vars PROVE SeenInv'
  BY ZenonT(60)
<1>1. /\ live \in [Deployments -> Deployment] /\ due \subseteq Deployments
      /\ lastAttested \in [Deployments -> Hashes \cup {Nil}]
  BY ZenonT(60) DEF TypeOK
<1>2. ASSUME NEW d \in Deployments, NEW new, Becomes(d, new), new.exists PROVE SeenInv'
  <2>1. /\ live' = [live EXCEPT ![d] = new] /\ UNCHANGED <<signer, lastAttested>>
        /\ due' = IF signer = Nil THEN due ELSE due \cup {d}
    BY <1>2, ZenonT(60) DEF Becomes, publisherVars, signerVars
  <2> QED
    BY <1>1, <1>2, <2>1, ZenonT(60) DEF SeenInv, rolloutConverged
<1>3. ASSUME NEW d \in Deployments, \/ \E h \in Hashes : Apply(d, h)
                                   \/ \E b \in BOOLEAN : Observe(d, b) \/ Status(d, b)
      PROVE  SeenInv'
  <2>1. \E new : Becomes(d, new) /\ new.exists
    <3>1. ASSUME NEW h \in Hashes, Apply(d, h) PROVE \E new : Becomes(d, new) /\ new.exists
      BY <3>1 DEF Apply
    <3>2. ASSUME NEW b \in BOOLEAN, Observe(d, b) \/ Status(d, b)
          PROVE  \E new : Becomes(d, new) /\ new.exists
      BY <3>2 DEF Observe, Status
    <3> QED
      BY <1>3, <3>1, <3>2, ZenonT(60)
  <2> QED
    BY <1>2, <2>1, ZenonT(60)
<1>4. ASSUME NEW d \in Deployments PROVE ~ Delete(d)
  BY ZenonT(60) DEF Undisturbed, Delete
<1>5. ASSUME NEW d \in Deployments, Reconcile(d) PROVE SeenInv'
  <2>1. UNCHANGED <<live, signer>> /\ live[d].exists
    BY <1>5, ZenonT(60) DEF Reconcile, clusterVars, publisherVars, signerVars, SeenInv
  <2>2. CASE UNCHANGED reconcilerVars
    BY <2>1, <2>2, ZenonT(60) DEF reconcilerVars, SeenInv, rolloutConverged
  <2>3. CASE due' = due \ {d} /\ UNCHANGED lastAttested
             /\ (~ rolloutConverged(d) \/ alreadyAttested(d, live[d].spec))
    BY <1>1, <2>1, <2>3, ZenonT(60) DEF SeenInv, rolloutConverged, alreadyAttested
  <2>4. CASE due' = due \ {d} /\ recordAttested(d, live[d].spec)
    <3>1. lastAttested'[d] = live[d].spec /\ \A e \in Deployments \ {d} : lastAttested'[e] = lastAttested[e]
      BY <1>1, <2>4, ZenonT(60) DEF recordAttested
    <3> QED
      BY <2>1, <2>4, <3>1, ZenonT(60) DEF SeenInv, rolloutConverged
  <2> QED
    BY <1>5, <2>1, <2>2, <2>3, <2>4, ZenonT(60) DEF Reconcile
<1>6. CASE Start
  <2>1. due' = {d \in Deployments : live[d].exists} /\ UNCHANGED live /\ signer' # Nil
    BY <1>6, ZenonT(60) DEF Start, clusterVars
  <2> QED
    BY <2>1, ZenonT(60) DEF SeenInv
<1>7. CASE Crash
  BY <1>7, ZenonT(60) DEF Crash, SeenInv
<1>8. CASE UNCHANGED <<live, due, signer, lastAttested>>
  BY <1>8, ZenonT(60) DEF SeenInv, rolloutConverged
<1> QED
  BY <1>3, <1>4, <1>5, <1>6, <1>7, <1>8, ZenonT(60) DEF Next, vars, Enqueue, Get, SignDigest, Process,
     Ripen,
     Mine, Repoint, publisherVars, signerVars, clusterVars, reconcilerVars

\* Reconcile with nothing to forget: it leaves the map and the job alone, or
\* records the spec of a Deployment and owes the queue its job.
LEMMA ReconcileMoves ==
  ASSUME SeenInv, TypeOK, NEW d \in Deployments, Reconcile(d)
  PROVE  /\ UNCHANGED <<queue, dirty, processing, delayed, job, mempool, latest, signer, live>>
         /\ adding = Nil
         /\ \/ UNCHANGED <<lastAttested, adding>>
            \/ /\ live[d].exists /\ lastAttested[d] # live[d].spec /\ signer # Nil
               /\ lastAttested' = [lastAttested EXCEPT ![d] = live[d].spec]
               /\ adding' = [dep |-> d, hash |-> live[d].spec]
<1>1. UNCHANGED <<queue, dirty, processing, delayed, job, mempool, latest, signer, live>> /\ adding = Nil
  BY ZenonT(60) DEF Reconcile, clusterVars, publisherVars, queueVars, workerVars, chainVars, signerVars
<1>2. live[d].exists /\ signer # Nil
  BY SMTT(30) DEF Reconcile, SeenInv
<1> QED
  BY <1>1, <1>2, ZenonT(60) DEF Reconcile, reconcilerVars, recordAttested, alreadyAttested

LEMMA FreshNext ==
  ASSUME Undisturbed, ForwardOnly
  PROVE  ConvergedInv /\ TypeOK /\ SignerSound /\ QueueInv /\ AttestedInv /\ SeenInv /\ FreshInv
           /\ [Next]_vars => FreshInv'
<1> SUFFICES ASSUME ConvergedInv, TypeOK, SignerSound, QueueInv, AttestedInv, SeenInv, FreshInv,
                    [Next]_vars
             PROVE  FreshInv'
  BY ZenonT(60)
<1>1. /\ queue \in Seq(Jobs) /\ dirty \subseteq Jobs /\ processing \subseteq Jobs
      /\ adding \in Jobs \cup {Nil} /\ Nil \notin Jobs
      /\ lastAttested \in [Deployments -> Hashes \cup {Nil}]
  BY PublisherV1Assumption, ZenonT(60) DEF TypeOK, PublisherTypeOK, QueueTypeOK
<1>2. \A j \in Jobs : j.dep \in Deployments /\ j.hash \in Hashes /\ j.hash # Nil
  BY KmsAssumption, ZenonT(60) DEF Jobs
<1>3. CASE UNCHANGED <<queue, dirty, processing, delayed, job, adding, lastAttested>>
  BY <1>3, ZenonT(60) DEF FreshInv
<1>4. ASSUME NEW d \in Deployments, Reconcile(d) PROVE FreshInv'
  <2>1. UNCHANGED <<queue, dirty, processing, delayed, job>>
    BY <1>4, ReconcileMoves, ZenonT(60)
  <2>2. CASE UNCHANGED <<lastAttested, adding>>
    BY <1>3, <2>1, <2>2, ZenonT(60)
  <2>3. CASE /\ lastAttested[d] # live[d].spec /\ live[d].exists
             /\ lastAttested' = [lastAttested EXCEPT ![d] = live[d].spec]
             /\ adding' = [dep |-> d, hash |-> live[d].spec]
    <3>1. lastAttested'[d] = live[d].spec /\ \A e \in Deployments \ {d} : lastAttested'[e] = lastAttested[e]
      BY <1>1, <2>3, ZenonT(60)
    <3>2. live[d].spec \in Hashes /\ live[d].spec # Nil
      BY <2>3, KmsAssumption, ZenonT(60) DEF TypeOK
    <3>3. ASSUME NEW j \in dirty \cup processing, j.dep = d
          PROVE  Precedes(j.hash, live[d].spec) /\ j.hash # live[d].spec
      <4>1. Precedes(j.hash, lastAttested[d]) /\ Precedes(lastAttested[d], live[d].spec)
        BY <3>3, ZenonT(60) DEF FreshInv, AttestedInv
      <4>2. Precedes(j.hash, live[d].spec)
        BY <4>1, PrecedesTransitive, ZenonT(60)
      <4>3. j.hash # live[d].spec
        BY <2>3, <4>1, PrecedesAntisymmetric, ZenonT(60)
      <4> QED
        BY <4>2, <4>3, ZenonT(60)
    <3>4. adding' \notin dirty \cup processing
      BY <2>3, <3>3
    <3>5. ASSUME NEW j \in dirty \cup processing
          PROVE  lastAttested'[j.dep] # Nil /\ Precedes(j.hash, lastAttested'[j.dep])
      <4>1. CASE j.dep = d
        BY <3>1, <3>2, <3>3, <4>1, ZenonT(60)
      <4>2. CASE j.dep # d
        BY <1>1, <1>2, <3>1, <4>2, ZenonT(60) DEF FreshInv
      <4> QED
        BY <4>1, <4>2, ZenonT(60)
    <3>6. adding'.hash = lastAttested'[adding'.dep]
      BY <2>3, <3>1, ZenonT(60)
    <3> QED
      BY <2>1, <3>4, <3>5, <3>6, ZenonT(60) DEF FreshInv
  <2> QED
    BY <1>4, <2>2, <2>3, ReconcileMoves, ZenonT(60)
<1>5. CASE Enqueue
  <2>1. adding \in Jobs /\ adding \notin dirty \cup processing /\ adding.hash = lastAttested[adding.dep]
    BY <1>1, <1>5, ZenonT(60) DEF Enqueue, FreshInv
  <2>2. /\ dirty' = dirty \cup {adding} /\ queue' = Append(queue, adding) /\ adding' = Nil
        /\ UNCHANGED <<processing, delayed, job, lastAttested>>
    BY <1>5, <2>1, ZenonT(60) DEF Enqueue, add, workerVars
  <2>3. \A j \in dirty' : \E i \in 1..Len(queue') : queue'[i] = j
    <3>1. /\ Len(queue') = Len(queue) + 1 /\ queue'[Len(queue) + 1] = adding /\ Len(queue) \in Nat
          /\ \A k \in 1..Len(queue) : queue'[k] = queue[k]
      BY <1>1, <2>1, <2>2, AppendProperties
    <3>2. Len(queue) + 1 \in 1..Len(queue') /\ \A k \in 1..Len(queue) : k \in 1..Len(queue')
      BY <3>1
    <3> QED
      BY <2>2, <3>1, <3>2 DEF FreshInv
  <2>4. \A j \in dirty' \cup processing' :
          lastAttested'[j.dep] # Nil /\ Precedes(j.hash, lastAttested'[j.dep])
    BY <1>2, <2>1, <2>2, ZenonT(60) DEF FreshInv, Precedes
  <2> QED
    BY <2>1, <2>2, <2>3, <2>4 DEF FreshInv
<1>6. CASE Crash
  BY <1>6, ZenonT(60) DEF Crash, FreshInv
<1>7. CASE Get /\ UNCHANGED reconcilerVars
  <2>1. PICK i \in Jobs : get(i) /\ job' = i
    BY <1>7, ZenonT(60) DEF Get
  <2>2. i \in dirty /\ processing = {} /\ i # Nil
    <3>1. 1 \in 1..Len(queue) /\ i = queue[1]
      BY <1>1, <2>1, QueueTail, ZenonT(60) DEF get, QueueInv
    <3>2. i \in dirty
      BY <3>1, ZenonT(60) DEF QueueInv
    <3>3. job = Nil /\ processing = {job} \ {Nil}
      BY <1>7 DEF Get, FreshInv
    <3>4. processing = {}
      BY <3>3, ZenonT(60)
    <3> QED
      BY <1>1, <3>2, <3>4, ZenonT(60)
  <2>3. /\ dirty' = dirty \ {i} /\ processing' = {i} /\ queue' = Tail(queue) /\ queue # << >>
        /\ i = Head(queue) /\ UNCHANGED <<delayed, adding, lastAttested>>
    BY <1>7, <2>1, <2>2, ZenonT(60) DEF get, reconcilerVars
  <2>4. \A j \in dirty' : \E k \in 1..Len(queue') : queue'[k] = j
    <3>1. /\ Len(queue) \in Nat \ {0} /\ Head(queue) = queue[1]
          /\ Len(queue') = Len(queue) - 1
          /\ \A k \in 1..Len(queue') : queue'[k] = queue[k + 1]
      BY <1>1, <2>3, HeadTailProperties
    <3>2. \A k \in 1..Len(queue) : k # 1 => k - 1 \in 1..Len(queue') /\ queue'[k - 1] = queue[k]
      BY <3>1
    <3> SUFFICES ASSUME NEW j \in dirty, j # i PROVE \E k \in 1..Len(queue') : queue'[k] = j
      BY <2>3, ZenonT(60)
    <3>3. PICK k \in 1..Len(queue) : queue[k] = j
      BY ZenonT(60) DEF FreshInv
    <3> QED
      BY <2>3, <3>1, <3>2, <3>3, ZenonT(60)
  <2> QED
    BY <2>1, <2>2, <2>3, <2>4 DEF FreshInv
<1>8. CASE Process /\ UNCHANGED reconcilerVars
  <2>1. finish(FALSE) /\ job # Nil
    BY <1>8, ProcessWorks, ZenonT(60)
  <2>2. job \in processing /\ job \notin dirty
    BY <2>1, ZenonT(60) DEF FreshInv
  <2>3. /\ dirty' = dirty /\ processing' = {} /\ queue' = queue /\ delayed' = delayed /\ job' = Nil
        /\ UNCHANGED <<adding, lastAttested>>
    BY <1>8, <2>1, <2>2, ZenonT(60) DEF finish, done, FreshInv, reconcilerVars
  <2> QED
    BY <2>3, ZenonT(60) DEF FreshInv
<1>9. CASE SignDigest /\ UNCHANGED reconcilerVars
  BY <1>3, <1>9, SignDigestWorks, ZenonT(60) DEF reconcilerVars
<1>10. ~ Ripen
  BY DEF Ripen, ripen, FreshInv
<1> QED
  BY <1>3, <1>4, <1>5, <1>6, <1>7, <1>8, <1>9, <1>10, ZenonT(60)
     DEF Next, vars, Apply, Observe, Status, Delete,
     Becomes, Start, Mine, Repoint, publisherVars, queueVars, workerVars, clusterVars, reconcilerVars

\* Mining takes the account's transactions in order, so the last stays last.
LEMMA LastSentMine ==
  ASSUME Undisturbed, TypeOK, Mine, NEW d \in Deployments, NEW h, LastSent(d, h)
  PROVE  LastSent(d, h)'
<1>1. /\ mempool \in Seq(Attestation) /\ mempool # << >> /\ latest \in [Deployments -> Attestation \cup {Nil}]
      /\ Nil \notin Attestation
  BY PublisherV1Assumption, ZenonT(60) DEF Mine, TypeOK, PublisherTypeOK
<1>2. PICK head \in Attestation : head = Head(mempool)
  <2>1. Head(mempool) \in Attestation
    BY <1>1, HeadTailProperties, ZenonT(60)
  <2> QED
    BY <2>1, ZenonT(60)
<1>3. /\ mempool' = Tail(mempool) /\ UNCHANGED signer
      /\ latest' = [latest EXCEPT ![head.dep] = head]
  BY <1>2, NothingFails, ZenonT(60) DEF Mine, publish, signerVars
<1>4. /\ NoneOf(mempool, d) => NoneOf(mempool', d) /\ head.dep # d
      /\ \A i \in 1..Len(mempool) : LastOf(mempool, d, i) =>
           \/ head = mempool[i] /\ NoneOf(mempool', d)
           \/ \E k \in 1..Len(mempool') : LastOf(mempool', d, k) /\ mempool'[k] = mempool[i]
  <2>1. /\ NoneOf(mempool, d) => NoneOf(Tail(mempool), d) /\ Head(mempool).dep # d
        /\ \A i \in 1..Len(mempool) : LastOf(mempool, d, i) =>
             \/ Head(mempool) = mempool[i] /\ NoneOf(Tail(mempool), d)
             \/ \E k \in 1..Len(Tail(mempool)) : LastOf(Tail(mempool), d, k) /\ Tail(mempool)[k] = mempool[i]
    BY <1>1, LastTail, ZenonT(60)
  <2> QED
    BY <1>2, <1>3, <2>1, ZenonT(60)
<1>5. CASE NoneOf(mempool, d) /\ IsOurs(latest[d], h)
  BY <1>1, <1>3, <1>4, <1>5 DEF LastSent, IsOurs, NoneOf
<1>6. ASSUME NEW i \in 1..Len(mempool), LastOf(mempool, d, i), IsOurs(mempool[i], h)
      PROVE  LastSent(d, h)'
  <2>1. CASE head = mempool[i] /\ NoneOf(mempool', d)
    <3>1. head.dep = d
      BY <1>6, <2>1, ZenonT(60) DEF LastOf
    <3>2. latest'[d] = head
      BY <1>1, <1>3, <3>1, ZenonT(60)
    <3> QED
      BY <1>3, <1>6, <2>1, <3>2, ZenonT(60) DEF LastSent, IsOurs, NoneOf
  <2>2. ASSUME NEW k \in 1..Len(mempool'), LastOf(mempool', d, k), mempool'[k] = mempool[i]
        PROVE  LastSent(d, h)'
    BY <1>3, <1>6, <2>2, ZenonT(60) DEF LastSent, IsOurs, LastOf
  <2> QED
    BY <1>4, <1>6, <2>1, <2>2
<1> QED
  BY <1>5, <1>6, ZenonT(60) DEF LastSent

LEMMA LastSentSend ==
  ASSUME TypeOK, NEW att \in Attestation, mempool' = Append(mempool, att), UNCHANGED <<latest, signer>>,
         NEW d \in Deployments, NEW h,
         \/ att.dep # d /\ LastSent(d, h)
         \/ att.dep = d /\ IsOurs(att, h)
  PROVE  LastSent(d, h)'
<1>1. mempool \in Seq(Attestation) /\ Nil \notin Attestation
  BY PublisherV1Assumption, ZenonT(60) DEF TypeOK, PublisherTypeOK
<1>2. /\ Len(mempool) + 1 \in 1..Len(mempool') /\ mempool'[Len(mempool) + 1] = att
      /\ att.dep = d => LastOf(mempool', d, Len(mempool) + 1)
      /\ att.dep # d => /\ NoneOf(mempool, d) => NoneOf(mempool', d)
                       /\ \A i \in 1..Len(mempool) : LastOf(mempool, d, i) =>
                            /\ i \in 1..Len(mempool')
                            /\ LastOf(mempool', d, i)
                            /\ mempool'[i] = mempool[i]
  BY <1>1, LastAppend, SMTT(30)
<1>3. CASE att.dep = d /\ IsOurs(att, h)
  BY <1>2, <1>3, ZenonT(60) DEF LastSent, IsOurs, LastOf
<1>4. CASE att.dep # d /\ NoneOf(mempool, d) /\ IsOurs(latest[d], h)
  BY <1>2, <1>4, ZenonT(60) DEF LastSent, IsOurs, NoneOf
<1>5. ASSUME att.dep # d, NEW i \in 1..Len(mempool), LastOf(mempool, d, i), IsOurs(mempool[i], h)
      PROVE  LastSent(d, h)'
  BY <1>2, <1>5, SMTT(30) DEF LastSent, IsOurs, LastOf
<1> QED
  BY <1>3, <1>4, <1>5, ZenonT(60) DEF LastSent

LEMMA NewestNext ==
  ASSUME Undisturbed
  PROVE  ConvergedInv /\ TypeOK /\ SignerSound /\ SeenInv /\ FreshInv /\ NewestInv /\ [Next]_vars
           => NewestInv'
<1> SUFFICES ASSUME ConvergedInv, TypeOK, SignerSound, SeenInv, FreshInv, NewestInv, [Next]_vars,
                    NEW d \in Deployments, lastAttested'[d] # Nil
             PROVE  Newest(d)'
  BY ZenonT(60) DEF NewestInv
<1>1. /\ queue \in Seq(Jobs) /\ lastAttested \in [Deployments -> Hashes \cup {Nil}] /\ Nil \notin Jobs
  BY PublisherV1Assumption, ZenonT(60) DEF TypeOK, PublisherTypeOK, QueueTypeOK
<1>2. lastAttested[d] # Nil => Newest(d)
  BY ZenonT(60) DEF NewestInv
<1>3. ASSUME UNCHANGED <<mempool, latest, signer>>, NEW h, LastSent(d, h) PROVE LastSent(d, h)'
  BY <1>3, ZenonT(60) DEF LastSent, IsOurs, LastOf, NoneOf
<1>4. CASE UNCHANGED <<queue, job, adding, mempool, latest, signer, lastAttested>>
  BY <1>2, <1>3, <1>4, ZenonT(60) DEF Newest, LastOf, NoneOf
<1>5. ASSUME NEW e \in Deployments, Reconcile(e) PROVE Newest(d)'
  <2>1. UNCHANGED <<queue, job, mempool, latest, signer>> /\ adding = Nil
    BY <1>5, ReconcileMoves, ZenonT(60)
  <2>2. CASE UNCHANGED <<lastAttested, adding>>
    BY <1>4, <2>1, <2>2, ZenonT(60)
  <2>3. CASE /\ signer # Nil
             /\ lastAttested' = [lastAttested EXCEPT ![e] = live[e].spec]
             /\ adding' = [dep |-> e, hash |-> live[e].spec]
    <3>1. CASE d = e
      BY <1>1, <2>1, <2>3, <3>1, ZenonT(60) DEF Newest
    <3>2. CASE d # e
      <4>1. lastAttested'[d] = lastAttested[d] /\ adding'.dep # d
        BY <1>1, <2>3, <3>2, ZenonT(60)
      <4>2. Newest(d) /\ adding = Nil /\ lastAttested[d] # Nil
        BY <1>2, <2>1, <4>1, ZenonT(60)
      <4>3. adding # [dep |-> d, hash |-> lastAttested[d]]
        BY <1>1, <4>2, SMTT(30) DEF Jobs
      <4> QED
        BY <1>3, <2>1, <4>1, <4>2, <4>3, ZenonT(60) DEF Newest, LastOf, NoneOf
    <3> QED
      BY <3>1, <3>2, ZenonT(60)
  <2> QED
    BY <1>5, <2>2, <2>3, ReconcileMoves, ZenonT(60)
<1>6. CASE Enqueue
  <2>1. adding \in Jobs /\ adding \notin dirty \cup processing /\ adding.hash = lastAttested[adding.dep]
    BY <1>6, ZenonT(60) DEF Enqueue, FreshInv, TypeOK
  <2>2. /\ queue' = Append(queue, adding) /\ adding' = Nil
        /\ UNCHANGED <<job, mempool, latest, signer, lastAttested>>
    BY <1>6, <2>1, ZenonT(60) DEF Enqueue, add, workerVars, chainVars, signerVars
  <2>3. /\ Len(queue) + 1 \in 1..Len(queue') /\ queue'[Len(queue) + 1] = adding
        /\ adding.dep = d => LastOf(queue', d, Len(queue) + 1)
        /\ adding.dep # d => /\ NoneOf(queue, d) => NoneOf(queue', d)
                            /\ \A i \in 1..Len(queue) : LastOf(queue, d, i) =>
                                 /\ i \in 1..Len(queue')
                                 /\ LastOf(queue', d, i)
                                 /\ queue'[i] = queue[i]
    BY <1>1, <2>1, <2>2, LastAppend
  <2>4. Newest(d)
    BY <1>2, <2>2, ZenonT(60)
  <2>5. CASE adding.dep = d
    BY <2>1, <2>2, <2>3, <2>4, <2>5, ZenonT(60) DEF Newest, LastOf
  <2>6. CASE adding.dep # d
    <3>1. \/ \E i \in 1..Len(queue') : LastOf(queue', d, i) /\ queue'[i].hash = lastAttested[d]
          \/ NoneOf(queue', d) /\ job # Nil /\ job.dep = d /\ job.hash = lastAttested[d]
          \/ NoneOf(queue', d) /\ (job # Nil => job.dep # d) /\ LastSent(d, lastAttested[d])
      BY <2>3, <2>4, <2>6 DEF Newest
    <3> QED
      BY <1>3, <2>2, <2>4, <3>1, ZenonT(60) DEF Newest, LastOf, NoneOf
  <2> QED
    BY <2>5, <2>6, ZenonT(60)
<1>7. CASE Crash
  BY <1>7, ZenonT(60) DEF Crash, newAttested
<1>8. CASE Start
  BY <1>2, <1>8, ZenonT(60) DEF Start, Newest
<1>9. CASE Get /\ UNCHANGED reconcilerVars
  <2>1. PICK i \in Jobs : get(i) /\ job' = i
    BY <1>9, ZenonT(60) DEF Get
  <2>2. /\ queue # << >> /\ i = Head(queue) /\ queue' = Tail(queue) /\ job = Nil /\ i # Nil
        /\ UNCHANGED <<adding, mempool, latest, signer, lastAttested>>
    BY <1>1, <1>9, <2>1, ZenonT(60) DEF Get, get, reconcilerVars, chainVars, signerVars
  <2>3. /\ NoneOf(queue, d) => NoneOf(queue', d) /\ i.dep # d
        /\ \A l \in 1..Len(queue) : LastOf(queue, d, l) =>
             \/ i = queue[l] /\ NoneOf(queue', d)
             \/ \E k \in 1..Len(queue') : LastOf(queue', d, k) /\ queue'[k] = queue[l]
    BY <1>1, <2>2, LastTail
  <2>4. Newest(d)
    BY <1>2, <2>2, SMTT(30)
  <2>5. CASE adding = [dep |-> d, hash |-> lastAttested[d]]
    BY <2>2, <2>4, <2>5, ZenonT(60) DEF Newest
  <2>6. ASSUME adding # Nil => adding.dep # d,
               NEW l \in 1..Len(queue), LastOf(queue, d, l), queue[l].hash = lastAttested[d]
        PROVE  Newest(d)'
    <3>1. \/ i.dep = d /\ i.hash = lastAttested[d] /\ NoneOf(queue', d)
          \/ \E k \in 1..Len(queue') : LastOf(queue', d, k) /\ queue'[k].hash = lastAttested[d]
      BY <2>3, <2>6, SMTT(30) DEF LastOf
    <3> QED
      BY <2>1, <2>2, <2>4, <2>6, <3>1, ZenonT(60) DEF Newest, LastOf, NoneOf
  <2>7. CASE (adding # Nil => adding.dep # d) /\ NoneOf(queue, d) /\ LastSent(d, lastAttested[d])
    BY <1>3, <2>1, <2>2, <2>3, <2>4, <2>7, ZenonT(60) DEF Newest, NoneOf
  <2> QED
    BY <2>2, <2>4, <2>5, <2>6, <2>7, ZenonT(60) DEF Newest
<1>10. CASE Process /\ UNCHANGED reconcilerVars
  <2>1. PICK att \in Attestation :
          /\ mempool' = Append(mempool, att)
          /\ att.dep = job.dep /\ att.hash = job.hash /\ att.fingerprint = signer.pub
    BY <1>10, ProcessWorks, ZenonT(60)
  <2>2. finish(FALSE) /\ job # Nil /\ job \notin dirty /\ UNCHANGED <<latest, signer>>
    BY <1>10, ProcessWorks, ZenonT(60) DEF FreshInv
  <2>3. queue' = queue /\ job' = Nil /\ UNCHANGED <<adding, lastAttested>>
    BY <1>10, <2>2, ZenonT(60) DEF finish, done, reconcilerVars
  <2>4. Newest(d)
    BY <1>2, <2>3, ZenonT(60)
  <2>5. Nil \notin Attestation
    BY PublisherV1Assumption, ZenonT(60)
  <2>6. ASSUME \/ job.dep # d /\ LastSent(d, lastAttested[d])
               \/ job.dep = d /\ job.hash = lastAttested[d]
        PROVE  LastSent(d, lastAttested[d])'
    <3>1. PICK h : h = lastAttested[d]
      OBVIOUS
    <3>2. LastSent(d, h)'
      BY <2>1, <2>2, <2>5, <2>6, <3>1, LastSentSend, ZenonT(60) DEF IsOurs
    <3> QED
      BY <2>3, <3>1, <3>2, ZenonT(60)
  <2> QED
    BY <2>2, <2>3, <2>4, <2>6, ZenonT(60) DEF Newest, LastOf, NoneOf
<1>11. CASE Mine /\ UNCHANGED reconcilerVars
  <2>1. UNCHANGED <<queue, job, signer, adding, lastAttested>>
    BY <1>11, ZenonT(60) DEF Mine, queueVars, workerVars, signerVars, reconcilerVars
  <2>2. ASSUME LastSent(d, lastAttested[d]) PROVE LastSent(d, lastAttested[d])'
    <3>1. PICK h : h = lastAttested[d]
      OBVIOUS
    <3>2. LastSent(d, h)'
      BY <1>11, <2>2, <3>1, LastSentMine, ZenonT(60)
    <3> QED
      BY <2>1, <3>1, <3>2, ZenonT(60)
  <2> QED
    BY <1>2, <2>1, <2>2, ZenonT(60) DEF Newest, LastOf, NoneOf
<1>12. CASE SignDigest /\ UNCHANGED reconcilerVars
  BY <1>4, <1>12, SignDigestWorks, ZenonT(60) DEF reconcilerVars
<1>13. ~ Ripen
  BY ZenonT(60) DEF Ripen, ripen, FreshInv
<1> QED
  BY <1>4, <1>5, <1>6, <1>7, <1>8, <1>9, <1>10, <1>11, <1>12, <1>13, ZenonT(60)
     DEF Next, vars, Apply, Observe,
     Status, Delete, Becomes, Repoint, publisherVars, queueVars, workerVars, chainVars, signerVars,
     clusterVars, reconcilerVars

\* What the registry says of a Deployment that stays converged while the
\* operator has nothing to do.
LEMMA RestIsNewest ==
  ASSUME TypeOK, QueueInv, FreshInv, SeenInv, NewestInv, AtRest,
         NEW d \in Deployments, live[d].exists, rolloutConverged(d)
  PROVE  lastAttested[d] = live[d].spec /\ IsOurs(latest[d], live[d].spec)
<1>1. lastAttested[d] = live[d].spec /\ live[d].spec # Nil
  BY KmsAssumption, ZenonT(60) DEF AtRest, SeenInv, TypeOK
<1>2. Newest(d)
  BY <1>1, ZenonT(60) DEF NewestInv
<1>3. adding = Nil /\ job = Nil /\ \A i : i \notin 1..Len(queue)
  BY DEF AtRest, QueueInv
<1>4. \A i : i \notin 1..Len(mempool)
  BY SMTT(30) DEF AtRest
<1>5. Nil # [dep |-> d, hash |-> lastAttested[d]]
  BY <1>1, PublisherV1Assumption DEF TypeOK, Jobs
<1> QED
  BY <1>1, <1>2, <1>3, <1>4, <1>5, ZenonT(60) DEF Newest, LastSent

LEMMA OrderlyInit == Init => QueueInv /\ AttestedInv /\ SignerSound /\ SeenInv /\ FreshInv /\ NewestInv
  BY DEF Init, PublisherInit, QueueInit, QueueInv, AttestedInv, SignerSound, SeenInv, FreshInv, NewestInv

\* When all work is done, the record of a converged Deployment is its config,
\* for a Deployment that only moves forward, if no send fails, none is lost and
\* nothing is deleted, however often the operator is restarted or its alias
\* moved.  A failed send, a rollback, or a deletion and recreation lets an
\* older job be sent after a newer one.
THEOREM RestIsLiveThm ==
  ASSUME ForwardOnly, Undisturbed
  PROVE  Spec => []RestIsLive
<1>1. TypeOK /\ QueueInv /\ FreshInv /\ SeenInv /\ NewestInv => RestIsLive
  BY RestIsNewest DEF RestIsLive, IsOurs
<1> QED
  BY <1>1, OrderlyInit, ConvergedInit, ConvergedNext, RestTypedInit, RestTypedNext, TypeFromInv,
     QueueInvNext, AttestedInvNext, SignerSoundNext, SeenNext, FreshNext, NewestNext, PTL DEF Spec

-----------------------------------------------------------------------------
(***************************************************************************)
(* PassHasEvidence.  The invariant adds to that of the operator that the   *)
(* registry's records are in its history, and what the verifier holds of   *)
(* them.                                                                   *)
(***************************************************************************)

\* The contract has held this record.
Logged(att) == \E i \in 1..Len(events) : events[i] = att

LatestLogged ==
  /\ latest \in [Deployments -> Attestation \cup {Nil}]
  /\ \A d \in Deployments : latest[d] # Nil => Logged(latest[d]) /\ latest[d].dep = d

\* The record the verifier has read is in the history, and passed the checks
\* that come before pc.
VerifierLogged ==
  /\ verifier \in VerifierState
  /\ verifier.pc = "latest" => verifier.dep \in Deployments
  /\ verifier.pc \in {"key", "PASS"} =>
       /\ Logged(verifier.att)
       /\ verifier.att.dep = verifier.dep
       /\ verifier.att.hash = verifier.hash
  /\ verifier.pc = "PASS" =>
       /\ verifier.att.fingerprint = verifier.pub
       /\ verifier.att.sig = <<verifier.pub, verifier.hash>>

EvidenceInv == ConvergedInv /\ LatestLogged /\ VerifierLogged

LEMMA EvidenceInit == VerifierInit => EvidenceInv
<1> SUFFICES ASSUME VerifierInit PROVE EvidenceInv
  OBVIOUS
<1>1. ConvergedInv
  BY ConvergedInit, ZenonT(60) DEF VerifierInit
<1>2. LatestLogged
  BY DEF VerifierInit, Init, PublisherInit, LatestLogged
<1>3. VerifierLogged
  BY ZenonT(60) DEF VerifierInit, Stopped, VerifierState, VerifierLogged
<1> QED
  BY <1>1, <1>2, <1>3, ZenonT(60) DEF EvidenceInv

\* Only Mine touches the records and their history.
LEMMA ChainStep ==
  ASSUME [Next]_vars
  PROVE  \/ UNCHANGED <<latest, events>>
         \/ mempool # << >> /\ publish(Head(mempool))
<1>1. CASE UNCHANGED vars
  BY <1>1, ZenonT(60) DEF vars, publisherVars, chainVars
<1>2. ASSUME NEW d \in Deployments,
             \/ \E h \in Hashes : Apply(d, h)
             \/ \E b \in BOOLEAN : Observe(d, b) \/ Status(d, b)
             \/ Delete(d)
             \/ Reconcile(d)
      PROVE  UNCHANGED <<latest, events>>
  BY <1>2, ZenonT(60) DEF Apply, Observe, Status, Delete, Reconcile, Becomes, publisherVars, chainVars
<1>3. CASE Enqueue \/ Start \/ Crash
  BY <1>3, ZenonT(60) DEF Enqueue, Start, Crash, chainVars
<1>4. CASE Get \/ SignDigest \/ Process \/ Ripen \/ Repoint
  BY <1>4, ZenonT(60) DEF Get, SignDigest, Process, Ripen, Repoint, chainVars
<1>5. CASE Mine
  BY <1>5, ZenonT(60) DEF Mine
<1> QED
  BY <1>1, <1>2, <1>3, <1>4, <1>5, ZenonT(60) DEF Next

\* The operator's steps keep the history, and add the records they write.
LEMMA LoggedNext ==
  ASSUME ConvergedInv, LatestLogged, [Next]_vars
  PROVE  LatestLogged' /\ \A att : Logged(att) => Logged(att)'
<1>1. CASE UNCHANGED <<latest, events>>
  BY <1>1 DEF LatestLogged, Logged
<1>2. CASE mempool # << >> /\ publish(Head(mempool))
  <2>1. PICK new \in Attestation : new = Head(mempool)
    BY <1>2, HeadTailProperties, ZenonT(60) DEF ConvergedInv, ChainGood, Good
  <2>2. new.dep \in Deployments
    BY DEF Attestation
  <2>3. latest' = [latest EXCEPT ![new.dep] = new] /\ events' = Append(events, new)
    BY <1>2, <2>1, ZenonT(60) DEF publish
  <2>4. events \in Seq(Good)
    BY DEF ConvergedInv, ChainGood
  <2>5. /\ Len(events') = Len(events) + 1
        /\ events'[Len(events) + 1] = new
        /\ \A i \in 1..Len(events) : events'[i] = events[i]
        /\ Len(events) \in Nat
    BY <2>3, <2>4
  <2>6. ASSUME NEW att, Logged(att) PROVE Logged(att)'
    <3>1. PICK i \in 1..Len(events) : events[i] = att
      BY <2>6, ZenonT(60) DEF Logged
    <3>2. i \in 1..Len(events') /\ events'[i] = att
      BY <2>5, <3>1
    <3> QED
      BY <3>2, ZenonT(60) DEF Logged
  <2>7. Logged(new)'
    <3>1. Len(events) + 1 \in 1..Len(events')
      BY <2>5
    <3> QED
      BY <2>5, <3>1, ZenonT(60) DEF Logged
  <2>8. LatestLogged'
    BY <2>2, <2>3, <2>6, <2>7, ZenonT(60) DEF LatestLogged
  <2> QED
    BY <2>6, <2>8, ZenonT(60)
<1> QED
  BY <1>1, <1>2, ChainStep, ZenonT(60)

\* The verifier's own steps.
LEMMA RunVerifyLogged ==
  ASSUME EvidenceInv, runVerify, UNCHANGED vars
  PROVE  VerifierLogged'
<1> USE DEF EvidenceInv
<1>1. UNCHANGED <<events, latest>>
  BY DEF vars, publisherVars, chainVars
<1>2. \A att : Logged(att)' = Logged(att)
  BY <1>1, ZenonT(60) DEF Logged
<1>3. CASE Error
  BY <1>3 DEF Error, Stopped, VerifierState, VerifierLogged
<1>4. ASSUME NEW pub \in KmsKeys \cup {Nil}, Verdict("FAIL", pub)
      PROVE  VerifierLogged'
  BY <1>4, ZenonT(60) DEF Verdict, VerifierState, VerifierLogged
<1>5. ASSUME NEW d \in Deployments, NEW file \in PublicKeys, getDeployment(d, file)
      PROVE  VerifierLogged'
  <2>1. live[d].spec \in Hashes \cup {Nil} /\ file \in KmsKeys \cup {Nil}
    BY VerifierAssumption, ZenonT(60) DEF ConvergedInv, LiveRecorded, Deployment
  <2>2. Settled(d, file) \in BOOLEAN
    BY ZenonT(60) DEF Settled
  <2> QED
    BY <1>3, <1>5, <2>1, <2>2 DEF getDeployment, VerifierState, VerifierLogged
<1>6. CASE readLatest
  <2>1. verifier.pc = "latest" /\ verifier.dep \in Deployments
    BY <1>6, ZenonT(60) DEF readLatest, VerifierLogged
  <2>2. ASSUME latest[verifier.dep] # Nil, latest[verifier.dep].hash = verifier.hash,
               verifier' = [verifier EXCEPT !.pc = "key", !.att = latest[verifier.dep]]
        PROVE  VerifierLogged'
    <3>1. latest[verifier.dep] \in Attestation /\ Logged(latest[verifier.dep])
          /\ latest[verifier.dep].dep = verifier.dep
      BY <2>1, <2>2, ZenonT(60) DEF LatestLogged
    <3>2. verifier' \in VerifierState
      BY <2>2, <3>1, ZenonT(60) DEF VerifierLogged, VerifierState
    <3>3. /\ verifier'.pc = "key" /\ verifier'.att = latest[verifier.dep]
          /\ verifier'.dep = verifier.dep /\ verifier'.hash = verifier.hash
      BY <2>2, ZenonT(60) DEF VerifierLogged, VerifierState
    <3> QED
      BY <1>2, <2>2, <3>1, <3>2, <3>3, ZenonT(60) DEF VerifierLogged
  <2> QED
    BY <1>3, <1>4, <1>6, <2>2, ZenonT(60) DEF readLatest, LatestAttestation
<1>7. CASE checkSignature
  <2> DEFINE pub == loadPublicKey
  <2>1. pub \in KmsKeys \cup {Nil}
    BY ZenonT(60) DEF loadPublicKey, newWithClient, resolve, ConvergedInv, SignerTypeOK, VerifierLogged, VerifierState
  <2> HIDE DEF pub
  <2>2. ASSUME pub = verifier.att.fingerprint, verifier.att.sig = <<pub, verifier.hash>>,
               verifier.pc = "key", Verdict("PASS", pub)
        PROVE  VerifierLogged'
    <3>1. verifier' \in VerifierState
      BY <2>1, <2>2, ZenonT(60) DEF Verdict, VerifierLogged, VerifierState
    <3>2. /\ verifier'.pc = "PASS" /\ verifier'.pub = pub /\ verifier'.att = verifier.att
          /\ verifier'.dep = verifier.dep /\ verifier'.hash = verifier.hash
      BY <2>2 DEF Verdict, VerifierLogged, VerifierState
    <3> QED
      BY <1>2, <2>2, <3>1, <3>2, ZenonT(60) DEF VerifierLogged
  <2> QED
    BY <1>3, <1>4, <1>7, <2>1, <2>2, ZenonT(60) DEF checkSignature, VerifyConfigHashSignature, pub
<1> QED
  BY <1>5, <1>6, <1>7, ZenonT(60) DEF runVerify

LEMMA EvidenceNext == EvidenceInv /\ [VerifierNext]_<<vars, verifier>> => EvidenceInv'
<1> SUFFICES ASSUME EvidenceInv, [VerifierNext]_<<vars, verifier>> PROVE EvidenceInv'
  OBVIOUS
<1>1. [Next]_vars
  BY DEF VerifierNext
<1>2. ConvergedInv'
  BY <1>1, ConvergedNext, ZenonT(60) DEF EvidenceInv
<1>3. LatestLogged' /\ \A att : Logged(att) => Logged(att)'
  BY <1>1, LoggedNext, ZenonT(60) DEF EvidenceInv
<1>4. VerifierLogged'
  <2>1. CASE runVerify /\ UNCHANGED vars
    BY <2>1, RunVerifyLogged, ZenonT(60)
  <2>2. CASE UNCHANGED verifier
    BY <1>3, <2>2, ZenonT(60) DEF EvidenceInv, VerifierLogged
  <2>3. CASE verifier' = [verifier EXCEPT !.steady = @ /\ live' = live /\ alias' = alias]
    <3>1. verifier' \in VerifierState
      BY <2>3, ZenonT(60) DEF EvidenceInv, VerifierLogged, VerifierState
    <3>2. /\ verifier'.pc = verifier.pc /\ verifier'.dep = verifier.dep
          /\ verifier'.hash = verifier.hash /\ verifier'.att = verifier.att
          /\ verifier'.pub = verifier.pub
      BY <2>3 DEF EvidenceInv, VerifierLogged, VerifierState
    <3> QED
      BY <1>3, <3>1, <3>2, ZenonT(60) DEF EvidenceInv, VerifierLogged
  <2> QED
    BY <2>1, <2>2, <2>3, ZenonT(60) DEF VerifierNext
<1> QED
  BY <1>2, <1>3, <1>4, ZenonT(60) DEF EvidenceInv

\* A PASS of pod-verify is about a config that had converged and that was
\* recorded, signed by the key the verifier was given, whatever changed between
\* its three reads.
THEOREM PassHasEvidenceThm == VerifierSpec => []PassHasEvidence
<1>1. EvidenceInv => PassHasEvidence
  <2> SUFFICES ASSUME EvidenceInv, verifier.pc = "PASS" PROVE PassHasEvidence
    BY DEF PassHasEvidence
  <2>1. PICK i \in 1..Len(events) : events[i] = verifier.att
    BY DEF EvidenceInv, VerifierLogged, Logged
  <2>2. events[i] \in Good
    BY SMTT(30) DEF EvidenceInv, ConvergedInv, ChainGood
  <2>3. jobOf(events[i]) = [dep |-> verifier.dep, hash |-> verifier.hash]
    BY <2>1 DEF EvidenceInv, VerifierLogged, jobOf
  <2>4. /\ events[i].sig = <<verifier.pub, verifier.hash>>
        /\ events[i].fingerprint = verifier.pub
    BY <2>1, ZenonT(60) DEF EvidenceInv, VerifierLogged
  <2> QED
    BY <2>2, <2>3, <2>4, ZenonT(60) DEF Good, PassHasEvidence
<1> QED
  BY <1>1, EvidenceInit, EvidenceNext, PTL DEF VerifierSpec

-----------------------------------------------------------------------------
(***************************************************************************)
(* SteadyPasses.  While the cluster and the alias stay as they are, what   *)
(* the operator has under way for a settled Deployment, also after a       *)
(* restart, is the record the registry already has.                        *)
(***************************************************************************)

\* att is what a verifier expects of a record of hash h.
Fits(att, h) == att # Nil /\ att.hash = h /\ att.fingerprint = alias

\* All that the operator holds of d, has sent and has recorded is h, and it
\* signs with the key the alias names.
Kept(d, h) ==
  /\ suitable(KeyInfo[alias])
  /\ live[d].spec = h
  /\ signer # Nil => signer.pub = alias
  /\ Fits(latest[d], h)
  /\ \A i \in 1..Len(mempool) : mempool[i].dep = d => Fits(mempool[i], h)
  /\ \A j \in dirty \cup {job, adding} : j # Nil /\ j.dep = d => j.hash = h

SteadyInv ==
  verifier.steady =>
    /\ verifier.pc # "FAIL"
    /\ verifier.pc \in {"latest", "key"} =>
         verifier.file \in {alias, Nil} /\ Kept(verifier.dep, verifier.hash)
    /\ verifier.pc = "key" => verifier.att.fingerprint = alias

\* The operator's steps, as long as neither the cluster nor the alias changes.
LEMMA KeptNext ==
  ASSUME Undisturbed, ConvergedInv, TypeOK, SignerSound, QueueInv, SeenInv, FreshInv, [Next]_vars,
         UNCHANGED <<live, alias>>, NEW d \in Deployments, NEW h, Kept(d, h)
  PROVE  Kept(d, h)'
<1>1. /\ queue \in Seq(Jobs) /\ mempool \in Seq(Attestation) /\ Nil \notin Jobs \cup Attestation
      /\ latest \in [Deployments -> Attestation \cup {Nil}]
  BY PublisherV1Assumption, ZenonT(60) DEF TypeOK, PublisherTypeOK, QueueTypeOK
<1>2. CASE UNCHANGED <<signer, latest, mempool, dirty, job, adding>>
  BY <1>2, ZenonT(60) DEF Kept, Fits
<1>3. ASSUME NEW e \in Deployments, Reconcile(e) PROVE Kept(d, h)'
  <2>1. UNCHANGED <<signer, latest, mempool, dirty, job>>
    BY <1>3, ReconcileMoves, ZenonT(60)
  <2>2. CASE UNCHANGED adding
    BY <1>2, <2>1, <2>2, ZenonT(60)
  <2>3. CASE adding' = [dep |-> e, hash |-> live[e].spec]
    BY <2>1, <2>3, SMTT(30) DEF Kept, Fits
  <2> QED
    BY <1>3, <2>2, <2>3, ReconcileMoves, ZenonT(60)
<1>4. CASE Enqueue
  BY <1>4, ZenonT(60) DEF Enqueue, add, Kept, Fits, workerVars, chainVars, signerVars
<1>5. CASE Crash
  BY <1>5, ZenonT(60) DEF Crash, Kept, Fits, chainVars
<1>6. CASE Start
  BY <1>6, KmsAssumption, ZenonT(60) DEF Start, newWithClient, resolve, Kept, Fits, queueVars,
     workerVars, chainVars
<1>7. CASE Get /\ UNCHANGED reconcilerVars
  <2>1. PICK i \in Jobs : get(i) /\ job' = i
    BY <1>7 DEF Get
  <2>2. i = queue[1] /\ 1 \in 1..Len(queue)
    BY <1>1, <2>1 DEF get
  <2>3. i \in dirty
    BY <2>2 DEF QueueInv
  <2> QED
    BY <1>7, <2>1, <2>3, ZenonT(60) DEF Get, get, Kept, Fits, reconcilerVars, chainVars, signerVars
<1>8. CASE SignDigest /\ UNCHANGED reconcilerVars
  BY <1>2, <1>8, SignDigestWorks, SMTT(30) DEF reconcilerVars
<1>9. CASE Process /\ UNCHANGED reconcilerVars
  <2>1. PICK att \in Attestation :
          /\ mempool' = Append(mempool, att)
          /\ att.dep = job.dep /\ att.hash = job.hash /\ att.fingerprint = signer.pub
    BY <1>9, ProcessWorks, ZenonT(60)
  <2>2. /\ finish(FALSE) /\ job # Nil /\ signer # Nil /\ UNCHANGED <<latest, signer, adding>>
    BY <1>9, ProcessWorks, ZenonT(60) DEF reconcilerVars, ConvergedInv, HandsConverged
  <2>3. dirty' = dirty /\ job' = Nil
    BY <2>2, ZenonT(60) DEF finish, done
  <2>4. att.dep = d => Fits(att, h)
    BY <1>1, <2>1, <2>2, ZenonT(60) DEF Kept, Fits
  <2>5. \A i \in 1..Len(mempool') : mempool'[i] = att \/ (i \in 1..Len(mempool) /\ mempool'[i] = mempool[i])
    BY <1>1, <2>1
  <2>6. \A i \in 1..Len(mempool') : mempool'[i].dep = d => Fits(mempool'[i], h)
    BY <2>4, <2>5, ZenonT(60) DEF Kept
  <2> QED
    BY <2>2, <2>3, <2>6, ZenonT(60) DEF Kept, Fits
<1>10. CASE Mine /\ UNCHANGED reconcilerVars
  <2>1. /\ mempool # << >> /\ mempool' = Tail(mempool)
        /\ latest' = [latest EXCEPT ![Head(mempool).dep] = Head(mempool)] \/ UNCHANGED latest
        /\ UNCHANGED <<signer, dirty, job, adding>>
    BY <1>10, ZenonT(60) DEF Mine, publish, reconcilerVars, queueVars, workerVars, signerVars
  <2>2. 1 \in 1..Len(mempool) /\ Head(mempool) = mempool[1]
    BY <1>1, <2>1, SMTT(30)
  <2>3. Fits(latest'[d], h)
    BY <1>1, <2>1, <2>2, ZenonT(60) DEF Kept
  <2>4. \A i \in 1..Len(mempool') : i + 1 \in 1..Len(mempool) /\ mempool'[i] = mempool[i + 1]
    BY <1>1, <2>1, SMTT(30)
  <2>5. \A i \in 1..Len(mempool') : mempool'[i].dep = d => Fits(mempool'[i], h)
    BY <2>4, ZenonT(60) DEF Kept
  <2> QED
    BY <2>1, <2>3, <2>5, ZenonT(60) DEF Kept, Fits
<1>11. ~ Ripen
  BY ZenonT(60) DEF Ripen, ripen, FreshInv
<1> QED
  BY <1>2, <1>3, <1>4, <1>5, <1>6, <1>7, <1>8, <1>9, <1>10, <1>11, ZenonT(60)
     DEF Next, vars, Apply, Observe,
     Status, Delete, Becomes, Repoint, publisherVars, queueVars, workerVars, chainVars, signerVars,
     clusterVars, reconcilerVars

\* Where the operator is at rest, the verifier starts from what it expects.
LEMMA KeptAtRest ==
  ASSUME ConvergedInv, TypeOK, SignerSound, QueueInv, SeenInv, FreshInv, NewestInv,
         NEW d \in Deployments, NEW file, live[d].exists, Settled(d, file)
  PROVE  Kept(d, live[d].spec) /\ file \in {alias, Nil}
<1>1. IsOurs(latest[d], live[d].spec)
  BY RestIsNewest, ZenonT(60) DEF Settled
<1>2. job = Nil /\ adding = Nil /\ dirty = {} /\ mempool = << >>
  BY ZenonT(60) DEF Settled, AtRest, QueueInv
<1>3. signer # Nil /\ signer.pub = alias /\ suitable(KeyInfo[alias])
  BY ZenonT(60) DEF Settled, AtRest, SignerSound
<1> QED
  BY <1>1, <1>2, <1>3, SMTT(30) DEF Kept, Fits, IsOurs, Settled

\* The verifier's steps: with what it expects before it, it can only pass or
\* end with an error.
LEMMA RunVerifySteady ==
  ASSUME EvidenceInv, TypeOK, SignerSound, QueueInv, SeenInv, FreshInv, NewestInv, SteadyInv,
         runVerify, UNCHANGED vars
  PROVE  SteadyInv'
<1>1. UNCHANGED <<alias, live, signer, latest, mempool, dirty, job, adding>>
  BY ZenonT(60) DEF vars, publisherVars, queueVars, workerVars, chainVars, signerVars, clusterVars,
     reconcilerVars
<1>2. \A d, h : Kept(d, h) => Kept(d, h)'
  BY <1>1 DEF Kept, Fits
<1>3. verifier \in VerifierState
  BY ZenonT(60) DEF EvidenceInv, VerifierLogged
<1>4. CASE Error
  BY <1>4, ZenonT(60) DEF Error, Stopped, SteadyInv
<1>5. ASSUME ~ verifier.steady,
             \/ \E result, pub : Verdict(result, pub)
             \/ \E att : verifier' = [verifier EXCEPT !.pc = "key", !.att = att]
      PROVE  SteadyInv'
  <2>1. verifier'.steady = verifier.steady
    BY <1>3, <1>5, ZenonT(60) DEF Verdict, VerifierState
  <2> QED
    BY <1>5, <2>1, ZenonT(60) DEF SteadyInv
<1>6. ASSUME NEW d \in Deployments, NEW file \in PublicKeys, getDeployment(d, file)
      PROVE  SteadyInv'
  <2>1. CASE /\ live[d].exists
             /\ verifier' = [pc |-> "latest", dep |-> d, file |-> file, hash |-> live[d].spec,
                             att |-> Nil, pub |-> Nil, steady |-> Settled(d, file)]
    <3>1. Settled(d, file) => Kept(d, live[d].spec) /\ file \in {alias, Nil}
      BY <2>1, KeptAtRest, ZenonT(60) DEF EvidenceInv
    <3>2. /\ verifier'.pc = "latest" /\ verifier'.dep = d /\ verifier'.file = file
          /\ verifier'.hash = live[d].spec /\ verifier'.steady = Settled(d, file)
      BY <2>1, ZenonT(60)
    <3> QED
      BY <1>1, <1>2, <3>1, <3>2, ZenonT(60) DEF SteadyInv
  <2> QED
    BY <1>4, <1>6, <2>1, ZenonT(60) DEF getDeployment
<1>7. CASE readLatest
  <2>1. verifier.pc = "latest"
    BY <1>7, ZenonT(60) DEF readLatest
  <2>2. CASE ~ verifier.steady
    BY <1>4, <1>7, <1>5, <2>2, ZenonT(60) DEF readLatest
  <2>3. CASE verifier.steady
    <3>1. Kept(verifier.dep, verifier.hash) /\ verifier.file \in {alias, Nil}
      BY <2>1, <2>3, ZenonT(60) DEF SteadyInv
    <3>2. Fits(latest[verifier.dep], verifier.hash)
      BY <3>1, ZenonT(60) DEF Kept
    <3>3. Error \/ verifier' = [verifier EXCEPT !.pc = "key", !.att = latest[verifier.dep]]
      BY <1>7, <3>2, ZenonT(60) DEF readLatest, LatestAttestation, Fits
    <3>4. CASE verifier' = [verifier EXCEPT !.pc = "key", !.att = latest[verifier.dep]]
      <4>1. /\ verifier'.pc = "key" /\ verifier'.att = latest[verifier.dep]
            /\ verifier'.dep = verifier.dep /\ verifier'.hash = verifier.hash
            /\ verifier'.file = verifier.file
        BY <1>3, <3>4, ZenonT(60) DEF VerifierState
      <4> QED
        BY <1>1, <1>2, <3>1, <3>2, <4>1, ZenonT(60) DEF SteadyInv, Fits
    <3> QED
      BY <1>4, <3>3, <3>4, ZenonT(60)
  <2> QED
    BY <1>3, <2>2, <2>3, ZenonT(60) DEF VerifierState
<1>8. CASE checkSignature
  <2>1. verifier.pc = "key"
    BY <1>8, ZenonT(60) DEF checkSignature
  <2>2. CASE ~ verifier.steady
    BY <1>4, <1>8, <1>5, <2>2, ZenonT(60) DEF checkSignature
  <2>3. CASE verifier.steady
    <3>1. /\ Kept(verifier.dep, verifier.hash) /\ verifier.file \in {alias, Nil}
          /\ verifier.att.fingerprint = alias
      BY <2>1, <2>3, ZenonT(60) DEF SteadyInv
    <3>2. loadPublicKey \in {alias, Nil}
      BY <3>1, ZenonT(60) DEF loadPublicKey, newWithClient, resolve, Kept
    <3>3. PICK i \in 1..Len(events) : events[i] = verifier.att
      BY <2>1, ZenonT(60) DEF EvidenceInv, VerifierLogged, Logged
    <3>4. events[i] \in Good
      BY SMTT(30) DEF EvidenceInv, ConvergedInv, ChainGood
    <3>5. verifier.att.hash = verifier.hash
      BY <2>1, ZenonT(60) DEF EvidenceInv, VerifierLogged
    <3>6. verifier.att.sig = <<alias, verifier.hash>>
      BY <3>1, <3>3, <3>4, <3>5, ZenonT(60) DEF Good, VerifyConfigHashSignature
    <3>7. Error \/ Verdict("PASS", alias)
      BY <1>8, <3>1, <3>2, <3>6, ZenonT(60) DEF checkSignature, VerifyConfigHashSignature
    <3>8. CASE Verdict("PASS", alias)
      <4>1. verifier'.pc = "PASS"
        BY <1>3, <3>8, ZenonT(60) DEF Verdict, VerifierState
      <4> QED
        BY <4>1, ZenonT(60) DEF SteadyInv
    <3> QED
      BY <1>4, <3>7, <3>8, ZenonT(60)
  <2> QED
    BY <1>3, <2>2, <2>3 DEF VerifierState
<1> QED
  BY <1>6, <1>7, <1>8, ZenonT(60) DEF runVerify

LEMMA SteadyNext ==
  ASSUME Undisturbed
  PROVE  EvidenceInv /\ TypeOK /\ SignerSound /\ QueueInv /\ SeenInv /\ FreshInv /\ NewestInv
           /\ SteadyInv /\ [VerifierNext]_<<vars, verifier>> => SteadyInv'
<1> SUFFICES ASSUME EvidenceInv, TypeOK, SignerSound, QueueInv, SeenInv, FreshInv, NewestInv, SteadyInv,
                    [VerifierNext]_<<vars, verifier>>
             PROVE  SteadyInv'
  OBVIOUS
<1>1. CASE runVerify /\ UNCHANGED vars
  BY <1>1, RunVerifySteady, ZenonT(60)
<1>2. CASE /\ [Next]_vars
           /\ verifier' = [verifier EXCEPT !.steady = @ /\ live' = live /\ alias' = alias]
  <2>1. verifier \in VerifierState
    BY ZenonT(60) DEF EvidenceInv, VerifierLogged
  <2>2. /\ verifier'.pc = verifier.pc /\ verifier'.dep = verifier.dep
        /\ verifier'.hash = verifier.hash /\ verifier'.att = verifier.att
        /\ verifier'.file = verifier.file
    BY <1>2, <2>1, ZenonT(60) DEF VerifierState
  <2>3. verifier'.steady => verifier.steady /\ UNCHANGED <<live, alias>>
    BY <1>2, <2>1, ZenonT(60) DEF VerifierState
  <2>4. verifier.pc \in {"latest", "key"} => verifier.dep \in Deployments
    <3>1. verifier.pc = "key" => verifier.att \in Attestation /\ verifier.att.dep = verifier.dep
      BY DEF EvidenceInv, ConvergedInv, ChainGood, Good, VerifierLogged, Logged
    <3> QED
      BY <3>1, ZenonT(60) DEF EvidenceInv, VerifierLogged, Attestation
  <2>5. ASSUME verifier'.steady, verifier.pc \in {"latest", "key"}
        PROVE  Kept(verifier.dep, verifier.hash)'
    <3>1. PICK d \in Deployments : d = verifier.dep
      BY <2>4, <2>5, ZenonT(60)
    <3>2. PICK h : h = verifier.hash
      BY ZenonT(60)
    <3>3. Kept(d, h)
      BY <2>3, <2>5, <3>1, <3>2, ZenonT(60) DEF SteadyInv
    <3>4. Kept(d, h)'
      BY <1>2, <2>3, <2>5, <3>3, KeptNext, ZenonT(60) DEF EvidenceInv
    <3> QED
      BY <2>2, <3>1, <3>2, <3>4, ZenonT(60)
  <2> QED
    BY <2>2, <2>3, <2>5, ZenonT(60) DEF SteadyInv
<1>3. CASE UNCHANGED <<vars, verifier>>
  <2>1. UNCHANGED <<alias, live, signer, latest, mempool, dirty, job, adding, verifier>>
    BY <1>3 DEF vars, publisherVars, queueVars, workerVars, chainVars, signerVars, clusterVars,
       reconcilerVars
  <2> QED
    BY <2>1, ZenonT(60) DEF SteadyInv, Kept, Fits
<1> QED
  BY <1>1, <1>2, <1>3, ZenonT(60) DEF VerifierNext

\* A FAIL of pod-verify means that something changed: a converged Deployment of
\* an operator that was done and signs with the expected key gets no FAIL until
\* the cluster or the alias changes, even if the operator is restarted and
\* attests again between the verifier's reads.  The hypotheses are those under
\* which an operator that is done has recorded what is live.
THEOREM SteadyPassesThm ==
  ASSUME ForwardOnly, Undisturbed
  PROVE  VerifierSpec => []SteadyPasses
<1>1. SteadyInv => SteadyPasses
  BY ZenonT(60) DEF SteadyInv, SteadyPasses
<1>2. VerifierInit => Init /\ SteadyInv
  BY DEF VerifierInit, Stopped, SteadyInv
<1>3. [VerifierNext]_<<vars, verifier>> => [Next]_vars
  BY DEF VerifierNext
<1>4. EvidenceInv => ConvergedInv
  BY DEF EvidenceInv
<1> QED
  BY <1>1, <1>2, <1>3, <1>4, EvidenceInit, EvidenceNext, SteadyNext, OrderlyInit, RestTypedInit,
     RestTypedNext, TypeFromInv, QueueInvNext, AttestedInvNext, SignerSoundNext, SeenNext, FreshNext,
     NewestNext, PTL DEF VerifierSpec
=============================================================================
