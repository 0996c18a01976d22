------------------------ MODULE OperatorV1Duplicates ------------------------
(***************************************************************************)
(* How often a config is published, for every value of the constants: by   *)
(* the operator of OperatorV1 alone, and by two replicas of it that send   *)
(* to the same registry.  What was sent and what may still be sent is paid *)
(* for by the creations of the Deployment, the restarts and the sends      *)
(* whose answer was lost.                                                  *)
(***************************************************************************)
EXTENDS OperatorV1Proofs, TwoOperatorsV1, FiniteSetTheorems

\* How many of the records in s are of job j.
Count(s, j) == Cardinality({i \in 1..Len(s) : jobOf(s[i]) = j})

\* How often j was sent, and is recorded or may still be.
Sent(j) == Count(events, j) + Count(mempool, j)

LEMMA FiniteIndices ==
  ASSUME NEW n \in Nat, NEW T \in SUBSET (1..n)
  PROVE  IsFiniteSet(T) /\ Cardinality(T) \in Nat
<1>1. IsFiniteSet(1..n)
  BY FS_Interval
<1>2. IsFiniteSet(T)
  BY <1>1, FS_Subset, ZenonT(60)
<1> QED
  BY <1>2, FS_CardinalityType, ZenonT(60)

\* How many records of a job a sequence holds after one more is appended, and
\* after its first is taken.
LEMMA CountAppend ==
  ASSUME NEW s \in Seq(Attestation), NEW att \in Attestation, NEW j
  PROVE  /\ Count(s, j) \in Nat
         /\ Count(Append(s, att), j) = Count(s, j) + Bit(jobOf(att) = j)
<1> DEFINE before == {i \in 1..Len(s) : jobOf(s[i]) = j}
           after == {i \in 1..Len(Append(s, att)) : jobOf(Append(s, att)[i]) = j}
           n == Len(s) + 1
<1>1. Len(s) \in Nat /\ n \notin before
  OBVIOUS
<1>2. before \in SUBSET (1..Len(s))
  BY ZenonT(60)
<1>3. IsFiniteSet(before) /\ Cardinality(before) \in Nat
  BY <1>1, <1>2, FiniteIndices, ZenonT(60)
<1>4. /\ Len(Append(s, att)) = n /\ Append(s, att)[n] = att
      /\ \A i \in 1..Len(s) : Append(s, att)[i] = s[i]
  BY AppendProperties
<1>5. Count(s, j) = Cardinality(before) /\ Count(Append(s, att), j) = Cardinality(after)
  BY ZenonT(60) DEF Count
<1>6. CASE jobOf(att) = j
  <2>1. after = before \cup {n}
    BY <1>1, <1>4, <1>6
  <2>2. Cardinality(before \cup {n}) = Cardinality(before) + 1
    <3> HIDE DEF before, n
    <3> QED
      BY <1>1, <1>3, FS_AddElement, ZenonT(60)
  <2> HIDE DEF before, after, n
  <2> QED
    BY <1>3, <1>5, <1>6, <2>1, <2>2, ZenonT(60) DEF Bit
<1>7. CASE jobOf(att) # j
  <2>1. after = before
    BY <1>1, <1>4, <1>7
  <2> HIDE DEF before, after, n
  <2> QED
    BY <1>3, <1>5, <1>7, <2>1 DEF Bit
<1> QED
  BY <1>6, <1>7, ZenonT(60)

LEMMA CountTail ==
  ASSUME NEW s \in Seq(Attestation), s # << >>, NEW j
  PROVE  /\ Count(s, j) \in Nat
         /\ Count(Tail(s), j) \in Nat
         /\ Count(s, j) = Count(Tail(s), j) + Bit(jobOf(Head(s)) = j)
<1> DEFINE before == {i \in 1..Len(s) : jobOf(s[i]) = j}
           after == {i \in 1..Len(Tail(s)) : jobOf(Tail(s)[i]) = j}
           shift == [i \in after |-> i + 1]
<1>1. /\ Len(s) \in Nat \ {0} /\ Head(s) = s[1]
      /\ Len(Tail(s)) = Len(s) - 1
      /\ \A i \in 1..Len(Tail(s)) : Tail(s)[i] = s[i + 1]
  BY HeadTailProperties
<1>2. /\ IsFiniteSet(before) /\ Cardinality(before) \in Nat
      /\ IsFiniteSet(after) /\ Cardinality(after) \in Nat
  <2>1. Len(s) \in Nat /\ Len(Tail(s)) \in Nat
    BY <1>1
  <2>2. before \in SUBSET (1..Len(s)) /\ after \in SUBSET (1..Len(Tail(s)))
    BY ZenonT(60)
  <2> QED
    BY <2>1, <2>2, FiniteIndices, ZenonT(60)
<1>3. shift \in Bijection(after, before \ {1})
  <2>1. shift \in [after -> before \ {1}]
    BY <1>1
  <2>2. \A x, y \in after : shift[x] = shift[y] => x = y
    BY <1>1
  <2>3. \A y \in before \ {1} : \E x \in after : shift[x] = y
    <3> SUFFICES ASSUME NEW y \in before \ {1} PROVE \E x \in after : shift[x] = y
      BY ZenonT(60)
    <3>1. y - 1 \in after /\ (y - 1) + 1 = y
      BY <1>1
    <3> QED
      BY <3>1, ZenonT(60)
  <2> HIDE DEF before, after, shift
  <2> QED
    BY <2>1, <2>2, <2>3, ZenonT(60) DEF Bijection, Injection, IsInjective, Surjection
<1>4. Cardinality(after) = Cardinality(before \ {1})
  <2> HIDE DEF before, after, shift
  <2>1. ExistsBijection(after, before \ {1})
    BY <1>3, ZenonT(60) DEF ExistsBijection
  <2> QED
    BY <1>2, <2>1, FS_Bijection, ZenonT(60)
<1>5. Cardinality(before \ {1}) = IF 1 \in before THEN Cardinality(before) - 1 ELSE Cardinality(before)
  <2> HIDE DEF before
  <2> QED
    BY <1>2, FS_RemoveElement, ZenonT(60)
<1>6. 1 \in before <=> jobOf(Head(s)) = j
  BY <1>1
<1> QED
  <2> HIDE DEF before, after
  <2>1. Count(s, j) = Cardinality(before) /\ Count(Tail(s), j) = Cardinality(after)
    BY ZenonT(60) DEF Count, before, after
  <2> QED
    BY <1>2, <1>4, <1>5, <1>6, <2>1 DEF Bit

LEMMA CountType ==
  ASSUME NEW s \in Seq(Attestation), NEW j
  PROVE  Count(s, j) \in Nat
<1> DEFINE T == {i \in 1..Len(s) : jobOf(s[i]) = j}
<1>1. Len(s) \in Nat /\ T \in SUBSET (1..Len(s))
  OBVIOUS
<1>2. Cardinality(T) \in Nat
  <2> HIDE DEF T
  <2> QED
    BY <1>1, FiniteIndices, ZenonT(60)
<1> QED
  BY <1>2, ZenonT(60) DEF Count

\* After one is replaced.
LEMMA CountReplace ==
  ASSUME NEW s \in Seq(Attestation), NEW n \in 1..Len(s), NEW att \in Attestation, NEW j
  PROVE  /\ Count([s EXCEPT ![n] = att], j) \in Nat
         /\ Count([s EXCEPT ![n] = att], j) <= Count(s, j) + Bit(jobOf(att) = j)
<1> DEFINE t == [s EXCEPT ![n] = att]
           before == {i \in 1..Len(s) : jobOf(s[i]) = j}
           after == {i \in 1..Len(t) : jobOf(t[i]) = j}
<1>1. Len(s) \in Nat /\ Len(t) = Len(s) /\ t \in Seq(Attestation)
  OBVIOUS
<1>2. after \subseteq before \cup {n} /\ (jobOf(att) # j => after \subseteq before)
  BY <1>1
<1>3. IsFiniteSet(before) /\ Cardinality(before) \in Nat
  <2>1. before \in SUBSET (1..Len(s))
    BY ZenonT(60)
  <2> QED
    BY <1>1, <2>1, FiniteIndices, ZenonT(60)
<1>4. Count(s, j) = Cardinality(before) /\ Count(t, j) = Cardinality(after)
  BY ZenonT(60) DEF Count
<1>5. Count(t, j) \in Nat
  BY <1>1, CountType, ZenonT(60)
<1> HIDE DEF before, after, t
<1>6. IsFiniteSet(before \cup {n}) /\ Cardinality(before \cup {n}) <= Cardinality(before) + 1
  <2>1. /\ IsFiniteSet(before \cup {n})
        /\ Cardinality(before \cup {n})
             = IF n \in before THEN Cardinality(before) ELSE Cardinality(before) + 1
    BY <1>3, FS_AddElement, ZenonT(60)
  <2> QED
    BY <1>3, <2>1
<1>7. CASE jobOf(att) = j
  <2>1. Cardinality(after) <= Cardinality(before \cup {n}) /\ Cardinality(before \cup {n}) \in Nat
    BY <1>2, <1>6, FS_Subset, FS_CardinalityType, ZenonT(60)
  <2> QED
    BY <1>3, <1>4, <1>5, <1>6, <1>7, <2>1 DEF Bit, t
<1>8. CASE jobOf(att) # j
  <2>1. Cardinality(after) <= Cardinality(before)
    BY <1>2, <1>3, <1>8, FS_Subset, ZenonT(60)
  <2> QED
    BY <1>3, <1>4, <1>5, <1>8, <2>1 DEF Bit, t
<1> QED
  BY <1>7, <1>8, ZenonT(60)

\* Only a send adds to what was sent, and mining does not.
LEMMA SentMoves ==
  ASSUME mempool \in Seq(Attestation), events \in Seq(Attestation), NEW sender, NEW j \in Jobs,
         \/ UNCHANGED <<events, mempool>>
         \/ \E att \in Attestation : /\ jobOf(att) = sender
                                    /\ mempool' = Append(mempool, att)
                                    /\ UNCHANGED events
         \/ /\ mempool # << >>
            /\ mempool' = Tail(mempool)
            /\ events' = Append(events, Head(mempool)) \/ events' = events
  PROVE  /\ Sent(j) \in Nat /\ Sent(j)' \in Nat
         /\ Sent(j)' <= Sent(j) + Bit(sender = j /\ Len(mempool') > Len(mempool))
<1>1. Count(events, j) \in Nat /\ Count(mempool, j) \in Nat
  BY CountType, ZenonT(60)
<1>2. Count(mempool, j)' = Count(mempool', j) /\ Count(events, j)' = Count(events', j)
  BY ZenonT(60) DEF Count
<1>3. CASE UNCHANGED <<events, mempool>>
  <2>1. Sent(j)' = Sent(j)
    BY <1>3, ZenonT(60) DEF Sent, Count
  <2> HIDE DEF Count
  <2>2. Sent(j) \in Nat
    BY <1>1 DEF Sent
  <2> HIDE DEF Sent
  <2> QED
    BY <2>1, <2>2 DEF Bit
<1>4. ASSUME NEW att \in Attestation, jobOf(att) = sender, mempool' = Append(mempool, att),
             UNCHANGED events
      PROVE  /\ Sent(j) \in Nat /\ Sent(j)' \in Nat
             /\ Sent(j)' <= Sent(j) + Bit(sender = j /\ Len(mempool') > Len(mempool))
  <2>1. Count(mempool', j) = Count(mempool, j) + Bit(sender = j)
    <3>1. Count(Append(mempool, att), j) = Count(mempool, j) + Bit(jobOf(att) = j)
      BY CountAppend
    <3> QED
      BY <1>4, <3>1, ZenonT(60)
  <2>2. Count(events', j) = Count(events, j)
    BY <1>4, ZenonT(60)
  <2>3. Len(mempool') = Len(mempool) + 1 /\ Len(mempool) \in Nat
    BY <1>4, AppendProperties
  <2>4. Bit(sender = j /\ Len(mempool') > Len(mempool)) = Bit(sender = j)
    BY <2>3 DEF Bit
  <2> HIDE DEF Count
  <2> QED
    BY <1>1, <1>2, <2>1, <2>2, <2>4 DEF Sent, Bit
<1>5. CASE /\ mempool # << >>
           /\ mempool' = Tail(mempool)
           /\ events' = Append(events, Head(mempool)) \/ events' = events
  <2>1. Head(mempool) \in Attestation
    BY <1>5, HeadTailProperties, ZenonT(60)
  <2>2. /\ Count(mempool', j) \in Nat
        /\ Count(mempool, j) = Count(mempool', j) + Bit(jobOf(Head(mempool)) = j)
    BY <1>5, CountTail, ZenonT(60)
  <2>3. \/ Count(events', j) = Count(events, j)
        \/ Count(events', j) = Count(events, j) + Bit(jobOf(Head(mempool)) = j)
    <3>1. Count(Append(events, Head(mempool)), j) = Count(events, j) + Bit(jobOf(Head(mempool)) = j)
      BY <2>1, CountAppend
    <3> QED
      BY <1>5, <3>1, ZenonT(60)
  <2> HIDE DEF Count
  <2> QED
    BY <1>1, <1>2, <2>2, <2>3 DEF Sent, Bit
<1> QED
  BY <1>3, <1>4, <1>5, ZenonT(60)

AccountInv == \A j \in Jobs : Sent(j) + Held(j) <= Budget(j)

LEMMA AccountNext ==
  ASSUME ForwardOnly
  PROVE  ConvergedInv /\ TypeOK /\ TypeOK' /\ QueueInv /\ AttestedInv /\ AccountInv /\ [Next]_vars
           => AccountInv'
<1> SUFFICES ASSUME ConvergedInv, TypeOK, TypeOK', QueueInv, AttestedInv, AccountInv, [Next]_vars,
                    NEW j \in Jobs
             PROVE  Sent(j)' + Held(j)' <= Budget(j)'
  BY ZenonT(60) DEF AccountInv
<1>1. Sent(j) + Held(j) <= Budget(j)
  BY ZenonT(60) DEF AccountInv
<1>2. /\ Held(j) \in Nat /\ Held(j)' \in Nat /\ Budget(j) \in Nat /\ Budget(j)' \in Nat
      /\ Held(j)' + Bit(Sends(j)) + Budget(j) <= Held(j) + Budget(j)'
  BY HeldStep, ZenonT(60)
<1>3. Sent(j) \in Nat /\ Sent(j)' \in Nat /\ Sent(j)' <= Sent(j) + Bit(Sends(j))
  <2>1. Good \subseteq Attestation
    BY ZenonT(60) DEF Good
  <2> QED
    BY <2>1, ChainMoves, SentMoves, ZenonT(60) DEF Sends, TypeOK, PublisherTypeOK
<1>4. Bit(Sends(j)) \in Nat
  BY ZenonT(60) DEF Bit
<1> HIDE DEF Sent, Held, Budget, Sends, Bit
<1> QED
  BY <1>1, <1>2, <1>3, <1>4

\* A config is published at most once for each creation of its Deployment, for
\* each restart of the operator and for each send whose answer was lost, when
\* no spec comes back: neither flapping rollouts, repeated watch events nor
\* retries get past the dedup map and the queue.
THEOREM DuplicatesAccountedThm ==
  ASSUME ForwardOnly
  PROVE  Spec => []DuplicatesAccounted
<1>1. Init => QueueInv /\ AttestedInv
  BY DEF Init, PublisherInit, QueueInit, QueueInv, AttestedInv
<1>2. Init => AccountInv
  <2> SUFFICES ASSUME Init, NEW j \in Jobs
               PROVE  Sent(j) + Held(j) <= Budget(j)
    BY ZenonT(60) DEF AccountInv
  <2>1. j.dep \in Deployments /\ j # Nil
    BY PublisherV1Assumption, ZenonT(60) DEF Jobs
  <2>2. Count(events, j) = 0 /\ Count(mempool, j) = 0
    <3>1. {i \in 1..Len(events) : jobOf(events[i]) = j} = {}
          /\ {i \in 1..Len(mempool) : jobOf(mempool[i]) = j} = {}
      BY DEF Init, PublisherInit
    <3> QED
      BY <3>1, FS_EmptySet, ZenonT(60) DEF Count
  <2>3. Held(j) = 0
    BY <2>1 DEF Init, PublisherInit, QueueInit, Held, Bit, MayAttest, Gone
  <2>4. Budget(j) = 0
    BY <2>1 DEF Init, PublisherInit, Budget, Failures
  <2> QED
    BY <2>2, <2>3, <2>4 DEF Sent
<1>3. AccountInv /\ TypeOK => DuplicatesAccounted
  <2> SUFFICES ASSUME AccountInv, TypeOK, NEW j \in Jobs PROVE Count(events, j) <= Budget(j)
    BY ZenonT(60) DEF DuplicatesAccounted, Count, Budget
  <2>1. Count(events, j) \in Nat /\ Count(mempool, j) \in Nat
    BY CountType, ZenonT(60) DEF TypeOK, PublisherTypeOK
  <2>2. Held(j) \in Nat
    BY DEF Held, Bit
  <2>3. Budget(j) \in Nat
    BY DEF Budget, TypeOK, PublisherTypeOK, Failures, Jobs
  <2>4. Count(events, j) + Count(mempool, j) + Held(j) <= Budget(j)
    BY ZenonT(60) DEF AccountInv, Sent
  <2> HIDE DEF Count, Held, Budget
  <2> QED
    BY <2>1, <2>2, <2>3, <2>4
<1> QED
  BY <1>1, <1>2, <1>3, ConvergedInit, ConvergedNext, RestTypedInit, RestTypedNext, TypeFromInv,
     QueueInvNext, AttestedInvNext, AccountNext, PTL DEF Spec
-----------------------------------------------------------------------------
(***************************************************************************)
(* Two replicas.  What is proved of the operator holds of each, the second *)
(* taking the place of the first, and a step of one is a step aside for    *)
(* the other.                                                              *)
(***************************************************************************)

Other == INSTANCE OperatorV1Proofs WITH
  queue <- queue2, dirty <- dirty2, processing <- processing2, delayed <- delayed2,
  job <- job2, sig <- sig2, signer <- signer2,
  due <- due2, lastAttested <- lastAttested2, adding <- adding2

LEMMA OtherInit == Other!Init => Other!OperatorInv
  BY Other!OperatorInit, KmsAssumption, PublisherV1Assumption, OperatorV1Assumption
     DEF ForwardOnly, Other!ForwardOnly, Info, Other!Info, Jobs, Other!Jobs, Attestation, Other!Attestation,
     Signatures, Other!Signatures, Failures, Other!Failures

LEMMA OtherNext ==
  ASSUME ForwardOnly
  PROVE  Other!OperatorInv /\ [Other!Next]_(Other!vars) => Other!OperatorInv'
  BY Other!OperatorNext, KmsAssumption, PublisherV1Assumption, OperatorV1Assumption
     DEF ForwardOnly, Other!ForwardOnly, Info, Other!Info, Jobs, Other!Jobs, Attestation, Other!Attestation,
     Signatures, Other!Signatures, Failures, Other!Failures

LEMMA OtherAside == Other!OperatorInv /\ Other!Aside => Other!OperatorInv'
  BY Other!KeptAside, KmsAssumption, PublisherV1Assumption, OperatorV1Assumption
     DEF ForwardOnly, Other!ForwardOnly, Info, Other!Info, Jobs, Other!Jobs, Attestation, Other!Attestation,
     Signatures, Other!Signatures, Failures, Other!Failures

LEMMA OtherStep ==
  ASSUME ForwardOnly, Other!OperatorInv, [Other!Next]_(Other!vars), NEW j \in Jobs
  PROVE  /\ Other!Held(j) \in Nat /\ Other!Held(j)' \in Nat
         /\ Other!Held(j)' + Bit(job2 = j /\ Len(mempool') > Len(mempool)) + Budget(j)
              <= Other!Held(j) + Budget(j)'
         /\ \/ UNCHANGED <<events, mempool>>
            \/ \E att \in Attestation : /\ jobOf(att) = job2
                                       /\ mempool' = Append(mempool, att)
                                       /\ UNCHANGED events
            \/ /\ mempool # << >>
               /\ mempool' = Tail(mempool)
               /\ events' = Append(events, Head(mempool)) \/ events' = events
  BY Other!OperatorStep, KmsAssumption, PublisherV1Assumption, OperatorV1Assumption, ZenonT(60)
     DEF ForwardOnly, Other!ForwardOnly, Info, Other!Info, Jobs, Other!Jobs, Attestation, Other!Attestation,
     Signatures, Other!Signatures, Failures, Other!Failures, Other!Bit, Bit, Other!Budget, Budget,
     Other!Sends, Other!jobOf, jobOf

LEMMA OtherOutrunKept == Other!OperatorInv /\ Other!Outrun => Other!OperatorInv'
  BY Other!OutrunKept, KmsAssumption, PublisherV1Assumption, OperatorV1Assumption
     DEF ForwardOnly, Other!ForwardOnly, Info, Other!Info, Jobs, Other!Jobs, Attestation, Other!Attestation,
     Signatures, Other!Signatures, Failures, Other!Failures

LEMMA OtherOutrunStep ==
  ASSUME Other!OperatorInv, Other!Outrun, NEW j \in Jobs
  PROVE  /\ spent'["crash"] = spent["crash"] /\ spent'["timeout"] = spent["timeout"]
         /\ UNCHANGED events
         /\ \/ UNCHANGED mempool /\ Other!Held(j)' <= Other!Held(j)
            \/ \E n \in 1..Len(mempool), att \in Attestation :
                 /\ jobOf(att) = job2
                 /\ mempool' = [mempool EXCEPT ![n] = att]
                 /\ Other!Held(j)' + Bit(job2 = j) <= Other!Held(j)
  BY Other!OutrunStep, KmsAssumption, PublisherV1Assumption, OperatorV1Assumption, ZenonT(60)
     DEF ForwardOnly, Other!ForwardOnly, Info, Other!Info, Jobs, Other!Jobs, Attestation, Other!Attestation,
     Signatures, Other!Signatures, Failures, Other!Failures, Other!Bit, Bit, Other!jobOf, jobOf

\* The second replica's own steps.
LEMMA StepIsOther ==
  ASSUME StepOfSecond \/ Second!Crash
  PROVE  \/ Other!Next
         \/ Other!Outrun
         \/ UNCHANGED <<second, shared>>
<1>1. ASSUME NEW d \in Deployments, Second!Reconcile(d) PROVE Other!Reconcile(d)
  BY <1>1, ZenonT(60)
     DEF Second!Reconcile, Other!Reconcile, Second!Fail, Other!Fail, Second!forgetAttested,
         Other!forgetAttested, Second!recordAttested, Other!recordAttested, Second!alreadyAttested,
         Other!alreadyAttested, Second!rolloutConverged, Other!rolloutConverged, Second!reconcilerVars,
         Other!reconcilerVars, Second!clusterVars, Other!clusterVars, Second!publisherVars,
         Other!publisherVars, Second!queueVars, Other!queueVars, Second!workerVars, Other!workerVars,
         Second!chainVars, Other!chainVars, Second!signerVars, Other!signerVars
<1>2. ASSUME Second!Enqueue PROVE Other!Enqueue
  BY <1>2, ZenonT(60)
     DEF Second!Enqueue, Other!Enqueue, Second!add, Other!add, Second!workerVars, Other!workerVars,
         Second!chainVars, Other!chainVars, Second!signerVars, Other!signerVars, Second!clusterVars,
         Other!clusterVars
<1>3. ASSUME Second!Start PROVE Other!Start
  BY <1>3, ZenonT(60)
     DEF Second!Start, Other!Start, Second!newWithClient, Other!newWithClient, Second!resolve,
         Other!resolve, Second!suitable, Other!suitable, Second!signingAlgorithm,
         Other!signingAlgorithm, Second!queueVars, Other!queueVars, Second!workerVars,
         Other!workerVars, Second!chainVars, Other!chainVars, Second!clusterVars, Other!clusterVars
<1>4. ASSUME Second!Crash PROVE Other!Crash
  BY <1>4, ZenonT(60)
     DEF Second!Crash, Other!Crash, Second!Fail, Other!Fail, Second!newAttested, Other!newAttested,
         Second!chainVars, Other!chainVars, Second!clusterVars, Other!clusterVars
<1>5. ASSUME Second!Get PROVE Other!Get
  BY <1>5, ZenonT(60)
     DEF Second!Get, Other!Get, Second!get, Other!get, Second!Jobs, Other!Jobs, Second!chainVars,
         Other!chainVars, Second!signerVars, Other!signerVars
<1>6. ASSUME Second!SignDigest PROVE Other!SignDigest
  BY <1>6, ZenonT(60)
     DEF Second!SignDigest, Other!SignDigest, Second!Fail, Other!Fail, Second!finish, Other!finish,
         Second!done, Other!done, Second!SignOutput, Other!SignOutput, Second!Signatures,
         Other!Signatures, Second!kmsSign, Other!kmsSign, Second!resolve, Other!resolve,
         Second!signingAlgorithm, Other!signingAlgorithm, Second!acceptsOutput, Other!acceptsOutput,
         Second!VerifyConfigHashSignature, Other!VerifyConfigHashSignature, Second!queueVars,
         Other!queueVars, Second!chainVars, Other!chainVars, Second!signerVars, Other!signerVars
<1>7. ASSUME Second!Process PROVE Other!Process
  BY <1>7, ZenonT(60)
     DEF Second!Process, Other!Process, Second!Fail, Other!Fail, Second!finish, Other!finish,
         Second!done, Other!done, Second!PublishAttestation, Other!PublishAttestation,
         Second!signed, Other!signed, Second!signerVars, Other!signerVars
<1>8. ASSUME Second!Ripen PROVE Other!Ripen
  BY <1>8, ZenonT(60)
     DEF Second!Ripen, Other!Ripen, Second!ripen, Other!ripen, Second!Jobs, Other!Jobs,
         Second!workerVars, Other!workerVars, Second!chainVars, Other!chainVars, Second!signerVars,
         Other!signerVars
<1>9. UNCHANGED <<clusterVars, due2, lastAttested2, adding2>> =>
          UNCHANGED <<Other!clusterVars, Other!reconcilerVars>>
  BY ZenonT(60) DEF clusterVars, Other!clusterVars, Other!reconcilerVars
<1>10. ASSUME NEW n, Second!Contended(n) PROVE Other!Contended(n)
  BY <1>10, ZenonT(60)
     DEF Second!Contended, Other!Contended, Second!Fail, Other!Fail, Second!finish, Other!finish,
         Second!done, Other!done, Second!signed, Other!signed, Second!signerVars, Other!signerVars
<1>11. CASE Send2
  <2>1. UNCHANGED <<Other!clusterVars, Other!reconcilerVars>>
    BY <1>9, <1>11, ZenonT(60) DEF Send2
  <2>2. Second!Process \/ \E n : Second!Contended(n)
    BY <1>11, ZenonT(60) DEF Send2
  <2> QED
    BY <1>7, <1>10, <2>1, <2>2, ZenonT(60) DEF Other!Next, Other!Outrun
<1>12. CASE TakeNonce2
  BY <1>12, ZenonT(60) DEF TakeNonce2
<1> QED
  BY <1>1, <1>2, <1>3, <1>4, <1>5, <1>6, <1>8, <1>9, <1>11, <1>12, ZenonT(60) DEF StepOfSecond, Other!Next

\* A change of the cluster is a step for both.
LEMMA ClusterIsBoth == Cluster => Next /\ Other!Next /\ UNCHANGED <<mempool, events, spent>>
<1> SUFFICES ASSUME Cluster PROVE Next /\ Other!Next /\ UNCHANGED <<mempool, events, spent>>
  BY ZenonT(60)
<1>1. Next /\ UNCHANGED <<mempool, events, spent>>
  BY ZenonT(60) DEF Cluster, Next, Apply, Observe, Status, Delete, Becomes, publisherVars, chainVars
<1>2. ASSUME NEW d \in Deployments, NEW h \in Hashes, Second!Apply(d, h) PROVE Other!Apply(d, h)
  BY <1>2, ZenonT(60)
     DEF Second!Apply, Other!Apply, Second!Becomes, Other!Becomes, Second!publisherVars,
         Other!publisherVars, Second!queueVars, Other!queueVars, Second!workerVars, Other!workerVars,
         Second!chainVars, Other!chainVars, Second!signerVars, Other!signerVars
<1>3. ASSUME NEW d \in Deployments, NEW b \in BOOLEAN, Second!Observe(d, b) PROVE Other!Observe(d, b)
  BY <1>3, ZenonT(60)
     DEF Second!Observe, Other!Observe, Second!Becomes, Other!Becomes, Second!publisherVars,
         Other!publisherVars, Second!queueVars, Other!queueVars, Second!workerVars, Other!workerVars,
         Second!chainVars, Other!chainVars, Second!signerVars, Other!signerVars
<1>4. ASSUME NEW d \in Deployments, NEW b \in BOOLEAN, Second!Status(d, b) PROVE Other!Status(d, b)
  BY <1>4, ZenonT(60)
     DEF Second!Status, Other!Status, Second!Becomes, Other!Becomes, Second!publisherVars,
         Other!publisherVars, Second!queueVars, Other!queueVars, Second!workerVars, Other!workerVars,
         Second!chainVars, Other!chainVars, Second!signerVars, Other!signerVars
<1>5. ASSUME NEW d \in Deployments, Second!Delete(d) PROVE Other!Delete(d)
  BY <1>5, ZenonT(60)
     DEF Second!Delete, Other!Delete, Second!Gone, Other!Gone, Second!Becomes, Other!Becomes,
         Second!publisherVars, Other!publisherVars, Second!queueVars, Other!queueVars,
         Second!workerVars, Other!workerVars, Second!chainVars, Other!chainVars, Second!signerVars,
         Other!signerVars
<1> QED
  BY <1>1, <1>2, <1>3, <1>4, <1>5, ZenonT(60) DEF Cluster, Other!Next

\* Whose step it is.
LEMMA TwoMoves ==
  ASSUME [TwoNext]_twoVars
  PROVE  \/ Next /\ Other!Next /\ UNCHANGED <<mempool, events, spent>>
         \/ [Next]_vars /\ UNCHANGED <<second, clusterVars>>
         \/ Other!Next /\ UNCHANGED <<first, clusterVars>>
         \/ Outrun /\ UNCHANGED <<second, clusterVars>>
         \/ Other!Outrun /\ UNCHANGED <<first, clusterVars>>
<1>1. CASE Cluster
  BY <1>1, ClusterIsBoth, ZenonT(60)
<1>2. CASE Outside /\ UNCHANGED second
  BY <1>2, ZenonT(60) DEF Outside, Next
<1>3. CASE Send /\ UNCHANGED second
  <2>1. UNCHANGED <<clusterVars, reconcilerVars>> /\ (Process \/ \E n : Contended(n))
    BY <1>3, ZenonT(60) DEF Send
  <2> QED
    BY <1>3, <2>1, ZenonT(60) DEF Next, Outrun
<1>4. CASE TakeNonce /\ UNCHANGED second
  BY <1>4, ZenonT(60) DEF TakeNonce, vars
<1>5. CASE (StepOfFirst \/ Crash) /\ UNCHANGED second /\ ~ Send /\ ~ TakeNonce
  <2>1. Next
    BY <1>5, ZenonT(60) DEF StepOfFirst, Next
  <2>2. UNCHANGED clusterVars
    BY <1>5, ZenonT(60) DEF StepOfFirst, Reconcile, Enqueue, Start, Crash
  <2> QED
    BY <1>5, <2>1, <2>2, ZenonT(60)
<1>6. CASE (StepOfSecond \/ Second!Crash) /\ UNCHANGED first
  <2>1. UNCHANGED clusterVars
    BY <1>6, ZenonT(60)
       DEF StepOfSecond, Send2, TakeNonce2, shared, Second!Reconcile, Second!Enqueue, Second!Start,
       Second!Crash, Second!clusterVars, clusterVars
  <2>2. CASE UNCHANGED <<second, shared>>
    BY <1>6, <2>1, <2>2, ZenonT(60)
       DEF first, shared, vars, publisherVars, signerVars, chainVars
  <2> QED
    BY <1>6, <2>1, <2>2, StepIsOther, ZenonT(60)
<1>7. CASE UNCHANGED twoVars
  <2>1. UNCHANGED vars /\ UNCHANGED second
    BY <1>7, ZenonT(60) DEF twoVars
  <2>2. UNCHANGED clusterVars
    BY <2>1, ZenonT(60) DEF vars
  <2> QED
    BY <2>1, <2>2, ZenonT(60)
<1> QED
  BY <1>1, <1>2, <1>3, <1>4, <1>5, <1>6, <1>7, ZenonT(60) DEF TwoNext

LEMMA TwoOperatorsNext ==
  ASSUME ForwardOnly
  PROVE  OperatorInv /\ Other!OperatorInv /\ [TwoNext]_twoVars => OperatorInv' /\ Other!OperatorInv'
<1> SUFFICES ASSUME OperatorInv, Other!OperatorInv, [TwoNext]_twoVars
             PROVE  OperatorInv' /\ Other!OperatorInv'
  BY ZenonT(60)
<1>1. CASE Next /\ Other!Next
  BY <1>1, OperatorNext, OtherNext, ZenonT(60)
<1>2. Other!Good = Good
  BY ZenonT(60)
     DEF Good, Other!Good, Attestation, Other!Attestation, Signatures, Other!Signatures, jobOf, Other!jobOf,
     VerifyConfigHashSignature, Other!VerifyConfigHashSignature
<1>3. CASE ([Next]_vars \/ Outrun) /\ UNCHANGED <<second, clusterVars>>
  <2>1. OperatorInv'
    BY <1>3, OperatorNext, OutrunKept, ZenonT(60)
  <2>2. Good' = Good
    BY <1>3, ZenonT(60) DEF Good, clusterVars
  <2>3. Other!Aside
    <3>1. /\ UNCHANGED <<Other!queueVars, Other!workerVars, signer2, Other!clusterVars, Other!reconcilerVars>>
      BY <1>3, ZenonT(60) DEF second, clusterVars, Other!queueVars, Other!workerVars, Other!clusterVars,
         Other!reconcilerVars
    <3>2. /\ alias' \in KmsKeys /\ mempool' \in Seq(Other!Good) /\ events' \in Seq(Other!Good)
          /\ latest' \in [Deployments -> Attestation \cup {Nil}]
          /\ spent' \in [Failures -> Nat]
      BY <1>2, <2>1, <2>2, ZenonT(60) DEF OperatorInv, ConvergedInv, SignerTypeOK, ChainGood, RestTyped
    <3> QED
      BY <3>1, <3>2, ZenonT(60) DEF Other!Aside, Attestation, Other!Attestation, Signatures,
         Other!Signatures, Failures, Other!Failures
  <2> QED
    BY <2>1, <2>3, OtherAside, ZenonT(60)
<1>4. CASE (Other!Next \/ Other!Outrun) /\ UNCHANGED <<first, clusterVars>>
  <2>1. Other!OperatorInv'
    BY <1>4, OtherNext, OtherOutrunKept, ZenonT(60)
  <2>2. Good' = Good /\ Other!Good' = Good'
    BY <1>2, <1>4, ZenonT(60) DEF Good, Other!Good, clusterVars
  <2>3. Aside
    <3>1. UNCHANGED <<queueVars, workerVars, signer, clusterVars, reconcilerVars>>
      BY <1>4, ZenonT(60) DEF first
    <3>2. /\ alias' \in KmsKeys /\ mempool' \in Seq(Good) /\ events' \in Seq(Good)
          /\ latest' \in [Deployments -> Other!Attestation \cup {Nil}]
          /\ spent' \in [Other!Failures -> Nat]
      BY <2>1, <2>2, ZenonT(60)
         DEF Other!OperatorInv, Other!ConvergedInv, Other!SignerTypeOK, Other!ChainGood, Other!RestTyped
    <3> QED
      BY <3>1, <3>2, ZenonT(60) DEF Aside, Attestation, Other!Attestation, Signatures, Other!Signatures,
         Failures, Other!Failures
  <2> QED
    BY <2>1, <2>3, KeptAside, ZenonT(60)
<1> QED
  BY <1>1, <1>3, <1>4, TwoMoves, ZenonT(60)

\* Each replica may send a job once for each creation of its Deployment.
TwoAccountInv ==
  \A j \in Jobs : Sent(j) + Held(j) + Other!Held(j) <= Budget(j) + created[j.dep]

LEMMA TwoAccountNext ==
  ASSUME ForwardOnly
  PROVE  OperatorInv /\ Other!OperatorInv /\ TwoAccountInv /\ [TwoNext]_twoVars => TwoAccountInv'
<1> SUFFICES ASSUME OperatorInv, Other!OperatorInv, TwoAccountInv, [TwoNext]_twoVars,
                    NEW j \in Jobs
             PROVE  Sent(j)' + Held(j)' + Other!Held(j)' <= Budget(j)' + created'[j.dep]
  BY ZenonT(60) DEF TwoAccountInv
<1>1. Sent(j) + Held(j) + Other!Held(j) <= Budget(j) + created[j.dep]
  BY ZenonT(60) DEF TwoAccountInv
<1>2. OperatorInv' /\ Other!OperatorInv'
  BY TwoOperatorsNext, ZenonT(60)
<1>3. j.dep \in Deployments
  BY ZenonT(60) DEF Jobs
<1>4. /\ created[j.dep] \in Nat /\ spent["crash"] \in Nat /\ spent["timeout"] \in Nat
      /\ created'[j.dep] \in Nat /\ spent'["crash"] \in Nat /\ spent'["timeout"] \in Nat
  BY <1>2, <1>3, ZenonT(60) DEF OperatorInv, RestTyped, Failures
<1>5. mempool \in Seq(Attestation) /\ events \in Seq(Attestation)
  BY TypeFromInv, ZenonT(60) DEF OperatorInv, TypeOK, PublisherTypeOK
<1>6. /\ Held(j) \in Nat /\ Other!Held(j) \in Nat /\ Held(j)' \in Nat /\ Other!Held(j)' \in Nat
  BY DEF Held, Bit, Other!Held, Other!Bit
<1>7. CASE Next /\ Other!Next /\ UNCHANGED <<mempool, events, spent>>
  <2>1. /\ Held(j)' + Bit(Sends(j)) + Budget(j) <= Held(j) + Budget(j)'
        /\ Other!Held(j)' + Bit(job2 = j /\ Len(mempool') > Len(mempool)) + Budget(j)
              <= Other!Held(j) + Budget(j)'
    BY <1>7, OperatorStep, OtherStep, ZenonT(60)
  <2>2. Sent(j)' = Sent(j) /\ Sent(j) \in Nat
    <3>1. Sent(j)' = Sent(j)
      BY <1>7, ZenonT(60) DEF Sent, Count
    <3>2. Count(events, j) \in Nat /\ Count(mempool, j) \in Nat
      BY <1>5, CountType, ZenonT(60)
    <3> HIDE DEF Count
    <3>3. Sent(j) \in Nat
      BY <3>2 DEF Sent
    <3> QED
      BY <3>1, <3>3, ZenonT(60)
  <2>3. Bit(Sends(j)) \in Nat /\ Bit(job2 = j /\ Len(mempool') > Len(mempool)) \in Nat
    BY ZenonT(60) DEF Bit
  <2>4. Budget(j)' - Budget(j) = created'[j.dep] - created[j.dep] /\ Budget(j) \in Nat /\ Budget(j)' \in Nat
    BY <1>4, <1>7 DEF Budget
  <2> DEFINE n == Bit(Sends(j))
             m == Bit(job2 = j /\ Len(mempool') > Len(mempool))
  <2>5. /\ Held(j)' + n + Budget(j) <= Held(j) + Budget(j)'
        /\ Other!Held(j)' + m + Budget(j) <= Other!Held(j) + Budget(j)'
        /\ n \in Nat /\ m \in Nat
    BY <2>1, <2>3, ZenonT(60)
  <2> HIDE DEF Sent, Held, Other!Held, Budget, n, m
  <2> QED
    BY <1>1, <1>4, <1>6, <2>2, <2>4, <2>5
<1>8. CASE [Next]_vars /\ UNCHANGED <<second, clusterVars>>
  <2>1. /\ Budget(j) \in Nat /\ Budget(j)' \in Nat
        /\ Held(j)' + Bit(Sends(j)) + Budget(j) <= Held(j) + Budget(j)'
        /\ \/ UNCHANGED <<events, mempool>>
           \/ \E att \in Attestation : /\ jobOf(att) = job
                                      /\ mempool' = Append(mempool, att)
                                      /\ UNCHANGED events
           \/ /\ mempool # << >>
              /\ mempool' = Tail(mempool)
              /\ events' = Append(events, Head(mempool)) \/ events' = events
    BY <1>8, OperatorStep, ZenonT(60)
  <2>2. Sent(j) \in Nat /\ Sent(j)' \in Nat /\ Sent(j)' <= Sent(j) + Bit(Sends(j))
    <3> HIDE DEF Sent, Bit, Held, Budget
    <3> QED
      BY <1>5, <2>1, SentMoves, ZenonT(60) DEF Sends
  <2>3. Other!Held(j)' = Other!Held(j) /\ created'[j.dep] = created[j.dep]
    <3>1. UNCHANGED <<dirty2, processing2, delayed2, adding2, lastAttested2, live, created>>
      BY <1>8, ZenonT(60) DEF second, clusterVars
    <3> QED
      BY <3>1, ZenonT(60) DEF Other!Held, Other!MayAttest
  <2>4. Bit(Sends(j)) \in Nat
    BY ZenonT(60) DEF Bit
  <2> DEFINE n == Bit(Sends(j))
  <2>5. /\ Budget(j) \in Nat /\ Budget(j)' \in Nat /\ n \in Nat
        /\ Held(j)' + n + Budget(j) <= Held(j) + Budget(j)'
        /\ Sent(j) \in Nat /\ Sent(j)' \in Nat /\ Sent(j)' <= Sent(j) + n
    BY <2>1, <2>2, <2>4, ZenonT(60)
  <2> HIDE DEF Sent, Held, Other!Held, Budget, n
  <2> QED
    BY <1>1, <1>4, <1>6, <2>3, <2>5
<1>9. CASE Other!Next /\ UNCHANGED <<first, clusterVars>>
  <2> DEFINE Sends2 == job2 = j /\ Len(mempool') > Len(mempool)
  <2>1. /\ Other!Held(j)' + Bit(Sends2) + Budget(j) <= Other!Held(j) + Budget(j)'
        /\ \/ UNCHANGED <<events, mempool>>
           \/ \E att \in Attestation : /\ jobOf(att) = job2
                                      /\ mempool' = Append(mempool, att)
                                      /\ UNCHANGED events
           \/ /\ mempool # << >>
              /\ mempool' = Tail(mempool)
              /\ events' = Append(events, Head(mempool)) \/ events' = events
    BY <1>9, OtherStep, ZenonT(60)
  <2>2. Sent(j) \in Nat /\ Sent(j)' \in Nat /\ Sent(j)' <= Sent(j) + Bit(Sends2)
    <3> HIDE DEF Sent, Bit, Held, Budget
    <3> QED
      BY <1>5, <2>1, SentMoves, ZenonT(60)
  <2>3. Held(j)' = Held(j) /\ created'[j.dep] = created[j.dep]
    <3>1. UNCHANGED <<dirty, processing, delayed, adding, lastAttested, live, created>>
      BY <1>9, ZenonT(60) DEF first, queueVars, reconcilerVars, clusterVars
    <3> QED
      BY <3>1, ZenonT(60) DEF Held, MayAttest
  <2>4. Bit(Sends2) \in Nat
    BY ZenonT(60) DEF Bit
  <2>5. Budget(j) \in Nat /\ Budget(j)' \in Nat
    BY <1>4 DEF Budget
  <2> DEFINE n == Bit(Sends2)
  <2>6. /\ Budget(j) \in Nat /\ Budget(j)' \in Nat /\ n \in Nat
        /\ Other!Held(j)' + n + Budget(j) <= Other!Held(j) + Budget(j)'
        /\ Sent(j) \in Nat /\ Sent(j)' \in Nat /\ Sent(j)' <= Sent(j) + n
    BY <2>1, <2>2, <2>4, <2>5, ZenonT(60)
  <2> HIDE DEF Sent, Held, Other!Held, Budget, n
  <2> QED
    BY <1>1, <1>4, <1>6, <2>3, <2>6
\* A send whose nonce was used: it replaces a transaction, or is not sent.
<1>10. ASSUME NEW sender, UNCHANGED events,
              \E n \in 1..Len(mempool), att \in Attestation :
                jobOf(att) = sender /\ mempool' = [mempool EXCEPT ![n] = att]
       PROVE  Sent(j)' <= Sent(j) + Bit(sender = j)
  <2>1. PICK n \in 1..Len(mempool), att \in Attestation :
          jobOf(att) = sender /\ mempool' = [mempool EXCEPT ![n] = att]
    BY <1>10, ZenonT(60)
  <2>2. /\ Count(mempool', j) \in Nat /\ Count(mempool', j) <= Count(mempool, j) + Bit(sender = j)
    BY <1>5, <2>1, CountReplace, ZenonT(60)
  <2>3. Count(mempool, j) \in Nat /\ Count(events, j) \in Nat /\ Bit(sender = j) \in Nat
    BY <1>5, CountType, ZenonT(60) DEF Bit
  <2>4. Sent(j)' = Count(events, j) + Count(mempool', j)
    BY <1>10, ZenonT(60) DEF Sent, Count
  <2> HIDE DEF Count, Bit
  <2> QED
    BY <2>2, <2>3, <2>4 DEF Sent
<1>11. ASSUME UNCHANGED <<mempool, events>> PROVE Sent(j)' = Sent(j)
  BY <1>11, ZenonT(60) DEF Sent, Count
<1>12. Sent(j) \in Nat /\ Sent(j)' \in Nat
  <2>1. mempool' \in Seq(Attestation) /\ events' \in Seq(Attestation)
    BY <1>2, SeqMonotone DEF OperatorInv, ConvergedInv, ChainGood, Good
  <2>2. /\ Count(mempool, j) \in Nat /\ Count(events, j) \in Nat
        /\ Count(mempool', j) \in Nat /\ Count(events', j) \in Nat
    BY <1>5, <2>1, CountType, ZenonT(60)
  <2>3. Sent(j)' = Count(events', j) + Count(mempool', j)
    BY ZenonT(60) DEF Sent, Count
  <2> HIDE DEF Count
  <2> QED
    BY <2>2, <2>3 DEF Sent
<1>13. ASSUME spent'["crash"] = spent["crash"], spent'["timeout"] = spent["timeout"],
              UNCHANGED clusterVars
       PROVE  /\ Budget(j)' = Budget(j) /\ Budget(j) \in Nat
              /\ created'[j.dep] = created[j.dep]
  BY <1>4, <1>13 DEF Budget, clusterVars
<1>14. \A k : Bit(k = j) \in Nat
  BY ZenonT(60) DEF Bit
<1>15. CASE Outrun /\ UNCHANGED <<second, clusterVars>>
  <2>1. Other!Held(j)' = Other!Held(j)
    <3>1. UNCHANGED <<dirty2, processing2, delayed2, adding2, lastAttested2, live, created>>
      BY <1>15, ZenonT(60) DEF second, clusterVars
    <3> QED
      BY <3>1, ZenonT(60) DEF Other!Held, Other!MayAttest
  <2>2. /\ Budget(j)' = Budget(j) /\ Budget(j) \in Nat
        /\ created'[j.dep] = created[j.dep]
    BY <1>13, <1>15, OutrunStep, ZenonT(60)
  <2> HIDE DEF Sent, Held, Other!Held, Budget, Bit
  <2>3. \/ Sent(j)' = Sent(j) /\ Held(j)' <= Held(j)
        \/ Sent(j)' <= Sent(j) + Bit(job = j) /\ Held(j)' + Bit(job = j) <= Held(j)
    <3>1. /\ UNCHANGED events
          /\ \/ UNCHANGED mempool /\ Held(j)' <= Held(j)
             \/ \E n \in 1..Len(mempool), att \in Attestation :
                  /\ jobOf(att) = job
                  /\ mempool' = [mempool EXCEPT ![n] = att]
                  /\ Held(j)' + Bit(job = j) <= Held(j)
      BY <1>15, OutrunStep, ZenonT(60)
    <3>2. CASE UNCHANGED mempool /\ Held(j)' <= Held(j)
      BY <1>11, <3>1, <3>2, ZenonT(60)
    <3>3. ASSUME NEW n \in 1..Len(mempool), NEW att \in Attestation, jobOf(att) = job,
                 mempool' = [mempool EXCEPT ![n] = att]
          PROVE  Sent(j)' <= Sent(j) + Bit(job = j)
      BY <1>10, <3>1, <3>3, ZenonT(60)
    <3> QED
      BY <3>1, <3>2, <3>3, ZenonT(60)
  <2> DEFINE n == Bit(job = j)
  <2>4. /\ n \in Nat
        /\ \/ Sent(j)' = Sent(j) /\ Held(j)' <= Held(j)
           \/ Sent(j)' <= Sent(j) + n /\ Held(j)' + n <= Held(j)
    BY <1>14, <2>3, ZenonT(60)
  <2> HIDE DEF n
  <2> QED
    BY <1>1, <1>4, <1>6, <1>12, <2>1, <2>2, <2>4
<1>16. CASE Other!Outrun /\ UNCHANGED <<first, clusterVars>>
  <2>1. Held(j)' = Held(j)
    <3>1. UNCHANGED <<dirty, processing, delayed, adding, lastAttested, live, created>>
      BY <1>16, ZenonT(60) DEF first, queueVars, reconcilerVars, clusterVars
    <3> QED
      BY <3>1, ZenonT(60) DEF Held, MayAttest
  <2>2. /\ Budget(j)' = Budget(j) /\ Budget(j) \in Nat
        /\ created'[j.dep] = created[j.dep]
    BY <1>13, <1>16, OtherOutrunStep, ZenonT(60)
  <2> HIDE DEF Sent, Held, Other!Held, Budget, Bit
  <2>3. \/ Sent(j)' = Sent(j) /\ Other!Held(j)' <= Other!Held(j)
        \/ Sent(j)' <= Sent(j) + Bit(job2 = j) /\ Other!Held(j)' + Bit(job2 = j) <= Other!Held(j)
    <3>1. /\ UNCHANGED events
          /\ \/ UNCHANGED mempool /\ Other!Held(j)' <= Other!Held(j)
             \/ \E n \in 1..Len(mempool), att \in Attestation :
                  /\ jobOf(att) = job2
                  /\ mempool' = [mempool EXCEPT ![n] = att]
                  /\ Other!Held(j)' + Bit(job2 = j) <= Other!Held(j)
      BY <1>16, OtherOutrunStep, ZenonT(60)
    <3>2. CASE UNCHANGED mempool /\ Other!Held(j)' <= Other!Held(j)
      BY <1>11, <3>1, <3>2, ZenonT(60)
    <3>3. ASSUME NEW n \in 1..Len(mempool), NEW att \in Attestation, jobOf(att) = job2,
                 mempool' = [mempool EXCEPT ![n] = att]
          PROVE  Sent(j)' <= Sent(j) + Bit(job2 = j)
      BY <1>10, <3>1, <3>3, ZenonT(60)
    <3> QED
      BY <3>1, <3>2, <3>3, ZenonT(60)
  <2> DEFINE n == Bit(job2 = j)
  <2>4. /\ n \in Nat
        /\ \/ Sent(j)' = Sent(j) /\ Other!Held(j)' <= Other!Held(j)
           \/ Sent(j)' <= Sent(j) + n /\ Other!Held(j)' + n <= Other!Held(j)
    BY <1>14, <2>3, ZenonT(60)
  <2> HIDE DEF n
  <2> QED
    BY <1>1, <1>4, <1>6, <1>12, <2>1, <2>2, <2>4
<1> QED
  BY <1>7, <1>8, <1>9, <1>15, <1>16, TwoMoves, ZenonT(60)

\* Two replicas of the operator, which elects no leader, publish a config at
\* most twice for each creation of its Deployment, and once more for each
\* restart of either and each send whose answer was lost, when no spec comes
\* back: sharing the account and the registry makes neither send more than it
\* would alone.
THEOREM DuplicatesDoubleThm ==
  ASSUME ForwardOnly
  PROVE  TwoSpec => []DuplicatesDouble
<1>1. TwoInit => OperatorInv /\ Other!OperatorInv
  <2>1. Second!Init => Other!Init
    BY ZenonT(60) DEF Second!Init, Other!Init, Second!PublisherInit, Other!PublisherInit, Second!QueueInit,
       Other!QueueInit, Second!Gone, Other!Gone, Second!Failures, Other!Failures
  <2> QED
    BY <2>1, OperatorInit, OtherInit, ZenonT(60) DEF TwoInit
<1>2. TwoInit => TwoAccountInv
  <2> SUFFICES ASSUME TwoInit, NEW j \in Jobs
               PROVE  Sent(j) + Held(j) + Other!Held(j) <= Budget(j) + created[j.dep]
    BY ZenonT(60) DEF TwoAccountInv
  <2>1. j.dep \in Deployments /\ j # Nil
    BY PublisherV1Assumption, ZenonT(60) DEF Jobs
  <2>2. Sent(j) = 0
    <3>1. {i \in 1..Len(events) : jobOf(events[i]) = j} = {}
          /\ {i \in 1..Len(mempool) : jobOf(mempool[i]) = j} = {}
      BY DEF TwoInit, Init, PublisherInit
    <3>2. Count(events, j) = 0 /\ Count(mempool, j) = 0
      BY <3>1, FS_EmptySet, ZenonT(60) DEF Count
    <3> QED
      BY <3>2 DEF Sent
  <2>3. Held(j) = 0
    BY <2>1 DEF TwoInit, Init, PublisherInit, QueueInit, Held, Bit, MayAttest, Gone
  <2>4. Other!Held(j) = 0
    <3>1. /\ dirty2 = {} /\ processing2 = {} /\ delayed2 = {} /\ adding2 = Nil
      BY ZenonT(60) DEF TwoInit, Second!Init, Second!PublisherInit, Second!QueueInit
    <3>2. ~ live[j.dep].exists
      BY <2>1 DEF TwoInit, Init, Gone
    <3> QED
      BY <2>1, <3>1, <3>2 DEF Other!Held, Other!Bit, Other!MayAttest
  <2>5. Budget(j) = 0 /\ created[j.dep] = 0
    BY <2>1 DEF TwoInit, Init, PublisherInit, Budget, Failures
  <2> QED
    BY <2>2, <2>3, <2>4, <2>5
<1>3. OperatorInv /\ TwoAccountInv => DuplicatesDouble
  <2> SUFFICES ASSUME OperatorInv, TwoAccountInv, NEW j \in Jobs
               PROVE  Count(events, j) <= 2 * created[j.dep] + spent["crash"] + spent["timeout"]
    BY ZenonT(60) DEF DuplicatesDouble, Count
  <2>1. Count(events, j) \in Nat /\ Count(mempool, j) \in Nat
    BY TypeFromInv, CountType, ZenonT(60) DEF OperatorInv, TypeOK, PublisherTypeOK
  <2>2. Held(j) \in Nat /\ Other!Held(j) \in Nat
    BY DEF Held, Bit, Other!Held, Other!Bit
  <2>3. created[j.dep] \in Nat /\ spent["crash"] \in Nat /\ spent["timeout"] \in Nat
    BY DEF OperatorInv, RestTyped, Failures, Jobs
  <2>4. Sent(j) + Held(j) + Other!Held(j) <= Budget(j) + created[j.dep]
    BY ZenonT(60) DEF TwoAccountInv
  <2> HIDE DEF Count, Held, Other!Held
  <2> QED
    BY <2>1, <2>2, <2>3, <2>4 DEF Sent, Budget
<1> QED
  BY <1>1, <1>2, <1>3, TwoOperatorsNext, TwoAccountNext, PTL DEF TwoSpec
=============================================================================
