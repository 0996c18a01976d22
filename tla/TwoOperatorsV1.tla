--------------------------- MODULE TwoOperatorsV1 ---------------------------
(***************************************************************************)
(* Two replicas of the operator of cmd/main.go, which elects no leader:    *)
(* each has its own informer, dedup map, queue and worker, and both send   *)
(* from the same account to the same registry.                             *)
(*                                                                         *)
(* The first replica has the variables of OperatorV1, the second those     *)
(* declared here.  With two senders the two halves of Transact matter: it  *)
(* asks for the account's pending nonce, and sends with it what the other  *)
(* may have used in between.                                               *)
(***************************************************************************)
EXTENDS OperatorV1

VARIABLES queue2, dirty2, processing2, delayed2, job2, sig2, signer2,
          due2, lastAttested2, adding2,
          taken, taken2  \* the nonce each replica's Transact took, or Nil

Second == INSTANCE OperatorV1 WITH
  queue <- queue2, dirty <- dirty2, processing <- processing2, delayed <- delayed2,
  job <- job2, sig <- sig2, signer <- signer2,
  due <- due2, lastAttested <- lastAttested2, adding <- adding2

first == <<queueVars, workerVars, signer, reconcilerVars>>
second == <<queue2, dirty2, processing2, delayed2, job2, sig2, signer2,
            due2, lastAttested2, adding2>>
shared == <<chainVars, alias, spent, clusterVars>>

\* external: how many transactions of the account are mined, and the nonce the
\* node answers, which counts those it holds.
mined == Len(events) + spent["revert"]
PendingNonceAt == mined + Len(mempool)

TwoInit == Init /\ Second!Init /\ taken = Nil /\ taken2 = Nil

\* A change of the cluster, which both informers announce.
Cluster ==
  /\ \/ \E d \in Deployments, h \in Hashes : Apply(d, h) /\ Second!Apply(d, h)
     \/ \E d \in Deployments, b \in BOOLEAN :
          \/ Observe(d, b) /\ Second!Observe(d, b)
          \/ Status(d, b) /\ Second!Status(d, b)
     \/ \E d \in Deployments : Delete(d) /\ Second!Delete(d)
  /\ UNCHANGED <<taken, taken2>>

\* A step of the node or of KMS.
Outside == (Mine \/ Repoint) /\ UNCHANGED <<clusterVars, reconcilerVars>>

\* PublishAttestation of either replica, in two steps: Transact takes a nonce,
\* and sends with it.
TakeNonce ==
  /\ sig # Nil /\ taken = Nil
  /\ taken' = PendingNonceAt
  /\ UNCHANGED vars

Send ==
  /\ taken # Nil
  /\ \/ taken = PendingNonceAt /\ Process
     \/ taken # PendingNonceAt /\ Contended(taken + 1 - mined)
  /\ taken' = Nil
  /\ UNCHANGED <<clusterVars, reconcilerVars>>

TakeNonce2 ==
  /\ sig2 # Nil /\ taken2 = Nil
  /\ taken2' = PendingNonceAt
  /\ UNCHANGED <<second, shared>>

Send2 ==
  /\ taken2 # Nil
  /\ \/ taken2 = PendingNonceAt /\ Second!Process
     \/ taken2 # PendingNonceAt /\ Second!Contended(taken2 + 1 - mined)
  /\ taken2' = Nil
  /\ UNCHANGED <<clusterVars, due2, lastAttested2, adding2>>

\* A step of a replica's own.
StepOfFirst ==
  \/ /\ \/ \E d \in Deployments : Reconcile(d)
        \/ Enqueue \/ Start
        \/ (Get \/ SignDigest \/ Ripen) /\ UNCHANGED <<clusterVars, reconcilerVars>>
     /\ UNCHANGED taken
  \/ TakeNonce \/ Send

StepOfSecond ==
  \/ /\ \/ \E d \in Deployments : Second!Reconcile(d)
        \/ Second!Enqueue \/ Second!Start
        \/ /\ Second!Get \/ Second!SignDigest \/ Second!Ripen
           /\ UNCHANGED <<clusterVars, due2, lastAttested2, adding2>>
     /\ UNCHANGED taken2
  \/ TakeNonce2 \/ Send2

TwoNext ==
  \/ Cluster
  \/ Outside /\ UNCHANGED <<second, taken, taken2>>
  \/ StepOfFirst /\ UNCHANGED <<second, taken2>>
  \/ StepOfSecond /\ UNCHANGED <<first, taken>>
  \/ Crash /\ taken' = Nil /\ UNCHANGED <<second, taken2>>
  \/ Second!Crash /\ taken2' = Nil /\ UNCHANGED <<first, taken>>

twoVars == <<vars, second, taken, taken2>>

\* Each replica goes on while it has something to do, and blocks are mined.
TwoSpec ==
  /\ TwoInit
  /\ [][TwoNext]_twoVars
  /\ WF_twoVars(StepOfFirst /\ UNCHANGED <<second, taken2>>)
  /\ WF_twoVars(StepOfSecond /\ UNCHANGED <<first, taken>>)
  /\ WF_twoVars(Mine /\ UNCHANGED <<clusterVars, reconcilerVars, second, taken, taken2>>)

-----------------------------------------------------------------------------
(***************************************************************************)
(* Properties.                                                             *)
(***************************************************************************)

\* A second replica at most doubles what a first costs: each publishes a
\* config once, and once more for each of its restarts and each recreation,
\* because neither reacts to what the other put on chain.
DuplicatesDouble ==
  \A j \in Jobs :
    Cardinality({i \in 1..Len(events) : jobOf(events[i]) = j})
      <= 2 * created[j.dep] + spent["crash"] + spent["timeout"]

\* One transaction lost does not lose a config: neither replica learns that
\* what it sent was replaced by the other's, dropped or reverted, and neither
\* sends it again, but the other has sent its own, and one whose nonce was
\* used sends again with another.
EitherPublishes ==
  \A d \in Deployments, h \in Hashes :
    <>[](live[d].exists /\ rolloutConverged(d) /\ live[d].spec = h)
      => <>(\/ \E i \in 1..Len(events) : jobOf(events[i]) = [dep |-> d, hash |-> h]
            \/ spent["drop"] + spent["revert"] > 1)
=============================================================================
