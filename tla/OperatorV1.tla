----------------------------- MODULE OperatorV1 -----------------------------
(***************************************************************************)
(* The operator cmd/main.go runs: internal/controller's reconciler,        *)
(* feeding PublisherV1, over a cluster whose Deployments change.           *)
(*                                                                         *)
(* A Deployment is its config hash and what rolloutConverged reads of it:  *)
(* whether the Deployment controller has observed the latest generation,   *)
(* and whether the replica counts in its status all equal the desired one. *)
(* Until the generation is observed those counts are the previous spec's.  *)
(* The Deployments are as the informer's cache has them, which is what     *)
(* Reconcile reads and what its watch events announce.                     *)
(***************************************************************************)
EXTENDS PublisherV1

CONSTANTS
  Follows,     \* pairs of hashes: the second may be applied after the first
  Deletable,   \* the Deployments that may be deleted
  MaxChanges   \* bound: changes of Deployments

ASSUME OperatorV1Assumption ==
  /\ Follows \subseteq Hashes \X Hashes
  /\ Deletable \subseteq Deployments
  /\ MaxChanges \in Nat

VARIABLES
  live,         \* external: the Deployments, as the informer has them
  changes,      \* external: how often a Deployment was changed
  due,          \* Deployments with a watch event the reconciler has not handled
  lastAttested, \* r.lastAttested; Nil where there is no entry
  adding,       \* the job Reconcile recorded and has not enqueued, or Nil
  rolledOut,    \* history: the states in which a Deployment was converged
  created       \* history: how often each Deployment was created

clusterVars == <<live, changes, rolledOut, created>>
reconcilerVars == <<due, lastAttested, adding>>
vars == <<publisherVars, spent, clusterVars, reconcilerVars>>

Deployment ==
  [exists: BOOLEAN, spec: Hashes \cup {Nil}, observed: BOOLEAN, complete: BOOLEAN]

Gone(spec) == [exists |-> FALSE, spec |-> spec, observed |-> FALSE, complete |-> FALSE]

\* Every variable has its type.
TypeOK ==
  /\ PublisherTypeOK
  /\ live \in [Deployments -> Deployment]
  /\ \A d \in Deployments : live[d].exists => live[d].spec \in Hashes
  /\ changes \in Nat
  /\ due \subseteq Deployments
  /\ lastAttested \in [Deployments -> Hashes \cup {Nil}]
  /\ adding \in Jobs \cup {Nil}
  /\ rolledOut \subseteq Jobs
  /\ created \in [Deployments -> Nat]

Init ==
  /\ PublisherInit
  /\ live = [d \in Deployments |-> Gone(Nil)]
  /\ changes = 0
  /\ due = {}
  /\ lastAttested = [d \in Deployments |-> Nil]
  /\ adding = Nil
  /\ rolledOut = {}
  /\ created = [d \in Deployments |-> 0]

-----------------------------------------------------------------------------
(***************************************************************************)
(* The cluster (external).  Every change is a watch event.                 *)
(***************************************************************************)

\* Deployment d becomes new, and the reconciler hears of it.
Becomes(d, new) ==
  /\ live' = [live EXCEPT ![d] = new]
  /\ due' = IF signer = Nil THEN due ELSE due \cup {d}
  /\ rolledOut' = IF new.observed /\ new.complete
                  THEN rolledOut \cup {[dep |-> d, hash |-> new.spec]}
                  ELSE rolledOut
  /\ UNCHANGED <<publisherVars, spent, lastAttested, adding>>

\* A user creates d or changes its spec to h: a new generation.
Apply(d, h) ==
  LET old == live[d] IN
  /\ changes < MaxChanges
  /\ changes' = changes + 1
  /\ ~ old.exists \/ old.spec # h
  /\ old.spec \in {Nil, h} \/ <<old.spec, h>> \in Follows
  /\ Becomes(d, [exists |-> TRUE, spec |-> h, observed |-> FALSE, complete |-> old.complete])
  /\ created' = IF old.exists THEN created ELSE [created EXCEPT ![d] = @ + 1]

\* The Deployment controller observes the generation and updates the status;
\* the rollout may have nothing to do, as at zero replicas.
Observe(d, complete) ==
  /\ live[d].exists /\ ~ live[d].observed
  /\ Becomes(d, [exists |-> TRUE, spec |-> live[d].spec, observed |-> TRUE,
                 complete |-> complete])
  /\ UNCHANGED <<changes, created>>

\* The replica counts reach the desired one, or a pod fails and they leave it.
Status(d, complete) ==
  /\ live[d].exists /\ live[d].complete # complete
  /\ Becomes(d, [exists |-> TRUE, spec |-> live[d].spec, observed |-> live[d].observed,
                 complete |-> complete])
  /\ UNCHANGED <<changes, created>>

\* A user deletes d.
Delete(d) ==
  /\ d \in Deletable
  /\ live[d].exists
  /\ changes < MaxChanges
  /\ changes' = changes + 1
  /\ Becomes(d, Gone(live[d].spec))
  /\ UNCHANGED created

-----------------------------------------------------------------------------
(***************************************************************************)
(* The reconciler.                                                         *)
(***************************************************************************)

\* Mutant: the counts alone, which may be those of the previous generation.
countsMatch(d) == live[d].complete

rolloutConverged(d) == live[d].observed /\ live[d].complete

\* Mutant: a Deployment with any entry counts as attested.
attestedBefore(d, h) == lastAttested[d] # Nil

\* Mutant: the dedup map is not consulted.
neverAttested(d, h) == FALSE

alreadyAttested(d, h) == lastAttested[d] = h

recordAttested(d, h) == lastAttested' = [lastAttested EXCEPT ![d] = h]

\* Mutant: the dedup map survives a restart.
keepAttested == UNCHANGED lastAttested

\* A new process starts with an empty map.
newAttested == lastAttested' = [d \in Deployments |-> Nil]

forgetAttested(d) == lastAttested' = [lastAttested EXCEPT ![d] = Nil]

\* Reconcile, up to the call of Enqueue: a failed read is retried; a missing
\* Deployment is forgotten; one that is rolling out or was attested is left
\* alone; otherwise the hash is recorded and a job is owed to the queue.  The
\* error of hashing is left out: the hash is of a struct that always marshals.
Reconcile(d) ==
  LET h == live[d].spec IN
  /\ adding = Nil
  /\ d \in due
  /\ \/ Fail("api") /\ UNCHANGED reconcilerVars
     \/ /\ due' = due \ {d}
        /\ UNCHANGED spent
        /\ \/ ~ live[d].exists /\ forgetAttested(d) /\ UNCHANGED adding
           \/ /\ live[d].exists
              /\ ~ rolloutConverged(d) \/ alreadyAttested(d, h)
              /\ UNCHANGED <<lastAttested, adding>>
           \/ /\ live[d].exists
              /\ rolloutConverged(d) /\ ~ alreadyAttested(d, h)
              /\ recordAttested(d, h)
              /\ adding' = [dep |-> d, hash |-> h]
  /\ UNCHANGED <<publisherVars, clusterVars>>

\* Reconcile's last call: Publisher.Enqueue.
Enqueue ==
  /\ adding # Nil
  /\ add(adding)
  /\ adding' = Nil
  /\ UNCHANGED <<workerVars, chainVars, signerVars, spent, clusterVars, due, lastAttested>>

\* The process starts, unless KMS has no suitable key for it; the informer
\* then lists every Deployment there is.
Start ==
  /\ signer = Nil
  /\ signer' = newWithClient(Alias)
  /\ signer' # Nil
  /\ due' = {d \in Deployments : live[d].exists}
  /\ UNCHANGED <<alias, queueVars, workerVars, chainVars, spent, clusterVars, lastAttested, adding>>

\* The process dies, and with it everything in memory.
Crash ==
  /\ signer # Nil
  /\ Fail("crash")
  /\ signer' = Nil
  /\ queue' = << >>
  /\ dirty' = {}
  /\ processing' = {}
  /\ delayed' = {}
  /\ job' = Nil
  /\ sig' = Nil
  /\ adding' = Nil
  /\ newAttested
  /\ due' = {}
  /\ UNCHANGED <<alias, chainVars, clusterVars>>

\* A step of the publisher's worker.
Publish == Get \/ SignDigest \/ Process

Next ==
  \/ \E d \in Deployments, h \in Hashes : Apply(d, h)
  \/ \E d \in Deployments, b \in BOOLEAN : Observe(d, b) \/ Status(d, b)
  \/ \E d \in Deployments : Delete(d)
  \/ \E d \in Deployments : Reconcile(d)
  \/ Enqueue
  \/ Start
  \/ Crash
  \/ (Get \/ SignDigest \/ Process \/ Ripen \/ Mine \/ Repoint) /\ UNCHANGED <<clusterVars, reconcilerVars>>

Spec == Init /\ [][Next]_vars

\* Watch events are handled, the reconciler reaches its last call, the worker
\* goroutine runs, backoffs elapse and blocks are mined.
Fairness ==
  /\ \A d \in Deployments : WF_vars(Reconcile(d))
  /\ WF_vars(Enqueue)
  /\ WF_vars(Start)
  /\ WF_vars(Publish /\ UNCHANGED <<clusterVars, reconcilerVars>>)
  /\ WF_vars(Ripen /\ UNCHANGED <<clusterVars, reconcilerVars>>)
  /\ WF_vars(Mine /\ UNCHANGED <<clusterVars, reconcilerVars>>)

FairSpec == Spec /\ Fairness

-----------------------------------------------------------------------------
(***************************************************************************)
(* Properties.                                                             *)
(***************************************************************************)

\* Only a rollout that converged is ever attested: the registry never records
\* a spec the cluster had not completed, although Reconcile reads a spec and
\* a status that are written by different parties at different times.
OnlyConverged ==
  \A i \in 1..Len(events) : jobOf(events[i]) \in rolledOut

\* Every record verifies under the key whose fingerprint it carries: what KMS
\* returns to SignDigest, where the alias points by then, and which key a
\* restarted process found do not matter.
RecordsVerify ==
  \A i \in 1..Len(events) :
    VerifyConfigHashSignature(events[i].fingerprint, events[i].hash, events[i].sig)

\* A config is published once, and once more for each restart, each recreation
\* and each send whose answer was lost: neither flapping rollouts nor repeated
\* watch events get past the dedup map.
DuplicatesAccounted ==
  \A j \in Jobs :
    Cardinality({i \in 1..Len(events) : jobOf(events[i]) = j})
      <= created[j.dep] + spent["crash"] + spent["timeout"]

\* Nothing is left to do for anyone.
AtRest ==
  /\ signer # Nil
  /\ due = {}
  /\ adding = Nil
  /\ dirty \cup processing \cup delayed = {}
  /\ mempool = << >>

\* When all work is done, the record of a converged Deployment is its config
\* ("the publisher retries until success, so this is safe").
RestIsLive ==
  AtRest =>
    \A d \in Deployments :
      live[d].exists /\ rolloutConverged(d) => latest[d] # Nil /\ latest[d].hash = live[d].spec

\* What the reconciler has recorded as attested is published, unless the entry
\* is replaced or forgotten, or the node dropped or reverted a transaction:
\* processNext retries every failure it is told of, and a restart starts over.
RetriedUntilSent ==
  \A d \in Deployments, h \in Hashes :
    lastAttested[d] = h ~>
      \/ lastAttested[d] # h
      \/ \E i \in 1..Len(events) : jobOf(events[i]) = [dep |-> d, hash |-> h]
      \/ spent["drop"] + spent["revert"] > 0
=============================================================================
