------------------------- MODULE PublisherV2Proofs --------------------------
(***************************************************************************)
(* PublisherV2 for every value of its constants: type correctness, what    *)
(* the worker's snapshot has to do with the revision it was taken of, that *)
(* what is confirmed was published and no revision is lost, that it        *)
(* implements PublishingPromise, and that the registry's log says what its *)
(* records are.                                                            *)
(***************************************************************************)
EXTENDS PublisherV2, Integers, TLAPS

\* Appending to a sequence, and taking its head.
LEMMA AppendProperties ==
  ASSUME NEW S, NEW q \in Seq(S), NEW x \in S
  PROVE  /\ Append(q, x) \in Seq(S)
         /\ Len(q) \in Nat
         /\ Len(Append(q, x)) = Len(q) + 1
         /\ \A i \in 1..Len(q) : Append(q, x)[i] = q[i]
         /\ Append(q, x)[Len(q) + 1] = x
<1>1. Append(q, x) \in Seq(S)
  OBVIOUS
<1>2. Len(q) \in Nat /\ Len(Append(q, x)) = Len(q) + 1 /\ Append(q, x)[Len(q) + 1] = x
  OBVIOUS
<1>3. \A i \in 1..Len(q) : Append(q, x)[i] = q[i]
  OBVIOUS
<1> QED
  BY <1>1, <1>2, <1>3

LEMMA HeadTailProperties ==
  ASSUME NEW S, NEW q \in Seq(S), q # << >>
  PROVE  /\ Head(q) \in S
         /\ Tail(q) \in Seq(S)
         /\ Len(Tail(q)) = Len(q) - 1
         /\ \A i \in 1..Len(Tail(q)) : Tail(q)[i] = q[i + 1]
<1>1. Head(q) \in S /\ Tail(q) \in Seq(S)
  OBVIOUS
<1>2. Len(Tail(q)) = Len(q) - 1
  OBVIOUS
<1>3. \A i \in 1..Len(Tail(q)) : Tail(q)[i] = q[i + 1]
  OBVIOUS
<1> QED
  BY <1>1, <1>2, <1>3

LEMMA LenProperties ==
  ASSUME NEW S, NEW q \in Seq(S)
  PROVE  Len(q) \in Nat /\ q \in [1..Len(q) -> S] /\ DOMAIN q = 1..Len(q)
  OBVIOUS

-----------------------------------------------------------------------------
(***************************************************************************)
(* Type correctness.                                                       *)
(***************************************************************************)

\* What processNext does with the queue keeps the queue and the worker typed.
LEMMA ReturnType ==
  ASSUME TypeOK, worker.wl \in Workloads, NEW result, Return(result)
  PROVE  QueueTypeOK' /\ worker' \in Worker
<1>1. Blank \in WorkloadState
  BY DEF Blank, WorkloadState
<1>2. Idle \in Worker
  BY <1>1 DEF Idle, Worker
<1>3. QueueTypeOK'
  BY AppendProperties DEF Return, done, TypeOK, QueueTypeOK
<1> QED
  BY <1>2, <1>3 DEF Return

\* So does going on to another step of process.
LEMMA GotoType ==
  ASSUME TypeOK, worker.wl \in Workloads,
         NEW pc \in {"prepare", "send", "wait", "recheck", "confirm"},
         NEW rev \in WorkloadState, NEW tx \in Tx \cup {Nil}, Goto(pc, rev, tx)
  PROVE  QueueTypeOK' /\ worker' \in Worker
  BY DEF Goto, TypeOK, QueueTypeOK, queueVars, Worker

\* What TypeOK needs to be inductive: past Get the worker has a workload, past
\* the snapshot it has a revision, and past prepareOnce a transaction.
WorkerTyped ==
  /\ worker.pc # "idle" => worker.wl \in Workloads
  /\ worker.pc \notin {"idle", "read"} => worker.rev.key \in Keys
  /\ worker.pc \in {"send", "wait"} => worker.tx \in Tx
  /\ \A w \in Workloads : state[w].seq # 0 => state[w].key \in Keys

TypeInv == TypeOK /\ WorkerTyped

LEMMA TypeInit == Init => TypeInv
<1> SUFFICES ASSUME Init PROVE TypeInv
  OBVIOUS
<1>1. Blank \in WorkloadState
  BY DEF Blank, WorkloadState
<1>2. Idle \in Worker
  BY <1>1 DEF Idle, Worker
<1>3. RegistryTypeOK
  BY RegistryAssumption DEF Init, RegistryInit, RegistryTypeOK, Unset, Attestation
<1>4. NodeTypeOK /\ QueueTypeOK
  BY DEF Init, NodeInit, NodeTypeOK, QueueInit, QueueTypeOK
<1>5. TypeOK
  BY <1>1, <1>2, <1>3, <1>4, ZenonT(60) DEF Init, TypeOK
<1>6. WorkerTyped
  BY ZenonT(60) DEF Init, WorkerTyped, Idle, Blank
<1> QED
  BY <1>5, <1>6 DEF TypeInv

LEMMA TypeEnqueue ==
  ASSUME TypeInv, NEW w \in Workloads, NEW key \in Keys, Enqueue(w, key)
  PROVE  TypeInv'
<1> USE DEF TypeInv
<1>0. asked' \in [Workloads -> SUBSET Keys]
  BY DEF Enqueue, TypeOK
<1>1. CASE UNCHANGED <<seq, state>>
  <2>1. adding' \in Workloads \cup {Nil} /\ wanted' \in [Workloads -> Keys \cup {ZeroKey}]
    BY ZenonT(60) DEF Enqueue, TypeOK
  <2>2. TypeOK'
    BY <1>0, <1>1, <2>1, ZenonT(60) DEF Enqueue, TypeOK, RegistryTypeOK, NodeTypeOK, QueueTypeOK,
       registryVars, nodeVars, queueVars
  <2>3. WorkerTyped'
    BY <1>1, ZenonT(60) DEF Enqueue, WorkerTyped
  <2> QED
    BY <2>2, <2>3, ZenonT(60)
<1>2. CASE /\ seq' = seq + 1
           /\ state' = [state EXCEPT ![w] =
                [seq |-> seq + 1, key |-> key, signature |-> NoSig, prepared |-> Nil,
                 confirmed |-> @.confirmed]]
           /\ adding' = w
  <2>1. state' \in [Workloads -> WorkloadState]
    BY <1>2 DEF TypeOK, WorkloadState
  <2>2. /\ seq' \in Nat
        /\ adding' \in Workloads \cup {Nil}
        /\ wanted' \in [Workloads -> Keys \cup {ZeroKey}]
    BY <1>2 DEF Enqueue, TypeOK
  <2>3. TypeOK'
    BY <1>0, <2>1, <2>2, ZenonT(60) DEF Enqueue, TypeOK, RegistryTypeOK, NodeTypeOK, QueueTypeOK,
       registryVars, nodeVars, queueVars
  <2>4. \A v \in Workloads : state'[v].seq # 0 => state'[v].key \in Keys
    BY <1>2, ZenonT(60) DEF TypeOK, WorkerTyped
  <2>5. WorkerTyped'
    BY <2>4 DEF Enqueue, WorkerTyped
  <2> QED
    BY <2>3, <2>5
<1> QED
  BY <1>1, <1>2, ZenonT(60) DEF Enqueue

LEMMA TypeEnqueueAdd ==
  ASSUME TypeInv, EnqueueAdd
  PROVE  TypeInv'
<1> USE DEF TypeInv
<1>1. adding \in Workloads
  BY ZenonT(60) DEF EnqueueAdd, TypeOK
<1>2. QueueTypeOK'
  BY <1>1, AppendProperties, ZenonT(60) DEF EnqueueAdd, add, TypeOK, QueueTypeOK
<1>3. TypeOK'
  BY <1>2 DEF EnqueueAdd, TypeOK, RegistryTypeOK, NodeTypeOK, registryVars, nodeVars, historyVars
<1>4. WorkerTyped'
  BY DEF EnqueueAdd, WorkerTyped
<1> QED
  BY <1>3, <1>4

LEMMA TypeGet ==
  ASSUME TypeInv, Get
  PROVE  TypeInv'
<1> USE DEF TypeInv
<1> PICK w \in Workloads : get(w) /\ worker' = [pc |-> "read", wl |-> w, rev |-> Blank, tx |-> Nil]
  BY DEF Get
<1>1. QueueTypeOK'
  BY HeadTailProperties, ZenonT(60) DEF get, TypeOK, QueueTypeOK
<1>2. worker' \in Worker
  BY ZenonT(60) DEF TypeOK, Worker, Blank, WorkloadState
<1>3. TypeOK'
  BY <1>1, <1>2, ZenonT(60) DEF Get, TypeOK, RegistryTypeOK, NodeTypeOK, registryVars, nodeVars, historyVars
<1>4. WorkerTyped'
  BY ZenonT(60) DEF Get, WorkerTyped, TypeOK, Worker
<1> QED
  BY <1>3, <1>4

LEMMA TypeReadLatest ==
  ASSUME TypeInv, ReadLatest
  PROVE  TypeInv'
<1> USE DEF TypeInv
<1>1. worker.wl \in Workloads
  BY DEF ReadLatest, WorkerTyped
<1>2. state[worker.wl] \in WorkloadState
  BY <1>1 DEF TypeOK
<1>3. QueueTypeOK' /\ worker' \in Worker
  <2>1. ASSUME NEW r, Return(r) PROVE QueueTypeOK' /\ worker' \in Worker
    BY <1>1, <2>1, ReturnType
  <2>2. ASSUME NEW pc \in {"confirm", "prepare"}, Goto(pc, state[worker.wl], Nil)
        PROVE  QueueTypeOK' /\ worker' \in Worker
    BY <1>1, <1>2, <2>2, GotoType, ZenonT(60)
  <2> QED
    BY <2>1, <2>2 DEF ReadLatest
<1>4. spent' \in [Failures -> Nat]
  BY DEF ReadLatest, Fail, TypeOK
<1>5. TypeOK'
  BY <1>3, <1>4, ZenonT(60) DEF ReadLatest, TypeOK, RegistryTypeOK, NodeTypeOK, registryVars, nodeVars
<1>6. WorkerTyped'
  BY <1>1 DEF ReadLatest, WorkerTyped, Return, Idle, TypeOK, Goto, Unsettled
<1> QED
  BY <1>5, <1>6

\* A pending nonce is a natural number, so a prepared transaction is one.
LEMMA PrepareType ==
  ASSUME NodeTypeOK, NEW w \in Workloads, NEW key \in Keys, NEW sig \in Sigs,
         NEW s \in Nat, NEW t \in Prepare(w, key, sig, s)
  PROVE  t \in Tx
<1> PICK n \in pendingNonce :
       t = [nonce |-> n, wl |-> w, key |-> key, sig |-> sig, seq |-> s]
  BY DEF Prepare
<1>1. n \in Int /\ nonce <= n /\ nonce \in Nat
  BY DEF pendingNonce, NodeTypeOK
<1>2. n \in Nat
  BY <1>1
<1> QED
  BY <1>2 DEF Tx

LEMMA TypePrepareOnce ==
  ASSUME TypeInv, PrepareOnce
  PROVE  TypeInv'
<1> USE DEF TypeInv
<1> DEFINE w == worker.wl
           rev == worker.rev
           sig == IF rev.signature = NoSig THEN SigningDigest(w, rev.key) ELSE rev.signature
<1>1. /\ w \in Workloads
      /\ rev \in WorkloadState
      /\ rev.key \in Keys
  BY DEF PrepareOnce, storeAttempt, WorkerTyped, TypeOK, Worker
<1>2. sig \in Sigs
  BY <1>1 DEF SigningDigest, Sigs, WorkloadState
<1>3. UNCHANGED asked
  BY ZenonT(60) DEF PrepareOnce
<1>4. spent' \in [Failures -> Nat]
  BY DEF PrepareOnce, Fail, TypeOK
<1>5. CASE UNCHANGED state /\ \E r : Return(r)
  <2>1. QueueTypeOK' /\ worker' \in Worker
    BY <1>1, <1>5, ReturnType, ZenonT(60)
  <2>2. TypeOK'
    BY <1>3, <1>4, <1>5, <2>1
       DEF PrepareOnce, TypeOK, RegistryTypeOK, NodeTypeOK, registryVars, nodeVars
  <2>3. WorkerTyped'
    BY <1>5 DEF WorkerTyped, Return, Idle
  <2> QED
    BY <2>2, <2>3
<1>6. CASE UNCHANGED state /\ rev.prepared # Nil /\ Goto("send", rev, rev.prepared)
  <2>1. rev.prepared \in Tx
    BY <1>1, <1>6, ZenonT(60) DEF WorkloadState
  <2>2. QueueTypeOK' /\ worker' \in Worker
    BY <1>1, <1>6, <2>1, GotoType, ZenonT(60)
  <2>3. TypeOK'
    BY <1>3, <1>4, <1>6, <2>2
       DEF PrepareOnce, TypeOK, RegistryTypeOK, NodeTypeOK, registryVars, nodeVars
  <2>4. WorkerTyped'
    BY <1>1, <1>6, <2>1, ZenonT(60) DEF WorkerTyped, Goto
  <2> QED
    BY <2>3, <2>4
<1>7. ASSUME NEW t \in Prepare(w, rev.key, sig, rev.seq), Goto("send", rev, t),
             state' = IF state[w].seq = rev.seq
                      THEN [state EXCEPT ![w] = WithAttempt(@, sig, t)]
                      ELSE state
      PROVE  TypeInv'
  <2>1. t \in Tx
    <3>1. rev.seq \in Nat /\ NodeTypeOK
      BY <1>1, ZenonT(60) DEF WorkloadState, TypeOK
    <3> HIDE DEF sig, w, rev
    <3> QED
      BY <1>1, <1>2, <1>7, <3>1, PrepareType, ZenonT(60)
  <2>2. QueueTypeOK' /\ worker' \in Worker
    BY <1>1, <1>7, <2>1, GotoType, ZenonT(60)
  <2>3. WithAttempt(state[w], sig, t) \in WorkloadState
    BY <1>1, <1>2, <2>1, ZenonT(60) DEF WithAttempt, WorkloadState, TypeOK
  <2>4. state' \in [Workloads -> WorkloadState]
    BY <1>1, <1>7, <2>3, ZenonT(60) DEF TypeOK
  <2>5. TypeOK'
    BY <1>3, <1>4, <2>2, <2>4
       DEF PrepareOnce, TypeOK, RegistryTypeOK, NodeTypeOK, registryVars, nodeVars
  <2>6. \A v \in Workloads : state'[v].seq # 0 => state'[v].key \in Keys
    BY <1>1, <1>7, ZenonT(60) DEF WorkerTyped, WithAttempt, TypeOK
  <2>7. WorkerTyped'
    BY <1>1, <1>7, <2>1, <2>6, ZenonT(60) DEF WorkerTyped, Goto
  <2> QED
    BY <2>5, <2>7, ZenonT(60)
<1> QED
  BY <1>5, <1>6, <1>7, ZenonT(60) DEF PrepareOnce, storeAttempt

LEMMA TypeSendTx ==
  ASSUME TypeInv, SendTx
  PROVE  TypeInv'
<1> USE DEF TypeInv
<1>1. /\ worker.wl \in Workloads
      /\ worker.rev \in WorkloadState
      /\ worker.rev.key \in Keys
      /\ worker.tx \in Tx
  BY DEF SendTx, WorkerTyped, TypeOK, Worker
<1>2. QueueTypeOK' /\ worker' \in Worker
  BY <1>1, ReturnType, GotoType, ZenonT(60) DEF SendTx
<1>3. spent' \in [Failures -> Nat]
  BY DEF SendTx, Fail, TypeOK
<1>4. NodeTypeOK'
  BY <1>1, ZenonT(60) DEF SendTx, Send, receive, TypeOK, NodeTypeOK, nodeVars
<1>5. TypeOK'
  BY <1>2, <1>3, <1>4, ZenonT(60) DEF SendTx, TypeOK, RegistryTypeOK, registryVars
<1>6. WorkerTyped'
  BY <1>1 DEF SendTx, WorkerTyped, Return, Idle, Goto
<1> QED
  BY <1>5, <1>6, ZenonT(60)

LEMMA TypeWaitTx ==
  ASSUME TypeInv, WaitTx
  PROVE  TypeInv'
<1> USE DEF TypeInv
<1>1. /\ worker.wl \in Workloads
      /\ worker.rev \in WorkloadState
      /\ worker.rev.key \in Keys
  BY DEF WaitTx, WorkerTyped, TypeOK, Worker
<1>2. QueueTypeOK' /\ worker' \in Worker
  BY <1>1, ReturnType, GotoType, ZenonT(60) DEF WaitTx
<1>3. spent' \in [Failures -> Nat]
  BY DEF WaitTx, Fail, TypeOK
<1>4. /\ state' \in [Workloads -> WorkloadState]
      /\ \A v \in Workloads : state'[v].seq # 0 => state'[v].key \in Keys
  <2>1. CASE UNCHANGED state
    BY <2>1, ZenonT(60) DEF TypeOK, WorkerTyped
  <2>2. CASE state' = discardAttempt(worker.wl, worker.rev.seq)
    BY <1>1, <2>2, ZenonT(60) DEF discardAttempt, WithAttempt, TypeOK, WorkerTyped, WorkloadState
  <2> QED
    BY <2>1, <2>2, ZenonT(60) DEF WaitTx
<1>5. TypeOK'
  BY <1>2, <1>3, <1>4, ZenonT(60) DEF WaitTx, TypeOK, RegistryTypeOK, NodeTypeOK, registryVars, nodeVars
<1>6. WorkerTyped'
  BY <1>1, <1>4 DEF WaitTx, WorkerTyped, Return, Idle, Goto
<1> QED
  BY <1>5, <1>6, ZenonT(60)

LEMMA TypeRecheck ==
  ASSUME TypeInv, Recheck
  PROVE  TypeInv'
<1> USE DEF TypeInv
<1>1. /\ worker.wl \in Workloads
      /\ worker.rev \in WorkloadState
      /\ worker.rev.key \in Keys
  BY ZenonT(60) DEF Recheck, WorkerTyped, TypeOK, Worker
<1>2. QueueTypeOK' /\ worker' \in Worker
  BY <1>1, ReturnType, GotoType, ZenonT(60) DEF Recheck
<1>3. spent' \in [Failures -> Nat]
  BY DEF Recheck, Fail, TypeOK
<1>4. TypeOK'
  BY <1>2, <1>3, ZenonT(60) DEF Recheck, TypeOK, RegistryTypeOK, NodeTypeOK, registryVars, nodeVars
<1>5. WorkerTyped'
  BY <1>1 DEF Recheck, WorkerTyped, Return, Idle, Goto
<1> QED
  BY <1>4, <1>5

LEMMA TypeConfirm ==
  ASSUME TypeInv, Confirm
  PROVE  TypeInv'
<1> USE DEF TypeInv
<1>1. /\ worker.wl \in Workloads
      /\ worker.rev.key \in Keys
  BY ZenonT(60) DEF Confirm, WorkerTyped
<1>2. QueueTypeOK' /\ worker' \in Worker
  BY <1>1, ReturnType, ZenonT(60) DEF Confirm
<1>3. /\ state' \in [Workloads -> WorkloadState]
      /\ \A v \in Workloads : state'[v].seq # 0 => state'[v].key \in Keys
  BY <1>1, SMTT(30) DEF Confirm, TypeOK, WorkerTyped, WorkloadState
<1>4. TypeOK'
  BY <1>2, <1>3
     DEF Confirm, TypeOK, RegistryTypeOK, NodeTypeOK, registryVars, nodeVars, historyVars
<1>5. WorkerTyped'
  BY <1>3, ZenonT(60) DEF Confirm, WorkerTyped, Return, Idle
<1> QED
  BY <1>4, <1>5, ZenonT(60)

LEMMA TypeRipen ==
  ASSUME TypeInv, Ripen
  PROVE  TypeInv'
<1> USE DEF TypeInv
<1>1. QueueTypeOK'
  BY AppendProperties DEF Ripen, ripen, TypeOK, QueueTypeOK
<1>2. TypeOK'
  BY <1>1, ZenonT(60) DEF Ripen, TypeOK, RegistryTypeOK, NodeTypeOK,
     registryVars, nodeVars, publisherVars, historyVars
<1>3. WorkerTyped'
  BY DEF Ripen, WorkerTyped, publisherVars
<1> QED
  BY <1>2, <1>3

LEMMA TypeMine ==
  ASSUME TypeInv, Mine
  PROVE  TypeInv'
<1> USE DEF TypeInv
<1> PICK t \in pool : mineSuccess(t) \/ mineReverted(t)
  BY DEF Mine
<1>1. t \in Tx
  BY ZenonT(60) DEF TypeOK, NodeTypeOK
<1>2. NodeTypeOK'
  BY <1>1 DEF mineSuccess, mineReverted, include, TypeOK, NodeTypeOK
<1>3. RegistryTypeOK'
  <2>1. CASE mineSuccess(t)
    BY <1>1, <2>1, AppendProperties
       DEF mineSuccess, publish, TypeOK, RegistryTypeOK, Tx, Attestation, Event
  <2>2. CASE mineReverted(t)
    BY <2>2, ZenonT(60) DEF mineReverted, TypeOK, RegistryTypeOK, registryVars
  <2> QED
    BY <2>1, <2>2, ZenonT(60)
<1>4. spent' \in [Failures -> Nat]
  BY DEF Mine, Fail, TypeOK
<1>5. TypeOK'
  BY <1>2, <1>3, <1>4, ZenonT(60) DEF Mine, TypeOK, QueueTypeOK, queueVars, publisherVars
<1>6. WorkerTyped'
  BY DEF Mine, WorkerTyped, publisherVars
<1> QED
  BY <1>5, <1>6

LEMMA TypeEvict ==
  ASSUME TypeInv, Evict
  PROVE  TypeInv'
<1> USE DEF TypeInv
<1>1. NodeTypeOK'
  BY DEF Evict, evict, TypeOK, NodeTypeOK
<1>2. spent' \in [Failures -> Nat]
  BY DEF Evict, Fail, Failures, TypeOK
<1>3. TypeOK'
  BY <1>1, <1>2, ZenonT(60) DEF Evict, TypeOK, RegistryTypeOK, QueueTypeOK, registryVars, queueVars, publisherVars
<1>4. WorkerTyped'
  BY DEF Evict, WorkerTyped, publisherVars
<1> QED
  BY <1>3, <1>4, ZenonT(60)

LEMMA TypeForeignPublish ==
  ASSUME TypeInv, ForeignPublish
  PROVE  TypeInv'
<1> USE DEF TypeInv
<1> PICK w \in Workloads, key \in Keys, sig \in Sigs :
       \E t \in Prepare(w, key, sig, 0) : receive(t)
  BY DEF ForeignPublish
<1> PICK t \in Prepare(w, key, sig, 0) : receive(t)
  OBVIOUS
<1>1. t \in Tx
  BY PrepareType, ZenonT(60) DEF TypeOK
<1>2. NodeTypeOK'
  BY <1>1, ZenonT(60) DEF receive, TypeOK, NodeTypeOK
<1>3. spent' \in [Failures -> Nat]
  BY DEF ForeignPublish, Fail, Failures, TypeOK
<1>4. TypeOK'
  BY <1>2, <1>3, ZenonT(60) DEF ForeignPublish, TypeOK, RegistryTypeOK, QueueTypeOK,
     registryVars, queueVars, publisherVars
<1>5. WorkerTyped'
  BY DEF ForeignPublish, WorkerTyped, publisherVars
<1> QED
  BY <1>4, <1>5

LEMMA TypeCrash ==
  ASSUME TypeInv, Crash
  PROVE  TypeInv'
<1> USE DEF TypeInv
<1>1. Blank \in WorkloadState
  BY DEF Blank, WorkloadState
<1>2. Idle \in Worker
  BY <1>1, ZenonT(60) DEF Idle, Worker
<1>3. spent' \in [Failures -> Nat]
  BY DEF Crash, Fail, Failures, TypeOK
<1>4. QueueTypeOK'
  BY DEF Crash, QueueTypeOK
<1>5. TypeOK'
  BY <1>1, <1>2, <1>3, <1>4, SMTT(30) DEF Crash, TypeOK, RegistryTypeOK, NodeTypeOK, registryVars, nodeVars
<1>6. WorkerTyped'
  BY ZenonT(60) DEF Crash, WorkerTyped, Idle, Blank
<1> QED
  BY <1>5, <1>6, ZenonT(60)

LEMMA TypeNext == TypeInv /\ [Next]_vars => TypeInv'
<1> SUFFICES ASSUME TypeInv, [Next]_vars PROVE TypeInv'
  BY ZenonT(60)
<1>1. CASE UNCHANGED vars
  BY <1>1 DEF vars, registryVars, nodeVars, queueVars, publisherVars, historyVars,
     TypeInv, TypeOK, RegistryTypeOK, NodeTypeOK, QueueTypeOK, WorkerTyped
<1> QED
  BY <1>1, TypeEnqueue, TypeEnqueueAdd, TypeGet, TypeReadLatest, TypePrepareOnce,
     TypeSendTx, TypeWaitTx, TypeRecheck, TypeConfirm, TypeRipen, TypeMine, TypeEvict,
     TypeForeignPublish, TypeCrash, ZenonT(60) DEF Next

\* In every behaviour every variable keeps its type.
THEOREM TypeCorrect == Spec => []TypeOK
<1>1. TypeInv => TypeOK
  BY DEF TypeInv
<1> QED
  BY <1>1, TypeInit, TypeNext, PTL DEF Spec

-----------------------------------------------------------------------------
(***************************************************************************)
(* The snapshot the worker took: sequence numbers tell revisions apart, so *)
(* the comparison of seq in prepareOnce, confirm and discardAttempt is one *)
(* of revisions.                                                           *)
(***************************************************************************)

SnapshotInv ==
  /\ \A w \in Workloads : state[w].seq <= seq
  /\ worker.pc \notin {"idle", "read"} =>
       /\ worker.rev.seq # 0
       /\ worker.rev.seq <= state[worker.wl].seq
       /\ worker.rev.seq = state[worker.wl].seq => worker.rev.key = state[worker.wl].key

LEMMA SnapshotNext == TypeInv /\ SnapshotInv /\ [Next]_vars => SnapshotInv'
<1> SUFFICES ASSUME TypeInv, SnapshotInv, [Next]_vars PROVE SnapshotInv'
  OBVIOUS
<1>1. TypeOK /\ WorkerTyped
  BY ZenonT(60) DEF TypeInv
\* Most steps keep the desired revisions, and the worker's snapshot or drop it.
<1>2. ASSUME UNCHANGED seq,
             \A w \in Workloads : state'[w].seq = state[w].seq /\ state'[w].key = state[w].key,
             \/ worker'.pc \in {"idle", "read"}
             \/ /\ worker.pc \notin {"idle", "read"}
                /\ worker'.rev = worker.rev /\ worker'.wl = worker.wl
      PROVE  SnapshotInv'
  BY <1>1, <1>2, ZenonT(60) DEF SnapshotInv, WorkerTyped
<1>3. CASE UNCHANGED <<seq, state, worker>>
  BY <1>2, <1>3, ZenonT(60)
<1>4. ASSUME NEW w \in Workloads, NEW key \in Keys, Enqueue(w, key)
      PROVE  SnapshotInv'
  <2>1. CASE UNCHANGED <<seq, state>>
    BY <1>3, <1>4, <2>1, ZenonT(60) DEF Enqueue
  <2>2. CASE /\ seq' = seq + 1
             /\ state' = [state EXCEPT ![w] =
                  [seq |-> seq + 1, key |-> key, signature |-> NoSig, prepared |-> Nil,
                   confirmed |-> @.confirmed]]
    <3>1. \A v \in Workloads : state'[v] = state[v] \/ state'[v].seq = seq + 1
      BY <1>1, <2>2, ZenonT(60) DEF TypeOK
    <3>2. \A v \in Workloads : state[v].seq \in Nat
      BY <1>1, ZenonT(60) DEF TypeOK, WorkloadState
    <3>3. worker.rev.seq \in Nat /\ seq \in Nat
      BY <1>1, ZenonT(60) DEF TypeOK, Worker, WorkloadState
    <3>4. UNCHANGED worker
      BY <1>4, ZenonT(60) DEF Enqueue
    <3> QED
      BY <1>1, <2>2, <3>1, <3>2, <3>3, <3>4 DEF SnapshotInv, WorkerTyped
  <2> QED
    BY <1>4, <2>1, <2>2, ZenonT(60) DEF Enqueue
<1>5. CASE Get
  BY <1>2, <1>5, SMTT(30) DEF Get
<1>6. CASE ReadLatest
  <2>1. UNCHANGED <<seq, state>> /\ worker.wl \in Workloads
    BY <1>1, <1>6, ZenonT(60) DEF ReadLatest, WorkerTyped
  <2>2. CASE worker' = Idle
    BY <1>2, <2>1, <2>2 DEF Idle
  <2>3. CASE /\ Unsettled(state[worker.wl])
             /\ worker'.rev = state[worker.wl] /\ worker'.wl = worker.wl
    <3>1. state[worker.wl].seq # 0 /\ state[worker.wl].seq \in Nat
      BY <1>1, <2>1, <2>3, ZenonT(60) DEF Unsettled, TypeOK, WorkloadState
    <3> QED
      BY <2>1, <2>3, <3>1, SMTT(30) DEF SnapshotInv
  <2> QED
    BY <1>6, <2>2, <2>3, SMTT(30) DEF ReadLatest, Return, Goto
<1>7. CASE PrepareOnce
  <2>1. \A w \in Workloads : state'[w].seq = state[w].seq /\ state'[w].key = state[w].key
    <3>1. \/ UNCHANGED state
          \/ \E sig, t : state' = [state EXCEPT ![worker.wl] = WithAttempt(@, sig, t)]
      BY <1>7, ZenonT(60) DEF PrepareOnce, storeAttempt
    <3>2. ASSUME NEW sig, NEW t, state' = [state EXCEPT ![worker.wl] = WithAttempt(@, sig, t)],
                 NEW w \in Workloads
          PROVE  state'[w].seq = state[w].seq /\ state'[w].key = state[w].key
      <4>1. state'[w] = IF w = worker.wl THEN WithAttempt(state[w], sig, t) ELSE state[w]
        BY <1>1, <3>2, ZenonT(60) DEF TypeOK
      <4> QED
        BY <4>1 DEF WithAttempt
    <3> QED
      BY <3>1, <3>2, ZenonT(60)
  <2>2. worker' = Idle \/ (worker'.rev = worker.rev /\ worker'.wl = worker.wl)
    BY <1>7, SMTT(30) DEF PrepareOnce, Return, Goto
  <2>3. UNCHANGED seq /\ worker.pc = "prepare"
    BY <1>7, ZenonT(60) DEF PrepareOnce, storeAttempt
  <2> QED
    BY <1>2, <2>1, <2>2, <2>3 DEF Idle
<1>8. CASE SendTx
  <2>1. worker' = Idle \/ (worker'.rev = worker.rev /\ worker'.wl = worker.wl)
    BY <1>8 DEF SendTx, Return, Goto
  <2>2. UNCHANGED <<seq, state>> /\ worker.pc # "idle" /\ worker.pc # "read"
    BY <1>8, ZenonT(60) DEF SendTx
  <2> QED
    BY <1>2, <2>1, <2>2 DEF Idle
<1>9. CASE WaitTx
  <2>1. \A w \in Workloads : state'[w].seq = state[w].seq /\ state'[w].key = state[w].key
    BY <1>1, <1>9 DEF WaitTx, discardAttempt, WithAttempt, TypeOK
  <2>2. worker' = Idle \/ (worker'.rev = worker.rev /\ worker'.wl = worker.wl)
    BY <1>9 DEF WaitTx, Return, Goto
  <2>3. UNCHANGED seq /\ worker.pc = "wait"
    BY <1>9 DEF WaitTx
  <2> QED
    BY <1>2, <2>1, <2>2, <2>3, SMTT(30) DEF Idle
<1>10. CASE Recheck
  <2>1. worker' = Idle \/ (worker'.rev = worker.rev /\ worker'.wl = worker.wl)
    BY <1>10 DEF Recheck, Return, Goto
  <2>2. UNCHANGED <<seq, state>> /\ worker.pc # "idle" /\ worker.pc # "read"
    BY <1>10, ZenonT(60) DEF Recheck
  <2> QED
    BY <1>2, <2>1, <2>2 DEF Idle
<1>11. CASE Confirm
  <2>1. \A w \in Workloads : state'[w].seq = state[w].seq /\ state'[w].key = state[w].key
    BY <1>1, <1>11, ZenonT(60) DEF Confirm, TypeOK
  <2> QED
    BY <1>2, <1>11, <2>1, ZenonT(60) DEF Confirm, Return, Idle
<1>12. CASE Crash
  BY <1>1, <1>12 DEF Crash, SnapshotInv, Idle, Blank, TypeOK
<1> QED
  BY <1>3, <1>4, <1>5, <1>6, <1>7, <1>8, <1>9, <1>10, <1>11, <1>12
     DEF Next, EnqueueAdd, Ripen, Mine, Evict, ForeignPublish, vars, publisherVars

LEMMA SnapshotInit == Init => SnapshotInv
  BY DEF Init, SnapshotInv, Idle, Blank


-----------------------------------------------------------------------------
(***************************************************************************)
(* ConfirmedWasPublished.  The strengthening follows a revision through    *)
(* process: what is signed and prepared for it carries its own digest, a   *)
(* transaction with a successful receipt and the current record are both   *)
(* in the event log, and the worker reaches confirm only after seeing one  *)
(* of them.                                                                *)
(***************************************************************************)

\* The event log holds this publication.
Logged(w, key, sig) ==
  \E i \in 1..Len(events) : events[i] = [wl |-> w, key |-> key, sig |-> sig]

\* Transaction t publishes revision key of workload w under its signature.
Publishes(t, w, key) == t.wl = w /\ t.key = key /\ t.sig = SigningDigest(w, key)

\* What workload state s of w keeps for its retries is for its own revision.
AttemptMatches(w, s) ==
  /\ s.signature # NoSig => s.signature = SigningDigest(w, s.key)
  /\ s.prepared # Nil => Publishes(s.prepared, w, s.key)

StateMatches == \A w \in Workloads : AttemptMatches(w, state[w])

WorkerMatches ==
  /\ worker.pc # "idle" => AttemptMatches(worker.wl, worker.rev)
  /\ worker.pc \in {"send", "wait"} => Publishes(worker.tx, worker.wl, worker.rev.key)

MatchesInv == StateMatches /\ WorkerMatches

LogComplete ==
  /\ \A t \in landed : Logged(t.wl, t.key, t.sig)
  /\ \A w \in Workloads : latest[w].exists => Logged(w, latest[w].key, latest[w].sig)

ConfirmJustified ==
  /\ worker.pc = "confirm" =>
       Logged(worker.wl, worker.rev.key, SigningDigest(worker.wl, worker.rev.key))
  /\ \A w \in Workloads : state[w].confirmed # Nil =>
       Logged(w, state[w].confirmed, SigningDigest(w, state[w].confirmed))

PublishedInv == MatchesInv /\ LogComplete /\ ConfirmJustified

LEMMA PublishedInit == Init => PublishedInv
<1> SUFFICES ASSUME Init PROVE PublishedInv
  OBVIOUS
<1> USE DEF Init
<1>1. StateMatches
  BY ZenonT(60) DEF StateMatches, AttemptMatches, Blank
<1>2. WorkerMatches
  BY DEF WorkerMatches, Idle
<1>3. LogComplete
  BY ZenonT(60) DEF LogComplete, NodeInit, RegistryInit, Unset
<1>4. ConfirmJustified
  BY DEF ConfirmJustified, Idle, Blank
<1> QED
  BY <1>1, <1>2, <1>3, <1>4, ZenonT(60) DEF PublishedInv, MatchesInv

\* The log only grows.
LEMMA LogGrows ==
  ASSUME TypeInv, [Next]_vars, NEW w, NEW key, NEW sig, Logged(w, key, sig)
  PROVE  Logged(w, key, sig)'
<1>1. events \in Seq(Event)
  BY DEF TypeInv, TypeOK, RegistryTypeOK
<1>2. CASE UNCHANGED events
  BY <1>2 DEF Logged
<1>3. ASSUME NEW t \in pool, mineSuccess(t)
      PROVE  Logged(w, key, sig)'
  <2>1. t \in Tx
    BY ZenonT(60) DEF TypeInv, TypeOK, NodeTypeOK
  <2> DEFINE e == [wl |-> t.wl, key |-> t.key, sig |-> t.sig]
  <2>2. e \in Event /\ events' = Append(events, e)
    BY <1>3, <2>1 DEF Event, Tx, mineSuccess, publish
  <2> HIDE DEF e
  <2>3. /\ Len(events') = Len(events) + 1
        /\ \A i \in 1..Len(events) : events'[i] = events[i]
    BY <1>1, <2>2, AppendProperties
  <2>4. Len(events) \in Nat
    BY <1>1, LenProperties
  <2> QED
    BY <2>3, <2>4 DEF Logged
<1>4. CASE UNCHANGED registryVars
  BY <1>2, <1>4, ZenonT(60) DEF registryVars
<1>5. CASE Next
  BY <1>3, <1>4, <1>5, ZenonT(60) DEF Next, Enqueue, EnqueueAdd, Get, ReadLatest, PrepareOnce, SendTx,
     WaitTx, Recheck, Confirm, Ripen, Mine, mineReverted, Evict, ForeignPublish, Crash
<1> QED
  BY <1>4, <1>5, ZenonT(60) DEF vars

\* Only Mine writes the registry and the receipts, and it logs what it writes.
LEMMA LogCompleteNext ==
  ASSUME TypeInv, PublishedInv, [Next]_vars
  PROVE  LogComplete'
<1> USE DEF PublishedInv
<1>1. CASE UNCHANGED <<landed, latest>>
  BY <1>1, LogGrows, ZenonT(60) DEF LogComplete
<1>2. ASSUME NEW t \in pool, mineSuccess(t)
      PROVE  LogComplete'
  <2>1. t \in Tx
    BY ZenonT(60) DEF TypeInv, TypeOK, NodeTypeOK
  <2> DEFINE e == [wl |-> t.wl, key |-> t.key, sig |-> t.sig]
  <2>2. e \in Event /\ events' = Append(events, e) /\ events \in Seq(Event)
    BY <1>2, <2>1, ZenonT(60) DEF Event, Tx, mineSuccess, publish, TypeInv, TypeOK, RegistryTypeOK
  <2>3. Len(events') = Len(events) + 1 /\ events'[Len(events) + 1] = e /\ Len(events) \in Nat
    <3> HIDE DEF e
    <3> QED
      BY <2>2, AppendProperties, LenProperties
  <2>4. Logged(t.wl, t.key, t.sig)'
    BY <2>3 DEF Logged
  <2>5. \A u \in landed' : Logged(u.wl, u.key, u.sig)'
    BY <1>2, <2>4, LogGrows, ZenonT(60) DEF LogComplete, mineSuccess
  <2>6. /\ t.wl \in Workloads
        /\ latest' = [latest EXCEPT ![t.wl] = [exists |-> TRUE, key |-> t.key, sig |-> t.sig]]
        /\ latest \in [Workloads -> Attestation]
    BY <1>2, <2>1, ZenonT(60) DEF mineSuccess, publish, Tx, TypeInv, TypeOK, RegistryTypeOK
  <2>7. ASSUME NEW w \in Workloads, latest'[w].exists
        PROVE  Logged(w, latest[w].key, latest[w].sig)'
    <3>1. CASE w = t.wl
      BY <2>4, <2>6, <3>1, ZenonT(60) DEF Logged
    <3>2. CASE w # t.wl
      <4>1. latest'[w] = latest[w]
        BY <2>6, <3>2, ZenonT(60)
      <4>2. Logged(w, latest[w].key, latest[w].sig)
        BY <2>7, <4>1, ZenonT(60) DEF LogComplete
      <4> QED
        BY <4>1, <4>2, LogGrows DEF Logged
    <3> QED
      BY <3>1, <3>2, ZenonT(60)
  <2> QED
    BY <2>5, <2>7, ZenonT(60) DEF LogComplete
<1>3. ASSUME NEW t \in pool, mineReverted(t)
      PROVE  LogComplete'
  BY <1>1, <1>3, ZenonT(60) DEF mineReverted, registryVars
<1>4. CASE Next
  <2>1. CASE Mine
    BY <1>2, <1>3, <2>1, ZenonT(60) DEF Mine
  <2>2. CASE SendTx
    BY <1>1, <2>2, ZenonT(60) DEF SendTx, Send, receive, nodeVars, registryVars
  <2>3. CASE Evict \/ ForeignPublish
    BY <1>1, <2>3, ZenonT(60) DEF Evict, evict, ForeignPublish, receive, registryVars
  <2>4. CASE UNCHANGED <<registryVars, nodeVars>>
    BY <1>1, <2>4, ZenonT(60) DEF registryVars, nodeVars
  <2> QED
    BY <1>4, <2>1, <2>2, <2>3, <2>4, ZenonT(60) DEF Next, Enqueue, EnqueueAdd, Get, ReadLatest,
       PrepareOnce, WaitTx, Recheck, Confirm, Ripen, Crash
<1> QED
  BY <1>1, <1>4 DEF vars, registryVars, nodeVars

\* A record the worker finds on chain is in the log under the right signature.
LEMMA OnChainLogged ==
  ASSUME LogComplete, NEW w \in Workloads, NEW key, OnChain(w, key)
  PROVE  Logged(w, key, SigningDigest(w, key))
  BY DEF LogComplete, OnChain, LatestAttestation, getLatest, recordIsOurs

\* A justified confirmation stays justified.
LEMMA ConfirmedStays ==
  ASSUME TypeInv, PublishedInv, [Next]_vars,
         \A w \in Workloads : state'[w].confirmed \in {state[w].confirmed, Nil}
  PROVE  \A w \in Workloads : state'[w].confirmed # Nil =>
           Logged(w, state[w].confirmed, SigningDigest(w, state[w].confirmed))'
<1> TAKE w \in Workloads
<1> HAVE state'[w].confirmed # Nil
<1>1. state'[w].confirmed = state[w].confirmed
  OBVIOUS
<1>2. Logged(w, state[w].confirmed, SigningDigest(w, state[w].confirmed))
  BY <1>1, ZenonT(60) DEF PublishedInv, ConfirmJustified
<1>3. Logged(w, state[w].confirmed, <<w, state[w].confirmed>>)
  BY <1>2, ZenonT(60) DEF SigningDigest
<1> DEFINE k == state[w].confirmed
           d == <<w, state[w].confirmed>>
<1>4. \E i \in 1..Len(events') : events'[i] = [wl |-> w, key |-> k, sig |-> d]
  <2> HIDE DEF k, d
  <2>1. Logged(w, k, d)
    BY <1>3, ZenonT(60) DEF k, d
  <2>2. \A kk, dd : Logged(w, kk, dd) =>
          \E i \in 1..Len(events') : events'[i] = [wl |-> w, key |-> kk, sig |-> dd]
    BY LogGrows, ZenonT(60) DEF Logged
  <2> QED
    BY <2>1, <2>2, ZenonT(60)
<1> QED
  BY <1>1, <1>4, ZenonT(60) DEF Logged, SigningDigest

\* What is signed and prepared for a revision stays with it.
LEMMA MatchesNext == TypeInv /\ SnapshotInv /\ MatchesInv /\ [Next]_vars => MatchesInv'
<1> SUFFICES ASSUME TypeInv, SnapshotInv, MatchesInv, [Next]_vars PROVE MatchesInv'
  OBVIOUS
<1>1. TypeOK /\ WorkerTyped /\ StateMatches /\ WorkerMatches
  BY ZenonT(60) DEF TypeInv, MatchesInv
<1>2. ASSUME UNCHANGED state PROVE StateMatches'
  BY <1>1, <1>2, ZenonT(60) DEF StateMatches
<1>3. ASSUME worker' = Idle PROVE WorkerMatches'
  BY <1>3, ZenonT(60) DEF WorkerMatches, Idle
<1>4. ASSUME UNCHANGED worker PROVE WorkerMatches'
  BY <1>1, <1>4 DEF WorkerMatches
<1>5. ASSUME NEW w \in Workloads, NEW key \in Keys, Enqueue(w, key)
      PROVE  MatchesInv'
  <2>1. StateMatches'
    BY <1>1, <1>5, SMTT(30) DEF Enqueue, StateMatches, AttemptMatches, TypeOK
  <2> QED
    BY <1>4, <1>5, <2>1, ZenonT(60) DEF Enqueue, MatchesInv
<1>6. CASE Get
  <2>1. UNCHANGED state /\ worker'.pc = "read" /\ worker'.rev = Blank
    BY <1>6 DEF Get
  <2>2. WorkerMatches'
    BY <2>1 DEF WorkerMatches, AttemptMatches, Blank
  <2> QED
    BY <1>2, <2>1, <2>2, ZenonT(60) DEF MatchesInv
<1>7. CASE ReadLatest
  <2> DEFINE s == state[worker.wl]
             pc == IF OnChain(worker.wl, s.key) THEN "confirm" ELSE "prepare"
  <2>1. worker.wl \in Workloads /\ UNCHANGED state
    BY <1>1, <1>7, ZenonT(60) DEF ReadLatest, WorkerTyped
  <2>2. CASE worker' = Idle
    BY <1>2, <1>3, <2>1, <2>2, ZenonT(60) DEF MatchesInv
  <2>3. ASSUME Goto(pc, s, Nil) PROVE MatchesInv'
    <3>1. worker' = [pc |-> pc, wl |-> worker.wl, rev |-> s, tx |-> Nil]
      BY <2>3, SMTT(30) DEF Goto
    <3>2. WorkerMatches'
      BY <1>1, <2>1, <3>1, ZenonT(60) DEF WorkerMatches, StateMatches
    <3> QED
      BY <1>2, <2>1, <3>2, ZenonT(60) DEF MatchesInv
  <2> QED
    BY <1>7, <2>2, <2>3, ZenonT(60) DEF ReadLatest, Return
<1>8. CASE PrepareOnce
  <2> DEFINE w == worker.wl
             rev == worker.rev
             sig == IF rev.signature = NoSig THEN SigningDigest(w, rev.key) ELSE rev.signature
  <2>1. w \in Workloads /\ AttemptMatches(w, rev) /\ sig = SigningDigest(w, rev.key)
    BY <1>1, <1>8, ZenonT(60) DEF PrepareOnce, WorkerTyped, WorkerMatches, AttemptMatches
  <2>2. CASE UNCHANGED state /\ worker' = Idle
    BY <1>2, <1>3, <2>2, ZenonT(60) DEF MatchesInv
  <2>3. ASSUME UNCHANGED state, rev.prepared # Nil, Goto("send", rev, rev.prepared)
        PROVE  MatchesInv'
    <3>1. worker' = [pc |-> "send", wl |-> w, rev |-> rev, tx |-> rev.prepared]
      BY <2>3, ZenonT(60) DEF Goto
    <3>2. WorkerMatches'
      BY <2>1, <2>3, <3>1, ZenonT(60) DEF WorkerMatches, AttemptMatches
    <3> QED
      BY <1>2, <2>3, <3>2, ZenonT(60) DEF MatchesInv
  <2>4. ASSUME NEW t \in Prepare(w, rev.key, sig, rev.seq), Goto("send", rev, t),
               state' = IF state[w].seq = rev.seq
                        THEN [state EXCEPT ![w] = WithAttempt(@, sig, t)]
                        ELSE state
        PROVE  MatchesInv'
    <3>1. Publishes(t, w, rev.key)
      BY <2>1, SMTT(30) DEF Prepare, Publishes
    <3>2. worker' = [pc |-> "send", wl |-> w, rev |-> rev, tx |-> t]
      BY <2>4 DEF Goto
    <3>3. WorkerMatches'
      BY <2>1, <3>1, <3>2, ZenonT(60) DEF WorkerMatches
    <3>4. state[w].seq = rev.seq => state[w].key = rev.key
      BY <1>8, ZenonT(60) DEF SnapshotInv, PrepareOnce
    <3>5. StateMatches'
      BY <1>1, <2>1, <2>4, <3>1, <3>4, ZenonT(60) DEF StateMatches, AttemptMatches, WithAttempt, TypeOK
    <3> QED
      BY <3>3, <3>5, ZenonT(60) DEF MatchesInv
  <2>5. \/ UNCHANGED state /\ worker' = Idle
        \/ UNCHANGED state /\ rev.prepared # Nil /\ Goto("send", rev, rev.prepared)
        \/ \E t \in Prepare(w, rev.key, sig, rev.seq) :
             /\ Goto("send", rev, t)
             /\ state' = IF state[w].seq = rev.seq
                         THEN [state EXCEPT ![w] = WithAttempt(@, sig, t)]
                         ELSE state
    BY <1>8, ZenonT(60) DEF PrepareOnce, storeAttempt, Return
  <2> QED
    BY <2>2, <2>3, <2>4, <2>5, ZenonT(60)
\* Past prepareOnce the worker keeps its revision.
<1>9. CASE SendTx \/ WaitTx \/ Recheck
  <2>1. worker.pc # "idle"
    BY <1>9, ZenonT(60) DEF SendTx, WaitTx, Recheck
  <2>2. ASSUME NEW pc, Goto(pc, worker.rev, worker.tx), worker.pc = "send" PROVE WorkerMatches'
    <3>1. worker' = [pc |-> pc, wl |-> worker.wl, rev |-> worker.rev, tx |-> worker.tx]
      BY <2>2, ZenonT(60) DEF Goto
    <3> QED
      BY <1>1, <2>2, <3>1, ZenonT(60) DEF WorkerMatches
  <2>3. ASSUME NEW pc \in {"confirm", "recheck"}, Goto(pc, worker.rev, Nil) PROVE WorkerMatches'
    <3>1. worker' = [pc |-> pc, wl |-> worker.wl, rev |-> worker.rev, tx |-> Nil]
      BY <2>3, ZenonT(60) DEF Goto
    <3> QED
      BY <1>1, <2>1, <3>1, ZenonT(60) DEF WorkerMatches
  <2>4. WorkerMatches'
    BY <1>3, <1>9, <2>2, <2>3, ZenonT(60) DEF SendTx, WaitTx, Recheck, Return
  <2>5. CASE UNCHANGED state
    BY <1>2, <2>4, <2>5, ZenonT(60) DEF MatchesInv
  <2>6. CASE WaitTx /\ state' = discardAttempt(worker.wl, worker.rev.seq)
    <3>1. worker.wl \in Workloads
      BY <1>1, <2>6, ZenonT(60) DEF WaitTx, WorkerTyped
    <3>2. StateMatches'
      BY <1>1, <2>6, <3>1, ZenonT(60) DEF discardAttempt, WithAttempt, TypeOK, StateMatches, AttemptMatches
    <3> QED
      BY <2>4, <3>2, ZenonT(60) DEF MatchesInv
  <2> QED
    BY <1>9, <2>5, <2>6, ZenonT(60) DEF SendTx, WaitTx, Recheck
<1>10. CASE Confirm
  <2>1. worker.wl \in Workloads /\ worker' = Idle
    BY <1>1, <1>10, ZenonT(60) DEF Confirm, WorkerTyped, Return
  <2>2. /\ \A w \in Workloads : w # worker.wl => state'[w] = state[w]
        /\ state'[worker.wl].signature = state[worker.wl].signature
        /\ state'[worker.wl].prepared \in {Nil, state[worker.wl].prepared}
        /\ state'[worker.wl].key = state[worker.wl].key
    BY <1>1, <1>10, <2>1, ZenonT(60) DEF Confirm, TypeOK
  <2>3. StateMatches'
    BY <1>1, <2>1, <2>2, ZenonT(60) DEF StateMatches, AttemptMatches
  <2> QED
    BY <1>3, <2>1, <2>3, ZenonT(60) DEF MatchesInv
<1>11. CASE Crash
  <2>1. worker' = Idle /\ \A w \in Workloads : state'[w] = Blank
    BY <1>11, ZenonT(60) DEF Crash
  <2>2. StateMatches'
    BY <2>1, SMTT(30) DEF StateMatches, AttemptMatches, Blank
  <2> QED
    BY <1>3, <2>1, <2>2, ZenonT(60) DEF MatchesInv
<1>12. CASE UNCHANGED <<state, worker>>
  BY <1>2, <1>4, <1>12, ZenonT(60) DEF MatchesInv
<1> QED
  BY <1>5, <1>6, <1>7, <1>8, <1>9, <1>10, <1>11, <1>12, ZenonT(60)
     DEF Next, EnqueueAdd, Ripen, Mine, Evict, ForeignPublish, vars, publisherVars

LEMMA PublishedNext == TypeInv /\ SnapshotInv /\ PublishedInv /\ [Next]_vars => PublishedInv'
<1> SUFFICES ASSUME TypeInv, SnapshotInv, PublishedInv, [Next]_vars PROVE PublishedInv'
  OBVIOUS
<1>1. LogComplete' /\ MatchesInv'
  BY LogCompleteNext, MatchesNext, ZenonT(60) DEF PublishedInv
<1>2. TypeOK /\ WorkerTyped /\ WorkerMatches /\ LogComplete /\ ConfirmJustified
  BY ZenonT(60) DEF TypeInv, PublishedInv, MatchesInv
\* It is enough to follow what is confirmed and the worker.
<1> SUFFICES ConfirmJustified'
  BY <1>1, ZenonT(60) DEF PublishedInv
<1>3. ASSUME \A w \in Workloads : state'[w].confirmed \in {state[w].confirmed, Nil},
             worker'.pc = "confirm" =>
               Logged(worker.wl, worker.rev.key, SigningDigest(worker.wl, worker.rev.key))'
      PROVE  ConfirmJustified'
  BY <1>3, ConfirmedStays, ZenonT(60) DEF ConfirmJustified
<1>4. ASSUME UNCHANGED state, worker'.pc # "confirm" PROVE ConfirmJustified'
  BY <1>3, <1>4, ZenonT(60)
<1>5. Idle.pc = "idle"
  BY DEF Idle
<1>6. ASSUME NEW k, Logged(worker.wl, k, SigningDigest(worker.wl, k)),
             worker'.wl = worker.wl, worker'.rev.key = k
      PROVE  Logged(worker.wl, worker.rev.key, SigningDigest(worker.wl, worker.rev.key))'
  BY <1>6, LogGrows, SMTT(30) DEF Logged, SigningDigest
<1>7. ASSUME UNCHANGED worker,
             \A w \in Workloads : state'[w].confirmed \in {state[w].confirmed, Nil}
      PROVE  ConfirmJustified'
  BY <1>2, <1>3, <1>6, <1>7, ZenonT(60) DEF ConfirmJustified
<1>8. ASSUME NEW w \in Workloads, NEW key \in Keys, Enqueue(w, key)
      PROVE  ConfirmJustified'
  <2>1. \A v \in Workloads : state'[v].confirmed = state[v].confirmed
    BY <1>2, <1>8 DEF Enqueue, TypeOK
  <2> QED
    BY <1>7, <1>8, <2>1, ZenonT(60) DEF Enqueue
<1>9. CASE Get
  <2>1. UNCHANGED state /\ worker'.pc = "read"
    BY <1>9 DEF Get
  <2> QED
    BY <1>4, <2>1, ZenonT(60)
<1>10. CASE ReadLatest
  <2> DEFINE s == state[worker.wl]
             pc == IF OnChain(worker.wl, s.key) THEN "confirm" ELSE "prepare"
  <2>1. worker.wl \in Workloads /\ UNCHANGED state
    BY <1>2, <1>10, ZenonT(60) DEF ReadLatest, WorkerTyped
  <2>2. CASE worker' = Idle
    BY <1>4, <1>5, <2>1, <2>2, ZenonT(60)
  <2>3. ASSUME Goto(pc, s, Nil) PROVE ConfirmJustified'
    <3>1. worker' = [pc |-> pc, wl |-> worker.wl, rev |-> s, tx |-> Nil]
      BY <2>3, SMTT(30) DEF Goto
    <3>2. ASSUME worker'.pc = "confirm"
          PROVE  Logged(worker.wl, worker.rev.key, SigningDigest(worker.wl, worker.rev.key))'
      <4>1. Logged(worker.wl, s.key, SigningDigest(worker.wl, s.key))
        BY <1>2, <2>1, <3>1, <3>2, OnChainLogged, ZenonT(60)
      <4> QED
        BY <1>6, <3>1, <4>1, ZenonT(60)
    <3> QED
      BY <1>3, <2>1, <3>2, ZenonT(60)
  <2> QED
    BY <1>10, <2>2, <2>3, ZenonT(60) DEF ReadLatest, Return
<1>11. CASE PrepareOnce
  <2>1. worker.wl \in Workloads
    BY <1>2, <1>11, ZenonT(60) DEF PrepareOnce, WorkerTyped
  <2>2. \A w \in Workloads : state'[w].confirmed = state[w].confirmed
    <3>1. ASSUME NEW sig, NEW t, state' = storeAttempt(worker.wl, worker.rev.seq, sig, t)
          PROVE  \A w \in Workloads : state'[w].confirmed = state[w].confirmed
      BY <1>2, <2>1, <3>1, ZenonT(60) DEF storeAttempt, WithAttempt, TypeOK
    <3> QED
      BY <1>11, <3>1, ZenonT(60) DEF PrepareOnce
  <2>3. worker'.pc # "confirm"
    <3>1. worker' = Idle \/ \E rev, t : Goto("send", rev, t)
      BY <1>11, ZenonT(60) DEF PrepareOnce, Return
    <3> QED
      BY <1>5, <3>1 DEF Goto
  <2> QED
    BY <1>3, <2>2, <2>3, ZenonT(60)
<1>12. CASE SendTx
  <2>1. UNCHANGED state /\ (worker' = Idle \/ Goto("wait", worker.rev, worker.tx))
    BY <1>12, ZenonT(60) DEF SendTx, Return
  <2>2. worker'.pc # "confirm"
    BY <1>5, <2>1 DEF Goto
  <2> QED
    BY <1>4, <2>1, <2>2, ZenonT(60)
<1>13. CASE WaitTx
  <2>1. worker.wl \in Workloads /\ worker.pc = "wait"
    BY <1>2, <1>13, ZenonT(60) DEF WaitTx, WorkerTyped
  <2>2. \A w \in Workloads : state'[w].confirmed = state[w].confirmed
    <3>1. ASSUME state' = discardAttempt(worker.wl, worker.rev.seq)
          PROVE  \A w \in Workloads : state'[w].confirmed = state[w].confirmed
      BY <1>2, <2>1, <3>1, ZenonT(60) DEF discardAttempt, WithAttempt, TypeOK
    <3> QED
      BY <1>13, <3>1, ZenonT(60) DEF WaitTx
  <2>3. ASSUME worker'.pc = "confirm"
        PROVE  worker.tx \in landed /\ worker'.wl = worker.wl /\ worker'.rev = worker.rev
    <3>1. \/ worker' = Idle
          \/ Goto("recheck", worker.rev, Nil)
          \/ worker.tx \in landed /\ Goto("confirm", worker.rev, Nil)
      BY <1>13, ZenonT(60) DEF WaitTx, Wait, Return
    <3> QED
      BY <1>5, <2>3, <3>1 DEF Goto
  <2>4. ASSUME worker'.pc = "confirm"
        PROVE  Logged(worker.wl, worker.rev.key, SigningDigest(worker.wl, worker.rev.key))'
    <3>1. Publishes(worker.tx, worker.wl, worker.rev.key)
      BY <1>2, <2>1, ZenonT(60) DEF WorkerMatches
    <3>2. Logged(worker.wl, worker.rev.key, SigningDigest(worker.wl, worker.rev.key))
      BY <1>2, <2>3, <2>4, <3>1, ZenonT(60) DEF LogComplete, Publishes
    <3> QED
      BY <1>6, <2>3, <2>4, <3>2, ZenonT(60)
  <2> QED
    BY <1>3, <2>2, <2>4, ZenonT(60)
<1>14. CASE Recheck
  <2>1. worker.wl \in Workloads /\ UNCHANGED state
    BY <1>2, <1>14, ZenonT(60) DEF Recheck, WorkerTyped
  <2>2. CASE worker' = Idle
    BY <1>4, <1>5, <2>1, <2>2, ZenonT(60)
  <2>3. ASSUME OnChain(worker.wl, worker.rev.key), Goto("confirm", worker.rev, Nil)
        PROVE  ConfirmJustified'
    <3>1. worker'.wl = worker.wl /\ worker'.rev = worker.rev
      BY <2>3, ZenonT(60) DEF Goto
    <3>2. Logged(worker.wl, worker.rev.key, SigningDigest(worker.wl, worker.rev.key))
      BY <1>2, <2>1, <2>3, OnChainLogged, ZenonT(60)
    <3> QED
      BY <1>3, <1>6, <2>1, <3>1, <3>2, ZenonT(60)
  <2> QED
    BY <1>14, <2>2, <2>3, ZenonT(60) DEF Recheck, Return
<1>15. CASE Confirm
  <2>1. worker.wl \in Workloads /\ worker' = Idle /\ worker.pc = "confirm"
    BY <1>2, <1>15, ZenonT(60) DEF Confirm, WorkerTyped, Return
  <2>2. UNCHANGED events
    BY <1>15, ZenonT(60) DEF Confirm, registryVars
  <2>3. /\ \A w \in Workloads : w # worker.wl => state'[w] = state[w]
        /\ state'[worker.wl].confirmed = worker.rev.key
    BY <1>2, <1>15, <2>1, ZenonT(60) DEF Confirm, TypeOK
  <2> QED
    BY <1>2, <2>1, <2>2, <2>3, ZenonT(60) DEF ConfirmJustified, Idle, Logged, SigningDigest
<1>16. CASE Crash
  <2>1. worker' = Idle /\ \A w \in Workloads : state'[w] = Blank
    BY <1>16, ZenonT(60) DEF Crash
  <2> QED
    BY <2>1, SMTT(30) DEF ConfirmJustified, Idle, Blank
<1>17. CASE UNCHANGED <<state, worker>>
  BY <1>7, <1>17, ZenonT(60)
<1> QED
  BY <1>8, <1>9, <1>10, <1>11, <1>12, <1>13, <1>14, <1>15, <1>16, <1>17, ZenonT(60)
     DEF Next, EnqueueAdd, Ripen, Mine, Evict, ForeignPublish, vars, publisherVars

\* Whatever is marked confirmed was once the registry's record, validly
\* signed: confirm is only reached through a receipt of status 1 or through a
\* record whose signature verifies.
THEOREM ConfirmedWasPublishedThm == Spec => []ConfirmedWasPublished
<1>1. PublishedInv => ConfirmedWasPublished
  <2> SUFFICES ASSUME PublishedInv, NEW w \in Workloads, state[w].confirmed # Nil
               PROVE  \E i \in 1..Len(events) :
                        /\ events[i].wl = w
                        /\ events[i].key = state[w].confirmed
                        /\ events[i].sig = SigningDigest(w, state[w].confirmed)
    BY DEF ConfirmedWasPublished
  <2>1. Logged(w, state[w].confirmed, SigningDigest(w, state[w].confirmed))
    BY DEF PublishedInv, ConfirmJustified
  <2> QED
    BY <2>1, SMTT(30) DEF Logged
<1> QED
  BY <1>1, TypeInit, TypeNext, SnapshotInit, SnapshotNext, PublishedInit, PublishedNext,
     PTL DEF Spec

-----------------------------------------------------------------------------
(***************************************************************************)
(* NothingLost.  It is inductive once the worker's snapshot is known to be *)
(* of a revision that was requested: a step that takes a workload out of   *)
(* the queue's sets puts it into another, or leaves it settled.            *)
(***************************************************************************)

\* What processNext does to the queue's sets, whatever process returned.
LEMMA ReturnKeeps ==
  ASSUME NEW r, Return(r), NEW v,
         v \in dirty \cup processing \cup delayed,
         v = worker.wl => r \in {"err", "again"}
  PROVE  v \in (dirty \cup processing \cup delayed)'
<1>1. /\ processing' = processing \ {worker.wl}
      /\ delayed' = IF r = "err" THEN delayed \cup {worker.wl} ELSE delayed
      /\ dirty' = IF r = "again" THEN dirty \cup {worker.wl} ELSE dirty
  BY ZenonT(60) DEF Return, done
<1> QED
  BY <1>1, ZenonT(60)

\* What is waiting in the queue, its backoff or the worker.
Waiting == dirty \cup processing \cup delayed \cup {adding}

LEMMA NothingLostNext == TypeInv /\ SnapshotInv /\ NothingLost /\ [Next]_vars => NothingLost'
<1> SUFFICES ASSUME TypeInv, SnapshotInv, NothingLost, [Next]_vars, NEW v \in Workloads,
                    Unsettled(state'[v])
             PROVE  v \in Waiting'
  BY DEF NothingLost, Waiting, Unsettled
<1>1. TypeOK /\ WorkerTyped
  BY DEF TypeInv
\* Steps that keep the desired and the confirmed revision of v, and v waiting.
<1>2. ASSUME state'[v].seq = state[v].seq, state'[v].key = state[v].key,
             state'[v].confirmed = state[v].confirmed,
             v \in Waiting => v \in Waiting'
      PROVE  v \in Waiting'
  BY <1>2 DEF NothingLost, Waiting, Unsettled
<1>3. CASE UNCHANGED <<state, dirty, processing, delayed, adding>>
  BY <1>2, <1>3 DEF Waiting
<1>4. ASSUME NEW w \in Workloads, NEW key \in Keys, Enqueue(w, key)
      PROVE  v \in Waiting'
  <2>1. UNCHANGED <<dirty, processing, delayed>> /\ adding = Nil
    BY <1>4 DEF Enqueue, queueVars
  <2>2. CASE v = w /\ adding' = w
    BY <2>2, ZenonT(60) DEF Waiting
  <2>3. CASE v # w \/ UNCHANGED <<state, adding>>
    <3>1. UNCHANGED <<state, adding>> \/ (v # w /\ state'[v] = state[v])
      BY <1>1, <1>4, <2>3, ZenonT(60) DEF Enqueue, TypeOK
    <3>2. v # Nil
      BY PublisherAssumption
    <3> QED
      BY <1>2, <2>1, <3>1, <3>2, ZenonT(60) DEF Waiting
  <2> QED
    BY <1>4, <2>2, <2>3, ZenonT(60) DEF Enqueue
<1>5. CASE EnqueueAdd
  <2>1. UNCHANGED <<state, processing, delayed>> /\ dirty' = dirty \cup {adding}
    BY <1>5, ZenonT(60) DEF EnqueueAdd, add
  <2> QED
    BY <1>2, <2>1, ZenonT(60) DEF Waiting
<1>6. CASE Get
  <2>1. PICK w \in Workloads : get(w)
    BY <1>6, ZenonT(60) DEF Get
  <2>2. UNCHANGED <<state, delayed, adding>>
    BY <1>6, <2>1, ZenonT(60) DEF Get, get
  <2>3. dirty' = dirty \ {w} /\ processing' = processing \cup {w}
    BY <2>1, ZenonT(60) DEF get
  <2> QED
    BY <1>2, <2>2, <2>3, ZenonT(60) DEF Waiting
\* The steps of process that end it with an error, or do not end it.
<1>7. ASSUME state'[v].seq = state[v].seq, state'[v].key = state[v].key,
             state'[v].confirmed = state[v].confirmed, UNCHANGED adding,
             Return("err") \/ UNCHANGED queueVars
      PROVE  v \in Waiting'
  BY <1>2, <1>7, ReturnKeeps, ZenonT(60) DEF Waiting, queueVars
<1>8. CASE ReadLatest
  <2>1. UNCHANGED <<state, adding>> /\ worker.wl \in Workloads
    BY <1>1, <1>8, ZenonT(60) DEF ReadLatest, WorkerTyped
  <2>2. CASE ~ Unsettled(state[worker.wl]) /\ Return("ok")
    <3>1. v # worker.wl
      BY <2>1, <2>2
    <3> QED
      BY <1>2, <2>1, <2>2, <3>1, ReturnKeeps, ZenonT(60) DEF Waiting
  <2> QED
    BY <1>7, <1>8, <2>1, <2>2, ZenonT(60) DEF ReadLatest, Goto
<1>9. CASE PrepareOnce
  <2>1. \/ UNCHANGED state
        \/ \E sig, t : state' = [state EXCEPT ![worker.wl] = WithAttempt(@, sig, t)]
    BY <1>9, ZenonT(60) DEF PrepareOnce, storeAttempt
  <2>2. ASSUME NEW sig, NEW t, state' = [state EXCEPT ![worker.wl] = WithAttempt(@, sig, t)]
        PROVE  /\ state'[v].seq = state[v].seq /\ state'[v].key = state[v].key
               /\ state'[v].confirmed = state[v].confirmed
    <3>1. state'[v] = IF v = worker.wl THEN WithAttempt(state[v], sig, t) ELSE state[v]
      BY <1>1, <2>2, ZenonT(60) DEF TypeOK
    <3> QED
      BY <3>1 DEF WithAttempt
  <2>3. UNCHANGED adding /\ (Return("err") \/ UNCHANGED queueVars)
    BY <1>9, ZenonT(60) DEF PrepareOnce, Goto
  <2> QED
    BY <1>7, <2>1, <2>2, <2>3, ZenonT(60)
<1>10. CASE SendTx
  BY <1>7, <1>10, ZenonT(60) DEF SendTx, Goto
<1>11. CASE WaitTx
  <2>1. /\ state'[v].seq = state[v].seq /\ state'[v].key = state[v].key
        /\ state'[v].confirmed = state[v].confirmed
    BY <1>1, <1>11 DEF WaitTx, discardAttempt, WithAttempt, TypeOK
  <2>2. UNCHANGED adding /\ (Return("err") \/ UNCHANGED queueVars)
    BY <1>11, ZenonT(60) DEF WaitTx, Goto
  <2> QED
    BY <1>7, <2>1, <2>2, ZenonT(60)
<1>12. CASE Recheck
  BY <1>7, <1>12, ZenonT(60) DEF Recheck, Goto
<1>13. CASE Confirm
  <2>1. worker.wl \in Workloads /\ worker.pc = "confirm" /\ UNCHANGED adding
    BY <1>1, <1>13, ZenonT(60) DEF Confirm, WorkerTyped
  <2>2. CASE v # worker.wl
    <3>1. state'[v] = state[v]
      BY <1>1, <1>13, <2>2, ZenonT(60) DEF Confirm, TypeOK
    <3>2. Return("ok") \/ Return("again")
      BY <1>13, ZenonT(60) DEF Confirm
    <3> QED
      BY <1>2, <2>1, <2>2, <3>1, <3>2, ReturnKeeps, ZenonT(60) DEF Waiting
  <2>3. CASE v = worker.wl /\ state[v].seq = worker.rev.seq
    <3>1. state'[v].key = state[v].key /\ state'[v].confirmed = worker.rev.key
      BY <1>1, <1>13, <2>3, ZenonT(60) DEF Confirm, TypeOK
    <3>2. worker.rev.key = state[v].key
      BY <2>1, <2>3 DEF SnapshotInv
    <3> QED
      BY <3>1, <3>2, ZenonT(60) DEF Unsettled
  <2>4. CASE v = worker.wl /\ state[v].seq # worker.rev.seq
    <3>1. Return("again")
      BY <1>13, <2>4, ZenonT(60) DEF Confirm
    <3> QED
      BY <2>4, <3>1, ZenonT(60) DEF Return, done, Waiting
  <2> QED
    BY <2>2, <2>3, <2>4, ZenonT(60)
<1>14. CASE Ripen
  <2>1. PICK w \in Workloads : ripen(w)
    BY <1>14, ZenonT(60) DEF Ripen
  <2>2. UNCHANGED <<state, processing, adding>>
    BY <1>14, <2>1, ZenonT(60) DEF Ripen, ripen, publisherVars
  <2>3. delayed' = delayed \ {w} /\ dirty' = dirty \cup {w}
    BY <2>1 DEF ripen
  <2> QED
    BY <1>2, <2>2, <2>3, ZenonT(60) DEF Waiting
<1>15. CASE Crash
  <2>1. state'[v] = Blank
    BY <1>15, ZenonT(60) DEF Crash
  <2> QED
    BY <2>1 DEF Unsettled, Blank
<1>16. CASE Mine \/ Evict \/ ForeignPublish \/ UNCHANGED vars
  BY <1>3, <1>16 DEF Mine, Evict, ForeignPublish, vars, queueVars, publisherVars
<1> QED
  BY <1>4, <1>5, <1>6, <1>8, <1>9, <1>10, <1>11, <1>12, <1>13, <1>14, <1>15, <1>16, ZenonT(60) DEF Next

\* No requested revision is forgotten: while it is not confirmed, the queue,
\* the worker, a backoff or a pending Add holds its workload, however Enqueue
\* interleaves with process and whatever fails.
THEOREM NothingLostThm == Spec => []NothingLost
<1>1. Init => NothingLost
  BY DEF Init, NothingLost, Unsettled, Blank
<1> QED
  BY <1>1, TypeInit, TypeNext, SnapshotInit, SnapshotNext, NothingLostNext, PTL DEF Spec

-----------------------------------------------------------------------------
(***************************************************************************)
(* KeepsPromise.  Beyond PublishedInv the refinement needs that everything *)
(* on its way to the chain was asked for: the desired revision, the        *)
(* worker's snapshot, and what the node's pool holds, unless something     *)
(* else writes with the account.                                           *)
(***************************************************************************)

\* Transaction t was asked for and is signed for what it publishes.
Backed(t) ==
  Limit["foreign"] > 0 \/ (t.key \in asked[t.wl] /\ t.sig = SigningDigest(t.wl, t.key))

AskedInv ==
  /\ \A w \in Workloads : state[w].seq # 0 => state[w].key \in asked[w]
  /\ worker.pc \notin {"idle", "read"} => worker.rev.key \in asked[worker.wl]
  /\ \A t \in pool : Backed(t)

LEMMA AskedInit == Init => AskedInv
  BY SMTT(30) DEF Init, AskedInv, Blank, Idle, NodeInit

\* Nothing asked for is ever taken back.
LEMMA AskedGrows ==
  ASSUME TypeInv, [Next]_vars, NEW w \in Workloads
  PROVE  asked[w] \subseteq asked'[w]
<1>1. ASSUME NEW v \in Workloads, NEW key \in Keys, Enqueue(v, key)
      PROVE  asked[w] \subseteq asked'[w]
  BY <1>1, ZenonT(60) DEF Enqueue, TypeInv, TypeOK
<1> QED
  BY <1>1, ZenonT(60) DEF Next, EnqueueAdd, Get, ReadLatest, PrepareOnce, SendTx, WaitTx, Recheck, Confirm,
     Ripen, Mine, Evict, ForeignPublish, Crash, vars, historyVars

\* The worker goes on with its workload and its snapshot.
LEMMA GotoKeeps ==
  ASSUME NEW pc, NEW rev, NEW tx, Goto(pc, rev, tx)
  PROVE  worker'.rev = rev /\ worker'.wl = worker.wl
  BY DEF Goto

LEMMA AskedNext ==
  TypeInv /\ SnapshotInv /\ PublishedInv /\ AskedInv /\ [Next]_vars => AskedInv'
<1> SUFFICES ASSUME TypeInv, SnapshotInv, PublishedInv, AskedInv, [Next]_vars
             PROVE  AskedInv'
  OBVIOUS
<1>1. TypeOK /\ WorkerTyped /\ WorkerMatches
  BY ZenonT(60) DEF TypeInv, PublishedInv, MatchesInv
<1>2. \A w \in Workloads : asked[w] \subseteq asked'[w]
  BY AskedGrows, ZenonT(60)
\* What the pool may gain is asked for, or somebody else's.
<1>3. \A t \in pool' : Backed(t)'
  <2>1. ASSUME NEW t \in pool PROVE Backed(t)'
    <3>1. t.wl \in Workloads
      BY <1>1 DEF TypeOK, NodeTypeOK, Tx
    <3> QED
      BY <1>2, <3>1, ZenonT(60) DEF AskedInv, Backed, SigningDigest
  <2>2. CASE pool' \subseteq pool
    BY <2>1, <2>2, ZenonT(60)
  <2>3. CASE SendTx
    <3>1. \A t \in pool' : t \in pool \/ t = worker.tx
      BY <2>3, ZenonT(60) DEF SendTx, Send, receive, nodeVars
    <3>2. Publishes(worker.tx, worker.wl, worker.rev.key) /\ worker.wl \in Workloads
      BY <1>1, <2>3, ZenonT(60) DEF SendTx, WorkerMatches, WorkerTyped
    <3>3. worker.rev.key \in asked[worker.wl]
      BY <2>3 DEF SendTx, AskedInv
    <3>4. Backed(worker.tx) /\ worker.tx.wl \in Workloads
      BY <3>2, <3>3, ZenonT(60) DEF Backed, Publishes
    <3>5. ASSUME NEW t, t = worker.tx PROVE Backed(t)'
      BY <1>2, <3>4, <3>5, ZenonT(60) DEF Backed, SigningDigest
    <3> QED
      BY <2>1, <3>1, <3>5, ZenonT(60)
  <2>4. CASE ForeignPublish
    <3>1. spent["foreign"] < Limit["foreign"]
      BY <2>4, ZenonT(60) DEF ForeignPublish, Fail
    <3>2. spent["foreign"] \in Nat /\ Limit["foreign"] \in Nat
      BY <1>1, PublisherAssumption, ZenonT(60) DEF TypeOK, Failures
    <3>3. Limit["foreign"] > 0
      BY <3>1, <3>2
    <3> QED
      BY <3>3, ZenonT(60) DEF Backed
  <2> QED
    BY <2>2, <2>3, <2>4, ZenonT(60) DEF Next, Enqueue, EnqueueAdd, Get, ReadLatest, PrepareOnce, WaitTx,
       Recheck, Confirm, Ripen, Mine, Evict, Crash, mineSuccess, mineReverted, include, evict,
       vars, nodeVars
\* Steps that keep the desired revisions, and the worker's snapshot or drop it.
<1>4. ASSUME \A w \in Workloads : state'[w].seq = state[w].seq /\ state'[w].key = state[w].key,
             \/ worker'.pc \in {"idle", "read"}
             \/ /\ worker.pc \notin {"idle", "read"}
                /\ worker'.rev = worker.rev /\ worker'.wl = worker.wl
      PROVE  AskedInv'
  <2>1. worker.pc \notin {"idle", "read"} => worker.wl \in Workloads
    BY <1>1 DEF WorkerTyped
  <2> QED
    BY <1>2, <1>3, <1>4, <2>1, ZenonT(60) DEF AskedInv
<1>5. CASE UNCHANGED <<state, worker>>
  BY <1>4, <1>5, ZenonT(60)
<1>6. ASSUME NEW w \in Workloads, NEW key \in Keys, Enqueue(w, key)
      PROVE  AskedInv'
  <2>1. CASE UNCHANGED state
    BY <1>5, <1>6, <2>1, ZenonT(60) DEF Enqueue
  <2>2. CASE state' = [state EXCEPT ![w] =
               [seq |-> seq + 1, key |-> key, signature |-> NoSig, prepared |-> Nil,
                confirmed |-> @.confirmed]]
    <3>1. \A v \in Workloads : state'[v] = state[v] \/ (v = w /\ state'[v].key = key)
      BY <1>1, <2>2, ZenonT(60) DEF TypeOK
    <3>2. key \in asked'[w] /\ UNCHANGED worker
      BY <1>1, <1>6, ZenonT(60) DEF Enqueue, TypeOK
    <3>3. worker.pc \notin {"idle", "read"} => worker.wl \in Workloads
      BY <1>1 DEF WorkerTyped
    <3>4. \A v \in Workloads : state'[v].seq # 0 => state'[v].key \in asked'[v]
      BY <1>2, <3>1, <3>2, ZenonT(60) DEF AskedInv
    <3>5. worker'.pc \notin {"idle", "read"} => worker'.rev.key \in asked'[worker'.wl]
      BY <1>2, <3>2, <3>3, ZenonT(60) DEF AskedInv
    <3> QED
      BY <1>3, <3>4, <3>5, ZenonT(60) DEF AskedInv
  <2> QED
    BY <1>6, <2>1, <2>2, ZenonT(60) DEF Enqueue
<1>7. CASE Get
  BY <1>4, <1>7 DEF Get
<1>8. CASE ReadLatest
  <2>1. UNCHANGED state /\ worker.wl \in Workloads
    BY <1>1, <1>8, ZenonT(60) DEF ReadLatest, WorkerTyped
  <2>2. CASE worker' = Idle
    BY <1>4, <2>1, <2>2, ZenonT(60) DEF Idle
  <2>3. CASE /\ Unsettled(state[worker.wl])
             /\ worker'.rev = state[worker.wl] /\ worker'.wl = worker.wl
    BY <1>2, <1>3, <2>1, <2>3, ZenonT(60) DEF AskedInv, Unsettled
  <2> QED
    BY <1>8, <2>2, <2>3, GotoKeeps, ZenonT(60) DEF ReadLatest, Return
<1>9. CASE PrepareOnce
  <2>1. \A w \in Workloads : state'[w].seq = state[w].seq /\ state'[w].key = state[w].key
    <3>1. \/ UNCHANGED state
          \/ \E sig, t : state' = [state EXCEPT ![worker.wl] = WithAttempt(@, sig, t)]
      BY <1>9, ZenonT(60) DEF PrepareOnce, storeAttempt
    <3>2. ASSUME NEW sig, NEW t, state' = [state EXCEPT ![worker.wl] = WithAttempt(@, sig, t)],
                 NEW w \in Workloads
          PROVE  state'[w].seq = state[w].seq /\ state'[w].key = state[w].key
      <4>1. state'[w] = IF w = worker.wl THEN WithAttempt(state[w], sig, t) ELSE state[w]
        BY <1>1, <3>2, ZenonT(60) DEF TypeOK
      <4> QED
        BY <4>1 DEF WithAttempt
    <3> QED
      BY <3>1, <3>2, ZenonT(60)
  <2>2. worker' = Idle \/ (worker'.rev = worker.rev /\ worker'.wl = worker.wl)
    BY <1>9, GotoKeeps, ZenonT(60) DEF PrepareOnce, Return
  <2>3. worker.pc = "prepare"
    BY <1>9, ZenonT(60) DEF PrepareOnce
  <2> QED
    BY <1>4, <2>1, <2>2, <2>3 DEF Idle
<1>10. CASE SendTx \/ Recheck
  <2>1. worker' = Idle \/ (worker'.rev = worker.rev /\ worker'.wl = worker.wl)
    BY <1>10, GotoKeeps, ZenonT(60) DEF SendTx, Recheck, Return
  <2>2. UNCHANGED state /\ worker.pc \in {"send", "recheck"}
    BY <1>10, ZenonT(60) DEF SendTx, Recheck
  <2> QED
    BY <1>4, <2>1, <2>2, SMTT(30) DEF Idle
<1>11. CASE WaitTx
  <2>1. \A w \in Workloads : state'[w].seq = state[w].seq /\ state'[w].key = state[w].key
    <3>1. UNCHANGED state \/ state' = discardAttempt(worker.wl, worker.rev.seq)
      BY <1>11, ZenonT(60) DEF WaitTx
    <3> QED
      BY <1>1, <3>1 DEF discardAttempt, WithAttempt, TypeOK
  <2>2. worker' = Idle \/ (worker'.rev = worker.rev /\ worker'.wl = worker.wl)
    BY <1>11, GotoKeeps, ZenonT(60) DEF WaitTx, Return
  <2>3. worker.pc = "wait"
    BY <1>11, ZenonT(60) DEF WaitTx
  <2> QED
    BY <1>4, <2>1, <2>2, <2>3 DEF Idle
<1>12. CASE Confirm
  <2>1. \A w \in Workloads : state'[w].seq = state[w].seq /\ state'[w].key = state[w].key
    BY <1>1, <1>12, ZenonT(60) DEF Confirm, TypeOK
  <2> QED
    BY <1>4, <1>12, <2>1, ZenonT(60) DEF Confirm, Return, Idle
<1>13. CASE Crash
  <2>1. worker' = Idle /\ \A w \in Workloads : state'[w] = Blank
    BY <1>13, ZenonT(60) DEF Crash
  <2> QED
    BY <1>3, <2>1 DEF AskedInv, Idle, Blank
<1>14. CASE EnqueueAdd \/ Ripen \/ Mine \/ Evict \/ ForeignPublish \/ UNCHANGED vars
  BY <1>5, <1>14, ZenonT(60) DEF EnqueueAdd, Ripen, Mine, Evict, ForeignPublish, vars, publisherVars
<1> QED
  BY <1>6, <1>7, <1>8, <1>9, <1>10, <1>11, <1>12, <1>13, <1>14, ZenonT(60) DEF Next

\* What the node mines is a publication the promise allows.
LEMMA MineRecords ==
  ASSUME TypeInv, AskedInv, Mine
  PROVE  Promise!Next \/ UNCHANGED Promise!vars
<1>1. UNCHANGED <<asked, state>>
  BY DEF Mine, publisherVars
<1>2. CASE UNCHANGED events
  BY <1>1, <1>2, ZenonT(60) DEF Promise!vars
<1>3. ASSUME NEW t \in pool, mineSuccess(t)
      PROVE  Promise!Next
  <2>1. t \in Tx
    BY DEF TypeInv, TypeOK, NodeTypeOK
  <2>2. t.wl \in Workloads /\ t.key \in Keys /\ t.sig \in Workloads \X Keys
    BY <2>1, ZenonT(60) DEF Tx, Sigs
  <2>3. Backed(t)
    BY ZenonT(60) DEF AskedInv
  <2>4. events' = Append(events, [wl |-> t.wl, key |-> t.key, sig |-> t.sig])
    BY <1>3, ZenonT(60) DEF mineSuccess, publish
  <2>5. Promise!Record(t.wl, t.key, t.sig)
    BY <1>1, <2>3, <2>4, ZenonT(60) DEF Promise!Record, Backed
  <2> QED
    BY <2>2, <2>5, ZenonT(60) DEF Promise!Next
<1> QED
  BY <1>2, <1>3, ZenonT(60) DEF Mine, mineReverted, registryVars

\* Every step of the publisher and its environment is a step of the promise,
\* or one it does not see.
LEMMA StepKeepsPromise ==
  TypeInv /\ SnapshotInv /\ PublishedInv /\ AskedInv /\ [Next]_vars
    => [Promise!Next]_(Promise!vars)
<1> SUFFICES ASSUME TypeInv, SnapshotInv, PublishedInv, AskedInv, [Next]_vars
             PROVE  Promise!Next \/ UNCHANGED Promise!vars
  OBVIOUS
<1>1. TypeOK /\ WorkerTyped
  BY DEF TypeInv
<1>2. ASSUME UNCHANGED <<asked, events>>,
             \A w \in Workloads : state'[w].confirmed = state[w].confirmed
      PROVE  UNCHANGED Promise!vars
  BY <1>2 DEF Promise!vars
<1>3. ASSUME NEW w \in Workloads, NEW key \in Keys, Enqueue(w, key)
      PROVE  Promise!Next
  <2>1. /\ asked' = [asked EXCEPT ![w] = @ \cup {key}]
        /\ UNCHANGED events
    BY <1>3, ZenonT(60) DEF Enqueue, registryVars
  <2>2. \A v \in Workloads : state'[v].confirmed = state[v].confirmed
    BY <1>1, <1>3 DEF Enqueue, TypeOK
  <2>3. Promise!Ask(w, key)
    BY <2>1, <2>2, ZenonT(60) DEF Promise!Ask
  <2> QED
    BY <2>3, ZenonT(60) DEF Promise!Next
<1>4. CASE PrepareOnce
  <2>1. \/ UNCHANGED state
        \/ \E sig, t : state' = [state EXCEPT ![worker.wl] = WithAttempt(@, sig, t)]
    BY <1>4, ZenonT(60) DEF PrepareOnce, storeAttempt
  <2>2. ASSUME NEW sig, NEW t, state' = [state EXCEPT ![worker.wl] = WithAttempt(@, sig, t)],
               NEW w \in Workloads
        PROVE  state'[w].confirmed = state[w].confirmed
    <3>1. state'[w] = IF w = worker.wl THEN WithAttempt(state[w], sig, t) ELSE state[w]
      BY <1>1, <2>2, ZenonT(60) DEF TypeOK
    <3> QED
      BY <3>1 DEF WithAttempt
  <2>3. UNCHANGED <<asked, events>>
    BY <1>4, ZenonT(60) DEF PrepareOnce, registryVars
  <2> QED
    BY <1>2, <2>1, <2>2, <2>3, ZenonT(60)
<1>5. CASE WaitTx
  <2>1. \A w \in Workloads : state'[w].confirmed = state[w].confirmed
    BY <1>1, <1>5 DEF WaitTx, discardAttempt, WithAttempt, TypeOK
  <2> QED
    BY <1>2, <1>5, <2>1, ZenonT(60) DEF WaitTx, registryVars
<1>6. CASE Confirm
  <2>1. worker.wl \in Workloads /\ worker.pc = "confirm" /\ worker.rev.key \in Keys
    BY <1>1, <1>6, ZenonT(60) DEF Confirm, WorkerTyped
  <2>2. UNCHANGED <<asked, events>>
    BY <1>6, ZenonT(60) DEF Confirm, registryVars, historyVars
  <2>3. worker.rev.key \in asked[worker.wl]
    BY <2>1, ZenonT(60) DEF AskedInv
  <2>4. \E i \in 1..Len(events) :
          events[i] = [wl |-> worker.wl, key |-> worker.rev.key,
                       sig |-> SigningDigest(worker.wl, worker.rev.key)]
    BY <2>1, ZenonT(60) DEF PublishedInv, ConfirmJustified, Logged
  <2>5. \A w \in Workloads :
          state'[w].confirmed = IF w = worker.wl THEN worker.rev.key ELSE state[w].confirmed
    BY <1>1, <1>6, <2>1, ZenonT(60) DEF Confirm, TypeOK
  <2>6. PICK w \in Workloads, key \in Keys : w = worker.wl /\ key = worker.rev.key
    BY <2>1, ZenonT(60)
  <2>7. Promise!Confirm(w, key)
    BY <2>2, <2>3, <2>4, <2>5, <2>6, ZenonT(60) DEF Promise!Confirm
  <2> QED
    BY <2>7, ZenonT(60) DEF Promise!Next
<1>7. CASE Crash
  <2>1. \A w \in Workloads : state'[w].confirmed = Nil
    BY <1>7 DEF Crash, Blank
  <2>2. Promise!Restart
    BY <1>7, <2>1, ZenonT(60) DEF Crash, registryVars, Promise!Restart
  <2> QED
    BY <2>2, ZenonT(60) DEF Promise!Next
<1>8. CASE UNCHANGED <<asked, events, state>>
  BY <1>2, <1>8, ZenonT(60)
<1>9. CASE \/ EnqueueAdd \/ Get \/ ReadLatest \/ SendTx \/ Recheck \/ Ripen
           \/ Evict \/ ForeignPublish \/ UNCHANGED vars
  BY <1>8, <1>9, ZenonT(60) DEF EnqueueAdd, Get, ReadLatest, SendTx, Recheck, Ripen, Evict, ForeignPublish,
     vars, registryVars, publisherVars, historyVars
<1> QED
  BY <1>3, <1>4, <1>5, <1>6, <1>7, <1>9, MineRecords, ZenonT(60) DEF Next

\* The publisher implements what it promises, for any number of workloads,
\* revisions, failures and restarts: only what Enqueue was given is published
\* by an operator alone with its account, under the signature made for it; the
\* log only grows; and only what was asked for and is in the log is confirmed.
THEOREM KeepsPromiseThm == Spec => KeepsPromise
<1>1. Init => Promise!Init
  BY DEF Init, RegistryInit, Blank, Promise!Init
<1> QED
  BY <1>1, TypeInit, TypeNext, SnapshotInit, SnapshotNext, PublishedInit, PublishedNext,
     AskedInit, AskedNext, StepKeepsPromise, PTL DEF Spec, KeepsPromise, Promise!Spec

-----------------------------------------------------------------------------
(***************************************************************************)
(* The registry, whoever calls it: both invariants are inductive once the  *)
(* log is known to be a sequence.                                          *)
(***************************************************************************)

LEMMA PublishHasVersion ==
  ASSUME RegistryTypeOK, UnsetIsVersionZero,
         NEW sender, NEW w \in Workloads, NEW key \in Keys, NEW sig, publish(sender, w, key, sig)
  PROVE  UnsetIsVersionZero'
  BY ZenonT(60) DEF RegistryTypeOK, UnsetIsVersionZero, getLatest, publish, accepts

\* The new event is the last of its workload, and the events of the others
\* are the ones they were.
LEMMA PublishIsLogged ==
  ASSUME RegistryTypeOK, LogReconstructsLatest,
         NEW sender, NEW w \in Workloads, NEW key \in Keys, NEW sig \in Sigs,
         publish(sender, w, key, sig)
  PROVE  LogReconstructsLatest'
<1> DEFINE e == [wl |-> w, key |-> key, sig |-> sig]
           n == Len(events)
           mine(v) == {i \in 1..n : events[i].wl = v}
           after(v) == {i \in 1..Len(events') : events'[i].wl = v}
<1>1. e \in Event /\ events \in Seq(Event) /\ events' = Append(events, e)
  BY DEF Event, publish, RegistryTypeOK
<1>2. /\ n \in Nat /\ Len(events') = n + 1 /\ events'[n + 1] = e
      /\ \A i \in 1..n : events'[i] = events[i]
  <2> HIDE DEF e
  <2> QED
    BY <1>1, AppendProperties, LenProperties
<1>3. \A v \in Workloads :
        latest'[v] = IF v = w THEN [exists |-> TRUE, key |-> key, sig |-> sig] ELSE latest[v]
  BY ZenonT(60) DEF publish, RegistryTypeOK
<1> SUFFICES ASSUME NEW v \in Workloads
             PROVE  \/ after(v) = {} /\ latest'[v] = Unset
                    \/ \E i \in after(v) :
                         /\ \A j \in after(v) : j <= i
                         /\ latest'[v] = [exists |-> TRUE, key |-> events'[i].key, sig |-> events'[i].sig]
  BY SMTT(30) DEF LogReconstructsLatest, getLatest
<1>4. CASE v = w
  <2>1. /\ n + 1 \in 1..Len(events') /\ events'[n + 1].wl = v
        /\ \A j \in 1..Len(events') : j <= n + 1
    BY <1>2, <1>4
  <2>3. n + 1 \in after(v) /\ \A j \in after(v) : j <= n + 1
    BY <2>1
  <2>2. latest'[v] = [exists |-> TRUE, key |-> events'[n + 1].key, sig |-> events'[n + 1].sig]
    <3>1. events'[n + 1].key = key /\ events'[n + 1].sig = sig
      BY <1>2
    <3> QED
      BY <1>3, <1>4, <3>1, ZenonT(60)
  <2> HIDE DEF after
  <2> QED
    BY <2>2, <2>3, ZenonT(60)
<1>5. CASE v # w
  <2>1. after(v) = mine(v)
    BY <1>2, <1>5
  <2>2. \A i \in mine(v) : events'[i] = events[i]
    BY <1>2, ZenonT(60)
  <2>3. latest'[v] = latest[v]
    BY <1>3, <1>5, ZenonT(60)
  <2>4. \/ mine(v) = {} /\ latest[v] = Unset
        \/ \E i \in mine(v) :
             /\ \A j \in mine(v) : j <= i
             /\ latest[v] = [exists |-> TRUE, key |-> events[i].key, sig |-> events[i].sig]
    BY DEF LogReconstructsLatest, getLatest
  <2> HIDE DEF mine, after
  <2> QED
    BY <2>1, <2>2, <2>3, <2>4, ZenonT(60)
<1> QED
  BY <1>4, <1>5

\* Only a mined transaction writes the registry.
LEMMA RegistryNext ==
  TypeInv /\ UnsetIsVersionZero /\ LogReconstructsLatest /\ [Next]_vars
    => UnsetIsVersionZero' /\ LogReconstructsLatest'
<1> SUFFICES ASSUME TypeInv, UnsetIsVersionZero, LogReconstructsLatest, [Next]_vars
             PROVE  UnsetIsVersionZero' /\ LogReconstructsLatest'
  BY ZenonT(60)
<1>1. ASSUME UNCHANGED registryVars
      PROVE  UnsetIsVersionZero' /\ LogReconstructsLatest'
  BY <1>1 DEF registryVars, UnsetIsVersionZero, LogReconstructsLatest, getLatest
<1>2. ASSUME NEW t \in pool, mineSuccess(t)
      PROVE  UnsetIsVersionZero' /\ LogReconstructsLatest'
  <2>1. t \in Tx /\ RegistryTypeOK
    BY DEF TypeInv, TypeOK, NodeTypeOK
  <2>2. t.wl \in Workloads /\ t.key \in Keys /\ t.sig \in Sigs
    BY <2>1 DEF Tx
  <2>3. publish(Publisher, t.wl, t.key, t.sig)
    BY <1>2, ZenonT(60) DEF mineSuccess
  <2> QED
    BY <2>1, <2>2, <2>3, PublishHasVersion, PublishIsLogged, ZenonT(60)
<1>3. CASE Next
  BY <1>1, <1>2, <1>3, ZenonT(60) DEF Next, Enqueue, EnqueueAdd, Get, ReadLatest, PrepareOnce, SendTx,
     WaitTx, Recheck, Confirm, Ripen, Mine, mineReverted, Evict, ForeignPublish, Crash
<1> QED
  BY <1>1, <1>3, ZenonT(60) DEF vars

LEMMA RegistryIsFresh == Init => UnsetIsVersionZero /\ LogReconstructsLatest
<1> SUFFICES ASSUME Init PROVE UnsetIsVersionZero /\ LogReconstructsLatest
  OBVIOUS
<1>1. \A w \in Workloads : latest[w] = Unset
  BY ZenonT(60) DEF Init, RegistryInit
<1>2. Unset.exists = FALSE /\ Version[Unset.key] = 0
  BY RegistryAssumption DEF Unset
<1>3. ASSUME NEW w \in Workloads PROVE {i \in 1..Len(events) : events[i].wl = w} = {}
  <2>1. Len(events) = 0
    BY DEF Init, RegistryInit
  <2> QED
    BY <2>1
<1> QED
  BY <1>1, <1>2, <1>3, ZenonT(60) DEF UnsetIsVersionZero, LogReconstructsLatest, getLatest

\* The record of a workload has version 0 exactly when there is none: publish
\* refuses version 0, whoever calls it (AttestationRegistryV2.sol).
THEOREM UnsetIsVersionZeroThm == Spec => []UnsetIsVersionZero
  BY TypeInit, TypeNext, RegistryIsFresh, RegistryNext, PTL DEF Spec

\* The event log says what every record is, whatever is published, lost or
\* overwritten: publish emits all that it stores.
THEOREM LogReconstructsLatestThm == Spec => []LogReconstructsLatest
  BY TypeInit, TypeNext, RegistryIsFresh, RegistryNext, PTL DEF Spec
=============================================================================
