-------------------------- MODULE PublisherV2Order --------------------------
(***************************************************************************)
(* How often, in which order and how lastingly PublisherV2 publishes, for  *)
(* every value of its constants.                                           *)
(***************************************************************************)
EXTENDS PublisherV2Proofs

-----------------------------------------------------------------------------
(***************************************************************************)
(* Attempts and transactions: what is on chain or may still get there, and *)
(* what a step adds to it.                                                 *)
(***************************************************************************)

\* The attempts the publisher keeps: in its state, in the snapshot
\* prepareOnce will look at, and in the worker's hand.
Kept ==
  {state[w].prepared : w \in Workloads}
    \cup (IF worker.pc = "prepare" THEN {worker.rev.prepared} ELSE {})
    \cup (IF worker.pc \in {"send", "wait"} THEN {worker.tx} ELSE {})

Known == (Kept \cup pool \cup landed) \ {Nil}

\* A transaction of revision s of workload w.
IsOf(t, w, s) == t.wl = w /\ t.seq = s

\* The node: used nonces are below the account's, pooled ones are not, one
\* transaction used a nonce, one pooled has it, and none has two receipts.
NonceInv ==
  /\ \A t \in pool : t.nonce >= nonce
  /\ \A t, u \in pool : t.nonce = u.nonce => t = u
  /\ \A t \in landed \cup reverted : t.nonce < nonce
  /\ \A t, u \in landed \cup reverted : t.nonce = u.nonce => t = u
  /\ landed \cap reverted = {}

\* A kept attempt is of the revision it is kept for.
KeptInv ==
  /\ \A w \in Workloads : state[w].prepared # Nil => IsOf(state[w].prepared, w, state[w].seq)
  /\ worker.pc = "prepare" /\ worker.rev.prepared # Nil
       => IsOf(worker.rev.prepared, worker.wl, worker.rev.seq)
  /\ worker.pc \in {"send", "wait"} => IsOf(worker.tx, worker.wl, worker.rev.seq)

\* From the snapshot to confirm, the workload in hand stays unsettled.
BusyInv == worker.pc \notin {"idle", "read"} => Unsettled(state[worker.wl])

\* The steps that change what the node has.
LEMMA NodeStep ==
  ASSUME [Next]_vars
  PROVE  SendTx \/ ForeignPublish \/ Mine \/ Evict \/ UNCHANGED nodeVars
  BY ZenonT(60) DEF Next, Enqueue, EnqueueAdd, Get, ReadLatest, PrepareOnce, WaitTx, Recheck, Confirm,
     Ripen, Crash, vars

LEMMA NonceNext == TypeInv /\ NonceInv /\ [Next]_vars => NonceInv'
<1> SUFFICES ASSUME TypeInv, NonceInv, [Next]_vars PROVE NonceInv'
  BY ZenonT(60)
<1>1. /\ nonce \in Nat
      /\ \A t \in pool \cup landed \cup reverted : t.nonce \in Nat
  BY ZenonT(60) DEF TypeInv, TypeOK, NodeTypeOK, Tx
<1>2. CASE UNCHANGED nodeVars
  BY <1>2, ZenonT(60) DEF nodeVars, NonceInv
<1>3. ASSUME NEW t, receive(t) PROVE NonceInv'
  BY <1>3, ZenonT(60) DEF receive, NonceInv
<1>4. CASE Evict
  BY <1>4, ZenonT(60) DEF Evict, evict, NonceInv
<1>5. ASSUME NEW t \in pool, mineSuccess(t) \/ mineReverted(t) PROVE NonceInv'
  <2>1. /\ t.nonce = nonce /\ nonce' = nonce + 1 /\ pool' = pool \ {t}
        /\ \/ landed' = landed \cup {t} /\ UNCHANGED reverted
           \/ reverted' = reverted \cup {t} /\ UNCHANGED landed
    BY <1>5, ZenonT(60) DEF mineSuccess, mineReverted, include
  <2>2. \A u \in pool' : u.nonce >= nonce + 1
    BY <1>1, <2>1 DEF NonceInv
  <2>3. \A u \in landed \cup reverted \cup {t} : u.nonce < nonce + 1
    BY <1>1, <2>1 DEF NonceInv
  <2>4. \A u \in landed \cup reverted : u.nonce # t.nonce
    BY <1>1, <2>1 DEF NonceInv
  <2>5. \A u, v \in landed \cup reverted \cup {t} : u.nonce = v.nonce => u = v
    BY <2>4, ZenonT(60) DEF NonceInv
  <2>6. t \notin landed \cup reverted
    BY <2>4, ZenonT(60)
  <2> QED
    BY <2>1, <2>2, <2>3, <2>5, <2>6, ZenonT(60) DEF NonceInv
<1>7. CASE SendTx
  BY <1>2, <1>3, <1>7, ZenonT(60) DEF SendTx, Send
<1>8. CASE ForeignPublish
  BY <1>3, <1>8, ZenonT(60) DEF ForeignPublish
<1>9. CASE Mine
  BY <1>5, <1>9, ZenonT(60) DEF Mine
<1> QED
  BY <1>2, <1>4, <1>7, <1>8, <1>9, NodeStep, ZenonT(60)

\* What a step of the publisher does to the workload state of v: it leaves it
\* alone, replaces the attempt, confirms a revision, requests another one, or
\* forgets everything.
LEMMA StateStep ==
  ASSUME TypeInv, [Next]_vars, NEW v \in Workloads
  PROVE  \/ state'[v] = state[v]
         \/ /\ state'[v].seq = seq + 1 /\ seq' = seq + 1 /\ state'[v].prepared = Nil
            /\ state'[v].confirmed = state[v].confirmed
            /\ state'[v].key # state'[v].confirmed
            /\ UNCHANGED worker
         \/ /\ PrepareOnce /\ v = worker.wl /\ worker.rev.prepared = Nil
            /\ state[v].seq = worker.rev.seq
            /\ state'[v].seq = state[v].seq /\ state'[v].key = state[v].key
            /\ state'[v].confirmed = state[v].confirmed
            /\ worker'.pc = "send" /\ state'[v].prepared = worker'.tx
         \/ /\ WaitTx /\ v = worker.wl /\ worker.tx \in reverted
            /\ state[v].seq = worker.rev.seq
            /\ state'[v].seq = state[v].seq /\ state'[v].key = state[v].key
            /\ state'[v].confirmed = state[v].confirmed
            /\ state'[v].prepared = Nil /\ worker' = Idle
         \/ /\ Confirm /\ v = worker.wl
            /\ state'[v].seq = state[v].seq /\ state'[v].key = state[v].key
            /\ state'[v].confirmed = worker.rev.key
            /\ state'[v].prepared = IF state[v].seq = worker.rev.seq THEN Nil ELSE state[v].prepared
            /\ worker' = Idle
         \/ Crash /\ state'[v] = Blank /\ worker' = Idle
<1>1. TypeOK /\ WorkerTyped /\ state \in [Workloads -> WorkloadState]
  BY DEF TypeInv, TypeOK
<1>2. ASSUME NEW w \in Workloads, NEW key \in Keys, Enqueue(w, key)
      PROVE  \/ state'[v] = state[v]
             \/ /\ state'[v].seq = seq + 1 /\ seq' = seq + 1 /\ state'[v].prepared = Nil
                /\ state'[v].confirmed = state[v].confirmed
                /\ state'[v].key # state'[v].confirmed
                /\ UNCHANGED worker
  BY <1>1, <1>2, SMTT(30) DEF Enqueue
<1>3. CASE PrepareOnce
  <2>1. CASE UNCHANGED state
    BY <2>1, ZenonT(60)
  <2>2. ASSUME NEW sig, NEW t, Goto("send", worker.rev, t), worker.rev.prepared = Nil,
               state' = storeAttempt(worker.wl, worker.rev.seq, sig, t)
        PROVE  \/ state'[v] = state[v]
               \/ /\ v = worker.wl /\ worker.rev.prepared = Nil
                  /\ state[v].seq = worker.rev.seq
                  /\ state'[v].seq = state[v].seq /\ state'[v].key = state[v].key
                  /\ state'[v].confirmed = state[v].confirmed
                  /\ worker'.pc = "send" /\ state'[v].prepared = worker'.tx
    BY <1>1, <2>2, SMTT(30) DEF storeAttempt, WithAttempt, Goto
  <2> QED
    BY <1>3, <2>1, <2>2, ZenonT(60) DEF PrepareOnce
<1>4. CASE WaitTx
  <2>1. CASE UNCHANGED state
    BY <2>1
  <2>2. CASE Wait(worker.tx) = "Reverted" /\ state' = discardAttempt(worker.wl, worker.rev.seq)
             /\ Return("err")
    <3>1. worker.tx \in reverted /\ worker' = Idle
      BY <2>2, ZenonT(60) DEF Wait, Return
    <3> QED
      BY <1>1, <1>4, <2>2, <3>1, ZenonT(60) DEF discardAttempt, WithAttempt
  <2> QED
    BY <1>4, <2>1, <2>2, ZenonT(60) DEF WaitTx
<1>5. CASE Confirm
  <2>1. worker' = Idle
    BY <1>5, ZenonT(60) DEF Confirm, Return
  <2>2. CASE v # worker.wl
    BY <1>1, <1>5, <2>2, ZenonT(60) DEF Confirm
  <2>3. CASE v = worker.wl
    BY <1>1, <1>5, <2>1, <2>3, ZenonT(60) DEF Confirm
  <2> QED
    BY <2>2, <2>3, ZenonT(60)
<1>6. CASE Crash
  BY <1>6, ZenonT(60) DEF Crash
<1> QED
  BY <1>2, <1>3, <1>4, <1>5, <1>6, ZenonT(60) DEF Next, EnqueueAdd, Get, ReadLatest, SendTx, Recheck,
     Ripen,
     Mine, Evict, ForeignPublish, vars, publisherVars

\* What a step does to the worker: nothing, it becomes idle or goes to "read",
\* takes a snapshot, or goes on with the one it has.
LEMMA WorkerStep ==
  ASSUME TypeInv, [Next]_vars
  PROVE  \/ UNCHANGED worker
         \/ worker' = Idle
         \/ worker'.pc = "read"
         \/ /\ ReadLatest /\ UNCHANGED <<seq, state, nodeVars, registryVars, wanted>>
            /\ worker'.pc \in {"prepare", "confirm"}
            /\ worker'.pc = "confirm" => OnChain(worker.wl, state[worker.wl].key)
            /\ worker'.wl = worker.wl /\ worker'.rev = state[worker.wl]
            /\ Unsettled(state[worker.wl])
         \/ /\ worker.pc \notin {"idle", "read"} /\ worker'.pc \in {"send", "wait", "recheck", "confirm"}
            /\ worker'.wl = worker.wl /\ worker'.rev = worker.rev
            /\ UNCHANGED <<seq, wanted>>
            /\ worker'.pc = "send" => PrepareOnce
            /\ worker'.pc = "wait" => worker.pc = "send" /\ worker'.tx = worker.tx
            /\ worker'.pc = "confirm" =>
                 \/ OnChain(worker.wl, worker.rev.key)
                 \/ worker.pc = "wait" /\ worker.tx \in landed
            /\ worker'.pc = "confirm" => UNCHANGED <<state, nodeVars, registryVars>>
<1>1. CASE Get
  BY <1>1 DEF Get
<1>2. CASE ReadLatest
  BY <1>2 DEF ReadLatest, Return, Goto
<1>3. CASE PrepareOnce
  BY <1>3 DEF PrepareOnce, Return, Goto
<1>4. CASE SendTx
  BY <1>4 DEF SendTx, Return, Goto
<1>5. CASE WaitTx
  BY <1>5 DEF WaitTx, Wait, Return, Goto
<1>6. CASE Recheck
  BY <1>6 DEF Recheck, Return, Goto
<1>7. CASE Confirm
  BY <1>7, ZenonT(60) DEF Confirm, Return
<1>8. CASE Crash
  BY <1>8 DEF Crash
<1> QED
  BY <1>1, <1>2, <1>3, <1>4, <1>5, <1>6, <1>7, <1>8, ZenonT(60) DEF Next, Enqueue, EnqueueAdd, Ripen,
     Mine, Evict, ForeignPublish, vars, publisherVars

\* The signature prepareOnce uses: the stored one, or a new one.
attemptSig ==
  IF worker.rev.signature = NoSig
  THEN SigningDigest(worker.wl, worker.rev.key)
  ELSE worker.rev.signature

\* prepareOnce sends the kept attempt, or a new one if there is none.
LEMMA AttemptStep ==
  ASSUME TypeInv, KeptInv, PrepareOnce, worker'.pc = "send"
  PROVE  /\ worker'.wl = worker.wl /\ worker'.rev = worker.rev
         /\ worker'.tx \in Tx
         /\ IsOf(worker'.tx, worker.wl, worker.rev.seq)
         /\ \/ UNCHANGED state /\ worker.rev.prepared # Nil /\ worker'.tx = worker.rev.prepared
            \/ /\ worker.rev.prepared = Nil
               /\ worker'.tx \in Prepare(worker.wl, worker.rev.key, attemptSig, worker.rev.seq)
<1>1. /\ worker.wl \in Workloads /\ worker.rev \in WorkloadState /\ worker.rev.key \in Keys
      /\ worker.pc = "prepare" /\ NodeTypeOK
  BY ZenonT(60) DEF PrepareOnce, TypeInv, TypeOK, WorkerTyped, Worker
<1>2. attemptSig \in Sigs
  BY <1>1, ZenonT(60) DEF attemptSig, SigningDigest, Sigs, WorkloadState
<1>3. CASE /\ worker.rev.prepared # Nil /\ UNCHANGED state
           /\ Goto("send", worker.rev, worker.rev.prepared)
  BY <1>1, <1>3, ZenonT(60) DEF Goto, KeptInv, WorkloadState
<1>4. ASSUME worker.rev.prepared = Nil,
             NEW t \in Prepare(worker.wl, worker.rev.key, attemptSig, worker.rev.seq),
             Goto("send", worker.rev, t)
      PROVE  /\ worker'.wl = worker.wl /\ worker'.rev = worker.rev /\ worker'.tx = t
             /\ t \in Tx /\ IsOf(t, worker.wl, worker.rev.seq)
  <2>1. t \in Tx
    <3>1. worker.rev.seq \in Nat
      BY <1>1, ZenonT(60) DEF WorkloadState
    <3> QED
      BY <1>1, <1>2, <1>4, <3>1, PrepareType, ZenonT(60)
  <2>2. IsOf(t, worker.wl, worker.rev.seq)
    BY DEF Prepare, IsOf
  <2> QED
    BY <1>4, <2>1, <2>2, ZenonT(60) DEF Goto
<1>5. \/ /\ worker.rev.prepared # Nil /\ UNCHANGED state
         /\ Goto("send", worker.rev, worker.rev.prepared)
      \/ /\ worker.rev.prepared = Nil
         /\ \E t \in Prepare(worker.wl, worker.rev.key, attemptSig, worker.rev.seq) :
              Goto("send", worker.rev, t)
  BY DEF PrepareOnce, attemptSig, Return, Idle
<1> QED
  BY <1>3, <1>4, <1>5, ZenonT(60)

LEMMA BusyNext == TypeInv /\ SnapshotInv /\ BusyInv /\ [Next]_vars => BusyInv'
<1> SUFFICES ASSUME TypeInv, SnapshotInv, BusyInv, [Next]_vars,
                    worker'.pc # "idle", worker'.pc # "read"
             PROVE  Unsettled(state'[worker'.wl])
  BY DEF BusyInv, Unsettled
<1>1. TypeInv'
  BY TypeNext, ZenonT(60)
<1> DEFINE v == worker'.wl
<1>2. v \in Workloads
  BY <1>1, ZenonT(60) DEF TypeInv, WorkerTyped
<1>3. seq \in Nat
  BY DEF TypeInv, TypeOK
<1>4. Idle.pc = "idle"
  BY ZenonT(60) DEF Idle
<1>5. CASE ReadLatest /\ UNCHANGED state /\ v = worker.wl /\ Unsettled(state[worker.wl])
  BY <1>5, ZenonT(60)
<1>6. CASE v = worker.wl /\ worker.pc \notin {"idle", "read"}
  <2>1. Unsettled(state[v])
    BY <1>6, ZenonT(60) DEF BusyInv
  <2>2. worker.pc = "confirm" /\ Confirm => worker' = Idle
    BY DEF Confirm, Return
  <2> QED
    BY <1>2, <1>3, <1>4, <2>1, StateStep DEF Unsettled
<1> QED
  BY <1>4, <1>5, <1>6, WorkerStep, ZenonT(60)

LEMMA KeptNext == TypeInv /\ KeptInv /\ [Next]_vars => KeptInv'
<1> SUFFICES ASSUME TypeInv, KeptInv, [Next]_vars PROVE KeptInv'
  BY ZenonT(60)
<1>1. Idle.pc = "idle" /\ Blank.prepared = Nil
  BY ZenonT(60) DEF Idle, Blank
<1>2. ASSUME NEW w \in Workloads, state'[w].prepared # Nil
      PROVE  IsOf(state'[w].prepared, w, state'[w].seq)
  BY <1>1, <1>2, StateStep, AttemptStep, ZenonT(60) DEF KeptInv
<1>3. ASSUME worker'.pc = "prepare", worker'.rev.prepared # Nil
      PROVE  IsOf(worker'.rev.prepared, worker'.wl, worker'.rev.seq)
  <2>1. CASE UNCHANGED worker
    BY <1>3, <2>1, ZenonT(60) DEF KeptInv
  <2>2. CASE worker'.wl = worker.wl /\ worker'.rev = state[worker.wl] /\ ReadLatest
    <3>1. worker.wl \in Workloads
      BY <2>2 DEF ReadLatest, TypeInv, WorkerTyped
    <3> QED
      BY <1>3, <2>2, <3>1, ZenonT(60) DEF KeptInv
  <2> QED
    BY <1>1, <1>3, <2>1, <2>2, WorkerStep, ZenonT(60)
<1>4. ASSUME worker'.pc \in {"send", "wait"}
      PROVE  IsOf(worker'.tx, worker'.wl, worker'.rev.seq)
  <2>1. CASE UNCHANGED worker
    BY <1>4, <2>1, ZenonT(60) DEF KeptInv
  <2>2. CASE PrepareOnce /\ worker'.pc = "send"
    BY <2>2, AttemptStep, ZenonT(60)
  <2>3. CASE /\ worker.pc = "send" /\ worker'.tx = worker.tx
             /\ worker'.wl = worker.wl /\ worker'.rev = worker.rev
    BY <2>3, ZenonT(60) DEF KeptInv
  <2> QED
    BY <1>1, <1>4, <2>1, <2>2, <2>3, WorkerStep, ZenonT(60)
<1> QED
  BY <1>2, <1>3, <1>4, ZenonT(60) DEF KeptInv

LEMMA KnownTyped ==
  ASSUME TypeInv
  PROVE  Known \subseteq Tx
<1>1. pool \subseteq Tx /\ landed \subseteq Tx
  BY ZenonT(60) DEF TypeInv, TypeOK, NodeTypeOK
<1>2. \A w \in Workloads : state[w].prepared \in Tx \cup {Nil}
  BY ZenonT(60) DEF TypeInv, TypeOK, WorkloadState
<1>3. worker.rev.prepared \in Tx \cup {Nil} /\ worker.tx \in Tx \cup {Nil}
  BY ZenonT(60) DEF TypeInv, TypeOK, Worker, WorkloadState
<1> QED
  BY <1>1, <1>2, <1>3, ZenonT(60) DEF Known, Kept

\* Where a transaction known after a step was before, in terms of what a step
\* may do to the node, the state and the worker.
LEMMA KnownFrom ==
  ASSUME TypeInv, NEW fresh,
         \A t \in pool' \cup landed' : t \in Known \/ t = fresh,
         \A w \in Workloads : state'[w].prepared \in Known \cup {Nil, fresh},
         worker'.pc = "prepare" => worker'.rev.prepared \in Known \cup {Nil},
         worker'.pc \in {"send", "wait"} => worker'.tx \in Known \cup {fresh}
  PROVE  Known' \subseteq Known \cup {fresh}
  BY DEF Known, Kept

\* Only prepareOnce without an attempt, and other users of the account, bring
\* a new transaction about.
LEMMA KnownStep ==
  ASSUME TypeInv, KeptInv, [Next]_vars
  PROVE  \/ Known' \subseteq Known
         \/ /\ PrepareOnce /\ worker.pc = "prepare" /\ worker.rev.prepared = Nil
            /\ worker'.pc = "send" /\ worker'.wl = worker.wl /\ worker'.rev = worker.rev
            /\ worker'.tx \in Prepare(worker.wl, worker.rev.key, attemptSig, worker.rev.seq)
            /\ Known' \subseteq Known \cup {worker'.tx}
         \/ /\ ForeignPublish
            /\ \E w \in Workloads, key \in Keys, sig \in Sigs :
                 \E t \in Prepare(w, key, sig, 0) : Known' \subseteq Known \cup {t}
<1>1. Nil \notin Tx /\ pool \subseteq Tx /\ landed \subseteq Tx
  BY PublisherAssumption, ZenonT(60) DEF TypeInv, TypeOK, NodeTypeOK
<1>2. pool \subseteq Known /\ landed \subseteq Known
  BY <1>1, ZenonT(60) DEF Known
<1>3. \A w \in Workloads : state[w].prepared \in Known \cup {Nil}
  BY ZenonT(60) DEF Known, Kept
<1>4. worker.pc \in {"send", "wait"} => worker.tx \in Known
  BY <1>1, ZenonT(60) DEF Known, Kept, TypeInv, WorkerTyped
<1>5. worker.pc = "prepare" => worker.rev.prepared \in Known \cup {Nil}
  BY ZenonT(60) DEF Known, Kept
<1>6. Idle.pc = "idle" /\ Blank.prepared = Nil
  BY ZenonT(60) DEF Idle, Blank
\* The node's part.
<1>7. \/ pool' \cup landed' \subseteq Known
      \/ /\ ForeignPublish /\ UNCHANGED <<state, worker>>
         /\ \E w \in Workloads, key \in Keys, sig \in Sigs :
              \E t \in Prepare(w, key, sig, 0) : pool' \cup landed' \subseteq Known \cup {t}
  <2>1. CASE UNCHANGED nodeVars
    BY <1>2, <2>1, ZenonT(60) DEF nodeVars
  <2>2. CASE SendTx
    <3>1. worker.pc = "send" /\ pool' \subseteq pool \cup {worker.tx} /\ landed' = landed
      BY <2>2, ZenonT(60) DEF SendTx, Send, receive, nodeVars
    <3> QED
      BY <1>2, <1>4, <3>1, ZenonT(60)
  <2>3. CASE Mine
    <3>1. pool' \subseteq pool /\ landed' \subseteq landed \cup pool
      BY <2>3, ZenonT(60) DEF Mine, mineSuccess, mineReverted, include
    <3> QED
      BY <1>2, <3>1, ZenonT(60)
  <2>4. CASE Evict
    BY <1>2, <2>4, ZenonT(60) DEF Evict, evict
  <2>5. CASE ForeignPublish
    <3>1. PICK w \in Workloads, key \in Keys, sig \in Sigs :
            \E t \in Prepare(w, key, sig, 0) : receive(t)
      BY <2>5, ZenonT(60) DEF ForeignPublish
    <3>2. PICK t \in Prepare(w, key, sig, 0) : receive(t)
      BY <3>1, ZenonT(60)
    <3>3. pool' \cup landed' \subseteq Known \cup {t}
      BY <1>2, <3>2, ZenonT(60) DEF receive
    <3> QED
      BY <2>5, <3>2, <3>3, ZenonT(60) DEF ForeignPublish, publisherVars
  <2> QED
    BY <2>1, <2>2, <2>3, <2>4, <2>5, NodeStep, ZenonT(60)
\* Somebody else's transaction.
<1>8. CASE /\ ForeignPublish /\ UNCHANGED <<state, worker>>
           /\ \E w \in Workloads, key \in Keys, sig \in Sigs :
                \E t \in Prepare(w, key, sig, 0) : pool' \cup landed' \subseteq Known \cup {t}
  <2>1. PICK w \in Workloads, key \in Keys, sig \in Sigs :
          \E t \in Prepare(w, key, sig, 0) : pool' \cup landed' \subseteq Known \cup {t}
    BY <1>8, ZenonT(60)
  <2>2. PICK t \in Prepare(w, key, sig, 0) : pool' \cup landed' \subseteq Known \cup {t}
    BY <2>1, ZenonT(60)
  <2>3. Known' \subseteq Known \cup {t}
    BY <1>3, <1>4, <1>5, <1>8, <2>2, KnownFrom, ZenonT(60)
  <2> QED
    BY <1>8, <2>3, ZenonT(60)
\* The publisher's.
<1>9. CASE pool' \cup landed' \subseteq Known
  <2>1. CASE PrepareOnce /\ worker'.pc = "send" /\ worker.rev.prepared = Nil
    <3>1. \A w \in Workloads : state'[w].prepared \in Known \cup {Nil, worker'.tx}
      BY <1>3, <1>6, <2>1, StateStep, ZenonT(60)
    <3>2. Known' \subseteq Known \cup {worker'.tx}
      BY <1>9, <2>1, <3>1, KnownFrom, ZenonT(60)
    <3> QED
      BY <2>1, <3>2, AttemptStep, ZenonT(60) DEF PrepareOnce
  <2>2. CASE ~ (PrepareOnce /\ worker'.pc = "send" /\ worker.rev.prepared = Nil)
    <3>1. \A w \in Workloads : state'[w].prepared \in Known \cup {Nil}
      BY <1>3, <1>6, <2>2, StateStep, ZenonT(60)
    <3>2. ASSUME worker'.pc = "prepare" PROVE worker'.rev.prepared \in Known \cup {Nil}
      <4>1. ReadLatest => worker.wl \in Workloads
        BY ZenonT(60) DEF ReadLatest, TypeInv, WorkerTyped
      <4> QED
        BY <1>3, <1>5, <1>6, <3>2, <4>1, WorkerStep, ZenonT(60)
    <3>3. ASSUME worker'.pc \in {"send", "wait"} PROVE worker'.tx \in Known
      <4>1. ASSUME PrepareOnce, worker'.pc = "send"
            PROVE  worker'.tx = worker.rev.prepared /\ worker.rev.prepared # Nil
                   /\ worker.pc = "prepare"
        BY <2>2, <4>1, AttemptStep, ZenonT(60) DEF PrepareOnce
      <4> QED
        BY <1>4, <1>5, <1>6, <3>3, <4>1, WorkerStep, ZenonT(60)
    <3>4. Known' \subseteq Known
      BY <1>9, <3>1, <3>2, <3>3 DEF Known, Kept
    <3> QED
      BY <3>4, ZenonT(60)
  <2> QED
    BY <2>1, <2>2, ZenonT(60)
<1> QED
  BY <1>7, <1>8, <1>9, ZenonT(60)

-----------------------------------------------------------------------------
(***************************************************************************)
(* PublishedOnce.  The strengthening looks at all transactions that are    *)
(* on chain or may still get there: there is one of a revision at most,    *)
(* and none of a revision that prepareOnce is about to prepare one for.    *)
(***************************************************************************)

\* One transaction of a revision at most, none while it has no attempt, and
\* none of a revision that is not requested yet.
SingleInv ==
  /\ \A t \in Known : t.seq <= seq
  /\ \A t, u \in Known : t.seq # 0 /\ IsOf(t, u.wl, u.seq) => t = u
  /\ \A w \in Workloads : Unsettled(state[w]) /\ state[w].prepared = Nil =>
       \A t \in Known : ~ IsOf(t, w, state[w].seq)
  /\ worker.pc = "prepare" /\ worker.rev.prepared = Nil =>
       \A t \in Known : ~ IsOf(t, worker.wl, worker.rev.seq)

OnceInv == NonceInv /\ KeptInv /\ BusyInv /\ SingleInv

LEMMA OnceInit == Init => OnceInv
<1> SUFFICES ASSUME Init PROVE OnceInv
  BY ZenonT(60)
<1>1. pool = {} /\ landed = {} /\ reverted = {} /\ worker.pc = "idle"
  BY DEF Init, NodeInit, Idle
<1>2. \A w \in Workloads : state[w].prepared = Nil /\ state[w].seq = 0
  BY ZenonT(60) DEF Init, Blank
<1>3. Known = {}
  BY <1>1, <1>2, ZenonT(60) DEF Known, Kept
<1> QED
  BY <1>1, <1>2, <1>3, ZenonT(60) DEF OnceInv, NonceInv, KeptInv, BusyInv, SingleInv, Unsettled

\* A transaction the publisher is told was reverted is not on its way, and is
\* the only one of its revision that is kept.
LEMMA RevertedIsGone ==
  ASSUME TypeInv, NonceInv, KeptInv, SingleInv, WaitTx, worker.tx \in reverted,
         NEW t \in pool \cup landed, t.seq # 0
  PROVE  ~ IsOf(t, worker.wl, worker.rev.seq)
<1>1. worker.tx \in Tx /\ worker.pc = "wait" /\ Nil \notin Tx
  BY PublisherAssumption, ZenonT(60) DEF WaitTx, TypeInv, WorkerTyped
<1>2. worker.tx \in Known /\ IsOf(worker.tx, worker.wl, worker.rev.seq)
  BY <1>1, ZenonT(60) DEF Known, Kept, KeptInv
<1>3. t \in Known /\ t \in Tx
  BY <1>1, KnownTyped, ZenonT(60) DEF Known, TypeInv, TypeOK, NodeTypeOK
<1>4. worker.tx \notin pool \cup landed
  BY DEF NonceInv, TypeInv, TypeOK, NodeTypeOK, Tx
<1> QED
  BY <1>2, <1>3, <1>4, ZenonT(60) DEF SingleInv, IsOf

LEMMA SingleNext ==
  TypeInv /\ SnapshotInv /\ OnceInv /\ [Next]_vars => SingleInv'
<1> SUFFICES ASSUME TypeInv, SnapshotInv, OnceInv, [Next]_vars PROVE SingleInv'
  OBVIOUS
<1>1. NonceInv /\ KeptInv /\ BusyInv /\ SingleInv
  BY ZenonT(60) DEF OnceInv
<1>2. /\ seq \in Nat /\ \A w \in Workloads : state[w].seq \in Nat /\ state[w].seq <= seq
      /\ worker.rev.seq \in Nat
  BY DEF TypeInv, TypeOK, WorkloadState, Worker, SnapshotInv
<1>3. \A t \in Known : t.seq \in Nat /\ t.wl \in Workloads
  BY KnownTyped, ZenonT(60) DEF Tx
<1>4. seq' \in {seq, seq + 1}
  BY ZenonT(60) DEF Next, Enqueue, EnqueueAdd, Get, ReadLatest, PrepareOnce, SendTx, WaitTx, Recheck,
     Confirm, Ripen, Mine, Evict, ForeignPublish, Crash, vars, publisherVars
<1>5. Idle.pc = "idle" /\ Blank.prepared = Nil /\ Blank.seq = 0
  BY DEF Idle, Blank
<1>6. KeptInv'
  BY <1>1, KeptNext, ZenonT(60)
\* Steps that bring no new transaction about.
<1>7. CASE Known' \subseteq Known
  <2>1. \A t \in Known' : t.seq <= seq'
    BY <1>1, <1>2, <1>3, <1>4, <1>7, SMTT(30) DEF SingleInv
  <2>2. \A t, u \in Known' : t.seq # 0 /\ IsOf(t, u.wl, u.seq) => t = u
    BY <1>1, <1>7, ZenonT(60) DEF SingleInv
  <2>3. ASSUME NEW w \in Workloads, Unsettled(state'[w]), state'[w].prepared = Nil,
               NEW t \in Known', IsOf(t, w, state'[w].seq)
        PROVE  FALSE
    <3>1. state'[w].seq # 0 /\ t \in Known /\ t.seq # 0 /\ t.wl = w
      BY <1>7, <2>3, ZenonT(60) DEF Unsettled, IsOf
    <3>2. CASE Unsettled(state[w]) /\ state[w].prepared = Nil /\ state'[w].seq = state[w].seq
      BY <1>1, <2>3, <3>1, <3>2, ZenonT(60) DEF SingleInv
    <3>3. CASE state'[w].seq = seq + 1
      BY <1>1, <1>2, <1>3, <2>3, <3>1, <3>3 DEF SingleInv, IsOf
    <3>4. CASE /\ WaitTx /\ w = worker.wl /\ worker.tx \in reverted /\ worker' = Idle
               /\ state[w].seq = worker.rev.seq /\ state'[w].seq = state[w].seq
      \* t is neither on its way nor kept: an attempt kept for this revision is w's.
      <4>1. t \notin pool \cup landed
        BY <1>1, <2>3, <3>1, <3>4, RevertedIsGone, ZenonT(60)
      <4>2. pool' = pool /\ landed' = landed
        BY <3>4, ZenonT(60) DEF WaitTx, nodeVars
      <4>3. PICK v \in Workloads : t = state'[v].prepared /\ t # Nil
        BY <1>5, <2>3, <3>4, <4>1, <4>2, ZenonT(60) DEF Known, Kept
      <4>4. IsOf(t, v, state'[v].seq)
        BY <1>6, <4>3, ZenonT(60) DEF KeptInv
      <4> QED
        BY <2>3, <3>1, <4>3, <4>4, ZenonT(60) DEF IsOf
    <3>5. CASE Confirm /\ w = worker.wl /\ state'[w].seq = state[w].seq
               /\ state'[w].key = state[w].key /\ state'[w].confirmed = worker.rev.key
               /\ state'[w].prepared = IF state[w].seq = worker.rev.seq THEN Nil ELSE state[w].prepared
      <4>1. worker.pc = "confirm"
        BY <3>5, ZenonT(60) DEF Confirm
      <4>2. Unsettled(state[w])
        BY <1>1, <3>5, <4>1, ZenonT(60) DEF BusyInv
      <4>3. state[w].seq # worker.rev.seq
        BY <2>3, <3>5, <4>1, ZenonT(60) DEF SnapshotInv, Unsettled
      <4> QED
        BY <2>3, <3>2, <3>5, <4>2, <4>3, ZenonT(60)
    <3>6. CASE state'[w] = state[w]
      BY <2>3, <3>2, <3>6, ZenonT(60)
    <3>7. PrepareOnce /\ worker'.pc = "send" => worker'.tx # Nil
      BY <1>1, AttemptStep, PublisherAssumption, ZenonT(60)
    <3> QED
      BY <1>5, <2>3, <3>1, <3>3, <3>4, <3>5, <3>6, <3>7, StateStep, ZenonT(60)
  <2>4. ASSUME worker'.pc = "prepare", worker'.rev.prepared = Nil,
               NEW t \in Known', IsOf(t, worker'.wl, worker'.rev.seq)
        PROVE  FALSE
    <3>1. CASE UNCHANGED worker
      BY <1>1, <1>7, <2>4, <3>1, ZenonT(60) DEF SingleInv
    <3>2. CASE ReadLatest /\ worker'.wl = worker.wl /\ worker'.rev = state[worker.wl]
               /\ Unsettled(state[worker.wl])
      <4>1. worker.wl \in Workloads
        BY <3>2 DEF ReadLatest, TypeInv, WorkerTyped
      <4> QED
        BY <1>1, <1>7, <2>4, <3>2, <4>1, ZenonT(60) DEF SingleInv
    <3> QED
      BY <1>5, <2>4, <3>1, <3>2, WorkerStep, ZenonT(60)
  <2> QED
    BY <2>1, <2>2, <2>3, <2>4, ZenonT(60) DEF SingleInv
\* A new attempt.
<1>8. CASE /\ PrepareOnce /\ worker.pc = "prepare" /\ worker.rev.prepared = Nil
           /\ worker'.pc = "send" /\ worker'.wl = worker.wl /\ worker'.rev = worker.rev
           /\ Known' \subseteq Known \cup {worker'.tx}
  <2> DEFINE n == worker'.tx
  <2>1. /\ IsOf(n, worker.wl, worker.rev.seq) /\ n # Nil /\ worker.wl \in Workloads
        /\ worker.rev.seq # 0 /\ worker.rev.seq <= seq
    <3>1. IsOf(n, worker.wl, worker.rev.seq) /\ n # Nil
      BY <1>1, <1>8, AttemptStep, PublisherAssumption, ZenonT(60)
    <3>2. /\ worker.wl \in Workloads
          /\ worker.rev.seq # 0 /\ worker.rev.seq <= state[worker.wl].seq
      BY <1>8, ZenonT(60) DEF TypeInv, WorkerTyped, SnapshotInv
    <3> QED
      BY <1>2, <3>1, <3>2, SMTT(30)
  <2>2. \A t \in Known : ~ IsOf(t, worker.wl, worker.rev.seq)
    BY <1>1, <1>8, ZenonT(60) DEF SingleInv
  <2>3. seq' = seq
    BY <1>8, ZenonT(60) DEF PrepareOnce
  <2> HIDE DEF n
  <2>4. Known' \subseteq Known \cup {n}
    BY <1>8, ZenonT(60) DEF n
  <2>5. \A t \in Known' : t.seq <= seq'
    BY <1>1, <2>1, <2>3, <2>4, ZenonT(60) DEF SingleInv, IsOf
  <2>6. \A t, u \in Known' : t.seq # 0 /\ IsOf(t, u.wl, u.seq) => t = u
    BY <1>1, <2>1, <2>2, <2>4, ZenonT(60) DEF SingleInv, IsOf
  <2>7. ASSUME NEW w \in Workloads, Unsettled(state'[w]), state'[w].prepared = Nil,
               NEW t \in Known', IsOf(t, w, state'[w].seq)
        PROVE  FALSE
    <3>1. \/ state'[w] = state[w] /\ ~ (w = worker.wl /\ state[w].seq = worker.rev.seq)
          \/ state'[w].prepared = n
      <4>1. state' = storeAttempt(worker.wl, worker.rev.seq, attemptSig, n)
        BY <1>8, SMTT(30) DEF PrepareOnce, attemptSig, Goto, Return, Idle, n
      <4> QED
        BY <4>1, ZenonT(60) DEF storeAttempt, WithAttempt, TypeInv, TypeOK
    <3>2. state'[w] = state[w] /\ ~ (w = worker.wl /\ state[w].seq = worker.rev.seq)
      BY <2>1, <2>7, <3>1, ZenonT(60)
    <3>3. t = n \/ t \in Known
      BY <2>4
    <3> QED
      BY <1>1, <2>1, <2>7, <3>2, <3>3, ZenonT(60) DEF SingleInv, IsOf
  <2> QED
    BY <1>8, <2>5, <2>6, <2>7, ZenonT(60) DEF SingleInv
\* Somebody else's transaction is of no revision.
<1>9. CASE /\ ForeignPublish
           /\ \E w \in Workloads, key \in Keys, sig \in Sigs :
                \E t \in Prepare(w, key, sig, 0) : Known' \subseteq Known \cup {t}
  <2>1. PICK n : n.seq = 0 /\ Known' \subseteq Known \cup {n}
    BY <1>9 DEF Prepare
  <2>2. UNCHANGED <<seq, state, worker>>
    BY <1>9, ZenonT(60) DEF ForeignPublish, publisherVars
  <2>3. \A t \in Known' : t.seq <= seq'
    BY <1>1, <1>2, <2>1, <2>2 DEF SingleInv
  <2>4. \A t, u \in Known' : t.seq # 0 /\ IsOf(t, u.wl, u.seq) => t = u
    BY <1>1, <2>1, ZenonT(60) DEF SingleInv, IsOf
  <2>5. \A w \in Workloads : Unsettled(state'[w]) /\ state'[w].prepared = Nil =>
          \A t \in Known' : ~ IsOf(t, w, state'[w].seq)
    BY <1>1, <2>1, <2>2, ZenonT(60) DEF SingleInv, IsOf, Unsettled
  <2>6. worker'.pc = "prepare" /\ worker'.rev.prepared = Nil =>
          \A t \in Known' : ~ IsOf(t, worker'.wl, worker'.rev.seq)
    BY <1>1, <2>1, <2>2, ZenonT(60) DEF SingleInv, IsOf, SnapshotInv
  <2> QED
    BY <2>3, <2>4, <2>5, <2>6, ZenonT(60) DEF SingleInv
<1> QED
  BY <1>1, <1>7, <1>8, <1>9, KnownStep, ZenonT(60)

LEMMA OnceNext == TypeInv /\ SnapshotInv /\ OnceInv /\ [Next]_vars => OnceInv'
  BY NonceNext, KeptNext, BusyNext, SingleNext, ZenonT(60) DEF OnceInv

\* A desired revision takes effect on chain at most once, whatever is lost,
\* reverted, evicted, restarted or published by somebody else: prepareOnce
\* keeps one attempt, an unknown outcome keeps it, and discardAttempt drops it
\* only when a receipt says that it did nothing.
THEOREM PublishedOnceThm == Spec => []PublishedOnce
<1>1. TypeInv /\ OnceInv => PublishedOnce
  <2> SUFFICES ASSUME TypeInv, OnceInv, NEW t \in landed, NEW u \in landed,
                      t.wl = u.wl, t.seq # 0, t.seq = u.seq
               PROVE  t = u
    BY ZenonT(60) DEF PublishedOnce
  <2>1. t \in Known /\ u \in Known
    BY PublisherAssumption DEF Known, TypeInv, TypeOK, NodeTypeOK
  <2> QED
    BY <2>1, ZenonT(60) DEF OnceInv, SingleInv, IsOf
<1> QED
  BY <1>1, TypeInit, TypeNext, SnapshotInit, SnapshotNext, OnceInit, OnceNext, PTL DEF Spec

-----------------------------------------------------------------------------
(***************************************************************************)
(* PublishedInOrder, while the node evicts nothing.  Then a transaction is *)
(* only ever prepared at a nonce below which all are used or taken, and    *)
(* this stays so; the pending nonce is therefore not below that of any     *)
(* transaction that is on its way or kept, and a later revision gets a     *)
(* nonce that is not lower.  An eviction frees a nonce below a kept one.   *)
(***************************************************************************)

\* Every nonce below that of transaction t is used or taken in the pool.
Reached(t) == \A m \in nonce..(t.nonce - 1) : \E u \in pool : u.nonce = m

\* What is known, and what has failed.
Tracked == Known \cup reverted

\* No transaction is of a later revision than the desired one, or than the
\* one in the worker's hand.
LatestInv ==
  \A t \in Tracked :
    /\ t.seq <= seq
    /\ state[t.wl].seq # 0 => t.seq <= state[t.wl].seq
    /\ worker.pc \notin {"idle", "read"} /\ worker.wl = t.wl => t.seq <= worker.rev.seq

OrderInv ==
  /\ \A t \in Tracked : Reached(t)
  /\ LatestInv
  /\ \A t, u \in Tracked :
       t.wl = u.wl /\ t.seq # 0 /\ t.seq < u.seq => t.nonce <= u.nonce

LEMMA OrderInit == Init => OrderInv
<1> SUFFICES ASSUME Init PROVE OrderInv
  BY ZenonT(60)
<1>1. Tracked = {}
  BY DEF Init, NodeInit, Idle, Blank, Known, Kept, Tracked
<1> QED
  BY <1>1, ZenonT(60) DEF OrderInv, LatestInv

\* A failure with limit 0 does not happen.
LEMMA NoFailure ==
  ASSUME TypeInv, NEW f \in Failures, Limit[f] = 0
  PROVE  ~ Fail(f)
<1>1. spent[f] \in Nat
  BY DEF TypeInv, TypeOK
<1> QED
  BY <1>1 DEF Fail

\* The pending nonce is not below that of any transaction reached.
LEMMA PendingIsLast ==
  ASSUME NodeTypeOK, NEW n \in pendingNonce, NEW t \in Tx, Reached(t)
  PROVE  t.nonce <= n
<1>1. n \in Nat /\ nonce \in Nat /\ nonce <= n /\ \A u \in pool : u.nonce # n
  BY DEF pendingNonce, NodeTypeOK
<1>2. t.nonce \in Nat
  BY DEF Tx
<1>3. SUFFICES ASSUME n < t.nonce PROVE FALSE
  BY <1>1, <1>2
<1>4. n \in nonce..(t.nonce - 1)
  BY <1>1, <1>2, <1>3, SMTT(30)
<1> QED
  BY <1>1, <1>4, ZenonT(60) DEF Reached

\* A transaction prepared now is reached.
LEMMA PreparedIsReached ==
  ASSUME NodeTypeOK, NEW w, NEW key, NEW sig, NEW s, NEW t \in Prepare(w, key, sig, s)
  PROVE  Reached(t)
  BY SMTT(30) DEF Prepare, pendingNonce, Reached

\* While nothing is evicted, what is reached stays so.
LEMMA ReachedStays ==
  ASSUME TypeInv, NonceInv, [Next]_vars, Limit["evict"] = 0, NEW t \in Tx, Reached(t)
  PROVE  Reached(t)'
<1>1. nonce \in Nat /\ t.nonce \in Nat /\ \A u \in pool : u.nonce \in Nat
  BY DEF TypeInv, TypeOK, NodeTypeOK, Tx
<1>2. CASE UNCHANGED nodeVars
  BY <1>2, ZenonT(60) DEF nodeVars, Reached
<1>3. ASSUME NEW u, receive(u) PROVE Reached(t)'
  <2>1. nonce' = nonce /\ \A v \in pool : \E x \in pool' : x.nonce = v.nonce
    BY <1>3 DEF receive
  <2> QED
    BY <2>1 DEF Reached
<1>4. ASSUME NEW u \in pool, mineSuccess(u) \/ mineReverted(u) PROVE Reached(t)'
  <2>1. nonce' = nonce + 1 /\ u.nonce = nonce /\ pool' = pool \ {u}
    BY <1>4, ZenonT(60) DEF mineSuccess, mineReverted, include
  <2>2. ASSUME NEW m \in (nonce + 1)..(t.nonce - 1) PROVE \E v \in pool' : v.nonce = m
    <3>1. m \in nonce..(t.nonce - 1) /\ m # nonce
      BY <1>1, <2>2
    <3> QED
      BY <2>1, <3>1, ZenonT(60) DEF Reached
  <2> QED
    BY <2>1, <2>2, ZenonT(60) DEF Reached
<1>5. CASE SendTx
  BY <1>2, <1>3, <1>5, ZenonT(60) DEF SendTx, Send
<1>6. CASE ForeignPublish
  BY <1>3, <1>6, ZenonT(60) DEF ForeignPublish
<1>7. CASE Mine
  BY <1>4, <1>7, ZenonT(60) DEF Mine
<1>8. ~ Evict
  BY NoFailure DEF Evict, Failures
<1> QED
  BY <1>2, <1>5, <1>6, <1>7, <1>8, NodeStep, ZenonT(60)

LEMMA TrackedTyped ==
  ASSUME TypeInv
  PROVE  Tracked \subseteq Tx
  BY KnownTyped, ZenonT(60) DEF Tracked, TypeInv, TypeOK, NodeTypeOK

\* The counter only grows.
LEMMA SeqStep ==
  ASSUME [Next]_vars
  PROVE  seq' \in {seq, seq + 1}
  BY ZenonT(60) DEF Next, Enqueue, EnqueueAdd, Get, ReadLatest, PrepareOnce, SendTx, WaitTx, Recheck,
     Confirm, Ripen, Mine, Evict, ForeignPublish, Crash, vars, publisherVars

\* What fails was pooled.
LEMMA RevertedStep ==
  ASSUME [Next]_vars
  PROVE  reverted' \subseteq reverted \cup pool
<1>1. CASE Mine
  BY <1>1, ZenonT(60) DEF Mine, mineSuccess, mineReverted, include
<1>2. CASE UNCHANGED reverted
  BY <1>2, ZenonT(60)
<1> QED
  BY <1>1, <1>2, NodeStep, ZenonT(60) DEF SendTx, Send, receive, Evict, evict, ForeignPublish, nodeVars

LEMMA TrackedStep ==
  ASSUME TypeInv, KeptInv, [Next]_vars
  PROVE  \/ Tracked' \subseteq Tracked
         \/ /\ PrepareOnce /\ worker.pc = "prepare" /\ worker.rev.prepared = Nil
            /\ worker'.pc = "send" /\ worker'.wl = worker.wl /\ worker'.rev = worker.rev
            /\ worker'.tx \in Prepare(worker.wl, worker.rev.key, attemptSig, worker.rev.seq)
            /\ Tracked' \subseteq Tracked \cup {worker'.tx}
         \/ /\ ForeignPublish
            /\ \E w \in Workloads, key \in Keys, sig \in Sigs :
                 \E t \in Prepare(w, key, sig, 0) : Tracked' \subseteq Tracked \cup {t}
<1>1. reverted' \subseteq Tracked
  <2>1. pool \subseteq Known
    BY PublisherAssumption, ZenonT(60) DEF Known, TypeInv, TypeOK, NodeTypeOK
  <2> QED
    BY <2>1, RevertedStep, ZenonT(60) DEF Tracked
<1>2. \A x : Known' \subseteq Known \cup {x} => Tracked' \subseteq Tracked \cup {x}
  BY <1>1, ZenonT(60) DEF Tracked
<1>3. Known' \subseteq Known => Tracked' \subseteq Tracked
  BY <1>1, ZenonT(60) DEF Tracked
<1> QED
  BY <1>2, <1>3, KnownStep, ZenonT(60)

\* The desired revision and the worker's only become later ones.
LEMMA LatestStays ==
  ASSUME TypeInv, SnapshotInv, LatestInv, [Next]_vars, NEW t \in Tracked
  PROVE  /\ t.seq <= seq'
         /\ state'[t.wl].seq # 0 => t.seq <= state'[t.wl].seq
         /\ worker'.pc \notin {"idle", "read"} /\ worker'.wl = t.wl => t.seq <= worker'.rev.seq
<1>1. t.wl \in Workloads /\ t.seq \in Nat /\ seq \in Nat /\ t.seq <= seq
  BY TrackedTyped, ZenonT(60) DEF Tx, TypeInv, TypeOK, LatestInv
<1>2. Idle.pc = "idle" /\ Blank.seq = 0
  BY ZenonT(60) DEF Idle, Blank
<1>3. state'[t.wl].seq # 0 => t.seq <= state'[t.wl].seq
  <2>1. \/ state'[t.wl].seq \in {0, seq + 1}
        \/ state'[t.wl].seq = state[t.wl].seq
    BY <1>1, <1>2, StateStep, ZenonT(60)
  <2> QED
    BY <1>1, <2>1, SMTT(30) DEF LatestInv
<1>4. ASSUME worker'.pc \notin {"idle", "read"}, worker'.wl = t.wl
      PROVE  t.seq <= worker'.rev.seq
  <2>1. CASE worker.pc \notin {"idle", "read"} /\ worker'.wl = worker.wl /\ worker'.rev = worker.rev
    BY <1>4, <2>1, ZenonT(60) DEF LatestInv
  <2>2. CASE worker'.wl = worker.wl /\ worker'.rev = state[worker.wl] /\ Unsettled(state[worker.wl])
    BY <1>4, <2>2, ZenonT(60) DEF LatestInv, Unsettled
  <2> QED
    BY <1>2, <1>4, <2>1, <2>2, WorkerStep, ZenonT(60)
<1>5. seq' \in {seq, seq + 1}
  BY SeqStep, ZenonT(60)
<1>6. t.seq <= seq'
  BY <1>1, <1>5
<1> QED
  BY <1>3, <1>4, <1>6, ZenonT(60)

LEMMA OrderNext ==
  ASSUME Limit["evict"] = 0
  PROVE  TypeInv /\ SnapshotInv /\ NonceInv /\ KeptInv /\ OrderInv /\ [Next]_vars => OrderInv'
<1> SUFFICES ASSUME TypeInv, SnapshotInv, NonceInv, KeptInv, OrderInv, [Next]_vars PROVE OrderInv'
  BY ZenonT(60)
<1>1. LatestInv /\ NodeTypeOK
  BY DEF OrderInv, TypeInv, TypeOK
<1>2. \A t \in Tracked : t \in Tx /\ Reached(t) /\ Reached(t)'
  BY <1>1, TrackedTyped, ReachedStays, ZenonT(60) DEF OrderInv
<1>3. \A t \in Tracked :
        /\ t.seq <= seq'
        /\ state'[t.wl].seq # 0 => t.seq <= state'[t.wl].seq
        /\ worker'.pc \notin {"idle", "read"} /\ worker'.wl = t.wl => t.seq <= worker'.rev.seq
  BY <1>1, LatestStays, ZenonT(60)
<1>4. CASE Tracked' \subseteq Tracked
  BY <1>3, <1>2, <1>4, ZenonT(60) DEF OrderInv, LatestInv
<1>5. CASE /\ PrepareOnce /\ worker.pc = "prepare" /\ worker.rev.prepared = Nil
           /\ worker'.pc = "send" /\ worker'.wl = worker.wl /\ worker'.rev = worker.rev
           /\ worker'.tx \in Prepare(worker.wl, worker.rev.key, attemptSig, worker.rev.seq)
           /\ Tracked' \subseteq Tracked \cup {worker'.tx}
  <2>1. PICK n : n = worker'.tx
    BY ZenonT(60)
  <2>2. n \in Tx /\ n.wl = worker.wl /\ n.seq = worker.rev.seq
    BY <1>1, <1>5, <2>1, AttemptStep, ZenonT(60) DEF IsOf
  <2>3. Reached(n)
    BY <1>1, <1>5, <2>1, PreparedIsReached, ZenonT(60)
  <2>4. Reached(n)'
    BY <1>1, <2>2, <2>3, ReachedStays, ZenonT(60)
  <2>5. \A t \in Tracked : t.nonce <= n.nonce
    <3>1. n.nonce \in pendingNonce
      BY <1>5, <2>1, SMTT(30) DEF Prepare
    <3> QED
      BY <1>1, <1>2, <3>1, PendingIsLast, ZenonT(60)
  <2>6. \A t \in Tracked : t.wl = n.wl => t.seq <= n.seq
    BY <1>1, <1>5, <2>2, ZenonT(60) DEF LatestInv
  <2>7. LatestInv'
    <3>1. n.seq <= worker'.rev.seq
      BY <1>5, <2>2, SMTT(30) DEF Tx
    <3>2. SnapshotInv' /\ TypeInv'
      BY SnapshotNext, TypeNext, ZenonT(60)
    <3>3. n.wl \in Workloads
      BY <2>2, ZenonT(60) DEF Tx
    <3>4. n.seq <= state'[n.wl].seq /\ state'[n.wl].seq <= seq'
      BY <1>5, <2>2, <3>2, <3>3, ZenonT(60) DEF SnapshotInv
    <3>5. n.seq \in Nat /\ state'[n.wl].seq \in Nat /\ seq' \in Nat
      BY <2>2, <3>2, <3>3, ZenonT(60) DEF Tx, TypeInv, TypeOK, WorkloadState
    <3>6. n.seq <= seq'
      BY <3>4, <3>5
    <3> QED
      BY <1>3, <1>5, <2>1, <3>1, <3>4, <3>6, ZenonT(60) DEF LatestInv
  <2>8. ASSUME NEW t \in Tracked', NEW u \in Tracked', t.wl = u.wl, t.seq # 0, t.seq < u.seq
        PROVE  t.nonce <= u.nonce
    <3>1. t \in Tracked \cup {n} /\ u \in Tracked \cup {n}
      BY <1>5, <2>1, ZenonT(60)
    <3>2. t.seq \in Nat /\ u.seq \in Nat
      BY <1>2, <2>2, <3>1, ZenonT(60) DEF Tx
    <3> QED
      BY <2>5, <2>6, <2>8, <3>1, <3>2, SMTT(30) DEF OrderInv
  <2> QED
    BY <1>2, <1>5, <2>1, <2>4, <2>7, <2>8, ZenonT(60) DEF OrderInv
<1>6. CASE /\ ForeignPublish
           /\ \E w \in Workloads, key \in Keys, sig \in Sigs :
                \E t \in Prepare(w, key, sig, 0) : Tracked' \subseteq Tracked \cup {t}
  <2>1. PICK w \in Workloads, key \in Keys, sig \in Sigs :
          \E t \in Prepare(w, key, sig, 0) : Tracked' \subseteq Tracked \cup {t}
    BY <1>6, ZenonT(60)
  <2>2. PICK n \in Prepare(w, key, sig, 0) : Tracked' \subseteq Tracked \cup {n}
    BY <2>1, ZenonT(60)
  <2>3. n \in Tx /\ n.seq = 0 /\ n.wl \in Workloads
    BY <1>1, PrepareType DEF Prepare
  <2>4. Reached(n)'
    BY <1>1, <2>3, PreparedIsReached, ReachedStays, ZenonT(60)
  <2>5. UNCHANGED <<state, worker>>
    BY <1>6, ZenonT(60) DEF ForeignPublish, publisherVars
  <2>6. LatestInv'
    <3>1. state[n.wl].seq \in Nat /\ worker.rev.seq \in Nat /\ seq' \in Nat
      BY <2>3, TypeNext, ZenonT(60) DEF TypeInv, TypeOK, WorkloadState, Worker
    <3>2. n.seq <= state[n.wl].seq /\ n.seq <= worker.rev.seq /\ n.seq <= seq'
      BY <2>3, <3>1
    <3> QED
      BY <1>3, <2>2, <2>5, <3>2, ZenonT(60) DEF LatestInv
  <2>7. ASSUME NEW t \in Tracked', NEW u \in Tracked', t.wl = u.wl, t.seq # 0, t.seq < u.seq
        PROVE  t.nonce <= u.nonce
    <3>1. t \in Tracked \cup {n} /\ u \in Tracked \cup {n}
      BY <2>2, ZenonT(60)
    <3>2. t.seq \in Nat /\ u.seq \in Nat
      BY <1>2, <2>3, <3>1, ZenonT(60) DEF Tx
    <3> QED
      BY <2>3, <2>7, <3>1, <3>2 DEF OrderInv
  <2> QED
    BY <1>2, <2>2, <2>4, <2>6, <2>7, ZenonT(60) DEF OrderInv
<1> QED
  BY <1>1, <1>4, <1>5, <1>6, TrackedStep, ZenonT(60)

LEMMA OrderedLands ==
  ASSUME TypeInv, OrderInv
  PROVE  PublishedInOrder
<1> SUFFICES ASSUME NEW t \in landed, NEW u \in landed,
                    t.wl = u.wl, u.seq # 0, t.nonce < u.nonce
             PROVE  t.seq <= u.seq
  BY ZenonT(60) DEF PublishedInOrder
<1>1. t \in Tracked /\ u \in Tracked /\ t \in Tx /\ u \in Tx
  BY PublisherAssumption, ZenonT(60) DEF Tracked, Known, TypeInv, TypeOK, NodeTypeOK
<1>2. u.seq < t.seq => u.nonce <= t.nonce
  BY <1>1, ZenonT(60) DEF OrderInv
<1> QED
  BY <1>1, <1>2 DEF Tx

\* The chain's order of a workload's publications is the order in which they
\* were requested, however many sends are lost, repeated or reverted and
\* whatever else uses the account, as long as the node's pool evicts nothing:
\* Prepare takes the pending nonce, and a kept attempt keeps its own.
THEOREM PublishedInOrderThm ==
  ASSUME Limit["evict"] = 0
  PROVE  Spec => []PublishedInOrder
<1>1. TypeInv /\ OrderInv => PublishedInOrder
  BY OrderedLands, ZenonT(60)
<1>2. OnceInv => NonceInv /\ KeptInv
  BY ZenonT(60) DEF OnceInv
<1> QED
  BY <1>1, <1>2, TypeInit, TypeNext, SnapshotInit, SnapshotNext, OnceInit, OnceNext,
     OrderInit, OrderNext, PTL DEF Spec

-----------------------------------------------------------------------------
(***************************************************************************)
(* ConfirmedIsCurrent and SettledOnChain, for an operator alone with its   *)
(* account, a node that evicts nothing and Deployments that only move      *)
(* forward.  Then revisions, transactions and records of a workload all    *)
(* appear in the order of its keys: what is confirmed does not come after  *)
(* the record, and the record does not come after what was requested last. *)
(***************************************************************************)

\* A key that was left is not requested again.
ForwardOnly ==
  /\ \A k \in Keys : <<k, k>> \notin Follows
  /\ \A k, l, m \in Keys : <<k, l>> \in Follows /\ <<l, m>> \in Follows => <<k, m>> \in Follows

\* Key k is l or comes before it.
Precedes(k, l) == k = l \/ <<k, l>> \in Follows

\* All that is on its way, on chain or in hand was requested, in this order.
ForwardInv ==
  /\ RequestSupersedes
  /\ \A t \in Known :
       /\ t.seq # 0
       /\ t.sig = SigningDigest(t.wl, t.key)
       /\ Precedes(t.key, wanted[t.wl])
       /\ worker.pc \notin {"idle", "read"} /\ worker.wl = t.wl => Precedes(t.key, worker.rev.key)
  /\ \A t, u \in Known : t.wl = u.wl /\ t.seq < u.seq => Precedes(t.key, u.key)
  /\ worker.pc \notin {"idle", "read"} => Precedes(worker.rev.key, wanted[worker.wl])
  /\ \A w \in Workloads : state[w].confirmed # Nil => Precedes(state[w].confirmed, wanted[w])

\* The record of w is there and does not come before key.
Covers(w, key) == latest[w].exists /\ Precedes(key, latest[w].key)

\* The record is of a transaction that landed, and none comes after it; nor
\* does anything that is confirmed or about to be.
RecordInv ==
  /\ \A w \in Workloads : latest[w].exists =>
       \E t \in landed : t.wl = w /\ t.key = latest[w].key /\ t.sig = latest[w].sig
  /\ \A t \in landed : Covers(t.wl, t.key)
  /\ \A w \in Workloads : state[w].confirmed # Nil => Covers(w, state[w].confirmed)
  /\ worker.pc = "confirm" => Covers(worker.wl, worker.rev.key)

LEMMA PrecedesTransitive ==
  ASSUME ForwardOnly, NEW k, NEW l, NEW m, Precedes(k, l), Precedes(l, m)
  PROVE  Precedes(k, m)
<1>1. \A x, y : <<x, y>> \in Follows => x \in Keys /\ y \in Keys
  BY PublisherAssumption
<1> QED
  BY <1>1, ZenonT(60) DEF ForwardOnly, Precedes

LEMMA PrecedesAntisymmetric ==
  ASSUME ForwardOnly, NEW k, NEW l, Precedes(k, l), Precedes(l, k)
  PROVE  k = l
<1>1. \A x, y : <<x, y>> \in Follows => x \in Keys /\ y \in Keys
  BY PublisherAssumption, ZenonT(60)
<1> QED
  BY <1>1, ZenonT(60) DEF ForwardOnly, Precedes

LEMMA CurrentInit == Init => ForwardInv /\ RecordInv
<1> SUFFICES ASSUME Init PROVE ForwardInv /\ RecordInv
  BY ZenonT(60)
<1>1. Known = {}
  BY ZenonT(60) DEF Init, NodeInit, Idle, Blank, Known, Kept
<1>2. /\ landed = {} /\ worker.pc = "idle"
      /\ \A w \in Workloads : state[w].seq = 0 /\ state[w].confirmed = Nil /\ ~ latest[w].exists
  BY DEF Init, NodeInit, RegistryInit, Idle, Blank, Unset
<1> QED
  BY <1>1, <1>2, ZenonT(60) DEF ForwardInv, RecordInv, RequestSupersedes

\* The reconciler's last request only moves forward.
LEMMA WantedGrows ==
  ASSUME TypeInv, ForwardOnly, [Next]_vars, NEW w \in Workloads, NEW k \in Keys,
         Precedes(k, wanted[w])
  PROVE  Precedes(k, wanted'[w])
<1>1. CASE UNCHANGED wanted
  BY <1>1, ZenonT(60)
<1>2. ASSUME NEW v \in Workloads, NEW key \in Keys, Enqueue(v, key)
      PROVE  Precedes(k, wanted'[w])
  <2>1. wanted' = [wanted EXCEPT ![v] = key] /\ MayRequest(v, key)
    BY <1>2, ZenonT(60) DEF Enqueue
  <2>2. CASE v = w
    <3>1. wanted'[w] = key
      BY <2>1, <2>2, ZenonT(60) DEF TypeInv, TypeOK
    <3>2. wanted[w] # ZeroKey
      BY RegistryAssumption, PublisherAssumption, ZenonT(60) DEF Precedes
    <3>3. Precedes(wanted[w], key)
      BY <2>1, <2>2, <3>2, ZenonT(60) DEF MayRequest, Precedes
    <3> QED
      BY <3>1, <3>3, PrecedesTransitive, ZenonT(60)
  <2>3. CASE v # w
    BY <2>1, <2>3, ZenonT(60) DEF TypeInv, TypeOK
  <2> QED
    BY <2>2, <2>3, ZenonT(60)
<1> QED
  BY <1>1, <1>2, ZenonT(60) DEF Next, EnqueueAdd, Get, ReadLatest, PrepareOnce, SendTx, WaitTx, Recheck,
     Confirm, Ripen, Mine, Evict, ForeignPublish, Crash, vars, historyVars

\* Only a mined transaction writes a record, its own.
LEMMA RecordStep ==
  ASSUME TypeInv, [Next]_vars
  PROVE  \/ UNCHANGED <<latest, landed>>
         \/ \E t \in pool :
              /\ Mine /\ t.nonce = nonce /\ t.wl \in Workloads
              /\ landed' = landed \cup {t}
              /\ \A w \in Workloads :
                   latest'[w] = IF w = t.wl
                                THEN [exists |-> TRUE, key |-> t.key, sig |-> t.sig]
                                ELSE latest[w]
<1>1. CASE Mine
  <2>1. CASE UNCHANGED <<latest, landed>>
    BY <2>1, ZenonT(60)
  <2>2. ASSUME NEW t \in pool, mineSuccess(t)
        PROVE  /\ t.nonce = nonce /\ t.wl \in Workloads
               /\ landed' = landed \cup {t}
               /\ \A w \in Workloads :
                    latest'[w] = IF w = t.wl
                                 THEN [exists |-> TRUE, key |-> t.key, sig |-> t.sig]
                                 ELSE latest[w]
    BY <2>2, ZenonT(60) DEF mineSuccess, include, publish, TypeInv, TypeOK, RegistryTypeOK, NodeTypeOK, Tx
  <2>3. UNCHANGED <<latest, landed>> \/ \E t \in pool : mineSuccess(t)
    BY <1>1, ZenonT(60) DEF Mine, mineReverted, registryVars
  <2> QED
    BY <1>1, <2>1, <2>2, <2>3, ZenonT(60)
<1> QED
  BY <1>1, ZenonT(60) DEF Next, Enqueue, EnqueueAdd, Get, ReadLatest, PrepareOnce, SendTx, Send, receive,
     WaitTx, Recheck, Confirm, Ripen, Evict, evict, ForeignPublish, Crash, vars, nodeVars, registryVars

\* A transaction that is mined now comes after all of its workload that landed.
LEMMA MinedIsLast ==
  ASSUME TypeInv, OnceInv, OrderInv, ForwardInv, NEW t \in pool, t.nonce = nonce,
         NEW u \in landed, u.wl = t.wl
  PROVE  Precedes(u.key, t.key)
<1>1. t \in Known /\ u \in Known /\ t \in Tx /\ u \in Tx
  BY PublisherAssumption, ZenonT(60) DEF Known, TypeInv, TypeOK, NodeTypeOK
<1>2. u.nonce < t.nonce /\ t.nonce \in Nat /\ u.nonce \in Nat /\ t.seq \in Nat /\ u.seq \in Nat
  BY <1>1, ZenonT(60) DEF OnceInv, NonceInv, Tx
<1>3. t.seq # 0
  BY <1>1, ZenonT(60) DEF ForwardInv
<1>4. ~ (t.seq < u.seq)
  <2>1. t.seq < u.seq => t.nonce <= u.nonce
    BY <1>1, <1>3, ZenonT(60) DEF OrderInv, Tracked
  <2> QED
    BY <1>2, <2>1
<1>5. CASE u.seq = t.seq
  BY <1>1, <1>3, <1>5, ZenonT(60) DEF OnceInv, SingleInv, IsOf, Precedes
<1>6. CASE u.seq < t.seq
  BY <1>1, <1>6, ZenonT(60) DEF ForwardInv
<1> QED
  BY <1>2, <1>4, <1>5, <1>6, SMTT(30)

\* What the record of a workload covers it goes on covering.
LEMMA CoversStays ==
  ASSUME TypeInv, OnceInv, OrderInv, ForwardInv, RecordInv, ForwardOnly, [Next]_vars,
         NEW w \in Workloads, NEW k, Covers(w, k)
  PROVE  latest'[w].exists /\ Precedes(k, latest'[w].key)
<1>1. CASE latest'[w] = latest[w]
  BY <1>1, ZenonT(60) DEF Covers
<1>2. ASSUME NEW t \in pool, t.nonce = nonce, t.wl = w,
             latest'[w] = [exists |-> TRUE, key |-> t.key, sig |-> t.sig]
      PROVE  latest'[w].exists /\ Precedes(k, latest'[w].key)
  <2>1. PICK u \in landed : u.wl = w /\ u.key = latest[w].key
    BY ZenonT(60) DEF Covers, RecordInv
  <2>2. Precedes(latest[w].key, t.key)
    BY <1>2, <2>1, MinedIsLast, ZenonT(60)
  <2>3. latest'[w].exists /\ latest'[w].key = t.key
    BY <1>2
  <2>4. Precedes(k, latest[w].key)
    BY ZenonT(60) DEF Covers
  <2> QED
    BY <2>2, <2>3, <2>4, PrecedesTransitive, ZenonT(60)
<1> QED
  BY <1>1, <1>2, RecordStep, ZenonT(60)

LEMMA RecordNext ==
  ASSUME ForwardOnly
  PROVE  TypeInv /\ MatchesInv /\ OnceInv /\ OrderInv /\ ForwardInv /\ RecordInv /\ [Next]_vars
           => RecordInv'
<1> SUFFICES ASSUME TypeInv, MatchesInv, OnceInv, OrderInv, ForwardInv, RecordInv, [Next]_vars
             PROVE  RecordInv'
  BY ZenonT(60)
<1>1. \A w \in Workloads : \A k :
        Covers(w, k) => latest'[w].exists /\ Precedes(k, latest'[w].key)
  BY CoversStays, ZenonT(60)
<1>2. landed \subseteq Tx /\ \A t \in landed : t.wl \in Workloads
  BY SMTT(30) DEF TypeInv, TypeOK, NodeTypeOK, Tx
<1>3. ASSUME NEW w \in Workloads, latest'[w].exists
      PROVE  \E t \in landed' : t.wl = w /\ t.key = latest'[w].key /\ t.sig = latest'[w].sig
  <2>1. CASE UNCHANGED <<latest, landed>>
    BY <1>3, <2>1, ZenonT(60) DEF RecordInv
  <2>2. ASSUME NEW u \in pool, landed' = landed \cup {u},
               latest'[w] = IF w = u.wl THEN [exists |-> TRUE, key |-> u.key, sig |-> u.sig]
                                        ELSE latest[w]
        PROVE  \E t \in landed' : t.wl = w /\ t.key = latest'[w].key /\ t.sig = latest'[w].sig
    <3>1. CASE w = u.wl
      BY <2>2, <3>1, SMTT(30)
    <3>2. CASE w # u.wl
      BY <1>3, <2>2, <3>2, SMTT(30) DEF RecordInv
    <3> QED
      BY <3>1, <3>2, ZenonT(60)
  <2> QED
    BY <2>1, <2>2, RecordStep, ZenonT(60)
<1>4. ASSUME NEW t \in landed'
      PROVE  latest'[t.wl].exists /\ Precedes(t.key, latest'[t.wl].key)
  <2>1. CASE t \in landed
    BY <1>1, <1>2, <2>1, ZenonT(60) DEF RecordInv
  <2>2. CASE t \notin landed
    <3>1. latest'[t.wl] = [exists |-> TRUE, key |-> t.key, sig |-> t.sig]
      BY <1>4, <2>2, RecordStep, ZenonT(60)
    <3> QED
      BY <3>1, SMTT(30) DEF Precedes
  <2> QED
    BY <2>1, <2>2, ZenonT(60)
<1>5. ASSUME NEW w \in Workloads, state'[w].confirmed # Nil
      PROVE  latest'[w].exists /\ Precedes(state'[w].confirmed, latest'[w].key)
  <2>1. CASE state'[w].confirmed = state[w].confirmed
    BY <1>1, <1>5, <2>1, ZenonT(60) DEF RecordInv
  <2>2. CASE Confirm /\ w = worker.wl /\ state'[w].confirmed = worker.rev.key
    <3>1. Covers(w, worker.rev.key)
      BY <2>2, ZenonT(60) DEF Confirm, RecordInv
    <3> QED
      BY <1>1, <2>2, <3>1, ZenonT(60)
  <2>3. Blank.confirmed = Nil
    BY ZenonT(60) DEF Blank
  <2> QED
    BY <1>5, <2>1, <2>2, <2>3, StateStep, ZenonT(60)
<1>6. ASSUME worker'.pc = "confirm"
      PROVE  latest'[worker'.wl].exists /\ Precedes(worker'.rev.key, latest'[worker'.wl].key)
  <2>1. Idle.pc = "idle"
    BY DEF Idle
  <2>2. worker.pc # "idle" => worker.wl \in Workloads
    BY ZenonT(60) DEF TypeInv, WorkerTyped
  <2>3. ASSUME NEW k, OnChain(worker.wl, k) PROVE Covers(worker.wl, k)
    BY <2>3, ZenonT(60) DEF OnChain, LatestAttestation, getLatest, Covers, Precedes
  <2>4. CASE UNCHANGED worker
    BY <1>1, <1>6, <2>2, <2>4, ZenonT(60) DEF RecordInv
  <2>5. CASE ReadLatest /\ OnChain(worker.wl, state[worker.wl].key)
             /\ worker'.wl = worker.wl /\ worker'.rev = state[worker.wl]
    <3>1. worker.pc = "read"
      BY <2>5, ZenonT(60) DEF ReadLatest
    <3> QED
      BY <1>1, <2>2, <2>3, <2>5, <3>1, ZenonT(60)
  <2>6. CASE OnChain(worker.wl, worker.rev.key) /\ worker'.wl = worker.wl
             /\ worker'.rev = worker.rev /\ worker.pc # "idle"
    BY <1>1, <2>2, <2>3, <2>6, ZenonT(60)
  <2>7. CASE worker.pc = "wait" /\ worker.tx \in landed /\ worker'.wl = worker.wl
             /\ worker'.rev = worker.rev
    <3>1. Covers(worker.wl, worker.rev.key)
      BY <2>7, ZenonT(60) DEF MatchesInv, WorkerMatches, Publishes, RecordInv
    <3> QED
      BY <1>1, <2>2, <2>7, <3>1, ZenonT(60)
  <2> QED
    BY <1>6, <2>1, <2>4, <2>5, <2>6, <2>7, WorkerStep, ZenonT(60)
<1> QED
  BY <1>3, <1>4, <1>5, <1>6, ZenonT(60) DEF RecordInv, Covers

\* "A newer revision invalidates the older one": a request that Enqueue takes
\* for confirmed already is the desired revision, because keys do not recur.
LEMMA SupersedesNext ==
  ASSUME ForwardOnly
  PROVE  TypeInv /\ ForwardInv /\ [Next]_vars => RequestSupersedes'
<1> SUFFICES ASSUME TypeInv, ForwardInv, [Next]_vars,
                    NEW w \in Workloads, state'[w].seq # 0
             PROVE  state'[w].key = wanted'[w]
  BY ZenonT(60) DEF RequestSupersedes
<1>1. state[w].seq # 0 => state[w].key = wanted[w]
  BY ZenonT(60) DEF ForwardInv, RequestSupersedes
<1>2. wanted \in [Workloads -> Keys \cup {ZeroKey}] /\ state \in [Workloads -> WorkloadState]
  BY ZenonT(60) DEF TypeInv, TypeOK
<1>3. ASSUME NEW v \in Workloads, NEW key \in Keys, Enqueue(v, key)
      PROVE  state'[w].key = wanted'[w]
  <2>1. wanted' = [wanted EXCEPT ![v] = key]
    BY <1>3, ZenonT(60) DEF Enqueue
  <2>2. CASE v # w
    BY <1>1, <1>2, <1>3, <2>1, <2>2, ZenonT(60) DEF Enqueue
  <2>3. CASE v = w /\ state[w].confirmed = key /\ UNCHANGED state
    <3>1. key # Nil
      BY PublisherAssumption, ZenonT(60)
    <3>2. Precedes(key, wanted[w])
      BY <2>3, <3>1, ZenonT(60) DEF ForwardInv
    <3>3. Precedes(wanted[w], key)
      <4>1. wanted[w] # ZeroKey
        BY <3>2, RegistryAssumption, PublisherAssumption, ZenonT(60) DEF Precedes
      <4> QED
        BY <1>3, <2>3, <4>1, ZenonT(60) DEF Enqueue, MayRequest, Precedes
    <3>4. wanted[w] = key
      BY <3>2, <3>3, PrecedesAntisymmetric, ZenonT(60)
    <3> QED
      BY <1>1, <1>2, <2>1, <2>3, <3>4, ZenonT(60)
  <2>4. CASE v = w /\ state'[w].key = key
    BY <1>2, <2>1, <2>4, ZenonT(60)
  <2> QED
    BY <1>2, <1>3, <2>2, <2>3, <2>4, SMTT(30) DEF Enqueue
<1>4. ASSUME UNCHANGED wanted, state'[w].seq = state[w].seq, state'[w].key = state[w].key
      PROVE  state'[w].key = wanted'[w]
  BY <1>1, <1>4, ZenonT(60)
<1>5. Blank.seq = 0
  BY ZenonT(60) DEF Blank
<1>6. CASE PrepareOnce \/ WaitTx \/ Confirm \/ Crash
  <2>1. UNCHANGED wanted /\ UNCHANGED seq
    BY <1>6, ZenonT(60) DEF PrepareOnce, WaitTx, Confirm, Crash, historyVars
  <2>2. seq \in Nat
    BY ZenonT(60) DEF TypeInv, TypeOK
  <2>3. seq' # seq + 1
    BY <2>1, <2>2
  <2> QED
    BY <1>4, <1>5, <2>1, <2>3, StateStep, ZenonT(60)
<1>7. CASE UNCHANGED <<wanted, state>>
  BY <1>4, <1>7, ZenonT(60)
<1> QED
  BY <1>3, <1>6, <1>7, ZenonT(60) DEF Next, EnqueueAdd, Get, ReadLatest, SendTx, Recheck, Ripen, Mine,
     Evict, ForeignPublish, vars, publisherVars, historyVars

LEMMA ForwardNext ==
  ASSUME ForwardOnly, Limit["foreign"] = 0
  PROVE  TypeInv /\ SnapshotInv /\ MatchesInv /\ OnceInv /\ OrderInv /\ ForwardInv /\ [Next]_vars
           => ForwardInv'
<1> SUFFICES ASSUME TypeInv, SnapshotInv, MatchesInv, OnceInv, OrderInv, ForwardInv, [Next]_vars
             PROVE  ForwardInv'
  OBVIOUS
<1>1. RequestSupersedes'
  BY SupersedesNext, ZenonT(60)
<1>2. KeptInv /\ LatestInv /\ Idle.pc = "idle"
  BY DEF OnceInv, OrderInv, Idle
<1>3. \A t \in Known : t \in Tx /\ t.wl \in Workloads /\ t.key \in Keys /\ t.seq \in Nat
  BY KnownTyped, ZenonT(60) DEF Tx
\* What was known keeps its place.
<1>4. ASSUME NEW t \in Known
      PROVE  /\ t.seq # 0
             /\ t.sig = SigningDigest(t.wl, t.key)
             /\ Precedes(t.key, wanted'[t.wl])
             /\ worker'.pc \notin {"idle", "read"} /\ worker'.wl = t.wl
                  => Precedes(t.key, worker'.rev.key)
  <2>1. /\ t.seq # 0 /\ t.sig = SigningDigest(t.wl, t.key) /\ Precedes(t.key, wanted[t.wl])
        /\ worker.pc \notin {"idle", "read"} /\ worker.wl = t.wl => Precedes(t.key, worker.rev.key)
    BY <1>4, ZenonT(60) DEF ForwardInv
  <2>2. Precedes(t.key, wanted'[t.wl])
    BY <1>3, <2>1, WantedGrows, ZenonT(60)
  <2>3. ASSUME worker'.pc \notin {"idle", "read"}, worker'.wl = t.wl
        PROVE  Precedes(t.key, worker'.rev.key)
    <3>1. CASE worker.pc \notin {"idle", "read"} /\ worker'.wl = worker.wl /\ worker'.rev = worker.rev
      BY <2>1, <2>3, <3>1, ZenonT(60)
    <3>2. CASE worker'.wl = worker.wl /\ worker'.rev = state[worker.wl] /\ Unsettled(state[worker.wl])
      <4>1. state[t.wl].key = wanted[t.wl]
        BY <1>3, <2>3, <3>2, ZenonT(60) DEF Unsettled, ForwardInv, RequestSupersedes
      <4> QED
        BY <2>1, <2>3, <3>2, <4>1, ZenonT(60)
    <3> QED
      BY <1>2, <2>3, <3>1, <3>2, WorkerStep, ZenonT(60)
  <2> QED
    BY <2>1, <2>2, <2>3, ZenonT(60)
<1>5. ASSUME worker'.pc \notin {"idle", "read"}
      PROVE  Precedes(worker'.rev.key, wanted'[worker'.wl])
  <2>1. CASE worker.pc \notin {"idle", "read"} /\ worker'.wl = worker.wl /\ worker'.rev = worker.rev
    <3>1. worker.wl \in Workloads /\ worker.rev.key \in Keys
      BY <2>1, ZenonT(60) DEF TypeInv, WorkerTyped
    <3>2. Precedes(worker.rev.key, wanted[worker.wl])
      BY <2>1, ZenonT(60) DEF ForwardInv
    <3> QED
      BY <2>1, <3>1, <3>2, WantedGrows, ZenonT(60)
  <2>2. CASE ReadLatest /\ worker'.wl = worker.wl /\ worker'.rev = state[worker.wl]
             /\ Unsettled(state[worker.wl]) /\ UNCHANGED wanted
    <3>1. worker.wl \in Workloads
      BY <2>2, ZenonT(60) DEF ReadLatest, TypeInv, WorkerTyped
    <3>2. state[worker.wl].key = wanted[worker.wl]
      BY <2>2, <3>1, ZenonT(60) DEF Unsettled, ForwardInv, RequestSupersedes
    <3> QED
      BY <2>2, <3>2, ZenonT(60) DEF Precedes
  <2> QED
    BY <1>2, <1>5, <2>1, <2>2, WorkerStep, ZenonT(60)
<1>6. ASSUME NEW w \in Workloads, state'[w].confirmed # Nil
      PROVE  Precedes(state'[w].confirmed, wanted'[w])
  <2>1. CASE state'[w].confirmed = state[w].confirmed
    <3>1. state[w].confirmed \in Keys /\ Precedes(state[w].confirmed, wanted[w])
      BY <1>6, <2>1, ZenonT(60) DEF ForwardInv, TypeInv, TypeOK, WorkloadState
    <3> QED
      BY <2>1, <3>1, WantedGrows, ZenonT(60)
  <2>2. CASE Confirm /\ w = worker.wl /\ state'[w].confirmed = worker.rev.key
    <3>1. worker.pc \notin {"idle", "read"}
      BY <2>2 DEF Confirm
    <3>2. worker.rev.key \in Keys /\ Precedes(worker.rev.key, wanted[w])
      BY <2>2, <3>1, ZenonT(60) DEF ForwardInv, TypeInv, WorkerTyped
    <3> QED
      BY <2>2, <3>2, WantedGrows, ZenonT(60)
  <2>3. Blank.confirmed = Nil
    BY ZenonT(60) DEF Blank
  <2> QED
    BY <1>6, <2>1, <2>2, <2>3, StateStep, ZenonT(60)
<1>7. CASE Known' \subseteq Known
  BY <1>1, <1>4, <1>5, <1>6, <1>7, ZenonT(60) DEF ForwardInv
<1>8. CASE /\ PrepareOnce /\ worker.pc = "prepare" /\ worker.rev.prepared = Nil
           /\ worker'.pc = "send" /\ worker'.wl = worker.wl /\ worker'.rev = worker.rev
           /\ worker'.tx \in Prepare(worker.wl, worker.rev.key, attemptSig, worker.rev.seq)
           /\ Known' \subseteq Known \cup {worker'.tx}
  <2>1. PICK n : n = worker'.tx
    BY ZenonT(60)
  <2>2. n.wl = worker.wl /\ n.key = worker.rev.key /\ n.sig = attemptSig /\ n.seq = worker.rev.seq
    BY <1>8, <2>1 DEF Prepare
  <2>3. /\ n.seq # 0
        /\ n.sig = SigningDigest(n.wl, n.key)
        /\ Precedes(n.key, wanted'[n.wl])
        /\ Precedes(n.key, worker'.rev.key)
    <3>1. n.seq # 0
      BY <1>8, <2>2, ZenonT(60) DEF SnapshotInv
    <3>2. n.sig = SigningDigest(n.wl, n.key)
      BY <1>8, <2>2, ZenonT(60) DEF attemptSig, MatchesInv, WorkerMatches, AttemptMatches
    <3>3. Precedes(n.key, wanted'[n.wl])
      BY <1>5, <1>8, <2>2, ZenonT(60)
    <3> QED
      BY <1>8, <2>2, <3>1, <3>2, <3>3, ZenonT(60) DEF Precedes
  <2>4. \A t \in Known : t.wl = n.wl => t.seq <= n.seq /\ Precedes(t.key, n.key)
    BY <1>2, <1>8, <2>2, ZenonT(60) DEF LatestInv, Tracked, ForwardInv
  <2>5. n.seq \in Nat
    BY <2>2, ZenonT(60) DEF TypeInv, TypeOK, Worker, WorkloadState
  <2>6. ASSUME NEW t \in Known', NEW u \in Known', t.wl = u.wl, t.seq < u.seq
        PROVE  Precedes(t.key, u.key)
    <3>1. t \in Known \cup {n} /\ u \in Known \cup {n}
      BY <1>8, <2>1, ZenonT(60)
    <3>2. ~ (n.seq < n.seq) /\ \A x \in Known : x.wl = n.wl => ~ (n.seq < x.seq)
      BY <1>3, <2>4, <2>5, SMTT(30)
    <3>3. CASE t \in Known /\ u \in Known
      BY <2>6, <3>3, ZenonT(60) DEF ForwardInv
    <3>4. CASE t \in Known /\ u = n
      BY <2>4, <2>6, <3>4, ZenonT(60)
    <3> QED
      BY <2>6, <3>1, <3>2, <3>3, <3>4, ZenonT(60)
  <2> QED
    BY <1>1, <1>4, <1>5, <1>6, <1>8, <2>1, <2>3, <2>6, ZenonT(60) DEF ForwardInv
<1>9. ~ ForeignPublish
  BY NoFailure, ZenonT(60) DEF ForeignPublish, Failures
<1> QED
  BY <1>2, <1>7, <1>8, <1>9, KnownStep, ZenonT(60)

\* The desired revision that is confirmed is the record.
LEMMA CurrentIsCurrent ==
  ASSUME TypeInv, ForwardInv, RecordInv, ForwardOnly
  PROVE  ConfirmedIsCurrent
<1> SUFFICES ASSUME NEW w \in Workloads, state[w].seq # 0, state[w].confirmed = state[w].key
             PROVE  OnChain(w, state[w].key)
  BY ZenonT(60) DEF ConfirmedIsCurrent
<1>1. state[w].key \in Keys /\ state[w].key = wanted[w] /\ state[w].key # Nil
  BY PublisherAssumption, ZenonT(60) DEF TypeInv, WorkerTyped, ForwardInv, RequestSupersedes
<1>2. latest[w].exists /\ Precedes(wanted[w], latest[w].key)
  BY <1>1, ZenonT(60) DEF RecordInv, Covers
<1>3. PICK t \in landed : t.wl = w /\ t.key = latest[w].key /\ t.sig = latest[w].sig
  BY <1>2, ZenonT(60) DEF RecordInv
<1>4. t \in Known
  BY PublisherAssumption, ZenonT(60) DEF Known, TypeInv, TypeOK, NodeTypeOK
<1>5. Precedes(latest[w].key, wanted[w]) /\ latest[w].sig = SigningDigest(w, latest[w].key)
  BY <1>3, <1>4, ZenonT(60) DEF ForwardInv
<1>6. latest[w].key = wanted[w]
  BY <1>2, <1>5, PrecedesAntisymmetric, ZenonT(60)
<1>7. latest[w].sig # NoSig
  BY <1>5 DEF SigningDigest, NoSig
<1> QED
  BY <1>1, <1>2, <1>5, <1>6, <1>7, ZenonT(60) DEF OnChain, LatestAttestation, getLatest, recordIsOurs

\* What the publisher calls desired and confirmed is what the registry says
\* now, for an operator alone with its account, a node that evicts nothing and
\* a Deployment that only moves forward; a rollback to an earlier revision, an
\* eviction or another writer can make confirm's claim go stale.
THEOREM ConfirmedIsCurrentThm ==
  ASSUME ForwardOnly, Limit["foreign"] = 0, Limit["evict"] = 0
  PROVE  Spec => []ConfirmedIsCurrent
<1>1. TypeInv /\ ForwardInv /\ RecordInv => ConfirmedIsCurrent
  BY CurrentIsCurrent, ZenonT(60)
<1>2. PublishedInv => MatchesInv
  BY ZenonT(60) DEF PublishedInv
<1>3. OnceInv => NonceInv /\ KeptInv
  BY ZenonT(60) DEF OnceInv
<1> QED
  BY <1>1, <1>2, <1>3, TypeInit, TypeNext, SnapshotInit, SnapshotNext, PublishedInit, PublishedNext,
     OnceInit, OnceNext, OrderInit, OrderNext, CurrentInit, ForwardNext, RecordNext, PTL DEF Spec

\* At rest the registry holds what was asked for last: when nothing is left to
\* do for a workload, its record is the last revision Enqueue was given, under
\* a signature that verifies, whatever was lost, reverted or restarted.
THEOREM SettledOnChainThm ==
  ASSUME ForwardOnly, Limit["foreign"] = 0, Limit["evict"] = 0
  PROVE  Spec => []SettledOnChain
<1>1. TypeInv /\ ForwardInv /\ RecordInv /\ NothingLost => SettledOnChain
  <2> SUFFICES ASSUME TypeInv, ForwardInv, RecordInv, NothingLost, NEW w \in Workloads,
                      state[w].seq # 0, w \notin dirty \cup processing \cup delayed \cup {adding}
               PROVE  OnChain(w, wanted[w])
    BY ZenonT(60) DEF SettledOnChain
  <2>1. state[w].confirmed = state[w].key
    BY ZenonT(60) DEF NothingLost, Unsettled
  <2>2. state[w].key = wanted[w]
    BY DEF ForwardInv, RequestSupersedes
  <2>3. ConfirmedIsCurrent
    BY CurrentIsCurrent
  <2> QED
    BY <2>1, <2>2, <2>3, ZenonT(60) DEF ConfirmedIsCurrent
<1>2. PublishedInv => MatchesInv
  BY ZenonT(60) DEF PublishedInv
<1>3. OnceInv => NonceInv /\ KeptInv
  BY ZenonT(60) DEF OnceInv
<1> QED
  BY <1>1, <1>2, <1>3, TypeInit, TypeNext, SnapshotInit, SnapshotNext, PublishedInit, PublishedNext,
     OnceInit, OnceNext, OrderInit, OrderNext, CurrentInit, ForwardNext, RecordNext,
     NothingLostThm, PTL DEF Spec
=============================================================================
