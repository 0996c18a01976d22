---------------------------- MODULE PublisherV2 -----------------------------
(***************************************************************************)
(* internal/publisher/publisher_v2.go, composed with the chain client, the *)
(* node, the registry contract and the work queue it runs on.              *)
(*                                                                         *)
(* Three kinds of process run concurrently: the reconciler, which calls    *)
(* Enqueue; the one worker goroutine, which Start runs; and the node.  A   *)
(* worker step is what the code does between two points where another      *)
(* process can be observed: one RPC, or one critical section of p.mu       *)
(* together with the queue calls that follow it.  A snapshot followed by a *)
(* read of the chain, and a Prepare followed by the critical section that  *)
(* stores it, are one step each: the reconciler touches only the state and *)
(* the node only the chain, so whatever comes between them can be moved    *)
(* before or after both.                                                   *)
(*                                                                         *)
(* Desired and its RevisionKey determine each other for one workload, so a *)
(* revision is its key.  p.seq restarts at 0 with the process; the model   *)
(* goes on counting, which renames the numbers and nothing else, because   *)
(* the code only compares two of the same process.                         *)
(***************************************************************************)
EXTENDS ChainClientV2

CONSTANTS
  Nil,         \* a nil pointer
  Follows,     \* pairs of keys: the second may be requested after the first
  MaxSeq,      \* bound: desired revisions
  Limit        \* bound: how often each kind of failure happens

Failures == {"rpc", "loss", "revert", "crash", "foreign", "evict"}

ASSUME PublisherAssumption ==
  /\ Nil \notin Keys \cup {ZeroKey}
  /\ Nil \notin Workloads
  /\ Nil \notin Tx
  /\ Follows \subseteq Keys \X Keys
  /\ MaxSeq \in Nat
  /\ Limit \in [Failures -> Nat]

VARIABLES
  queue, dirty, processing, delayed,  \* p.queue
  seq,         \* p.seq
  state,       \* p.state: the workloadState of every workload
  worker,      \* the worker goroutine: where it is and its local variables
  adding,      \* the workload Enqueue has recorded and not yet added, or Nil
  wanted,      \* history: the key of the last Enqueue of every workload
  asked,       \* history: the keys of all Enqueues of every workload
  spent        \* history: failures so far, by kind

INSTANCE WorkQueue WITH Items <- Workloads

queueVars == <<queue, dirty, processing, delayed>>
publisherVars == <<seq, state, worker, adding>>
historyVars == <<wanted, asked, spent>>
vars == <<registryVars, nodeVars, queueVars, publisherVars, historyVars>>

WorkloadState ==
  [seq: Nat, key: Keys \cup {ZeroKey}, signature: Sigs \cup {NoSig},
   prepared: Tx \cup {Nil}, confirmed: Keys \cup {Nil}]

Blank ==
  [seq |-> 0, key |-> ZeroKey, signature |-> NoSig, prepared |-> Nil, confirmed |-> Nil]

Worker ==
  [pc: {"idle", "read", "prepare", "send", "wait", "recheck", "confirm"},
   wl: Workloads \cup {Nil}, rev: WorkloadState, tx: Tx \cup {Nil}]

Idle == [pc |-> "idle", wl |-> Nil, rev |-> Blank, tx |-> Nil]

\* Every variable has its type.
TypeOK ==
  /\ RegistryTypeOK
  /\ NodeTypeOK
  /\ QueueTypeOK
  /\ seq \in Nat
  /\ state \in [Workloads -> WorkloadState]
  /\ worker \in Worker
  /\ adding \in Workloads \cup {Nil}
  /\ wanted \in [Workloads -> Keys \cup {ZeroKey}]
  /\ asked \in [Workloads -> SUBSET Keys]
  /\ spent \in [Failures -> Nat]

Init ==
  /\ RegistryInit
  /\ NodeInit
  /\ QueueInit
  /\ seq = 0
  /\ state = [w \in Workloads |-> Blank]
  /\ worker = Idle
  /\ adding = Nil
  /\ wanted = [w \in Workloads |-> ZeroKey]
  /\ asked = [w \in Workloads |-> {}]
  /\ spent = [f \in Failures |-> 0]

\* One more failure of kind f happens.
Fail(f) ==
  /\ spent[f] < Limit[f]
  /\ spent' = [spent EXCEPT ![f] = @ + 1]

-----------------------------------------------------------------------------
(***************************************************************************)
(* The reconciler's side.                                                  *)
(***************************************************************************)

\* Mutant: the digest does not cover the revision.
digestOfWorkload(w, key) == <<w, ZeroKey>>

\* The digest the envelope of revision key of workload w hashes to.
SigningDigest(w, key) == <<w, key>>

\* Mutant: a record whose fields match is taken for ours.
fieldsMatch(w, key, sig) == TRUE

recordIsOurs(w, key, sig) ==
  /\ sig # NoSig
  /\ sig = SigningDigest(w, key)

\* The Deployment may now be at key: where it was, or at a next revision.
MayRequest(w, key) ==
  \/ wanted[w] \in {ZeroKey, key}
  \/ <<wanted[w], key>> \in Follows

\* Enqueue's critical section.  The caller then owes the queue an Add.
Enqueue(w, key) ==
  /\ adding = Nil
  /\ MayRequest(w, key)
  /\ wanted' = [wanted EXCEPT ![w] = key]
  /\ asked' = [asked EXCEPT ![w] = @ \cup {key}]
  /\ \/ /\ state[w].confirmed = key
        /\ UNCHANGED <<seq, state, adding>>
     \/ /\ state[w].confirmed # key
        /\ state[w].seq # 0 /\ state[w].key = key
        /\ adding' = w
        /\ UNCHANGED <<seq, state>>
     \/ /\ state[w].confirmed # key
        /\ ~ (state[w].seq # 0 /\ state[w].key = key)
        /\ seq < MaxSeq
        /\ seq' = seq + 1
        /\ state' = [state EXCEPT ![w] =
             [seq |-> seq + 1, key |-> key, signature |-> NoSig, prepared |-> Nil,
              confirmed |-> @.confirmed]]
        /\ adding' = w
  /\ UNCHANGED <<registryVars, nodeVars, queueVars, worker, spent>>

\* Enqueue, after the critical section: p.queue.Add(workloadID).
EnqueueAdd ==
  /\ adding # Nil
  /\ add(adding)
  /\ adding' = Nil
  /\ UNCHANGED <<registryVars, nodeVars, seq, state, worker, historyVars>>

-----------------------------------------------------------------------------
(***************************************************************************)
(* The worker: Start calls processNext for ever, and processNext calls     *)
(* process.                                                                *)
(***************************************************************************)

\* processNext gets an item.
Get ==
  /\ worker.pc = "idle"
  /\ \E w \in Workloads :
       /\ get(w)
       /\ worker' = [pc |-> "read", wl |-> w, rev |-> Blank, tx |-> Nil]
  /\ UNCHANGED <<registryVars, nodeVars, seq, state, adding, historyVars>>

\* Mutant: a failed workload is not put back.
returnDropsErrors(result) ==
  /\ worker' = Idle
  /\ delayed' = delayed
  /\ done(worker.wl, IF result = "again" THEN dirty \cup {worker.wl} ELSE dirty)

\* The rest of processNext, when process returned an error, again, or neither.
Return(result) ==
  /\ worker' = Idle
  /\ delayed' = IF result = "err" THEN delayed \cup {worker.wl} ELSE delayed
  /\ done(worker.wl, IF result = "again" THEN dirty \cup {worker.wl} ELSE dirty)

\* The worker goes on to step pc with its snapshot rev and its transaction tx.
Goto(pc, rev, tx) ==
  /\ worker' = [pc |-> pc, wl |-> worker.wl, rev |-> rev, tx |-> tx]
  /\ UNCHANGED queueVars

\* The record on chain is the worker's revision, signed by this signer.
OnChain(w, key) ==
  LET onchain == LatestAttestation(w)
  IN  onchain.exists /\ onchain.key = key /\ recordIsOurs(w, key, onchain.sig)

\* snapshot has something to do.
Unsettled(s) == s.seq # 0 /\ s.confirmed # s.key

\* process: snapshot, and the read of the chain that always comes first.
ReadLatest ==
  LET s == state[worker.wl] IN
  /\ worker.pc = "read"
  /\ \/ ~ Unsettled(s) /\ Return("ok") /\ UNCHANGED spent
     \/ Unsettled(s) /\ Fail("rpc") /\ Return("err")
     \/ /\ Unsettled(s)
        /\ Goto(IF OnChain(worker.wl, s.key) THEN "confirm" ELSE "prepare", s, Nil)
        /\ UNCHANGED spent
  /\ UNCHANGED <<registryVars, nodeVars, seq, state, adding, wanted, asked>>

\* The workload state s with this signature and this prepared transaction.
WithAttempt(s, sig, t) ==
  [seq |-> s.seq, key |-> s.key, signature |-> sig, prepared |-> t,
   confirmed |-> s.confirmed]

\* Mutant: the attempt is stored for a revision it was not made for.
storeAlways(w, s, sig, t) == [state EXCEPT ![w] = WithAttempt(@, sig, t)]

\* prepareOnce's critical section: store the attempt made for revision s.
storeAttempt(w, s, sig, t) ==
  IF state[w].seq = s
  THEN [state EXCEPT ![w] = WithAttempt(@, sig, t)]
  ELSE state

\* prepareOnce: reuse the attempt; or sign unless signed, prepare, and store
\* both if the revision is still the desired one.
PrepareOnce ==
  LET w == worker.wl
      rev == worker.rev
      sig == IF rev.signature = NoSig THEN SigningDigest(w, rev.key) ELSE rev.signature
  IN
  /\ worker.pc = "prepare"
  /\ \/ /\ rev.prepared # Nil
        /\ Goto("send", rev, rev.prepared)
        /\ UNCHANGED <<state, spent>>
     \/ /\ rev.prepared = Nil
        /\ Fail("rpc") \/ (prepareRefuses(rev.key, sig) /\ UNCHANGED spent)
        /\ Return("err")
        /\ UNCHANGED state
     \/ /\ rev.prepared = Nil
        /\ ~ prepareRefuses(rev.key, sig)
        /\ \E t \in Prepare(w, rev.key, sig, rev.seq) :
             /\ Goto("send", rev, t)
             /\ state' = storeAttempt(w, rev.seq, sig, t)
        /\ UNCHANGED spent
  /\ UNCHANGED <<registryVars, nodeVars, seq, adding, wanted, asked>>

\* process sends the transaction.  It reaches the node, or is lost on the way;
\* the worker waits whatever it was told.  An error means nothing was sent.
SendTx ==
  /\ worker.pc = "send"
  /\ \/ Send(worker.tx) /\ Goto("wait", worker.rev, worker.tx) /\ UNCHANGED spent
     \/ Fail("loss") /\ Goto("wait", worker.rev, worker.tx) /\ UNCHANGED nodeVars
     \/ Fail("rpc") /\ Return("err") /\ UNCHANGED nodeVars
  /\ UNCHANGED <<registryVars, seq, state, adding, wanted, asked>>

\* discardAttempt.
discardAttempt(w, s) ==
  IF state[w].seq = s
  THEN [state EXCEPT ![w] = WithAttempt(@, @.signature, Nil)]
  ELSE state

\* process waits for the receipt.  The wait times out while there is none,
\* and fails or misses the receipt when the node does not answer.
WaitTx ==
  LET outcome == Wait(worker.tx) IN
  /\ worker.pc = "wait"
  /\ \/ outcome = "MinedSuccess" /\ Goto("confirm", worker.rev, Nil) /\ UNCHANGED <<state, spent>>
     \/ /\ outcome = "Reverted"
        /\ state' = discardAttempt(worker.wl, worker.rev.seq)
        /\ Return("err")
        /\ UNCHANGED spent
     \/ outcome = "Unknown" /\ Goto("recheck", worker.rev, Nil) /\ UNCHANGED <<state, spent>>
     \/ Fail("rpc") /\ (Goto("recheck", worker.rev, Nil) \/ Return("err")) /\ UNCHANGED state
  /\ UNCHANGED <<registryVars, nodeVars, seq, adding, wanted, asked>>

\* Mutant: an unknown outcome discards the attempt.
RecheckDiscards ==
  LET found == OnChain(worker.wl, worker.rev.key) IN
  /\ worker.pc = "recheck"
  /\ \/ found /\ Goto("confirm", worker.rev, Nil) /\ UNCHANGED <<state, spent>>
     \/ /\ ~ found
        /\ state' = discardAttempt(worker.wl, worker.rev.seq)
        /\ Return("err")
        /\ UNCHANGED spent
  /\ UNCHANGED <<registryVars, nodeVars, seq, adding, wanted, asked>>

\* process, outcome unknown: the attempt is kept, and the chain is read again
\* in case the record is there and only the receipt was lost.
Recheck ==
  LET found == OnChain(worker.wl, worker.rev.key) IN
  /\ worker.pc = "recheck"
  /\ \/ found /\ Goto("confirm", worker.rev, Nil) /\ UNCHANGED spent
     \/ ~ found /\ Return("err") /\ UNCHANGED spent
     \/ Fail("rpc") /\ Return("err")
  /\ UNCHANGED <<registryVars, nodeVars, seq, state, adding, wanted, asked>>

\* confirm, and the return through process and processNext.
Confirm ==
  LET w == worker.wl
      current == state[w].seq = worker.rev.seq
  IN
  /\ worker.pc = "confirm"
  /\ state' = [state EXCEPT ![w] =
       [seq |-> @.seq, key |-> @.key, signature |-> @.signature,
        prepared |-> IF current THEN Nil ELSE @.prepared,
        confirmed |-> worker.rev.key]]
  /\ Return(IF current THEN "ok" ELSE "again")
  /\ UNCHANGED <<registryVars, nodeVars, seq, adding, historyVars>>

\* The backoff of a failed workload elapses.
Ripen ==
  /\ \E w \in Workloads : ripen(w)
  /\ UNCHANGED <<registryVars, nodeVars, publisherVars, historyVars>>

-----------------------------------------------------------------------------
(***************************************************************************)
(* The environment: the node, the other users of the account, and the end  *)
(* of the process.                                                         *)
(***************************************************************************)

\* A block includes the account's next transaction.
Mine ==
  /\ \E t \in pool :
       \/ mineSuccess(t) /\ UNCHANGED spent
       \/ mineReverted(t) /\ Fail("revert")
       \/ /\ mineReverted(t)
          /\ ~ accepts(Publisher, t.key, t.sig)
          /\ UNCHANGED spent
  /\ UNCHANGED <<queueVars, publisherVars, wanted, asked>>

\* The pool drops a transaction.
Evict ==
  /\ Fail("evict")
  /\ \E t \in pool : evict(t)
  /\ UNCHANGED <<registryVars, queueVars, publisherVars, wanted, asked>>

\* Something else that holds the account publishes: fields and signature are
\* whatever it chose.
ForeignPublish ==
  /\ Fail("foreign")
  /\ \E w \in Workloads, key \in Keys, sig \in Sigs :
       \E t \in Prepare(w, key, sig, 0) : receive(t)
  /\ UNCHANGED <<registryVars, queueVars, publisherVars, wanted, asked>>

\* The process dies and starts again: everything in memory is gone.
Crash ==
  /\ Fail("crash")
  /\ state' = [w \in Workloads |-> Blank]
  /\ worker' = Idle
  /\ adding' = Nil
  /\ queue' = << >>
  /\ dirty' = {}
  /\ processing' = {}
  /\ delayed' = {}
  /\ UNCHANGED <<registryVars, nodeVars, seq, wanted, asked>>

\* process: one step of the worker.
Work == Get \/ ReadLatest \/ PrepareOnce \/ SendTx \/ WaitTx \/ Recheck \/ Confirm

Next ==
  \/ \E w \in Workloads, key \in Keys : Enqueue(w, key)
  \/ EnqueueAdd
  \/ Get
  \/ ReadLatest
  \/ PrepareOnce
  \/ SendTx
  \/ WaitTx
  \/ Recheck
  \/ Confirm
  \/ Ripen
  \/ Mine
  \/ Evict
  \/ ForeignPublish
  \/ Crash

Spec == Init /\ [][Next]_vars

\* The scheduling the code relies on.  The worker goroutine runs, the caller
\* of Enqueue goes on to Add, backoffs elapse, blocks include the account's
\* next transaction, and after a restart the informer's first list makes the
\* reconciler request every Deployment again.
Fairness ==
  /\ WF_vars(Work)
  /\ WF_vars(EnqueueAdd)
  /\ WF_vars(Ripen)
  /\ WF_vars(Mine)
  /\ \A w \in Workloads :
       WF_vars(state[w].seq = 0 /\ wanted[w] # ZeroKey /\ Enqueue(w, wanted[w]))

FairSpec == Spec /\ Fairness

-----------------------------------------------------------------------------
(***************************************************************************)
(* Properties.                                                             *)
(***************************************************************************)

\* confirm is told the truth: a confirmed revision was, at some time, the
\* registry's record of the workload, under a signature that verifies for it.
\* The event log remembers every record.  Holds whatever else writes to the
\* registry, and across reverts, lost receipts, evictions and restarts.
ConfirmedWasPublished ==
  \A w \in Workloads : state[w].confirmed # Nil =>
    \E i \in 1..Len(events) :
      /\ events[i].wl = w
      /\ events[i].key = state[w].confirmed
      /\ events[i].sig = SigningDigest(w, state[w].confirmed)

\* A desired revision takes effect at most once on chain: prepareOnce keeps
\* one attempt, an unknown outcome keeps it, and only a revert replaces it.
PublishedOnce ==
  \A t, u \in landed : t.wl = u.wl /\ t.seq # 0 /\ t.seq = u.seq => t = u

\* The chain's order of a workload's publications is the order in which they
\* were requested: no late or repeated send of a superseded revision lands on
\* top of a newer one.
PublishedInOrder ==
  \A t, u \in landed :
    t.wl = u.wl /\ t.seq # 0 /\ u.seq # 0 /\ t.nonce < u.nonce => t.seq <= u.seq

\* No revision is lost: while the desired revision of a workload is not
\* confirmed, the queue, the worker, a backoff or a pending Add will bring
\* the worker back to it, however Enqueue interleaved with process.
NothingLost ==
  \A w \in Workloads :
    Unsettled(state[w]) => w \in dirty \cup processing \cup delayed \cup {adding}

\* What the publisher calls confirmed and desired is what the registry says
\* now, not only once: confirm's claim does not go stale.
ConfirmedIsCurrent ==
  \A w \in Workloads :
    state[w].seq # 0 /\ state[w].confirmed = state[w].key => OnChain(w, state[w].key)

\* At rest, the registry holds what was asked for last: when nothing is left
\* to do for a workload, its record is the last revision Enqueue was given,
\* validly signed.
SettledOnChain ==
  \A w \in Workloads :
    state[w].seq # 0 /\ w \notin dirty \cup processing \cup delayed \cup {adding}
      => OnChain(w, wanted[w])

\* The revision to publish is the last one requested ("A newer revision
\* invalidates the older one").
RequestSupersedes ==
  \A w \in Workloads : state[w].seq # 0 => state[w].key = wanted[w]

\* A transaction about to be sent is one the node can accept, or has a receipt
\* for ("the node either accepts it or recognises it").
SendIsRecognised ==
  worker.pc = "send" =>
    worker.tx.nonce >= nonce \/ worker.tx \in landed \cup reverted

Promise == INSTANCE PublishingPromise WITH
  confirmed <- [w \in Workloads |-> state[w].confirmed], log <- events,
  Digest <- SigningDigest, Foreign <- Limit["foreign"] > 0

\* The publisher, its queue, its retries and the node together do what
\* PublishingPromise says, step by step: nothing else is published by an
\* operator alone with its account, and nothing is confirmed early.
KeepsPromise == Promise!Spec

\* A requested revision reaches the registry, unless another is requested.
EventuallyPublished ==
  \A w \in Workloads, key \in Keys :
    wanted[w] = key ~> wanted[w] # key \/ OnChain(w, key)
=============================================================================
