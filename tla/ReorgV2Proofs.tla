--------------------------- MODULE ReorgV2Proofs ----------------------------
(***************************************************************************)
(* ReorgV2 for every value of its constants: what of the order and of the  *)
(* permanence of PublisherV2's publications survives orphaned blocks,      *)
(* which ChainClientV2 does not wait out.                                  *)
(***************************************************************************)
EXTENDS PublisherV2Order, ReorgV2

-----------------------------------------------------------------------------
(***************************************************************************)
(* PublishedInOrder.  An orphaned transaction goes back into the pool with *)
(* its nonce, so OrderInv of PublisherV2Order, which is about all that is  *)
(* on chain or may still get there, does not notice; NonceInv says that it *)
(* had the last nonce used.  That the records are still attestations needs *)
(* LastInv: every prefix of the log that has an event of a workload has a  *)
(* last one, so that recordAfter is defined.                               *)
(***************************************************************************)

\* The events of w among the first n.
eventsOf(w, n) == {i \in 1..n : events[i].wl = w}

\* recordAfter finds what it looks for.
LastInv ==
  \A n \in 0..Len(events), w \in Workloads :
    eventsOf(w, n) = {} \/ \E i \in eventsOf(w, n) : \A j \in eventsOf(w, n) : j <= i

LEMMA LastSame ==
  ASSUME LastInv, events' = events
  PROVE  LastInv'
<1>1. \A n, w : eventsOf(w, n)' = eventsOf(w, n)
  BY ZenonT(60) DEF eventsOf
<1>2. 0..Len(events') = 0..Len(events)
  BY ZenonT(60)
<1> QED
  BY <1>1, <1>2, ZenonT(60) DEF LastInv

\* A longer or shorter log: what a prefix of both holds is the same.
LEMMA LastAppend ==
  ASSUME events \in Seq(Event), LastInv, NEW e \in Event, events' = Append(events, e)
  PROVE  LastInv'
<1> DEFINE n == Len(events)
<1>1. /\ n \in Nat /\ Len(events') = n + 1 /\ events'[n + 1] = e
      /\ \A i \in 1..n : events'[i] = events[i]
  BY AppendProperties, LenProperties
<1> HIDE DEF n
<1> SUFFICES ASSUME NEW m \in 0..(n + 1), NEW w \in Workloads
             PROVE  \/ eventsOf(w, m)' = {}
                    \/ \E i \in eventsOf(w, m)' : \A j \in eventsOf(w, m)' : j <= i
  BY <1>1, ZenonT(60) DEF LastInv
<1>2. CASE m \in 0..n
  <2>1. eventsOf(w, m)' = eventsOf(w, m)
    BY <1>1, <1>2 DEF eventsOf
  <2> QED
    BY <1>2, <2>1, ZenonT(60) DEF LastInv, n
<1>3. CASE m = n + 1 /\ e.wl = w
  <2>1. n + 1 \in eventsOf(w, m)' /\ \A j \in eventsOf(w, m)' : j <= n + 1
    BY <1>1, <1>3 DEF eventsOf
  <2> QED
    BY <2>1, ZenonT(60)
<1>4. CASE m = n + 1 /\ e.wl # w
  <2>1. eventsOf(w, m)' = eventsOf(w, n) /\ n \in 0..n
    BY <1>1, <1>4 DEF eventsOf
  <2> QED
    BY <2>1, ZenonT(60) DEF LastInv, n
<1> QED
  BY <1>1, <1>2, <1>3, <1>4

LEMMA PrefixProperties ==
  ASSUME NEW S, NEW q \in Seq(S), NEW r, r = SubSeq(q, 1, Len(q) - 1)
  PROVE  /\ r \in Seq(S)
         /\ Len(r) \in 0..Len(q)
         /\ Len(q) # 0 => Len(r) = Len(q) - 1
         /\ \A i \in 1..Len(r) : r[i] = q[i]
<1>1. Len(q) \in Nat
  OBVIOUS
<1>2. r \in Seq(S)
  OBVIOUS
<1>3. Len(r) = IF Len(q) = 0 THEN 0 ELSE Len(q) - 1
  OBVIOUS
<1>4. \A i \in 1..Len(r) : r[i] = q[i]
  BY <1>1, <1>3
<1>5. Len(r) \in 0..Len(q) /\ (Len(q) # 0 => Len(r) = Len(q) - 1)
  <2>1. PICK l, m : l = Len(q) /\ m = Len(r)
    BY ZenonT(60)
  <2>2. l \in Nat /\ m = IF l = 0 THEN 0 ELSE l - 1
    BY <1>1, <1>3, <2>1, ZenonT(60)
  <2>3. m \in 0..l /\ (l # 0 => m = l - 1)
    BY <2>2
  <2> QED
    BY <2>1, <2>3, ZenonT(60)
<1> QED
  BY <1>2, <1>4, <1>5, ZenonT(60)

LEMMA LastPrefix ==
  ASSUME events \in Seq(Event), LastInv, events' = SubSeq(events, 1, Len(events) - 1)
  PROVE  LastInv'
<1> DEFINE n == Len(events)
           k == Len(events')
<1>1. n \in Nat /\ k \in 0..n /\ \A i \in 1..k : events'[i] = events[i]
  BY PrefixProperties, LenProperties
<1> HIDE DEF n, k
<1> SUFFICES ASSUME NEW m \in 0..k, NEW w \in Workloads
             PROVE  \/ eventsOf(w, m)' = {}
                    \/ \E i \in eventsOf(w, m)' : \A j \in eventsOf(w, m)' : j <= i
  BY ZenonT(60) DEF LastInv, k
<1>2. m \in 0..n /\ 1..m \subseteq 1..k
  BY <1>1
<1>3. eventsOf(w, m)' = eventsOf(w, m)
  BY <1>1, <1>2, ZenonT(60) DEF eventsOf
<1> QED
  BY <1>2, <1>3, ZenonT(60) DEF LastInv, n

\* The registry changes when a transaction is mined and accepted.
LEMMA RegistryStep ==
  ASSUME TypeInv, [Next]_vars
  PROVE  \/ UNCHANGED registryVars
         \/ \E t \in pool : Mine /\ mineSuccess(t)
<1>1. CASE Mine
  BY <1>1, ZenonT(60) DEF Mine, mineReverted
<1> QED
  BY <1>1, ZenonT(60) DEF Next, Enqueue, EnqueueAdd, Get, ReadLatest, PrepareOnce, SendTx,
     WaitTx, Recheck, Confirm, Ripen, Evict, ForeignPublish, Crash, vars

LEMMA LastNext == TypeInv /\ LastInv /\ [Next]_vars => LastInv'
<1> SUFFICES ASSUME TypeInv, LastInv, [Next]_vars PROVE LastInv'
  OBVIOUS
<1>1. CASE UNCHANGED registryVars
  <2>1. events' = events
    BY <1>1, ZenonT(60) DEF registryVars
  <2> QED
    BY <2>1, LastSame, ZenonT(60)
<1>2. ASSUME NEW t \in pool, mineSuccess(t) PROVE LastInv'
  <2> DEFINE e == [wl |-> t.wl, key |-> t.key, sig |-> t.sig]
  <2>1. t \in Tx /\ events \in Seq(Event)
    BY ZenonT(60) DEF TypeInv, TypeOK, NodeTypeOK, RegistryTypeOK
  <2>2. e \in Event /\ events' = Append(events, e)
    BY <1>2, <2>1 DEF Event, Tx, mineSuccess, publish
  <2> HIDE DEF e
  <2> QED
    BY <2>1, <2>2, LastAppend, ZenonT(60)
<1> QED
  BY <1>1, <1>2, RegistryStep, ZenonT(60)

\* The record after a shorter log is that of the last event left.
LEMMA RecordAfterLast ==
  ASSUME TypeInv, LastInv, NEW w \in Workloads, NEW m, m = Len(events) - 1
  PROVE  \/ eventsOf(w, m) = {} /\ recordAfter(w, m) = Unset
         \/ \E i \in eventsOf(w, m) :
              /\ \A j \in eventsOf(w, m) : j <= i
              /\ events[i] \in Event
              /\ recordAfter(w, m) = [exists |-> TRUE, key |-> events[i].key, sig |-> events[i].sig]
<1> DEFINE mine == eventsOf(w, m)
           l == CHOOSE i \in mine : \A j \in mine : j <= i
<1>1. Len(events) \in Nat /\ \A i \in 1..Len(events) : events[i] \in Event
  BY LenProperties DEF TypeInv, TypeOK, RegistryTypeOK
<1>2. CASE mine = {}
  BY <1>2, ZenonT(60) DEF recordAfter, eventsOf
<1>3. CASE mine # {}
  <2>1. m \in 0..Len(events) /\ 1..m \subseteq 1..Len(events)
    <3>1. PICK i \in 1..m : TRUE
      BY <1>3, ZenonT(60) DEF eventsOf
    <3> QED
      BY <1>1, <3>1
  <2>2. \E i \in mine : \A j \in mine : j <= i
    BY <1>3, <2>1, ZenonT(60) DEF LastInv
  <2>3. l \in mine /\ \A j \in mine : j <= l
    <3> HIDE DEF mine
    <3> QED
      BY <2>2, ZenonT(60)
  <2>4. recordAfter(w, m) = [exists |-> TRUE, key |-> events[l].key, sig |-> events[l].sig]
    BY <1>3, ZenonT(60) DEF recordAfter, eventsOf
  <2> HIDE DEF l
  <2>5. events[l] \in Event
    BY <1>1, <2>1, <2>3, ZenonT(60) DEF eventsOf
  <2> QED
    BY <2>3, <2>4, <2>5, ZenonT(60)
<1> QED
  BY <1>2, <1>3, ZenonT(60)

LEMMA RecordAfterType ==
  ASSUME TypeInv, LastInv, NEW w \in Workloads
  PROVE  recordAfter(w, Len(events) - 1) \in Attestation
<1>1. ASSUME NEW e \in Event
      PROVE  [exists |-> TRUE, key |-> e.key, sig |-> e.sig] \in Attestation
  BY <1>1 DEF Event, Attestation
<1>2. Unset \in Attestation
  BY DEF Unset, Attestation
<1> QED
  BY <1>1, <1>2, RecordAfterLast, ZenonT(60)

\* An orphaned block leaves the publisher alone, and moves one transaction
\* from the receipts back into the pool.
LEMMA ReorgStep ==
  ASSUME TypeInv, Reorg
  PROVE  /\ UNCHANGED <<queueVars, publisherVars, historyVars>>
         /\ \E t \in landed \cup reverted :
              /\ orphan(t) /\ t \in Tx /\ orphaned' = orphaned \cup {t}
              /\ t.nonce = nonce - 1 /\ nonce' = t.nonce
              /\ pool' = pool \cup {t} /\ landed' = landed \ {t} /\ reverted' = reverted \ {t}
<1>1. landed \cup reverted \subseteq Tx
  BY ZenonT(60) DEF TypeInv, TypeOK, NodeTypeOK
<1> QED
  BY <1>1, ZenonT(60) DEF Reorg, orphan

LEMMA TypeReorg == TypeInv /\ LastInv /\ Reorg => TypeInv' /\ LastInv'
<1> SUFFICES ASSUME TypeInv, LastInv, Reorg PROVE TypeInv' /\ LastInv'
  OBVIOUS
<1>1. PICK t \in landed \cup reverted :
        /\ orphan(t) /\ t \in Tx
        /\ t.nonce = nonce - 1 /\ nonce' = t.nonce
        /\ pool' = pool \cup {t} /\ landed' = landed \ {t} /\ reverted' = reverted \ {t}
  BY ReorgStep, ZenonT(60)
<1>2. UNCHANGED <<queueVars, publisherVars, historyVars>>
  BY ReorgStep, ZenonT(60)
<1>3. NodeTypeOK'
  BY <1>1, ZenonT(60) DEF TypeInv, TypeOK, NodeTypeOK, Tx
<1>4. t.wl \in Workloads /\ events \in Seq(Event) /\ latest \in [Workloads -> Attestation]
  BY <1>1, ZenonT(60) DEF Tx, TypeInv, TypeOK, RegistryTypeOK
<1>5. RegistryTypeOK' /\ LastInv'
  <2>1. CASE UNCHANGED registryVars
    <3>1. events' = events /\ latest' = latest
      BY <2>1, ZenonT(60) DEF registryVars
    <3> QED
      BY <1>4, <3>1, LastSame, ZenonT(60) DEF RegistryTypeOK
  <2>2. CASE /\ events' = SubSeq(events, 1, Len(events) - 1)
             /\ latest' = [latest EXCEPT ![t.wl] = recordAfter(t.wl, Len(events) - 1)]
    <3>1. events' \in Seq(Event)
      BY <1>4, <2>2, PrefixProperties, ZenonT(60)
    <3>2. latest' \in [Workloads -> Attestation]
      BY <1>4, <2>2, RecordAfterType, ZenonT(60)
    <3> QED
      BY <1>4, <2>2, <3>1, <3>2, LastPrefix, ZenonT(60) DEF RegistryTypeOK
  <2> QED
    BY <1>1, <2>1, <2>2, ZenonT(60) DEF orphan
<1>6. TypeOK'
  BY <1>2, <1>3, <1>5, ZenonT(60)
     DEF TypeInv, TypeOK, QueueTypeOK, queueVars, publisherVars, historyVars
<1>7. WorkerTyped'
  BY <1>2, ZenonT(60) DEF TypeInv, WorkerTyped, publisherVars
<1> QED
  BY <1>5, <1>6, <1>7, ZenonT(60) DEF TypeInv

LEMMA NonceReorg == TypeInv /\ NonceInv /\ Reorg => NonceInv'
<1> SUFFICES ASSUME TypeInv, NonceInv, Reorg PROVE NonceInv'
  OBVIOUS
<1>1. PICK t \in landed \cup reverted :
        /\ t.nonce = nonce - 1 /\ nonce' = t.nonce
        /\ pool' = pool \cup {t} /\ landed' = landed \ {t} /\ reverted' = reverted \ {t}
  BY ReorgStep, ZenonT(60)
<1>2. nonce \in Nat /\ \A u \in pool \cup landed \cup reverted : u.nonce \in Nat
  BY ZenonT(60) DEF TypeInv, TypeOK, NodeTypeOK, Tx
<1>3. \A u \in pool : u.nonce >= t.nonce /\ u.nonce # t.nonce
  BY <1>1, <1>2 DEF NonceInv
<1>4. \A u \in landed' \cup reverted' : u.nonce < t.nonce
  <2>1. \A u \in landed' \cup reverted' : u.nonce < nonce /\ u.nonce # t.nonce
    BY <1>1, ZenonT(60) DEF NonceInv
  <2> QED
    BY <1>1, <1>2, <2>1
<1>5. t.nonce >= t.nonce
  BY <1>1, <1>2
<1> QED
  BY <1>1, <1>3, <1>4, <1>5, ZenonT(60) DEF NonceInv

\* It loses sight of nothing, and nothing new comes into sight.
LEMMA TrackedReorg ==
  ASSUME TypeInv, Reorg
  PROVE  Tracked' = Tracked
<1>1. Kept' = Kept
  BY ReorgStep, ZenonT(60) DEF Kept, publisherVars
<1>2. pool' \cup landed' \cup reverted' = pool \cup landed \cup reverted
  BY ReorgStep, ZenonT(60)
<1>3. Nil \notin reverted /\ Nil \notin reverted'
  BY ReorgStep, PublisherAssumption, ZenonT(60) DEF TypeInv, TypeOK, NodeTypeOK
<1> QED
  BY <1>1, <1>2, <1>3, ZenonT(60) DEF Tracked, Known

LEMMA OrderReorg == TypeInv /\ NonceInv /\ OrderInv /\ Reorg => OrderInv'
<1> SUFFICES ASSUME TypeInv, NonceInv, OrderInv, Reorg PROVE OrderInv'
  OBVIOUS
<1>1. Tracked' = Tracked /\ Tracked \subseteq Tx
  BY TrackedReorg, TrackedTyped, ZenonT(60)
<1>2. PICK t \in landed \cup reverted :
        t.nonce = nonce - 1 /\ nonce' = t.nonce /\ pool' = pool \cup {t}
  BY ReorgStep, ZenonT(60)
<1>3. nonce \in Nat /\ t.nonce \in Nat
  BY ZenonT(60) DEF TypeInv, TypeOK, NodeTypeOK, Tx
<1>4. ASSUME NEW u \in Tracked PROVE Reached(u)'
  <2>1. u.nonce \in Nat /\ Reached(u)
    BY <1>1, <1>4, ZenonT(60) DEF Tx, OrderInv
  <2>2. ASSUME NEW m \in t.nonce..(u.nonce - 1) PROVE \E v \in pool' : v.nonce = m
    <3>1. m = t.nonce \/ m \in nonce..(u.nonce - 1)
      BY <1>2, <1>3, <2>1, <2>2
    <3> QED
      BY <1>2, <2>1, <3>1, ZenonT(60) DEF Reached
  <2> QED
    BY <1>2, <2>2, ZenonT(60) DEF Reached
<1>5. LatestInv'
  BY <1>1, ReorgStep, ZenonT(60) DEF OrderInv, LatestInv, publisherVars
<1> QED
  BY <1>1, <1>4, <1>5, ZenonT(60) DEF OrderInv

OrderedInv == TypeInv /\ LastInv /\ SnapshotInv /\ NonceInv /\ KeptInv /\ OrderInv

LEMMA OrderedInit == Init => OrderedInv
<1> SUFFICES ASSUME Init PROVE OrderedInv
  OBVIOUS
<1>1. LastInv
  <2>1. Len(events) = 0
    BY DEF Init, RegistryInit
  <2> QED
    BY <2>1 DEF LastInv, eventsOf
<1> QED
  BY <1>1, TypeInit, SnapshotInit, OnceInit, OrderInit, ZenonT(60) DEF OrderedInv, OnceInv

LEMMA OrderedNext ==
  ASSUME Limit["evict"] = 0
  PROVE  OrderedInv /\ [ReorgNext]_<<vars, reorgs, orphaned>> => OrderedInv'
<1> SUFFICES ASSUME OrderedInv, [ReorgNext]_<<vars, reorgs, orphaned>> PROVE OrderedInv'
  OBVIOUS
<1> USE DEF OrderedInv
<1>1. CASE Reorg
  <2>1. SnapshotInv' /\ KeptInv'
    BY <1>1, ReorgStep, ZenonT(60) DEF SnapshotInv, KeptInv, publisherVars
  <2> QED
    BY <1>1, <2>1, TypeReorg, NonceReorg, OrderReorg, ZenonT(60)
<1>2. CASE [Next]_vars
  BY <1>2, TypeNext, LastNext, SnapshotNext, NonceNext, KeptNext, OrderNext, ZenonT(60)
<1> QED
  BY <1>1, <1>2, ZenonT(60) DEF ReorgNext

\* The order in which revisions were requested is the order in which they
\* land even when blocks are orphaned, as often as that happens, and their
\* transactions are mined again: client_v2.go waits for no confirmations.
THEOREM ReorgKeepsOrder ==
  ASSUME Limit["evict"] = 0
  PROVE  ReorgSpec => []PublishedInOrder
<1>1. OrderedInv => PublishedInOrder
  BY OrderedLands, ZenonT(60) DEF OrderedInv
<1> QED
  BY <1>1, OrderedInit, OrderedNext, PTL DEF ReorgSpec, ReorgInit

-----------------------------------------------------------------------------
(***************************************************************************)
(* SettledThroughReorg, where nothing is evicted or reverted, nothing else *)
(* uses the account and Deployments only move forward.  The log is then    *)
(* the receipts in the order of their nonces, so what an orphaned block    *)
(* takes is the last of both.  A transaction that is no older than what is *)
(* confirmed is on chain or was undone (StandInv).  One that was undone is *)
(* where it can be mined again, or another has its nonce; and that one is  *)
(* of another workload, because a workload's new attempt takes a nonce     *)
(* that neither its old attempts nor the node have (OrphanInv).            *)
(***************************************************************************)

\* What is on its way the contract accepts.
AcceptInv == \A t \in Known : Version[t.key] # 0

\* The log is the receipts, in the order of their nonces.
LedgerInv ==
  /\ reverted = {}
  /\ Len(events) = nonce
  /\ \A i \in 1..nonce : \E t \in landed :
       t.nonce = i - 1 /\ events[i] = [wl |-> t.wl, key |-> t.key, sig |-> t.sig]

\* While every send arrives, the node has all but the transaction that is
\* about to be sent, and no two compete for a nonce.
SentInv ==
  NothingStale =>
    /\ \A t \in Known : t \in landed \cup pool \/ (worker.pc = "send" /\ t = worker.tx)
    /\ \A t, u \in Known : t.nonce = u.nonce => t = u

\* A transaction of w that does not come before k is on chain, or was.
Stands(w, k) == \E t \in landed \cup orphaned : t.wl = w /\ Precedes(k, t.key)

\* What is confirmed, or about to be, stands.
StandInv ==
  /\ \A w \in Workloads : state[w].confirmed # Nil => Stands(w, state[w].confirmed)
  /\ worker.pc = "confirm" => Stands(worker.wl, worker.rev.key)

\* The worker prepares an attempt for the revision that has one, or there is
\* none: nobody else stores attempts.
FreshInv ==
  worker.pc = "prepare" /\ state[worker.wl].prepared # Nil
    => worker.rev.seq = state[worker.wl].seq

\* What was undone was requested; its nonce is taken, by itself while every
\* send arrives, and never by another transaction of its workload.
OrphanInv ==
  /\ orphaned \subseteq Tx
  /\ \A t \in orphaned : t.sig = SigningDigest(t.wl, t.key) /\ Precedes(t.key, wanted[t.wl])
  /\ \A t \in orphaned : \E u \in landed \cup pool : u.nonce = t.nonce
  /\ NothingStale => orphaned \subseteq landed \cup pool
  /\ \A t, u \in Known \cup orphaned : t.wl = u.wl /\ t.nonce = u.nonce => t = u

LEMMA AcceptNext ==
  ASSUME Limit["foreign"] = 0
  PROVE  TypeInv /\ KeptInv /\ AcceptInv /\ [Next]_vars => AcceptInv'
<1> SUFFICES ASSUME TypeInv, KeptInv, AcceptInv, [Next]_vars PROVE AcceptInv'
  OBVIOUS
<1>1. CASE Known' \subseteq Known
  BY <1>1, ZenonT(60) DEF AcceptInv
<1>2. CASE /\ PrepareOnce /\ worker.rev.prepared = Nil /\ worker'.pc = "send"
           /\ worker'.tx \in Prepare(worker.wl, worker.rev.key, attemptSig, worker.rev.seq)
           /\ Known' \subseteq Known \cup {worker'.tx}
  <2>1. Idle.pc # "send"
    BY DEF Idle
  <2>2. Version[worker.rev.key] # 0
    BY <1>2, <2>1, ZenonT(60) DEF PrepareOnce, Return, prepareRefuses
  <2>3. worker'.tx.key = worker.rev.key
    BY <1>2 DEF Prepare
  <2> QED
    BY <1>2, <2>2, <2>3, ZenonT(60) DEF AcceptInv
<1>3. ~ ForeignPublish
  BY NoFailure, ZenonT(60) DEF ForeignPublish, Failures
<1> QED
  BY <1>1, <1>2, <1>3, KnownStep, ZenonT(60)

\* Nothing reverts: the contract accepts what is mined.
LEMMA MinedSucceeds ==
  ASSUME TypeInv, AcceptInv, Limit["revert"] = 0, Mine
  PROVE  \E t \in pool : t \in Tx /\ mineSuccess(t)
<1>1. \A t \in pool : t \in Tx /\ t \in Known
  BY PublisherAssumption, ZenonT(60) DEF TypeInv, TypeOK, NodeTypeOK, Known
<1>2. ASSUME NEW t \in Tx PROVE t.sig # NoSig
  <2>1. PICK w \in Workloads, k \in Keys : t.sig = <<w, k>>
    BY DEF Tx, Sigs
  <2> QED
    BY <2>1 DEF NoSig
<1>3. \A t \in pool : accepts(Publisher, t.key, t.sig)
  BY <1>1, <1>2, ZenonT(60) DEF AcceptInv, accepts
<1>4. ~ Fail("revert")
  BY NoFailure, ZenonT(60) DEF Failures
<1> QED
  BY <1>1, <1>3, <1>4, ZenonT(60) DEF Mine

LEMMA LedgerNext ==
  ASSUME Limit["revert"] = 0
  PROVE  TypeInv /\ AcceptInv /\ LedgerInv /\ [Next]_vars => LedgerInv'
<1> SUFFICES ASSUME TypeInv, AcceptInv, LedgerInv, [Next]_vars PROVE LedgerInv'
  OBVIOUS
<1>1. CASE UNCHANGED <<events, nonce, landed, reverted>>
  BY <1>1, ZenonT(60) DEF LedgerInv
<1>2. CASE Mine
  <2>1. PICK t \in Tx : mineSuccess(t)
    BY <1>2, MinedSucceeds, ZenonT(60)
  <2> DEFINE e == [wl |-> t.wl, key |-> t.key, sig |-> t.sig]
  <2>2. /\ t.nonce = nonce /\ nonce' = nonce + 1 /\ landed' = landed \cup {t}
        /\ reverted' = reverted /\ events' = Append(events, e)
    BY <2>1, ZenonT(60) DEF mineSuccess, include, publish
  <2>3. e \in Event /\ events \in Seq(Event) /\ nonce \in Nat
    BY ZenonT(60) DEF Event, Tx, TypeInv, TypeOK, RegistryTypeOK, NodeTypeOK
  <2>4. /\ Len(events') = nonce + 1 /\ events'[nonce + 1] = e
        /\ \A i \in 1..nonce : events'[i] = events[i]
    <3>1. Len(events) = nonce
      BY ZenonT(60) DEF LedgerInv
    <3> HIDE DEF e
    <3> QED
      BY <2>2, <2>3, <3>1, AppendProperties
  <2>5. ASSUME NEW i \in 1..(nonce + 1)
        PROVE  \E u \in landed' :
                 u.nonce = i - 1 /\ events'[i] = [wl |-> u.wl, key |-> u.key, sig |-> u.sig]
    <3>1. CASE i \in 1..nonce
      <4>1. PICK u \in landed :
              u.nonce = i - 1 /\ events[i] = [wl |-> u.wl, key |-> u.key, sig |-> u.sig]
        BY <3>1, ZenonT(60) DEF LedgerInv
      <4>2. u \in landed' /\ events'[i] = events[i]
        BY <2>2, <2>4, <3>1, ZenonT(60)
      <4> QED
        BY <4>1, <4>2, ZenonT(60)
    <3>2. CASE i = nonce + 1
      <4>1. t.nonce = i - 1
        BY <2>2, <2>3, <3>2
      <4> QED
        BY <2>2, <2>4, <3>2, <4>1, ZenonT(60)
    <3> QED
      BY <2>3, <3>1, <3>2
  <2> QED
    BY <2>2, <2>4, <2>5, ZenonT(60) DEF LedgerInv
<1>3. ~ Mine => UNCHANGED registryVars
  BY RegistryStep, ZenonT(60)
<1>4. ~ Mine => UNCHANGED <<nonce, landed, reverted>>
  BY NodeStep, ZenonT(60) DEF SendTx, Send, receive, ForeignPublish, Evict, evict, nodeVars
<1> QED
  BY <1>1, <1>2, <1>3, <1>4, ZenonT(60) DEF registryVars

LEMMA LogNext == TypeInv /\ LogReconstructsLatest /\ [Next]_vars => LogReconstructsLatest'
<1> SUFFICES ASSUME TypeInv, LogReconstructsLatest, [Next]_vars PROVE LogReconstructsLatest'
  OBVIOUS
<1>1. CASE UNCHANGED registryVars
  <2>1. events' = events /\ latest' = latest
    BY <1>1, ZenonT(60) DEF registryVars
  <2> QED
    BY <2>1, ZenonT(60) DEF LogReconstructsLatest, getLatest
<1>2. ASSUME NEW t \in pool, mineSuccess(t) PROVE LogReconstructsLatest'
  <2>1. RegistryTypeOK /\ t.wl \in Workloads /\ t.key \in Keys /\ t.sig \in Sigs
    BY ZenonT(60) DEF TypeInv, TypeOK, NodeTypeOK, Tx
  <2> QED
    BY <1>2, <2>1, PublishIsLogged, ZenonT(60) DEF mineSuccess
<1> QED
  BY <1>1, <1>2, RegistryStep, ZenonT(60)

\* The record of a workload is its last transaction on chain.
LEMMA RecordIsLast ==
  ASSUME TypeInv, NonceInv, LedgerInv, LogReconstructsLatest, NEW w \in Workloads
  PROVE  /\ latest[w].exists =>
              \E t \in landed :
                /\ t.wl = w /\ t.key = latest[w].key /\ t.sig = latest[w].sig
                /\ \A u \in landed : u.wl = w => u.nonce <= t.nonce
         /\ (\E u \in landed : u.wl = w) => latest[w].exists
<1> DEFINE mine == {i \in 1..Len(events) : events[i].wl = w}
<1>1. nonce \in Nat /\ Len(events) = nonce /\ \A u \in landed : u.nonce \in Nat
  BY ZenonT(60) DEF LedgerInv, TypeInv, TypeOK, NodeTypeOK, Tx
<1>2. ASSUME NEW u \in landed, u.wl = w PROVE u.nonce + 1 \in mine
  <2>1. u.nonce + 1 \in 1..nonce /\ (u.nonce + 1) - 1 = u.nonce
    <3>1. u.nonce < nonce
      BY ZenonT(60) DEF NonceInv
    <3> QED
      BY <1>1, <3>1
  <2>2. PICK v \in landed : /\ v.nonce = (u.nonce + 1) - 1
                            /\ events[u.nonce + 1] = [wl |-> v.wl, key |-> v.key, sig |-> v.sig]
    BY <2>1, ZenonT(60) DEF LedgerInv
  <2>3. v = u
    BY <2>1, <2>2, ZenonT(60) DEF NonceInv
  <2>4. events[u.nonce + 1].wl = w
    BY <1>2, <2>2, <2>3
  <2> QED
    BY <1>1, <2>1, <2>4, ZenonT(60)
<1>3. \/ mine = {} /\ latest[w] = Unset
      \/ \E i \in mine :
           /\ \A j \in mine : j <= i
           /\ latest[w] = [exists |-> TRUE, key |-> events[i].key, sig |-> events[i].sig]
  BY ZenonT(60) DEF LogReconstructsLatest, getLatest
<1>4. mine \subseteq 1..nonce /\ \A i \in mine : events[i].wl = w
  BY <1>1, ZenonT(60)
<1> HIDE DEF mine
<1>5. CASE mine = {} /\ latest[w] = Unset
  <2>1. ~ Unset.exists
    BY ZenonT(60) DEF Unset
  <2> QED
    BY <1>2, <1>5, <2>1, ZenonT(60)
<1>6. ASSUME NEW i \in mine, \A j \in mine : j <= i,
             latest[w] = [exists |-> TRUE, key |-> events[i].key, sig |-> events[i].sig]
      PROVE  /\ latest[w].exists
             /\ \E t \in landed :
                  /\ t.wl = w /\ t.key = latest[w].key /\ t.sig = latest[w].sig
                  /\ \A u \in landed : u.wl = w => u.nonce <= t.nonce
  <2>1. PICK t \in landed : t.nonce = i - 1 /\ events[i] = [wl |-> t.wl, key |-> t.key, sig |-> t.sig]
    BY <1>4, ZenonT(60) DEF LedgerInv
  <2>2. t.wl = w
    <3>1. events[i].wl = w
      BY <1>4, ZenonT(60)
    <3> QED
      BY <2>1, <3>1
  <2>3. latest[w].exists /\ t.key = latest[w].key /\ t.sig = latest[w].sig
    <3>1. events[i].key = t.key /\ events[i].sig = t.sig
      BY <2>1
    <3>2. latest[w] = [exists |-> TRUE, key |-> t.key, sig |-> t.sig]
      BY <1>6, <3>1, ZenonT(60)
    <3> QED
      BY <3>2
  <2>4. ASSUME NEW u \in landed, u.wl = w PROVE u.nonce <= t.nonce
    <3>1. u.nonce + 1 <= i /\ i \in 1..nonce
      BY <1>2, <1>4, <1>6, <2>4, ZenonT(60)
    <3> QED
      BY <1>1, <2>1, <3>1
  <2> QED
    BY <2>2, <2>3, <2>4, ZenonT(60)
<1> QED
  BY <1>3, <1>5, <1>6, ZenonT(60)

\* Failures only add up.
LEMMA StaleStays ==
  ASSUME TypeInv, [Next]_vars, NothingStale'
  PROVE  /\ NothingStale
         /\ ~ Fail("loss") /\ ~ Fail("rpc")
<1>1. \A f \in Failures : spent[f] \in Nat
  BY ZenonT(60) DEF TypeInv, TypeOK
<1>2. "loss" \in Failures /\ "rpc" \in Failures
  BY DEF Failures
<1>3. \A f \in Failures : Fail(f) =>
        \A g \in Failures : spent'[g] = IF g = f THEN spent[g] + 1 ELSE spent[g]
  BY ZenonT(60) DEF Fail, TypeInv, TypeOK
<1>4. UNCHANGED spent \/ \E f \in Failures : Fail(f)
  BY ZenonT(60) DEF Next, Enqueue, EnqueueAdd, Get, ReadLatest, PrepareOnce, SendTx, WaitTx, Recheck,
     Confirm, Ripen, Mine, Evict, ForeignPublish, Crash, vars, historyVars, Failures
<1>5. /\ spent'["loss"] + spent'["rpc"] = 0
      /\ \A g \in Failures : spent'[g] \in {spent[g], spent[g] + 1}
  BY <1>3, <1>4, ZenonT(60) DEF NothingStale
<1>6. /\ spent'["loss"] = 0 /\ spent'["rpc"] = 0 /\ spent["loss"] = 0 /\ spent["rpc"] = 0
  BY <1>1, <1>2, <1>5
<1>7. NothingStale
  BY <1>6 DEF NothingStale
<1>8. spent'["loss"] # spent["loss"] + 1 /\ spent'["rpc"] # spent["rpc"] + 1
  BY <1>6
<1> QED
  BY <1>2, <1>3, <1>7, <1>8, ZenonT(60)

\* While every send arrives, the node forgets no transaction, and has the one
\* that was sent.
LEMMA NodeKeeps ==
  ASSUME Limit["evict"] = 0, Limit["foreign"] = 0, Limit["revert"] = 0,
         TypeInv, NonceInv, AcceptInv, LedgerInv, SentInv, [Next]_vars, NothingStale'
  PROVE  /\ landed \cup pool \subseteq landed' \cup pool'
         /\ SendTx => worker.tx \in landed' \cup pool'
<1>1. NothingStale /\ ~ Fail("loss") /\ ~ Fail("rpc")
  BY StaleStays, ZenonT(60)
<1>2. nonce \in Nat /\ \A t \in Tx : t.nonce \in Nat
  BY ZenonT(60) DEF TypeInv, TypeOK, NodeTypeOK, Tx
<1>3. /\ pool \cup landed \subseteq Known
      /\ \A t, u \in Known : t.nonce = u.nonce => t = u
  BY <1>1, PublisherAssumption, ZenonT(60) DEF SentInv, Known, TypeInv, TypeOK, NodeTypeOK
<1>4. CASE SendTx
  <2>1. worker.pc = "send" /\ receive(worker.tx)
    BY <1>1, <1>4, ZenonT(60) DEF SendTx, Send
  <2>2. worker.tx \in Known /\ worker.tx \in Tx
    BY <2>1, PublisherAssumption, ZenonT(60) DEF Known, Kept, TypeInv, WorkerTyped
  <2>3. landed' = landed
    BY <2>1, ZenonT(60) DEF receive
  <2>4. CASE pool' = {u \in pool : u.nonce # worker.tx.nonce} \cup {worker.tx}
    BY <1>3, <2>2, <2>3, <2>4, ZenonT(60)
  <2>5. CASE UNCHANGED pool /\ worker.tx.nonce < nonce
    <3>1. worker.tx.nonce + 1 \in 1..nonce /\ (worker.tx.nonce + 1) - 1 = worker.tx.nonce
      BY <1>2, <2>2, <2>5
    <3>2. PICK v \in landed : v.nonce = (worker.tx.nonce + 1) - 1
      BY <3>1, ZenonT(60) DEF LedgerInv
    <3>3. v = worker.tx
      BY <1>3, <2>2, <3>1, <3>2, ZenonT(60)
    <3> QED
      BY <2>3, <2>5, <3>3, ZenonT(60)
  <2>6. CASE UNCHANGED pool /\ \E u \in pool : u.nonce = worker.tx.nonce
    BY <1>3, <2>2, <2>3, <2>6, ZenonT(60)
  <2> QED
    BY <2>1, <2>4, <2>5, <2>6, ZenonT(60) DEF receive
<1>5. CASE Mine /\ ~ SendTx
  <2>1. PICK t \in pool : mineSuccess(t)
    BY <1>5, MinedSucceeds, ZenonT(60)
  <2> QED
    BY <1>5, <2>1, ZenonT(60) DEF mineSuccess, include
<1>6. ~ Evict /\ ~ ForeignPublish
  BY NoFailure, ZenonT(60) DEF Evict, ForeignPublish, Failures
<1>7. CASE UNCHANGED nodeVars /\ ~ SendTx
  BY <1>7, ZenonT(60) DEF nodeVars
<1> QED
  BY <1>4, <1>5, <1>6, <1>7, NodeStep, ZenonT(60)

\* What has a receipt of success keeps it while no block is orphaned.
LEMMA LandedGrows ==
  ASSUME [Next]_vars
  PROVE  landed \subseteq landed'
<1>1. CASE Mine
  BY <1>1, ZenonT(60) DEF Mine, mineSuccess, mineReverted
<1> QED
  BY <1>1, NodeStep, ZenonT(60) DEF SendTx, Send, receive, ForeignPublish, Evict, evict, nodeVars

LEMMA SentNext ==
  ASSUME Limit["evict"] = 0, Limit["foreign"] = 0, Limit["revert"] = 0
  PROVE  TypeInv /\ NonceInv /\ KeptInv /\ AcceptInv /\ LedgerInv /\ SentInv /\ [Next]_vars => SentInv'
<1> SUFFICES ASSUME TypeInv, NonceInv, KeptInv, AcceptInv, LedgerInv, SentInv, [Next]_vars, NothingStale'
             PROVE  /\ \A t \in Known' :
                         t \in landed' \cup pool' \/ (worker'.pc = "send" /\ t = worker'.tx)
                    /\ \A t, u \in Known' : t.nonce = u.nonce => t = u
  BY ZenonT(60) DEF SentInv
<1>1. /\ \A t \in Known : t \in landed \cup pool \/ (worker.pc = "send" /\ t = worker.tx)
      /\ \A t, u \in Known : t.nonce = u.nonce => t = u
  BY StaleStays, ZenonT(60) DEF SentInv
<1>2. /\ landed \cup pool \subseteq landed' \cup pool'
      /\ SendTx => worker.tx \in landed' \cup pool'
  BY NodeKeeps, ZenonT(60)
<1>3. CASE Known' \subseteq Known
  <2>1. CASE worker.pc # "send" \/ SendTx \/ UNCHANGED worker
    BY <1>1, <1>2, <1>3, <2>1, ZenonT(60)
  <2>2. CASE Crash
    <3>1. Idle.pc = "idle" /\ Blank.prepared = Nil
      BY DEF Idle, Blank
    <3>2. Kept' \subseteq {Nil}
      BY <2>2, <3>1, ZenonT(60) DEF Crash, Kept
    <3>3. Known' \subseteq landed' \cup pool'
      BY <3>2, ZenonT(60) DEF Known
    <3> QED
      BY <1>1, <1>3, <3>3, ZenonT(60)
  <2>3. worker.pc = "send" => SendTx \/ UNCHANGED worker \/ Crash
    <3>1. "send" \notin {"idle", "read", "prepare", "wait", "recheck", "confirm"}
      OBVIOUS
    <3> QED
      BY <3>1, ZenonT(60) DEF Next, Enqueue, EnqueueAdd, Get, ReadLatest, PrepareOnce, WaitTx, Recheck,
         Confirm, Ripen, Mine, Evict, ForeignPublish, vars, publisherVars
  <2> QED
    BY <2>1, <2>2, <2>3, ZenonT(60)
<1>4. CASE /\ PrepareOnce /\ worker.pc = "prepare" /\ worker'.pc = "send"
           /\ worker'.tx \in Prepare(worker.wl, worker.rev.key, attemptSig, worker.rev.seq)
           /\ Known' \subseteq Known \cup {worker'.tx}
  <2>1. PICK n : n = worker'.tx
    BY ZenonT(60)
  <2>2. n.nonce \in pendingNonce
    BY <1>4, <2>1 DEF Prepare
  <2>3. Known \subseteq landed \cup pool
    BY <1>1, <1>4
  <2>4. \A t \in pool : t.nonce # n.nonce
    BY <2>2, ZenonT(60) DEF pendingNonce
  <2>5. \A t \in landed : t.nonce # n.nonce
    <3>1. \A t \in landed : t.nonce \in Nat /\ t.nonce < nonce
      BY ZenonT(60) DEF NonceInv, TypeInv, TypeOK, NodeTypeOK, Tx
    <3>2. nonce \in Nat /\ n.nonce \in Nat /\ nonce <= n.nonce
      BY <2>2 DEF pendingNonce, TypeInv, TypeOK, NodeTypeOK
    <3> QED
      BY <3>1, <3>2
  <2> QED
    BY <1>1, <1>2, <1>4, <2>1, <2>3, <2>4, <2>5, ZenonT(60)
<1>5. ~ ForeignPublish
  BY NoFailure, ZenonT(60) DEF ForeignPublish, Failures
<1> QED
  BY <1>3, <1>4, <1>5, KnownStep, ZenonT(60)

\* The record, once it is there, stands.
LEMMA OnChainStands ==
  ASSUME TypeInv, NonceInv, LedgerInv, LogReconstructsLatest, NEW w \in Workloads, NEW k, OnChain(w, k)
  PROVE  Stands(w, k)
<1>1. latest[w].exists /\ latest[w].key = k
  BY ZenonT(60) DEF OnChain, LatestAttestation, getLatest
<1>2. PICK t \in landed : t.wl = w /\ t.key = k
  BY <1>1, RecordIsLast, ZenonT(60)
<1> QED
  BY <1>2, ZenonT(60) DEF Stands, Precedes

LEMMA StandNext ==
  /\ TypeInv /\ NonceInv /\ MatchesInv /\ LedgerInv /\ LogReconstructsLatest
  /\ StandInv /\ [Next]_vars /\ UNCHANGED orphaned
  => StandInv'
<1> SUFFICES ASSUME TypeInv, NonceInv, MatchesInv, LedgerInv, LogReconstructsLatest,
                    StandInv, [Next]_vars, UNCHANGED orphaned
             PROVE  StandInv'
  OBVIOUS
<1>1. ASSUME NEW w, NEW k, Stands(w, k)
      PROVE  \E t \in landed' \cup orphaned' : t.wl = w /\ Precedes(k, t.key)
  BY <1>1, LandedGrows, ZenonT(60) DEF Stands
<1>2. ASSUME NEW w \in Workloads, state'[w].confirmed # Nil
      PROVE  Stands(w, state'[w].confirmed)
  <2>1. CASE Confirm /\ w = worker.wl /\ state'[w].confirmed = worker.rev.key
    BY <2>1, ZenonT(60) DEF StandInv, Confirm
  <2>2. Blank.confirmed = Nil
    BY ZenonT(60) DEF Blank
  <2> QED
    BY <1>2, <2>1, <2>2, StateStep, ZenonT(60) DEF StandInv
<1>3. ASSUME worker'.pc = "confirm"
      PROVE  Stands(worker'.wl, worker'.rev.key)
  <2>1. Idle.pc = "idle"
    BY DEF Idle
  <2>2. worker.pc # "idle" => worker.wl \in Workloads
    BY ZenonT(60) DEF TypeInv, WorkerTyped
  <2>3. CASE UNCHANGED worker
    BY <1>3, <2>3, ZenonT(60) DEF StandInv
  <2>4. CASE ReadLatest /\ OnChain(worker.wl, state[worker.wl].key)
             /\ worker'.wl = worker.wl /\ worker'.rev = state[worker.wl]
    <3>1. worker.wl \in Workloads
      BY <2>2, <2>4 DEF ReadLatest
    <3> QED
      BY <2>4, <3>1, OnChainStands, ZenonT(60)
  <2>5. CASE OnChain(worker.wl, worker.rev.key) /\ worker'.wl = worker.wl
             /\ worker'.rev = worker.rev /\ worker.pc # "idle"
    BY <2>2, <2>5, OnChainStands, ZenonT(60)
  <2>6. CASE worker.pc = "wait" /\ worker.tx \in landed /\ worker'.wl = worker.wl
             /\ worker'.rev = worker.rev
    <3>1. worker.tx.wl = worker.wl /\ worker.tx.key = worker.rev.key
      BY <2>6, ZenonT(60) DEF MatchesInv, WorkerMatches, Publishes
    <3> QED
      BY <2>6, <3>1, ZenonT(60) DEF Stands, Precedes
  <2> QED
    BY <1>3, <2>1, <2>3, <2>4, <2>5, <2>6, WorkerStep, ZenonT(60)
<1> QED
  BY <1>1, <1>2, <1>3, ZenonT(60) DEF StandInv, Stands

LEMMA FreshNext == TypeInv /\ FreshInv /\ [Next]_vars => FreshInv'
<1> SUFFICES ASSUME TypeInv, FreshInv, [Next]_vars,
                    worker'.pc = "prepare", state'[worker'.wl].prepared # Nil
             PROVE  worker'.rev.seq = state'[worker'.wl].seq
  BY ZenonT(60) DEF FreshInv
<1>1. Idle.pc = "idle" /\ Blank.prepared = Nil
  BY DEF Idle, Blank
<1>2. CASE ReadLatest /\ worker'.wl = worker.wl /\ worker'.rev = state[worker.wl] /\ UNCHANGED state
  BY <1>2, ZenonT(60)
<1>3. CASE UNCHANGED worker
  <2>1. worker.wl \in Workloads /\ worker.pc = "prepare"
    BY <1>3, ZenonT(60) DEF TypeInv, WorkerTyped
  <2>2. ~ Confirm
    BY <2>1 DEF Confirm
  <2>3. \/ state'[worker.wl] = state[worker.wl]
        \/ state'[worker.wl].prepared = Nil
    BY <1>1, <1>3, <2>1, <2>2, StateStep
  <2> QED
    BY <1>3, <2>1, <2>3, ZenonT(60) DEF FreshInv
<1> QED
  BY <1>1, <1>2, <1>3, WorkerStep, ZenonT(60)

\* A nonce the node has, on chain or pooled, it keeps.
LEMMA NoncesStay ==
  ASSUME Limit["evict"] = 0, Limit["foreign"] = 0, Limit["revert"] = 0,
         TypeInv, AcceptInv, [Next]_vars, NEW t \in landed \cup pool
  PROVE  \E u \in landed' \cup pool' : u.nonce = t.nonce
<1>1. CASE SendTx
  <2>1. UNCHANGED nodeVars \/ receive(worker.tx)
    BY <1>1, ZenonT(60) DEF SendTx, Send
  <2> QED
    BY <2>1, ZenonT(60) DEF receive, nodeVars
<1>2. CASE Mine
  <2>1. PICK u \in pool : mineSuccess(u)
    BY <1>2, MinedSucceeds, ZenonT(60)
  <2>2. pool' = pool \ {u} /\ landed' = landed \cup {u}
    BY <2>1, ZenonT(60) DEF mineSuccess, include
  <2> QED
    BY <2>2, ZenonT(60)
<1>3. ~ Evict /\ ~ ForeignPublish
  BY NoFailure, ZenonT(60) DEF Evict, ForeignPublish, Failures
<1> QED
  BY <1>1, <1>2, <1>3, NodeStep, ZenonT(60) DEF nodeVars

\* prepareOnce builds a transaction at a nonce that no other of its workload
\* has, on chain, in the pool, kept or undone.
LEMMA AttemptIsAlone ==
  ASSUME TypeInv, NonceInv, KeptInv, SnapshotInv, SingleInv, FreshInv, OrphanInv,
         worker.pc = "prepare", worker.rev.prepared = Nil,
         NEW n \in Prepare(worker.wl, worker.rev.key, attemptSig, worker.rev.seq),
         NEW t \in Known \cup orphaned, t.wl = worker.wl
  PROVE  t.nonce # n.nonce
<1>1. n.nonce \in pendingNonce
  BY DEF Prepare
<1>2. \A u \in landed \cup pool : u.nonce # n.nonce
  <2>1. \A u \in pool : u.nonce # n.nonce
    BY <1>1, ZenonT(60) DEF pendingNonce
  <2>2. \A u \in landed : u.nonce \in Nat /\ u.nonce < nonce
    BY ZenonT(60) DEF NonceInv, TypeInv, TypeOK, NodeTypeOK, Tx
  <2>3. nonce \in Nat /\ n.nonce \in Nat /\ nonce <= n.nonce
    BY <1>1 DEF pendingNonce, TypeInv, TypeOK, NodeTypeOK
  <2>4. \A u \in landed : u.nonce # n.nonce
    BY <2>2, <2>3
  <2> QED
    BY <2>1, <2>4, ZenonT(60)
<1>3. CASE t \in orphaned
  BY <1>2, <1>3, ZenonT(60) DEF OrphanInv
<1>4. CASE t \in Known \ (landed \cup pool)
  <2>1. PICK w \in Workloads : t = state[w].prepared /\ t # Nil
    BY <1>4 DEF Known, Kept
  <2>2. t.wl = w /\ t.seq = state[w].seq
    BY <2>1, ZenonT(60) DEF KeptInv, IsOf
  <2>3. t.seq = worker.rev.seq
    BY <2>1, <2>2, ZenonT(60) DEF FreshInv
  <2> QED
    BY <1>4, <2>3, ZenonT(60) DEF SingleInv, IsOf
<1> QED
  BY <1>2, <1>3, <1>4, ZenonT(60)

LEMMA OrphanNext ==
  ASSUME ForwardOnly, Limit["evict"] = 0, Limit["foreign"] = 0, Limit["revert"] = 0
  PROVE  /\ TypeInv /\ SnapshotInv /\ OnceInv /\ AcceptInv /\ LedgerInv /\ SentInv
         /\ FreshInv /\ OrphanInv /\ [Next]_vars /\ UNCHANGED orphaned
         => OrphanInv'
<1> SUFFICES ASSUME TypeInv, SnapshotInv, OnceInv, AcceptInv, LedgerInv, SentInv,
                    FreshInv, OrphanInv, [Next]_vars, UNCHANGED orphaned
             PROVE  OrphanInv'
  OBVIOUS
<1>1. NonceInv /\ KeptInv /\ SingleInv
  BY ZenonT(60) DEF OnceInv
<1>2. ASSUME NEW t \in orphaned
      PROVE  t.sig = SigningDigest(t.wl, t.key) /\ Precedes(t.key, wanted'[t.wl])
  <2>1. t.wl \in Workloads /\ t.key \in Keys
    BY ZenonT(60) DEF OrphanInv, Tx
  <2> QED
    BY <2>1, WantedGrows, ZenonT(60) DEF OrphanInv
<1>3. ASSUME NEW t \in orphaned PROVE \E u \in landed' \cup pool' : u.nonce = t.nonce
  <2>1. PICK u \in landed \cup pool : u.nonce = t.nonce
    BY ZenonT(60) DEF OrphanInv
  <2> QED
    BY <2>1, NoncesStay, ZenonT(60)
<1>4. ASSUME NothingStale' PROVE orphaned \subseteq landed' \cup pool'
  <2>1. orphaned \subseteq landed \cup pool
    BY <1>4, StaleStays, ZenonT(60) DEF OrphanInv
  <2> QED
    BY <1>1, <1>4, <2>1, NodeKeeps, ZenonT(60)
<1>5. \A t, u \in Known' \cup orphaned : t.wl = u.wl /\ t.nonce = u.nonce => t = u
  <2>1. CASE Known' \subseteq Known
    BY <2>1, ZenonT(60) DEF OrphanInv
  <2>2. CASE /\ worker.pc = "prepare" /\ worker.rev.prepared = Nil
             /\ worker'.tx \in Prepare(worker.wl, worker.rev.key, attemptSig, worker.rev.seq)
             /\ Known' \subseteq Known \cup {worker'.tx}
    <3>1. PICK n \in Prepare(worker.wl, worker.rev.key, attemptSig, worker.rev.seq) : n = worker'.tx
      BY <2>2, ZenonT(60)
    <3>2. n.wl = worker.wl
      BY DEF Prepare
    <3>3. \A t \in Known \cup orphaned : t.wl = n.wl => t.nonce # n.nonce
      BY <1>1, <2>2, <3>2, AttemptIsAlone, ZenonT(60)
    <3> QED
      BY <2>2, <3>1, <3>3, ZenonT(60) DEF OrphanInv
  <2>3. ~ ForeignPublish
    BY NoFailure, ZenonT(60) DEF ForeignPublish, Failures
  <2> QED
    BY <1>1, <2>1, <2>2, <2>3, KnownStep, ZenonT(60)
<1> QED
  BY <1>2, <1>3, <1>4, <1>5, ZenonT(60) DEF OrphanInv

\* A block is orphaned: its event is the last, its record gives way to the one
\* before, and its transaction goes on standing.
LEMMA LedgerReorg ==
  ASSUME TypeInv, LastInv, NonceInv, LedgerInv, LogReconstructsLatest, Reorg
  PROVE  LedgerInv' /\ LogReconstructsLatest'
<1>1. PICK t \in landed :
        /\ orphan(t) /\ t \in Tx
        /\ t.nonce = nonce - 1 /\ nonce' = t.nonce
        /\ landed' = landed \ {t} /\ reverted' = reverted \ {t}
  BY ReorgStep, ZenonT(60) DEF LedgerInv
<1>2. /\ events' = SubSeq(events, 1, Len(events) - 1)
      /\ latest' = [latest EXCEPT ![t.wl] = recordAfter(t.wl, Len(events) - 1)]
  BY <1>1, ZenonT(60) DEF orphan
<1>3. PICK m : m = Len(events) - 1
  BY ZenonT(60)
<1>4. /\ events \in Seq(Event) /\ latest \in [Workloads -> Attestation] /\ t.wl \in Workloads
      /\ nonce \in Nat /\ t.nonce \in Nat /\ Len(events) = nonce /\ reverted = {}
  BY <1>1, ZenonT(60) DEF TypeInv, TypeOK, RegistryTypeOK, NodeTypeOK, Tx, LedgerInv
<1>5. m = t.nonce /\ nonce # 0 /\ nonce = m + 1 /\ m \in Nat /\ 1..m \subseteq 1..nonce /\ m + 1 \in 1..nonce
      /\ (m + 1) - 1 = m
  BY <1>1, <1>3, <1>4
<1>6. Len(events') = m /\ \A i \in 1..m : events'[i] = events[i]
  <2>1. Len(events) # 0
    BY <1>4, <1>5, ZenonT(60)
  <2>2. /\ Len(events) # 0 => Len(events') = Len(events) - 1
        /\ \A i \in 1..Len(events') : events'[i] = events[i]
    BY <1>2, <1>4, PrefixProperties, ZenonT(60)
  <2> QED
    BY <1>3, <2>1, <2>2, ZenonT(60)
<1>7. LedgerInv'
  <2>1. ASSUME NEW i \in 1..m
        PROVE  \E u \in landed' :
                 u.nonce = i - 1 /\ events'[i] = [wl |-> u.wl, key |-> u.key, sig |-> u.sig]
    <3>1. PICK u \in landed :
            u.nonce = i - 1 /\ events[i] = [wl |-> u.wl, key |-> u.key, sig |-> u.sig]
      BY <1>5, <2>1, ZenonT(60) DEF LedgerInv
    <3>2. u.nonce # t.nonce
      BY <1>5, <2>1, <3>1
    <3> QED
      BY <1>1, <1>6, <2>1, <3>1, <3>2, ZenonT(60)
  <2> QED
    BY <1>1, <1>4, <1>5, <1>6, <2>1, ZenonT(60) DEF LedgerInv
<1>8. events[m + 1].wl = t.wl
  <2>1. PICK u \in landed : /\ u.nonce = (m + 1) - 1
                            /\ events[m + 1] = [wl |-> u.wl, key |-> u.key, sig |-> u.sig]
    BY <1>5, ZenonT(60) DEF LedgerInv
  <2>2. u = t
    BY <1>5, <2>1, ZenonT(60) DEF NonceInv
  <2> QED
    BY <2>1, <2>2
<1>9. ASSUME NEW w \in Workloads
      PROVE  \/ eventsOf(w, m) = {} /\ latest'[w] = Unset
             \/ \E i \in eventsOf(w, m) :
                  /\ \A j \in eventsOf(w, m) : j <= i
                  /\ latest'[w] = [exists |-> TRUE, key |-> events[i].key, sig |-> events[i].sig]
  <2>1. CASE w = t.wl
    <3>1. latest'[w] = recordAfter(w, m)
      BY <1>2, <1>3, <1>4, <2>1, ZenonT(60)
    <3> QED
      BY <1>3, <3>1, RecordAfterLast, ZenonT(60)
  <2>2. CASE w # t.wl
    <3>1. latest'[w] = latest[w]
      BY <1>2, <1>4, <2>2, ZenonT(60)
    <3>2. eventsOf(w, Len(events)) = eventsOf(w, m)
      <4>1. \A i \in 1..nonce : i \in 1..m \/ i = m + 1
        BY <1>5
      <4> QED
        BY <1>4, <1>5, <1>8, <2>2, <4>1, ZenonT(60) DEF eventsOf
    <3>3. \/ eventsOf(w, Len(events)) = {} /\ latest[w] = Unset
          \/ \E i \in eventsOf(w, Len(events)) :
               /\ \A j \in eventsOf(w, Len(events)) : j <= i
               /\ latest[w] = [exists |-> TRUE, key |-> events[i].key, sig |-> events[i].sig]
      BY ZenonT(60) DEF LogReconstructsLatest, getLatest, eventsOf
    <3> QED
      BY <3>1, <3>2, <3>3, ZenonT(60)
  <2> QED
    BY <2>1, <2>2, ZenonT(60)
<1>10. \A w \in Workloads : {i \in 1..Len(events') : events'[i].wl = w} = eventsOf(w, m)
  BY <1>6, ZenonT(60) DEF eventsOf
<1>11. \A w \in Workloads : \A i \in eventsOf(w, m) : events'[i] = events[i]
  BY <1>6, ZenonT(60) DEF eventsOf
<1>12. LogReconstructsLatest'
  <2>1. ASSUME NEW w \in Workloads, NEW S, S = {i \in 1..Len(events') : events'[i].wl = w}
        PROVE  \/ S = {} /\ latest'[w] = Unset
               \/ \E i \in S :
                    /\ \A j \in S : j <= i
                    /\ latest'[w] = [exists |-> TRUE, key |-> events'[i].key, sig |-> events'[i].sig]
    <3>1. S = eventsOf(w, m)
      BY <1>10, <2>1, ZenonT(60)
    <3> QED
      BY <1>9, <1>11, <3>1, ZenonT(60)
  <2> QED
    BY <2>1, ZenonT(60) DEF LogReconstructsLatest, getLatest
<1> QED
  BY <1>7, <1>12

LEMMA KnownReorg ==
  ASSUME TypeInv, LedgerInv, Reorg
  PROVE  Known' = Known /\ pool' \cup landed' = pool \cup landed
<1>1. Kept' = Kept
  BY ReorgStep, ZenonT(60) DEF Kept, publisherVars
<1>2. pool' \cup landed' = pool \cup landed
  BY ReorgStep, ZenonT(60) DEF LedgerInv
<1> QED
  BY <1>1, <1>2, ZenonT(60) DEF Known

LEMMA StandReorg ==
  ASSUME TypeInv, LedgerInv, SentInv, StandInv, FreshInv, ForwardInv, OrphanInv, Reorg
  PROVE  SentInv' /\ StandInv' /\ FreshInv' /\ OrphanInv'
<1>1. Known' = Known /\ pool' \cup landed' = pool \cup landed
  BY KnownReorg, ZenonT(60)
<1>2. UNCHANGED <<state, worker, spent, wanted>>
  BY ReorgStep, ZenonT(60) DEF publisherVars, historyVars
<1>3. NothingStale' = NothingStale
  BY <1>2, ZenonT(60) DEF NothingStale
<1>4. PICK t \in landed : t \in Tx /\ landed' = landed \ {t} /\ orphaned' = orphaned \cup {t}
  BY ReorgStep, ZenonT(60) DEF LedgerInv
<1>5. t \in Known
  BY <1>4, PublisherAssumption, ZenonT(60) DEF Known
<1>6. SentInv' /\ FreshInv'
  BY <1>1, <1>2, <1>3, ZenonT(60) DEF SentInv, FreshInv
<1>7. StandInv'
  <2>1. landed' \cup orphaned' = landed \cup orphaned
    BY <1>4, ZenonT(60)
  <2> QED
    BY <1>2, <2>1, ZenonT(60) DEF StandInv, Stands
<1>8. OrphanInv'
  <2>1. t.sig = SigningDigest(t.wl, t.key) /\ Precedes(t.key, wanted[t.wl])
    BY <1>5, ZenonT(60) DEF ForwardInv
  <2>2. Known' \cup orphaned' = Known \cup orphaned
    BY <1>1, <1>4, <1>5, ZenonT(60)
  <2>3. landed' \cup pool' = landed \cup pool
    BY <1>1, ZenonT(60)
  <2> QED
    BY <1>2, <1>3, <1>4, <2>1, <2>2, <2>3, ZenonT(60) DEF OrphanInv
<1> QED
  BY <1>6, <1>7, <1>8, ZenonT(60)

StayInv ==
  /\ OrderedInv /\ MatchesInv /\ BusyInv /\ SingleInv /\ ForwardInv /\ NothingLost
  /\ AcceptInv /\ LedgerInv /\ LogReconstructsLatest /\ SentInv /\ StandInv
  /\ FreshInv /\ OrphanInv

LEMMA StayInit == ReorgInit => StayInv
<1> SUFFICES ASSUME Init, orphaned = {} PROVE StayInv
  BY ZenonT(60) DEF ReorgInit
<1>1. OrderedInv
  BY OrderedInit, ZenonT(60)
<1>2. MatchesInv /\ BusyInv /\ SingleInv /\ ForwardInv /\ LogReconstructsLatest
  BY PublishedInit, OnceInit, CurrentInit, RegistryIsFresh, ZenonT(60) DEF PublishedInv, OnceInv
<1>3. /\ worker.pc = "idle" /\ nonce = 0 /\ reverted = {} /\ events = << >>
      /\ \A w \in Workloads : state[w].seq = 0 /\ state[w].confirmed = Nil
  BY DEF Init, RegistryInit, NodeInit, Idle, Blank
<1>4. Known = {}
  BY ZenonT(60) DEF Init, NodeInit, Idle, Blank, Known, Kept
<1>5. NothingLost
  BY <1>3, ZenonT(60) DEF NothingLost, Unsettled
<1>6. LedgerInv
  <2>1. Len(events) = 0 /\ 1..nonce = {}
    BY <1>3
  <2> QED
    BY <1>3, <2>1, ZenonT(60) DEF LedgerInv
<1>7. AcceptInv /\ SentInv
  BY <1>4, ZenonT(60) DEF AcceptInv, SentInv
<1>8. StandInv /\ FreshInv
  BY <1>3 DEF StandInv, FreshInv
<1>9. OrphanInv
  BY <1>4, ZenonT(60) DEF OrphanInv
<1> QED
  BY <1>1, <1>2, <1>5, <1>6, <1>7, <1>8, <1>9 DEF StayInv

LEMMA StayNext ==
  ASSUME ForwardOnly, Limit["foreign"] = 0, Limit["evict"] = 0, Limit["revert"] = 0
  PROVE  StayInv /\ [ReorgNext]_<<vars, reorgs, orphaned>> => StayInv'
<1> SUFFICES ASSUME StayInv, [ReorgNext]_<<vars, reorgs, orphaned>> PROVE StayInv'
  OBVIOUS
<1>1. /\ OrderedInv /\ MatchesInv /\ BusyInv /\ SingleInv /\ ForwardInv /\ NothingLost
      /\ AcceptInv /\ LedgerInv /\ LogReconstructsLatest /\ SentInv /\ StandInv
      /\ FreshInv /\ OrphanInv
  BY ZenonT(60) DEF StayInv
<1>2. TypeInv /\ LastInv /\ SnapshotInv /\ NonceInv /\ KeptInv /\ OrderInv /\ OnceInv
  BY <1>1, ZenonT(60) DEF OrderedInv, OnceInv
<1>3. OrderedInv'
  BY <1>1, OrderedNext, ZenonT(60)
<1>4. CASE Reorg
  <2>1. Known' = Known /\ UNCHANGED <<queueVars, publisherVars, historyVars>>
    BY <1>1, <1>2, <1>4, KnownReorg, ReorgStep, ZenonT(60)
  <2>2. MatchesInv' /\ BusyInv'
    BY <1>1, <2>1, ZenonT(60) DEF MatchesInv, StateMatches, WorkerMatches, BusyInv, publisherVars
  <2>3. SingleInv' /\ AcceptInv'
    BY <1>1, <2>1, ZenonT(60) DEF SingleInv, AcceptInv, publisherVars
  <2>4. ForwardInv'
    BY <1>1, <2>1, ZenonT(60) DEF ForwardInv, RequestSupersedes, publisherVars, historyVars
  <2>5. NothingLost'
    BY <1>1, <2>1, ZenonT(60) DEF NothingLost, publisherVars, queueVars
  <2> QED
    BY <1>1, <1>2, <1>3, <1>4, <2>2, <2>3, <2>4, <2>5, LedgerReorg, StandReorg, ZenonT(60) DEF StayInv
<1>5. CASE [Next]_vars /\ UNCHANGED orphaned
  <2>1. MatchesInv' /\ NothingLost'
    BY <1>1, <1>2, <1>5, MatchesNext, NothingLostNext, ZenonT(60)
  <2>2. BusyInv' /\ SingleInv'
    BY <1>1, <1>2, <1>5, BusyNext, SingleNext, ZenonT(60)
  <2>3. ForwardInv'
    BY <1>1, <1>2, <1>5, ForwardNext, ZenonT(60)
  <2>4. AcceptInv' /\ LedgerInv' /\ LogReconstructsLatest'
    BY <1>1, <1>2, <1>5, AcceptNext, LedgerNext, LogNext, ZenonT(60)
  <2>5. SentInv' /\ StandInv'
    BY <1>1, <1>2, <1>5, SentNext, StandNext, ZenonT(60)
  <2>6. FreshInv' /\ OrphanInv'
    BY <1>1, <1>2, <1>5, FreshNext, OrphanNext, ZenonT(60)
  <2> QED
    BY <1>1, <1>3, <1>5, <2>1, <2>2, <2>3, <2>4, <2>5, <2>6, ZenonT(60) DEF StayInv
<1> QED
  BY <1>4, <1>5, ZenonT(60) DEF ReorgNext

\* The last transaction of w on chain is of the last revision requested, if
\* any is that does not come before it.
LEMMA StandingIsSettled ==
  ASSUME ForwardOnly, StayInv, NEW w \in Workloads, state[w].seq # 0,
         w \notin dirty \cup processing \cup delayed \cup {adding}
  PROVE  \/ OnChain(w, wanted[w])
         \/ \E t \in orphaned : Carries(t, w, wanted[w]) /\ (t \in pool \/ Displaced(t))
<1>1. /\ TypeInv /\ NonceInv /\ OrderInv /\ SingleInv /\ ForwardInv /\ NothingLost
      /\ LedgerInv /\ LogReconstructsLatest /\ StandInv /\ OrphanInv
  BY ZenonT(60) DEF StayInv, OrderedInv
<1>2. state[w].confirmed = wanted[w] /\ wanted[w] # Nil
  <2>1. state[w].confirmed = state[w].key /\ state[w].key = wanted[w]
    BY <1>1, ZenonT(60) DEF NothingLost, Unsettled, ForwardInv, RequestSupersedes
  <2>2. state[w].key \in Keys
    BY <1>1, ZenonT(60) DEF TypeInv, WorkerTyped
  <2> QED
    BY <2>1, <2>2, PublisherAssumption, ZenonT(60)
<1>3. \A t \in landed \cup pool : t \in Known /\ t \in Tx
  BY <1>1, PublisherAssumption, ZenonT(60) DEF Known, TypeInv, TypeOK, NodeTypeOK
<1>4. PICK t \in landed \cup orphaned : t.wl = w /\ Precedes(wanted[w], t.key)
  BY <1>1, <1>2, ZenonT(60) DEF StandInv, Stands
<1>5. t.key = wanted[w] /\ t.sig = SigningDigest(w, wanted[w])
  <2>1. Precedes(t.key, wanted[w]) /\ t.sig = SigningDigest(w, t.key)
    BY <1>1, <1>3, <1>4, ZenonT(60) DEF ForwardInv, OrphanInv
  <2> QED
    BY <1>4, <2>1, PrecedesAntisymmetric, ZenonT(60)
<1>6. CASE t \in landed
  <2>1. latest[w].exists
    BY <1>1, <1>4, <1>6, RecordIsLast, ZenonT(60)
  <2>2. PICK u \in landed : /\ u.wl = w /\ u.key = latest[w].key /\ u.sig = latest[w].sig
                            /\ t.nonce <= u.nonce
    BY <1>1, <1>4, <1>6, <2>1, RecordIsLast, ZenonT(60)
  <2>3. /\ t \in Known /\ u \in Known /\ t.seq \in Nat /\ u.seq \in Nat
        /\ t.nonce \in Nat /\ u.nonce \in Nat /\ t.seq # 0 /\ u.seq # 0
    <3>1. t \in Known /\ u \in Known /\ t \in Tx /\ u \in Tx
      BY <1>3, <1>6, <2>2, ZenonT(60)
    <3> QED
      BY <1>1, <3>1, ZenonT(60) DEF Tx, ForwardInv
  <2>4. Precedes(t.key, u.key)
    <3>1. CASE t = u
      BY <3>1, ZenonT(60) DEF Precedes
    <3>2. CASE t.seq = u.seq
      <4>1. t = u
        BY <1>1, <1>4, <2>2, <2>3, <3>2, ZenonT(60) DEF SingleInv, IsOf
      <4> QED
        BY <3>1, <4>1
    <3>3. CASE t.seq < u.seq
      BY <1>1, <1>4, <2>2, <2>3, <3>3, ZenonT(60) DEF ForwardInv
    <3>4. CASE u.seq < t.seq
      <4>1. u.nonce <= t.nonce
        BY <1>1, <1>4, <2>2, <2>3, <3>4, ZenonT(60) DEF OrderInv, Tracked
      <4>2. u.nonce = t.nonce
        BY <2>2, <2>3, <4>1
      <4>3. t = u
        BY <1>1, <1>6, <4>2, ZenonT(60) DEF NonceInv
      <4> QED
        BY <3>1, <4>3
    <3> QED
      BY <2>3, <3>2, <3>3, <3>4
  <2>5. Precedes(u.key, wanted[w]) /\ u.sig = SigningDigest(w, u.key)
    BY <1>1, <2>2, <2>3, ZenonT(60) DEF ForwardInv
  <2>6. latest[w].key = wanted[w] /\ latest[w].sig = SigningDigest(w, wanted[w])
    BY <1>5, <2>2, <2>4, <2>5, PrecedesAntisymmetric, ZenonT(60)
  <2>7. latest[w].sig # NoSig
    BY <2>6 DEF SigningDigest, NoSig
  <2> QED
    BY <2>1, <2>6, <2>7, ZenonT(60) DEF OnChain, LatestAttestation, getLatest, recordIsOurs
<1>7. CASE t \in orphaned /\ t \notin landed
  <2>1. Carries(t, w, wanted[w])
    BY <1>4, <1>5, ZenonT(60) DEF Carries
  <2>2. PICK u \in landed \cup pool : u.nonce = t.nonce
    BY <1>1, <1>7, ZenonT(60) DEF OrphanInv
  <2>3. CASE t \notin pool
    <3>1. u.wl # t.wl
      BY <1>1, <1>3, <1>7, <2>2, <2>3, ZenonT(60) DEF OrphanInv
    <3>2. ~ NothingStale
      BY <1>1, <1>7, <2>3, ZenonT(60) DEF OrphanInv
    <3>3. Displaced(t)
      BY <2>2, <3>1, <3>2, ZenonT(60) DEF Displaced
    <3> QED
      BY <1>7, <2>1, <3>3, ZenonT(60)
  <2> QED
    BY <1>7, <2>1, <2>3, ZenonT(60)
<1> QED
  BY <1>4, <1>6, <1>7, ZenonT(60)

\* A confirmation outlives the block it was made for, however many blocks are
\* orphaned, sends lost, RPCs failed and processes restarted: at rest the
\* record is the last revision Enqueue was given, or the node holds its
\* transaction again, or a send that failed or was lost let an attempt of
\* another workload have its nonce.  For an operator alone with its account, a
\* node that evicts and a contract that reverts nothing, and Deployments that
\* only move forward.
THEOREM SettledThroughReorgThm ==
  ASSUME ForwardOnly, Limit["foreign"] = 0, Limit["evict"] = 0, Limit["revert"] = 0
  PROVE  ReorgSpec => []SettledThroughReorg
<1>1. StayInv => SettledThroughReorg
  BY StandingIsSettled, ZenonT(60) DEF SettledThroughReorg
<1> QED
  BY <1>1, StayInit, StayNext, PTL DEF ReorgSpec
=============================================================================
