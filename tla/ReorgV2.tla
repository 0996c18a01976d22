------------------------------ MODULE ReorgV2 -------------------------------
(***************************************************************************)
(* PublisherV2 over a chain that reorganises.  client_v2.go takes the      *)
(* first receipt for the last word, as PublishOutcome documents: nothing   *)
(* waits for confirmations and nothing looks at a receipt again.  Here the *)
(* block of the account's last transaction may be orphaned, at any moment  *)
(* and again: the record is as it was before, and the node puts the        *)
(* transaction back into its pool.                                         *)
(***************************************************************************)
EXTENDS PublisherV2

CONSTANT MaxReorgs   \* bound: transactions undone

ASSUME ReorgAssumption == MaxReorgs \in Nat

VARIABLES
  reorgs,      \* history: how many transactions were undone
  orphaned     \* history: which ones

\* The record of w that the first n events leave.
recordAfter(w, n) ==
  LET mine == {i \in 1..n : events[i].wl = w} IN
  IF mine = {}
  THEN Unset
  ELSE LET last == events[CHOOSE i \in mine : \A j \in mine : j <= i]
       IN  [exists |-> TRUE, key |-> last.key, sig |-> last.sig]

\* t, the account's last transaction, is no longer in a block.
orphan(t) ==
  /\ t \in landed \cup reverted
  /\ t.nonce = nonce - 1
  /\ nonce' = t.nonce
  /\ pool' = pool \cup {t}
  /\ landed' = landed \ {t}
  /\ reverted' = reverted \ {t}
  /\ IF t \in landed
     THEN /\ events' = SubSeq(events, 1, Len(events) - 1)
          /\ latest' = [latest EXCEPT ![t.wl] = recordAfter(t.wl, Len(events) - 1)]
     ELSE UNCHANGED registryVars

Reorg ==
  /\ reorgs < MaxReorgs
  /\ reorgs' = reorgs + 1
  /\ \E t \in landed \cup reverted :
       /\ orphan(t)
       /\ orphaned' = orphaned \cup {t}
  /\ UNCHANGED <<queueVars, publisherVars, historyVars>>

ReorgInit == Init /\ reorgs = 0 /\ orphaned = {}

ReorgNext == Reorg \/ (Next /\ UNCHANGED <<reorgs, orphaned>>)

ReorgSpec == ReorgInit /\ [][ReorgNext]_<<vars, reorgs, orphaned>> /\ Fairness

-----------------------------------------------------------------------------
(***************************************************************************)
(* Properties.                                                             *)
(***************************************************************************)

\* Every send reached the node.
NothingStale == spent["loss"] + spent["rpc"] = 0

\* After a send that failed or was lost, the nonce of t is another workload's:
\* an attempt is kept and sent again with the nonce it was built with, and
\* that nonce had been given out a second time.
Displaced(t) ==
  /\ ~ NothingStale
  /\ \E u \in landed \cup pool : u.wl # t.wl /\ u.nonce = t.nonce

\* t publishes revision key of w.
Carries(t, w, key) == t.wl = w /\ t.key = key /\ t.sig = SigningDigest(w, key)

\* A confirmation outlives the block it was made for.  When nothing is left to
\* do for a workload, its record is the last revision Enqueue was given; or
\* that revision's block is gone, and the node has the transaction again,
\* unless a lost or failed send let another workload have its nonce.  confirm
\* dropped the attempt, so nobody publishes that one again.
SettledThroughReorg ==
  \A w \in Workloads :
    state[w].seq # 0 /\ w \notin dirty \cup processing \cup delayed \cup {adding}
      => \/ OnChain(w, wanted[w])
         \/ \E t \in orphaned : Carries(t, w, wanted[w]) /\ (t \in pool \/ Displaced(t))

\* The chain settles on what was asked for last, in spite of orphaned blocks
\* and of a lost send: no transaction that comes back, and none that its
\* absence made the worker send, ends up on top of a newer one.  Only a
\* workload whose transaction, orphaned or kept by prepareOnce, had its nonce
\* taken by another workload's may be left behind.
ReorgRecovers ==
  \A w \in Workloads, key \in Keys :
    <>[](wanted[w] = key)
      => <>[](\/ OnChain(w, key)
              \/ \E t \in (orphaned \cup {state[w].prepared}) \ {Nil} :
                   Carries(t, w, key) /\ Displaced(t))
=============================================================================
