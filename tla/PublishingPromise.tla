------------------------- MODULE PublishingPromise --------------------------
(***************************************************************************)
(* What publisher_v2.go promises, without queue, worker, transactions or   *)
(* nonces: only what was asked for is published, each under its own        *)
(* signature, the log only grows, and what is called confirmed was asked   *)
(* for and is in the log.  A restart forgets what was confirmed.           *)
(***************************************************************************)
EXTENDS Naturals, Sequences

CONSTANTS
  Workloads, Keys, Nil,
  Digest(_, _),  \* what a valid signature of a workload's revision is for
  Foreign        \* whether something else writes with the operator's account

VARIABLES
  asked,         \* the revisions requested so far, for every workload
  confirmed,     \* the revision called published, for every workload, or Nil
  log            \* the registry's events

vars == <<asked, confirmed, log>>

Init ==
  /\ asked = [w \in Workloads |-> {}]
  /\ confirmed = [w \in Workloads |-> Nil]
  /\ log = << >>

Ask(w, key) ==
  /\ asked' = [asked EXCEPT ![w] = @ \cup {key}]
  /\ UNCHANGED <<confirmed, log>>

Record(w, key, sig) ==
  /\ Foreign \/ (key \in asked[w] /\ sig = Digest(w, key))
  /\ log' = Append(log, [wl |-> w, key |-> key, sig |-> sig])
  /\ UNCHANGED <<asked, confirmed>>

Confirm(w, key) ==
  /\ key \in asked[w]
  /\ \E i \in 1..Len(log) : log[i] = [wl |-> w, key |-> key, sig |-> Digest(w, key)]
  /\ confirmed' = [confirmed EXCEPT ![w] = key]
  /\ UNCHANGED <<asked, log>>

Restart ==
  /\ confirmed' = [w \in Workloads |-> Nil]
  /\ UNCHANGED <<asked, log>>

Next ==
  \/ \E w \in Workloads, key \in Keys : Ask(w, key) \/ Confirm(w, key)
  \/ \E w \in Workloads, key \in Keys, sig \in Workloads \X Keys : Record(w, key, sig)
  \/ Restart

Spec == Init /\ [][Next]_vars
=============================================================================
