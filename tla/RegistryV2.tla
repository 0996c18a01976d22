----------------------------- MODULE RegistryV2 -----------------------------
(***************************************************************************)
(* contracts/AttestationRegistryV2.sol: a latest-only registry that one    *)
(* immutable account may write, and that logs an event for every write.    *)
(*                                                                         *)
(* Abstractions.  A key stands for the four fields hashVersion,            *)
(* configHash, incarnation and signerFingerprint, which the operator only  *)
(* ever compares together; Version gives its hashVersion.  A signature is  *)
(* the digest it verifies for, a pair <<workload, key>>, because that is   *)
(* all a verifier learns from it; the zero-length signature is NoSig.  The *)
(* block timestamp, which nothing compares, is left out.                   *)
(***************************************************************************)
EXTENDS Naturals, Sequences

CONSTANTS
  Workloads,   \* the workload identifiers in use
  Keys,        \* the revision keys in use
  ZeroKey,     \* the all-zero key an unset struct reads back as
  Version,     \* the hashVersion of every key
  Accounts,    \* the accounts that may call the contract
  Publisher    \* the account the contract was deployed for

ASSUME RegistryAssumption ==
  /\ ZeroKey \notin Keys
  /\ Version \in [Keys \cup {ZeroKey} -> Nat]
  /\ Version[ZeroKey] = 0
  /\ Publisher \in Accounts

VARIABLES
  latest,      \* the contract's mapping: workload -> attestation
  events       \* the AttestationPublished log, oldest first

registryVars == <<latest, events>>

NoSig == << >>
Sigs == Workloads \X Keys
Attestation == [exists: BOOLEAN, key: Keys \cup {ZeroKey}, sig: Sigs \cup {NoSig}]
Event == [wl: Workloads, key: Keys, sig: Sigs]
Unset == [exists |-> FALSE, key |-> ZeroKey, sig |-> NoSig]

RegistryTypeOK ==
  /\ latest \in [Workloads -> Attestation]
  /\ events \in Seq(Event)

RegistryInit ==
  /\ latest = [w \in Workloads |-> Unset]
  /\ events = << >>

\* Mutant: the version guard is missing.
acceptsAnyVersion(sender, key, sig) == sender = Publisher /\ sig # NoSig

\* The call does not revert: onlyPublisher, then the two guards of publish.
accepts(sender, key, sig) ==
  /\ sender = Publisher
  /\ Version[key] # 0
  /\ sig # NoSig

\* Mutant: the event is not emitted when a record is overwritten.
publishLogsOnlyFirst(sender, w, key, sig) ==
  /\ accepts(sender, key, sig)
  /\ latest' = [latest EXCEPT ![w] = [exists |-> TRUE, key |-> key, sig |-> sig]]
  /\ events' = IF latest[w].exists
               THEN events
               ELSE Append(events, [wl |-> w, key |-> key, sig |-> sig])

\* publish: overwrite the record of w and log the event.
publish(sender, w, key, sig) ==
  /\ accepts(sender, key, sig)
  /\ latest' = [latest EXCEPT ![w] = [exists |-> TRUE, key |-> key, sig |-> sig]]
  /\ events' = Append(events, [wl |-> w, key |-> key, sig |-> sig])

\* getLatest: every field of an unset record reads as zero.
getLatest(w) == latest[w]

-----------------------------------------------------------------------------
(***************************************************************************)
(* Properties.                                                             *)
(***************************************************************************)

\* "Never published" can be told from the record alone: publish refuses
\* version 0, so a record has version 0 exactly when it does not exist.
UnsetIsVersionZero ==
  \A w \in Workloads : Version[getLatest(w).key] = 0 <=> ~ getLatest(w).exists

\* The log makes up for latest-only storage: publish emits all that it
\* stores, so the last event of a workload is its record, and a workload
\* without events has none.
LogReconstructsLatest ==
  \A w \in Workloads :
    LET mine == {i \in 1..Len(events) : events[i].wl = w} IN
    \/ mine = {} /\ getLatest(w) = Unset
    \/ \E i \in mine :
         /\ \A j \in mine : j <= i
         /\ getLatest(w) = [exists |-> TRUE, key |-> events[i].key, sig |-> events[i].sig]
=============================================================================
