--------------------------- MODULE ChainClientV2 ----------------------------
(***************************************************************************)
(* internal/chain/client_v2.go: the client through which the publisher     *)
(* reads the registry, builds a transaction, sends it and learns its fate. *)
(***************************************************************************)
EXTENDS EvmNode

\* Prepare refuses version 0 and an empty signature; every other failure is a
\* failed RPC.
prepareRefuses(key, sig) == Version[key] = 0 \/ sig = NoSig

\* Mutant: the client may count a transaction that never reached the node.
prepareSkipsNonce(w, key, sig, seq) ==
  {[nonce |-> n + gap, wl |-> w, key |-> key, sig |-> sig, seq |-> seq] :
     n \in pendingNonce, gap \in 0..1}

\* Prepare: sign, at the account's pending nonce, a call of publish.  Nothing
\* is sent, so the node does not learn of it.
Prepare(w, key, sig, seq) ==
  {[nonce |-> n, wl |-> w, key |-> key, sig |-> sig, seq |-> seq] : n \in pendingNonce}

\* Send: hand the same bytes to the node.
Send(t) == receive(t)

\* Mutant: any receipt is a success.
waitIgnoresStatus(t) == IF t \in landed \cup reverted THEN "MinedSuccess" ELSE "Unknown"

\* Wait: the receipt, if there is one, decides.
Wait(t) ==
  CASE t \in landed   -> "MinedSuccess"
    [] t \in reverted -> "Reverted"
    [] OTHER          -> "Unknown"

\* LatestAttestation.
LatestAttestation(w) == getLatest(w)
=============================================================================
