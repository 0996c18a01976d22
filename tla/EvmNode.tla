------------------------------ MODULE EvmNode -------------------------------
(***************************************************************************)
(* EXTERNAL.  The Ethereum node the operator talks to, as far as           *)
(* internal/chain uses it: the publisher account's nonce, the transaction  *)
(* pool, and the receipts.  Every transaction here is a call of publish    *)
(* from the publisher account.                                             *)
(*                                                                         *)
(* The node takes at most one pooled transaction per nonce, mines an       *)
(* account's transactions strictly in nonce order, and offers as pending   *)
(* nonce the first one that no executable pooled transaction occupies.     *)
(***************************************************************************)
EXTENDS RegistryV2, FiniteSets

VARIABLES
  nonce,       \* the account's nonce: transactions mined so far
  pool,        \* transactions the node holds and has not mined
  landed,      \* transactions with a receipt of status 1
  reverted     \* transactions with a receipt of status 0

nodeVars == <<nonce, pool, landed, reverted>>

\* A transaction.  seq is the number of the desired revision it was built
\* for, 0 when something other than the operator built it: the publisher
\* keeps that association, the bytes on the wire do not carry it.
Tx == [nonce: Nat, wl: Workloads, key: Keys, sig: Sigs, seq: Nat]

NodeTypeOK ==
  /\ nonce \in Nat
  /\ pool \subseteq Tx
  /\ landed \subseteq Tx
  /\ reverted \subseteq Tx

NodeInit ==
  /\ nonce = 0
  /\ pool = {}
  /\ landed = {}
  /\ reverted = {}

\* eth_getTransactionCount(account, "pending").
pendingNonce ==
  {n \in nonce..(nonce + Cardinality(pool)) :
     /\ \A m \in nonce..(n - 1) : \E t \in pool : t.nonce = m
     /\ \A t \in pool : t.nonce # n}

\* eth_sendRawTransaction reaches the node.  It takes t, possibly in place of
\* a pooled transaction of the same nonce, unless the nonce is used; or it
\* answers "nonce too low", "already known" or "replacement underpriced" and
\* changes nothing.
receive(t) ==
  /\ \/ /\ t.nonce >= nonce
        /\ pool' = {u \in pool : u.nonce # t.nonce} \cup {t}
     \/ /\ t.nonce < nonce \/ \E u \in pool : u.nonce = t.nonce
        /\ UNCHANGED pool
  /\ UNCHANGED <<nonce, landed, reverted>>

\* t is the account's next transaction, and a block takes it from the pool.
include(t) ==
  /\ t \in pool
  /\ t.nonce = nonce
  /\ nonce' = nonce + 1
  /\ pool' = pool \ {t}

\* A block includes t and the contract accepts the call.
mineSuccess(t) ==
  /\ include(t)
  /\ publish(Publisher, t.wl, t.key, t.sig)
  /\ landed' = landed \cup {t}
  /\ UNCHANGED reverted

\* A block includes t and the call fails: the contract's guards, or the gas
\* estimated when it was built no longer suffices.
mineReverted(t) ==
  /\ include(t)
  /\ reverted' = reverted \cup {t}
  /\ UNCHANGED <<landed, registryVars>>

\* The pool drops a transaction it holds (underpriced, or the pool is full).
evict(t) ==
  /\ t \in pool
  /\ pool' = pool \ {t}
  /\ UNCHANGED <<nonce, landed, reverted>>
=============================================================================
