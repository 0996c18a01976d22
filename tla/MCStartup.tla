----------------------------- MODULE MCStartup ------------------------------
(***************************************************************************)
(* Bounds for Startup, and the contract called by anyone with anything     *)
(* once the operator is up.  An address is one byte; the runtime has two   *)
(* slots of two bytes.                                                     *)
(***************************************************************************)
EXTENDS Startup, RegistryV2

CONSTANTS MaxEvents,   \* bound: successful calls
          k1, k2       \* private keys

MCTemplate == <<1, 0, 0, 2, 0, 0>>
MCImmutables == <<[Start |-> 1, Length |-> 2], [Start |-> 4, Length |-> 2]>>
MCPublisher == <<1>>
MCaccount == [k \in {k1, k2} |-> IF k = k1 THEN <<1>> ELSE <<2>>]

\* The registry of either account, with its slots at odds, not zero-padded or unset,
\* another build, another contract.
MCCodes ==
  {<<1, 0, 1, 2, 0, 1>>, <<1, 0, 2, 2, 0, 2>>, <<1, 0, 1, 2, 0, 2>>, <<1, 0, 2, 2, 0, 1>>,
   <<1, 1, 1, 2, 0, 1>>, <<1, 0, 1, 2, 0, 0>>, <<1, 0, 1, 1, 0, 1>>, <<1, 0, 1>>}

written(prefix, digits) == [prefix |-> prefix, digits |-> digits]
notHex == 16

MCConfigs ==
  [RPCURL: {[scheme |-> "", host |-> ""], [scheme |-> "https", host |-> ""],
            [scheme |-> "ftp", host |-> "node"], [scheme |-> "wss", host |-> "node"]},
   ContractAddress:
     {written(TRUE, <<1>>), written(TRUE, <<2>>), written(FALSE, <<1>>), written(TRUE, <<0>>),
      written(TRUE, << >>), written(TRUE, <<2, 1>>), written(TRUE, <<notHex>>), written(TRUE, <<1, notHex>>)},
   ChainID: {0, 1, 2},
   PrivateKey: {"", "malformed", k1, k2}]

\* Keys are numbers, and key 1 has protocol version 0.
MCVersion == [k \in Keys \cup {ZeroKey} |-> IF k \in {ZeroKey, 1} THEN 0 ELSE k]

\* A call of the contract the operator is bound to, when it is Publisher's; one
\* that reverts changes nothing, so only the others are steps.
Call ==
  /\ op.pc = "ready" /\ slotAddress(code[op.client.address], Immutables[Guard]) = Publisher
  /\ Len(events) < MaxEvents
  /\ \E sender \in Accounts, w \in Workloads, key \in Keys, sig \in Sigs \cup {NoSig} :
       publish(sender, w, key, sig)
  /\ UNCHANGED startupVars

Init == StartupInit /\ RegistryInit
Next == Call \/ (StartupNext /\ UNCHANGED registryVars)
MCvars == <<startupVars, registryVars>>

Spec == Init /\ [][Next]_MCvars /\ WF_startupVars(Process)
=============================================================================
