------------------------------ MODULE Startup -------------------------------
(***************************************************************************)
(* Start-up validation: src/internal/chain/validate.go against the pinned  *)
(* runtime of registry_v2_runtime.go, then the constructors of client_v2.go*)
(* with the same configuration.  Each RPC is a step, so a contract may be  *)
(* deployed between two of them; a process that fails is started again.    *)
(*                                                                         *)
(* An address is a sequence of bytes, and an address as written is its     *)
(* digits, a byte for every two of them, with or without the prefix 0x.    *)
(***************************************************************************)
EXTENDS Integers, Sequences, FiniteSets

CONSTANTS
  Byte,             \* the bytes in use, with 0
  AddressLength,    \* 20 in the code
  Template,         \* RegistryV2DeployedTemplate
  Immutables,       \* RegistryV2PublisherImmutables
  Getter, Guard,    \* which of them publisher() returns, and onlyPublisher compares
  PrivateKeys,      \* the well-formed private keys
  account,          \* the address of each
  Configs,          \* the configurations in use
  Codes,            \* the contracts that may get deployed
  ChainIDs,         \* the networks an RPC node may serve
  MaxOutages,       \* bound: RPCs that fail
  MaxContracts,     \* bound: contracts that get deployed
  Nil               \* no value, an error

Address == [1..AddressLength -> Byte]
zeroAddress == [i \in 1..AddressLength |-> 0]

\* The byte positions of an immutable; offsets count from 0.
positions(ref) == (ref.Start + 1)..(ref.Start + ref.Length)

ASSUME StartupAssumption ==
  /\ Byte \subseteq Nat /\ 0 \in Byte
  /\ AddressLength \in Nat \ {0}
  /\ Template \in Seq(Byte)
  /\ Immutables \in Seq([Start: Int, Length: Int])
  /\ Getter \in DOMAIN Immutables /\ Guard \in DOMAIN Immutables
  /\ account \in [PrivateKeys -> Address]
  /\ Codes \subseteq Seq(Byte)
  /\ Nil \notin Codes \cup {<< >>} /\ Nil \notin Address
  /\ \A cfg \in Configs : cfg.ContractAddress.prefix \in BOOLEAN /\ cfg.ContractAddress.digits \in Seq(Nat)

\* The compiler gives every site that reads the immutable bytes of its own.
ASSUME ImmutablesAssumption ==
  \A i, j \in DOMAIN Immutables :
    i # j => positions(Immutables[i]) \cap positions(Immutables[j]) = {}

VARIABLES
  code,      \* the code at every address, << >> where there is none
  chainID,   \* the network behind the RPC URL
  op,        \* the process: what Validate and NewWriterV2 know so far
  outages    \* RPCs that failed

startupVars == <<code, chainID, op, outages>>

-----------------------------------------------------------------------------

\* How many of the digits are hexadecimal, from the first on.
hexPrefix(digits) ==
  CHOOSE n \in 0..Len(digits) :
    /\ \A i \in 1..n : digits[i] \in Byte
    /\ n < Len(digits) => digits[n + 1] \notin Byte

\* common.HexToAddress: decodes what it can, truncates a long string and
\* left-pads a short one.
HexToAddress(s) ==
  LET len == hexPrefix(s.digits)
  IN  [i \in 1..AddressLength |->
         IF len - AddressLength + i >= 1 THEN s.digits[len - AddressLength + i] ELSE 0]

hexAddress(s) == s.prefix /\ Len(s.digits) = AddressLength /\ \A i \in DOMAIN s.digits : s.digits[i] \in Byte

ParseAddress(s) ==
  IF hexAddress(s) /\ HexToAddress(s) # zeroAddress THEN HexToAddress(s) ELSE Nil

validURL(u) == u.scheme \in {"http", "https", "ws", "wss"} /\ u.host # ""

\* A key is one of PrivateKeys, "" when there is none, or malformed.
validKey(key) == key = "" \/ key \in PrivateKeys

ValidateConfig(cfg) ==
  /\ validURL(cfg.RPCURL)
  /\ ParseAddress(cfg.ContractAddress) # Nil
  /\ cfg.ChainID > 0
  /\ validKey(cfg.PrivateKey)

\* A bug: a slot may not end where the code ends.
fitsBelow(ref) == ref.Start >= 0 /\ ref.Length >= AddressLength /\ ref.Start + ref.Length < Len(Template)

fits(ref) == ref.Start >= 0 /\ ref.Length >= AddressLength /\ ref.Start + ref.Length <= Len(Template)

\* The byte of an address at a position of the slot, zero in the high bytes.
slotByte(ref, address, i) ==
  LET k == i - (ref.Start + ref.Length - AddressLength) IN IF k >= 1 THEN address[k] ELSE 0

\* A bug: only the first immutable is spliced.
spliceFirst(publisher) ==
  [i \in 1..Len(Template) |->
     IF i \in positions(Immutables[1]) THEN slotByte(Immutables[1], publisher, i) ELSE Template[i]]

splice(publisher) ==
  [i \in 1..Len(Template) |->
     IF \E j \in DOMAIN Immutables : i \in positions(Immutables[j])
     THEN slotByte(Immutables[CHOOSE j \in DOMAIN Immutables : i \in positions(Immutables[j])], publisher, i)
     ELSE Template[i]]

ExpectedRuntime(publisher) ==
  IF \A j \in DOMAIN Immutables : fits(Immutables[j]) THEN splice(publisher) ELSE Nil

-----------------------------------------------------------------------------
(***************************************************************************)
(* The contract.  Code that is the template apart from its immutables runs *)
(* as the registry does; any other code may answer anything.               *)
(***************************************************************************)

runsRegistry(c) ==
  /\ Len(c) = Len(Template)
  /\ \A i \in DOMAIN Template :
       c[i] = Template[i] \/ \E j \in DOMAIN Immutables : i \in positions(Immutables[j])

\* The address an immutable holds.
slotAddress(c, ref) ==
  [k \in 1..AddressLength |-> c[ref.Start + ref.Length - AddressLength + k]]

answers(c) == IF runsRegistry(c) THEN {slotAddress(c, Immutables[Getter])} ELSE Address \cup {Nil}

Deploy ==
  \E a \in Address, c \in Codes :
    /\ code[a] = << >>
    /\ Cardinality({b \in Address : code[b] # << >>}) < MaxContracts
    /\ code' = [code EXCEPT ![a] = c]
    /\ UNCHANGED <<chainID, op, outages>>

-----------------------------------------------------------------------------

Starting(cfg, requireSigner) ==
  [pc |-> "config", cfg |-> cfg, requireSigner |-> requireSigner, contract |-> Nil,
   signer |-> Nil, code |-> << >>, publisher |-> Nil, client |-> Nil]

StartupInit ==
  /\ code = [a \in Address |-> << >>]
  /\ chainID \in ChainIDs
  /\ outages = 0
  /\ \E cfg \in Configs, requireSigner \in BOOLEAN : op = Starting(cfg, requireSigner)

fail == op' = [op EXCEPT !.pc = "failed"]

\* An RPC answers, or fails within the time Validate has.
Answered == UNCHANGED outages
Unanswered == outages < MaxOutages /\ outages' = outages + 1 /\ fail

CheckConfig ==
  /\ op.pc = "config"
  /\ IF /\ ValidateConfig(op.cfg)
        /\ op.requireSigner => op.cfg.PrivateKey # ""
     THEN op' = [op EXCEPT !.pc = "chainID", !.contract = ParseAddress(op.cfg.ContractAddress),
                           !.signer = IF op.cfg.PrivateKey = "" THEN zeroAddress
                                      ELSE account[op.cfg.PrivateKey]]
     ELSE fail
  /\ UNCHANGED <<code, chainID, outages>>

CheckChainID ==
  /\ op.pc = "chainID"
  /\ \/ /\ Answered
        /\ IF chainID = op.cfg.ChainID THEN op' = [op EXCEPT !.pc = "code"] ELSE fail
     \/ Unanswered
  /\ UNCHANGED <<code, chainID>>

ReadCode ==
  /\ op.pc = "code"
  /\ \/ /\ Answered
        /\ IF code[op.contract] # << >>
           THEN op' = [op EXCEPT !.pc = "publisher", !.code = code[op.contract]]
           ELSE fail
     \/ Unanswered
  /\ UNCHANGED <<code, chainID>>

\* readPublisher, the comparison of the code, and the writer's rule.
matches(publisher) ==
  /\ publisher # Nil
  /\ op.code = ExpectedRuntime(publisher)
  /\ op.requireSigner => publisher = op.signer

readPublisher ==
  /\ op.pc = "publisher"
  /\ \/ /\ Answered
        /\ \E publisher \in answers(code[op.contract]) :
             IF matches(publisher)
             THEN op' = [op EXCEPT !.pc = "valid", !.publisher = publisher]
             ELSE fail
     \/ Unanswered
  /\ UNCHANGED <<code, chainID>>

\* NewWriterV2, or NewReaderV2 where nothing is to be signed; either dials again.
NewClient ==
  /\ op.pc = "valid"
  /\ \/ /\ Answered
        /\ op' = [op EXCEPT !.pc = "ready", !.client =
                    [address |-> HexToAddress(op.cfg.ContractAddress),
                     auth |-> IF op.requireSigner
                              THEN [from |-> account[op.cfg.PrivateKey], chainID |-> op.cfg.ChainID]
                              ELSE Nil]]
     \/ Unanswered
  /\ UNCHANGED <<code, chainID>>

\* The crash loop: the process is started again with its configuration.
Restart ==
  /\ op.pc = "failed"
  /\ op' = Starting(op.cfg, op.requireSigner)
  /\ UNCHANGED <<code, chainID, outages>>

Process == CheckConfig \/ CheckChainID \/ ReadCode \/ readPublisher \/ NewClient \/ Restart

StartupNext == Deploy \/ Process

StartupSpec == StartupInit /\ [][StartupNext]_startupVars

-----------------------------------------------------------------------------

\* Whoever has passed Validate talks to what the configuration says: the
\* client is bound to the address as written, the network is the configured
\* one, that address runs the registry of this build, and a writer signs for
\* that network with the account that both publisher() returns and
\* onlyPublisher lets through.
ValidatedMeansIt ==
  op.pc = "ready" =>
    /\ op.cfg.ContractAddress.prefix /\ op.cfg.ContractAddress.digits = op.client.address
    /\ op.cfg.ChainID = chainID
    /\ runsRegistry(code[op.client.address])
    /\ op.requireSigner =>
         /\ op.client.auth.chainID = chainID
         /\ \A j \in {Getter, Guard} :
              slotAddress(code[op.client.address], Immutables[j]) = op.client.auth.from

\* The code is what the constructor leaves behind for publisher p.
RegistryOf(c, p) ==
  /\ runsRegistry(c)
  /\ \A j \in DOMAIN Immutables :
       /\ slotAddress(c, Immutables[j]) = p
       /\ \A i \in 1..(Immutables[j].Length - AddressLength) : c[Immutables[j].Start + i] = 0

\* The configuration is right for the contract that is deployed.
Right ==
  LET a == op.cfg.ContractAddress.digits IN
  /\ validURL(op.cfg.RPCURL)
  /\ op.cfg.ContractAddress.prefix /\ a \in Address \ {zeroAddress}
  /\ op.cfg.ChainID = chainID
  /\ op.cfg.PrivateKey \in PrivateKeys \/ (op.cfg.PrivateKey = "" /\ ~ op.requireSigner)
  /\ \E p \in Address :
       RegistryOf(code[a], p) /\ (op.requireSigner => account[op.cfg.PrivateKey] = p)

\* Validate refuses nothing that is right: once the configuration fits the
\* deployed contract, the crash loop ends with a working client.
RightConfigStarts == Right ~> op.pc = "ready"
=============================================================================
