--------------------------- MODULE StartupProofs ----------------------------
(***************************************************************************)
(* What start-up validation establishes, for every template, layout of its *)
(* immutables, configuration and order of the steps.                       *)
(***************************************************************************)
EXTENDS Startup, TLAPS

-----------------------------------------------------------------------------
(***************************************************************************)
(* The address: what hexAddress lets through, HexToAddress leaves alone.   *)
(***************************************************************************)

LEMMA AllHex ==
  ASSUME NEW digits \in Seq(Nat), \A i \in DOMAIN digits : digits[i] \in Byte
  PROVE  hexPrefix(digits) = Len(digits)
<1> DEFINE P(n) == /\ \A i \in 1..n : digits[i] \in Byte
                   /\ n < Len(digits) => digits[n + 1] \notin Byte
<1>1. Len(digits) \in Nat /\ DOMAIN digits = 1..Len(digits)
  OBVIOUS
<1>2. Len(digits) \in 0..Len(digits) /\ P(Len(digits))
  BY <1>1
<1>3. hexPrefix(digits) \in 0..Len(digits) /\ P(hexPrefix(digits))
  <2>1. hexPrefix(digits) = CHOOSE n \in 0..Len(digits) : P(n)
    BY ZenonT(60) DEF hexPrefix
  <2>2. \E n \in 0..Len(digits) : P(n)
    BY <1>2
  <2> HIDE DEF P
  <2> QED
    BY <2>1, <2>2, ZenonT(60)
<1>4. ASSUME hexPrefix(digits) < Len(digits) PROVE FALSE
  <2>1. hexPrefix(digits) + 1 \in DOMAIN digits
    BY <1>1, <1>3, <1>4
  <2> QED
    BY <1>3, <1>4, <2>1
<1> QED
  BY <1>1, <1>3, <1>4

LEMMA HexAddressIsDigits ==
  ASSUME NEW s, s.digits \in Seq(Nat), hexAddress(s)
  PROVE  HexToAddress(s) = s.digits /\ HexToAddress(s) \in Address
<1>1. PICK digits \in Seq(Nat) : digits = s.digits
  OBVIOUS
<1>2. Len(digits) = AddressLength /\ \A i \in DOMAIN digits : digits[i] \in Byte
  BY <1>1, ZenonT(60) DEF hexAddress
<1>3. AddressLength \in Nat
  BY StartupAssumption
<1>4. hexPrefix(digits) = AddressLength
  BY <1>2, AllHex, ZenonT(60)
<1>5. HexToAddress(s) =
        [i \in 1..AddressLength |->
           IF AddressLength - AddressLength + i >= 1 THEN digits[AddressLength - AddressLength + i] ELSE 0]
  BY <1>1, <1>4, ZenonT(60) DEF HexToAddress
<1>6. HexToAddress(s) = [i \in 1..AddressLength |-> digits[i]]
  BY <1>3, <1>5
<1>7. digits = [i \in 1..AddressLength |-> digits[i]]
  BY <1>2
<1>8. \A i \in 1..AddressLength : digits[i] \in Byte
  BY <1>2
<1> QED
  BY <1>1, <1>6, <1>7, <1>8 DEF Address

-----------------------------------------------------------------------------
(***************************************************************************)
(* The code: the expected runtime is the template, with the publisher in   *)
(* every slot.                                                             *)
(***************************************************************************)

LEMMA SpliceRuns ==
  ASSUME NEW p, ExpectedRuntime(p) # Nil
  PROVE  runsRegistry(ExpectedRuntime(p))
<1>1. Template \in Seq(Byte)
  BY StartupAssumption
<1>2. Len(Template) \in Nat /\ DOMAIN Template = 1..Len(Template)
  BY <1>1
<1>3. ExpectedRuntime(p) = splice(p)
  BY ZenonT(60) DEF ExpectedRuntime
<1>4. Len(splice(p)) = Len(Template)
  BY <1>2 DEF splice
<1>5. ASSUME NEW i \in DOMAIN Template
      PROVE  splice(p)[i] = Template[i] \/ \E j \in DOMAIN Immutables : i \in positions(Immutables[j])
  BY <1>2, <1>5, ZenonT(60) DEF splice
<1> QED
  BY <1>3, <1>4, <1>5, ZenonT(60) DEF runsRegistry

LEMMA SpliceSlot ==
  ASSUME NEW p \in Address, ExpectedRuntime(p) # Nil, NEW j \in DOMAIN Immutables
  PROVE  slotAddress(ExpectedRuntime(p), Immutables[j]) = p
<1>1. Template \in Seq(Byte) /\ Immutables \in Seq([Start: Int, Length: Int]) /\ AddressLength \in Nat
  BY StartupAssumption
<1>2. Len(Template) \in Nat
  BY <1>1
<1>3. ExpectedRuntime(p) = splice(p) /\ fits(Immutables[j])
  BY ZenonT(60) DEF ExpectedRuntime
<1>4. PICK start \in Int, length \in Int : start = Immutables[j].Start /\ length = Immutables[j].Length
  <2>1. PICK Ref : Ref = [Start: Int, Length: Int]
    BY ZenonT(60)
  <2>2. Immutables \in Seq(Ref)
    BY <1>1, <2>1, ZenonT(60)
  <2>3. Immutables[j] \in Ref
    BY <2>2
  <2> QED
    BY <2>1, <2>3
<1>5. start >= 0 /\ length >= AddressLength /\ start + length <= Len(Template)
  BY <1>3, <1>4 DEF fits
<1>6. ASSUME NEW k \in 1..AddressLength
      PROVE  splice(p)[start + length - AddressLength + k] = p[k]
  <2>1. PICK i \in Int : i = start + length - AddressLength + k
    BY <1>1
  <2>2. i \in 1..Len(Template) /\ i \in (start + 1)..(start + length)
    BY <1>1, <1>2, <1>5, <2>1
  <2>3. i \in positions(Immutables[j])
    BY <1>4, <2>2, ZenonT(60) DEF positions
  <2>4. j = CHOOSE n \in DOMAIN Immutables : i \in positions(Immutables[n])
    BY <2>3, ImmutablesAssumption
  <2>5. splice(p)[i] = slotByte(Immutables[j], p, i)
    BY <2>2, <2>3, <2>4, ZenonT(60) DEF splice
  <2>6. i - (start + length - AddressLength) = k /\ k >= 1
    BY <1>1, <2>1
  <2>7. slotByte(Immutables[j], p, i) = p[k]
    BY <1>4, <2>6, ZenonT(60) DEF slotByte
  <2> QED
    BY <2>1, <2>5, <2>7, ZenonT(60)
<1>7. slotAddress(splice(p), Immutables[j]) =
        [k \in 1..AddressLength |-> splice(p)[start + length - AddressLength + k]]
  BY <1>4, ZenonT(60) DEF slotAddress
<1>8. p = [k \in 1..AddressLength |-> p[k]]
  BY DEF Address
<1> QED
  BY <1>3, <1>6, <1>7, <1>8, ZenonT(60)

-----------------------------------------------------------------------------
(***************************************************************************)
(* The invariant: what Validate has found out after each of its steps      *)
(* stays true.  The address it was given is the one written down; a        *)
(* contract's code, once there, does not change; nor does the network.     *)
(***************************************************************************)

AfterConfig == {"chainID", "code", "publisher", "valid", "ready"}
AfterChainID == {"code", "publisher", "valid", "ready"}
AfterCode == {"publisher", "valid", "ready"}
AfterPublisher == {"valid", "ready"}

OpFields == {"pc", "cfg", "requireSigner", "contract", "signer", "code", "publisher", "client"}

Bound ==
  /\ op.cfg.ContractAddress.prefix /\ op.contract = op.cfg.ContractAddress.digits
  /\ op.contract = HexToAddress(op.cfg.ContractAddress) /\ op.contract \in Address
  /\ op.requireSigner => op.signer = account[op.cfg.PrivateKey] /\ op.signer \in Address

StartupInv ==
  /\ code \in [Address -> Codes \cup {<< >>}]
  /\ op = [f \in OpFields |-> op[f]]
  /\ op.cfg \in Configs
  /\ op.requireSigner \in BOOLEAN
  /\ op.pc \in AfterConfig => Bound
  /\ op.pc \in AfterChainID => op.cfg.ChainID = chainID
  /\ op.pc \in AfterCode => op.code = code[op.contract] /\ op.code # << >>
  /\ op.pc \in AfterPublisher => matches(op.publisher)
  /\ op.pc = "ready" =>
       op.client = [address |-> op.contract,
                    auth |-> IF op.requireSigner
                             THEN [from |-> op.signer, chainID |-> op.cfg.ChainID] ELSE Nil]

LEMMA StartupInvInit == StartupInit => StartupInv
  BY DEF StartupInit, StartupInv, Starting, OpFields, AfterConfig, AfterChainID, AfterCode, AfterPublisher

\* ValidatedMeansIt is what the last stage amounts to.
LEMMA StartupInvMeansIt == StartupInv => ValidatedMeansIt
<1> SUFFICES ASSUME StartupInv, op.pc = "ready"
             PROVE  /\ op.cfg.ContractAddress.prefix /\ op.cfg.ContractAddress.digits = op.client.address
                    /\ op.cfg.ChainID = chainID
                    /\ runsRegistry(code[op.client.address])
                    /\ op.requireSigner =>
                         /\ op.client.auth.chainID = chainID
                         /\ \A j \in {Getter, Guard} :
                              slotAddress(code[op.client.address], Immutables[j]) = op.client.auth.from
  BY ZenonT(60) DEF ValidatedMeansIt
<1>1. /\ Bound /\ op.cfg.ChainID = chainID /\ op.code = code[op.contract] /\ op.code # << >>
      /\ matches(op.publisher)
      /\ op.client = [address |-> op.contract,
                      auth |-> IF op.requireSigner
                               THEN [from |-> op.signer, chainID |-> op.cfg.ChainID] ELSE Nil]
      /\ code \in [Address -> Codes \cup {<< >>}]
  BY DEF StartupInv, AfterConfig, AfterChainID, AfterCode, AfterPublisher
<1>2. /\ op.client.address = op.contract
      /\ op.requireSigner => op.client.auth.from = op.signer /\ op.client.auth.chainID = chainID
  BY <1>1
<1>3. op.code = ExpectedRuntime(op.publisher) /\ ExpectedRuntime(op.publisher) # Nil
  <2>1. op.code = ExpectedRuntime(op.publisher)
    BY <1>1, ZenonT(60) DEF matches
  <2>2. op.code \in Codes \cup {<< >>}
    BY <1>1 DEF Bound
  <2> QED
    BY <2>1, <2>2, StartupAssumption, ZenonT(60)
<1>4. runsRegistry(code[op.client.address])
  BY <1>1, <1>2, <1>3, SpliceRuns, ZenonT(60)
<1>5. ASSUME op.requireSigner, NEW j \in {Getter, Guard}
      PROVE  slotAddress(code[op.client.address], Immutables[j]) = op.client.auth.from
  <2>1. op.publisher = op.signer /\ op.publisher \in Address
    BY <1>1, <1>5, ZenonT(60) DEF matches, Bound
  <2>2. j \in DOMAIN Immutables
    BY <1>5, StartupAssumption
  <2>3. slotAddress(ExpectedRuntime(op.publisher), Immutables[j]) = op.publisher
    BY <1>3, <2>1, <2>2, SpliceSlot, ZenonT(60)
  <2> QED
    BY <1>1, <1>2, <1>3, <1>5, <2>1, <2>3, ZenonT(60)
<1> QED
  BY <1>1, <1>2, <1>4, <1>5, ZenonT(60) DEF Bound

LEMMA ParsedIsBound ==
  ASSUME NEW cfg \in Configs, ValidateConfig(cfg)
  PROVE  LET a == ParseAddress(cfg.ContractAddress) IN
         /\ cfg.ContractAddress.prefix /\ a = cfg.ContractAddress.digits
         /\ a = HexToAddress(cfg.ContractAddress) /\ a \in Address
<1>1. hexAddress(cfg.ContractAddress)
      /\ ParseAddress(cfg.ContractAddress) = HexToAddress(cfg.ContractAddress)
  BY ZenonT(60) DEF ValidateConfig, ParseAddress
<1>2. cfg.ContractAddress.digits \in Seq(Nat)
  BY StartupAssumption
<1>3. HexToAddress(cfg.ContractAddress) = cfg.ContractAddress.digits
      /\ HexToAddress(cfg.ContractAddress) \in Address
  BY <1>1, <1>2, HexAddressIsDigits
<1>4. cfg.ContractAddress.prefix
  BY <1>1, ZenonT(60) DEF hexAddress
<1> QED
  BY <1>1, <1>3, <1>4, ZenonT(60)

\* A step of the process that goes from one stage to another and keeps the
\* rest of op, or fails.
LEMMA StartupInvNext == StartupInv /\ [StartupNext]_startupVars => StartupInv'
<1> SUFFICES ASSUME StartupInv, [StartupNext]_startupVars PROVE StartupInv'
  OBVIOUS
<1> USE DEF AfterConfig, AfterChainID, AfterCode, AfterPublisher
<1>0. op = [f \in OpFields |-> op[f]] /\ OpFields = DOMAIN op
  BY DEF StartupInv
<1>f. ASSUME fail, UNCHANGED <<code, chainID>> PROVE StartupInv'
  BY <1>f, <1>0 DEF StartupInv, fail, OpFields
<1>1. CASE Deploy
  <2>1. PICK a \in Address, c \in Codes : code[a] = << >> /\ code' = [code EXCEPT ![a] = c]
    BY <1>1, ZenonT(60) DEF Deploy
  <2>2. UNCHANGED <<chainID, op>>
    BY <1>1 DEF Deploy
  <2>3. code' \in [Address -> Codes \cup {<< >>}]
    BY <2>1 DEF StartupInv
  <2>4. ASSUME op.pc \in AfterCode PROVE code'[op.contract] = code[op.contract]
    BY <2>1, <2>4 DEF StartupInv, Bound
  <2>5. Bound' = Bound /\ matches(op.publisher)' = matches(op.publisher)
    BY <2>2 DEF Bound, matches
  <2> QED
    BY <2>2, <2>3, <2>4, <2>5 DEF StartupInv
<1>2. CASE CheckConfig
  <2>1. CASE ValidateConfig(op.cfg) /\ (op.requireSigner => op.cfg.PrivateKey # "")
    <3>1. op' = [op EXCEPT !.pc = "chainID", !.contract = ParseAddress(op.cfg.ContractAddress),
                           !.signer = IF op.cfg.PrivateKey = "" THEN zeroAddress
                                      ELSE account[op.cfg.PrivateKey]]
      BY <1>2, <2>1, ZenonT(60) DEF CheckConfig
    <3>2. /\ op'.pc = "chainID" /\ op'.cfg = op.cfg /\ op'.requireSigner = op.requireSigner
          /\ op'.contract = ParseAddress(op.cfg.ContractAddress)
          /\ op.requireSigner => op'.signer = account[op.cfg.PrivateKey]
          /\ op' = [f \in OpFields |-> op'[f]]
      BY <1>0, <2>1, <3>1, ZenonT(60) DEF OpFields
    <3>3. op.requireSigner => account[op.cfg.PrivateKey] \in Address
      BY <2>1, StartupAssumption, ZenonT(60) DEF ValidateConfig, validKey
    <3>4. op.cfg \in Configs
      BY DEF StartupInv
    <3>5. Bound'
      BY <2>1, <3>2, <3>3, <3>4, ParsedIsBound, ZenonT(60) DEF Bound
    <3>6. UNCHANGED code
      BY <1>2, ZenonT(60) DEF CheckConfig
    <3> QED
      BY <3>2, <3>5, <3>6 DEF StartupInv
  <2>2. CASE ~ (ValidateConfig(op.cfg) /\ (op.requireSigner => op.cfg.PrivateKey # ""))
    BY <1>2, <1>f, <2>2, ZenonT(60) DEF CheckConfig
  <2> QED
    BY <2>1, <2>2, ZenonT(60)
<1>3. CASE CheckChainID
  <2>1. CASE fail
    BY <1>3, <1>f, <2>1 DEF CheckChainID
  <2>2. CASE chainID = op.cfg.ChainID /\ op' = [op EXCEPT !.pc = "code"]
    BY <1>0, <1>3, <2>2 DEF CheckChainID, StartupInv, OpFields, Bound
  <2> QED
    BY <1>3, <2>1, <2>2, ZenonT(60) DEF CheckChainID, Unanswered
<1>4. CASE ReadCode
  <2>1. CASE fail
    BY <1>4, <1>f, <2>1 DEF ReadCode
  <2>2. CASE /\ code[op.contract] # << >>
             /\ op' = [op EXCEPT !.pc = "publisher", !.code = code[op.contract]]
    BY <1>0, <1>4, <2>2, ZenonT(60) DEF ReadCode, StartupInv, OpFields, Bound
  <2> QED
    BY <1>4, <2>1, <2>2, ZenonT(60) DEF ReadCode, Unanswered
<1>5. CASE readPublisher
  <2>1. CASE fail
    BY <1>5, <1>f, <2>1, ZenonT(60) DEF readPublisher
  <2>2. CASE \E publisher : /\ matches(publisher)
                            /\ op' = [op EXCEPT !.pc = "valid", !.publisher = publisher]
    <3>1. PICK publisher : /\ matches(publisher)
                           /\ op' = [op EXCEPT !.pc = "valid", !.publisher = publisher]
      BY <2>2, ZenonT(60)
    <3>2. /\ op'.pc = "valid" /\ op'.cfg = op.cfg /\ op'.requireSigner = op.requireSigner
          /\ op'.contract = op.contract /\ op'.signer = op.signer /\ op'.code = op.code
          /\ op'.publisher = publisher /\ op' = [f \in OpFields |-> op'[f]]
      BY <1>0, <3>1, ZenonT(60) DEF OpFields
    <3>3. matches(op.publisher)'
      BY <3>1, <3>2 DEF matches
    <3>4. UNCHANGED <<code, chainID>> /\ op.pc = "publisher"
      BY <1>5, ZenonT(60) DEF readPublisher
    <3> QED
      BY <3>2, <3>3, <3>4 DEF StartupInv, Bound
  <2> QED
    BY <1>5, <2>1, <2>2, ZenonT(60) DEF readPublisher, Unanswered
<1>6. CASE NewClient
  <2>1. CASE fail
    BY <1>6, <1>f, <2>1 DEF NewClient
  <2>2. CASE op' = [op EXCEPT !.pc = "ready", !.client =
                    [address |-> HexToAddress(op.cfg.ContractAddress),
                     auth |-> IF op.requireSigner
                              THEN [from |-> account[op.cfg.PrivateKey], chainID |-> op.cfg.ChainID]
                              ELSE Nil]]
    <3>1. /\ op'.pc = "ready" /\ op'.cfg = op.cfg /\ op'.requireSigner = op.requireSigner
          /\ op'.contract = op.contract /\ op'.signer = op.signer /\ op'.code = op.code
          /\ op'.publisher = op.publisher /\ op' = [f \in OpFields |-> op'[f]]
          /\ op'.client = [address |-> HexToAddress(op.cfg.ContractAddress),
                           auth |-> IF op.requireSigner
                                    THEN [from |-> account[op.cfg.PrivateKey], chainID |-> op.cfg.ChainID]
                                    ELSE Nil]
      BY <1>0, <2>2, ZenonT(60) DEF OpFields
    <3>2. UNCHANGED <<code, chainID>> /\ op.pc = "valid"
      BY <1>6 DEF NewClient
    <3>3. matches(op.publisher)'
      BY <3>1, <3>2 DEF StartupInv, matches
    <3> QED
      BY <3>1, <3>2, <3>3 DEF StartupInv, Bound
  <2> QED
    BY <1>6, <2>1, <2>2, ZenonT(60) DEF NewClient, Unanswered
<1>7. CASE Restart
  BY <1>7 DEF Restart, Starting, StartupInv, OpFields
<1>8. CASE UNCHANGED startupVars
  BY <1>8 DEF startupVars, StartupInv, Bound, matches
<1> QED
  BY <1>1, <1>2, <1>3, <1>4, <1>5, <1>6, <1>7, <1>8 DEF StartupNext, Process

\* Whoever has passed Validate (validate.go) and built a client with the same
\* configuration (client_v2.go: NewWriterV2) talks to the registry of this
\* build, at the address as written and with the account it lets publish,
\* whatever was deployed, failed or was started again meanwhile.
THEOREM ValidatedMeansItThm == StartupSpec => []ValidatedMeansIt
  BY StartupInvInit, StartupInvNext, StartupInvMeansIt, PTL DEF StartupSpec
=============================================================================
