---------------------------- MODULE UpgradeProofs ----------------------------
(***************************************************************************)
(* What the upgrade script achieves and preserves, for any libraries,      *)
(* contracts and markets, any number of runs and versions, and whatever    *)
(* arguments the runs are given.                                           *)
(***************************************************************************)
EXTENDS Upgrade, SubmissionProofs

PartName == Library \cup Contract \cup Markets

\* One name is a sequence of names of parts, if it is not the markets' logic.
LEMMA OneType ==
  ASSUME NEW n, n # "CashMarket"
  PROVE  One(n) \in Seq(PartName)
<1>1. CASE n \in Name
  <2>1. n \in PartName
    BY <1>1 DEF Name, PartName
  <2>2. <<n>> \in Seq(PartName)
    BY <2>1
  <2> QED BY <1>1, <2>2 DEF One
<1>2. CASE n \notin Name
  <2>1. << >> \in Seq(PartName)
    OBVIOUS
  <2> QED BY <1>2, <2>1 DEF One
<1> QED BY <1>1, <1>2

\* Every part of the program has a name, and every market is a part.
LEMMA ProgramParts ==
  /\ Program \in Seq(PartName)
  /\ \A m \in Markets : \E i \in DOMAIN Program : Program[i] = m
<1> DEFINE Before == One("Liquidation") \o One("RiskFramework")
                     \o One("Escrow") \o One("ERC1155Token")
                     \o One("ERC1155Trade") \o One("Portfolios")
<1>1. Before \in Seq(PartName)
  <2>1. /\ One("Liquidation") \in Seq(PartName)
        /\ One("RiskFramework") \in Seq(PartName)
        /\ One("Escrow") \in Seq(PartName)
        /\ One("ERC1155Token") \in Seq(PartName)
        /\ One("ERC1155Trade") \in Seq(PartName)
        /\ One("Portfolios") \in Seq(PartName)
    BY OneType
  <2> QED BY <2>1
<1>2. Market \in Seq(PartName)
  BY MarketAssumption DEF PartName
<1>3. Program = Before \o Market
  BY DEF Program
<1> HIDE DEF Before
<1>4. Program \in Seq(PartName)
  BY <1>1, <1>2, <1>3
<1>5. ASSUME NEW m \in Markets
      PROVE  \E i \in DOMAIN Program : Program[i] = m
  <2>1. PICK j \in DOMAIN Market : Market[j] = m
    BY DEF Markets
  <2>2. /\ Len(Before) + j \in DOMAIN Program
        /\ Program[Len(Before) + j] = m
    BY <1>1, <1>2, <1>3, <2>1
  <2> QED BY <2>2
<1> QED BY <1>4, <1>5

\* The bytecode of libraries and of the markets' logic is not linked.
LEMMA Links ==
  /\ \A n : LinkedWith(n) \subseteq Library
  /\ \A n \in Library : LinkedWith(n) = {}
  /\ LinkedWith("CashMarket") = {}
<1>1. ASSUME NEW n PROVE LinkedWith(n) \subseteq Library
  BY DEF LinkedWith
<1>2. ASSUME NEW n \in Library PROVE LinkedWith(n) = {}
  BY UpgradeAssumption DEF LinkedWith
<1>3. LinkedWith("CashMarket") = {}
  BY DEF LinkedWith
<1> QED BY <1>1, <1>2, <1>3

\* What is built and linked is a bytecode.
LEMMA BytecodeType ==
  ASSUME NEW n \in Name, build \in [Name -> 1..MaxVersions],
         NEW libraries \in [Library -> Address]
  PROVE  Bytecode(n, libraries) \in Bytecodes
<1>1. {libraries[l] : l \in LinkedWith(n)} \in SUBSET Address
  BY Links
<1>2. n \in {"Liquidation", "RiskFramework", "CashMarket", "Escrow",
             "Portfolios", "ERC1155Token", "ERC1155Trade"}
  BY UpgradeAssumption DEF Name
<1>3. build[n] \in 1..MaxVersions
  OBVIOUS
<1> QED BY <1>1, <1>2, <1>3 DEF Bytecode, Bytecodes

\* The name of the bytecode of a part.
LEMMA LogicNames ==
  ASSUME NEW p \in PartName
  PROVE  /\ LogicName(p) \in Name
         /\ p \in Markets => LogicName(p) = "CashMarket"
         /\ p \notin Markets => LogicName(p) = p
         /\ p \in Library => p \notin Markets /\ p \notin Contract
         /\ p \in Contract => p \notin Markets
BY MarketAssumption, UpgradeAssumption DEF LogicName, PartName, Name
-----------------------------------------------------------------------------
UTypes ==
  /\ wallet \in [Run -> Wallet]
  /\ run \in 0..MaxRuns
  /\ phase \in Phase
  /\ phase # "down" => run \in Run
  /\ pending \in [Run -> Calls \cup {NoCall}]
  /\ Future /\ Settled
  /\ build \in [Name -> 1..MaxVersions]
  /\ code \in Seq(Bytecodes)
  /\ impl \in [Proxy -> Address]
  /\ admin \in {"deployer", "successor"}
  /\ file \in Files
  /\ mem \in Files
  /\ args \in [names : SUBSET Name, dryRun : BOOLEAN, clean : BOOLEAN]
  /\ pc \in Nat \ {0}
  /\ logic \in {0} \cup DOMAIN code
  /\ receipt \in {0} \cup DOMAIN code

\* What the script waits for is what its part asks for, and what it has in
\* memory of the part is true.
InStep ==
  /\ phase \in {"waiting", "mined"} => AtPart
  /\ phase = "waiting" =>
       \/ MustCreate /\ pending[run] = Creation(LogicName(Part))
       \/ ~MustCreate /\ Part \in Proxy /\ pending[run] = Pointing(Part, Target)
  /\ phase = "mined" /\ receipt = 0 => ~MustCreate /\ Part \in Proxy
  /\ receipt # 0 =>
       /\ phase = "mined" /\ MustCreate
       /\ code[receipt] = Bytecode(LogicName(Part), mem.libraries)
  /\ logic # 0 => phase # "down" /\ AtPart /\ ~CodeChanged(LogicName(Part))

Recorded == Describes(file) /\ (phase # "down" => Describes(mem))

Written ==
  phase # "down" /\ ~args.dryRun /\ pc = Len(Program) + 2 => file = mem

Dry == phase # "down" /\ args.dryRun => pending[run] = NoCall

\* Nobody else changes a proxy during a run that was started clean.
Alone ==
  phase # "down" /\ args.clean =>
    /\ \A r \in Run : r # run => pending[r] = NoCall
    /\ OwnsAdmin \/ (wallet[run] = "deployer" /\ admin = "successor")

InCharge ==
  /\ phase # "down" /\ args.clean /\ OwnsAdmin
  /\ ~args.dryRun /\ "CashMarket" \in args.names

\* The markets the run has passed have the logic it remembers, which is what
\* is built.
Passed ==
  InCharge =>
    /\ \A i \in DOMAIN Program :
         i < pc /\ Program[i] \in Markets =>
           impl[Program[i]] = mem.logic /\ ~CodeChanged("CashMarket")
    /\ phase = "mined" /\ receipt = 0 /\ Part \in Markets =>
         impl[Part] = mem.logic /\ ~CodeChanged("CashMarket")

UpgradeInv ==
  UTypes /\ InStep /\ Recorded /\ Written /\ Dry /\ Alone /\ Passed
-----------------------------------------------------------------------------
\* What a deployment leaves has the seven names at the first addresses.
LEMMA FirstAddresses ==
  ASSUME NEW n \in Name
  PROVE  FirstAddress(n) \in 1..7 /\ FirstNames[FirstAddress(n)] = n
<1>1. \E a \in 1..7 : FirstNames[a] = n
  <2>1. n \in {FirstNames[1], FirstNames[2], FirstNames[3], FirstNames[4],
               FirstNames[5], FirstNames[6], FirstNames[7]}
    BY UpgradeAssumption DEF Name, FirstNames
  <2> QED BY <2>1
<1> QED BY <1>1 DEF FirstAddress

\* The bytecode of a deployment has a type, and so has its file.
LEMMA FirstTypes ==
  /\ \A a \in 1..7 : FirstCode(FirstNames[a]) \in Bytecodes
  /\ FirstFile \in Files
<1>1. ASSUME NEW n \in {"Liquidation", "RiskFramework", "CashMarket", "Escrow",
                        "Portfolios", "ERC1155Token", "ERC1155Trade"}
      PROVE  FirstCode(n) \in Bytecodes
  <2>1. {FirstAddress(l) : l \in LinkedWith(n)} \in SUBSET Address
    BY Links, FirstAddresses DEF Name, Address
  <2> QED BY <2>1, UpgradeAssumption DEF FirstCode, Bytecodes
<1>2. ASSUME NEW a \in 1..7
      PROVE  FirstCode(FirstNames[a]) \in Bytecodes
  BY <1>1 DEF FirstNames
<1>3. [l \in Library |-> FirstAddress(l)] \in [Library -> Address]
  BY FirstAddresses DEF Name, Address
<1>4. [n \in Name |-> FirstCode(n)] \in [Name -> Bytecodes]
  BY <1>1, UpgradeAssumption DEF Name
<1>5. FirstAddress("CashMarket") \in Address
  BY FirstAddresses DEF Name, Address
<1>6. FirstFile \in Files
  BY <1>3, <1>4, <1>5 DEF FirstFile, Files
<1> QED BY <1>2, <1>6

\* At the start the file describes the deployment.
LEMMA UpgradeStart == Init => UpgradeInv
<1> SUFFICES ASSUME Init PROVE UpgradeInv
  OBVIOUS
<1> USE DEF Init, SubmissionInit
<1>1. code \in Seq(Bytecodes) /\ DOMAIN code = 1..7
  BY FirstTypes
<1>2. impl \in [Proxy -> Address]
  <2>1. ASSUME NEW p \in Proxy PROVE FirstAddress(LogicName(p)) \in Address
    <3>1. LogicName(p) \in Name
      BY DEF LogicName, Proxy, Name
    <3> QED BY <3>1, FirstAddresses DEF Address
  <2> QED BY <2>1
<1>3. UTypes
  BY <1>1, <1>2, FirstTypes, RunsAssumption, UpgradeAssumption
     DEF UTypes, Future, Settled, Phase, NoArguments
<1>4. Describes(file)
  <2>1. ASSUME NEW n \in Name
        PROVE  /\ FirstAddress(n) \in DOMAIN code
               /\ code[FirstAddress(n)] = FirstCode(n)
    BY <1>1, FirstAddresses
  <2>2. \A n \in Name : FirstFile.hash[n] = FirstCode(n)
    BY DEF FirstFile
  <2>3. \A l \in Library : FirstFile.libraries[l] = FirstAddress(l)
    BY DEF FirstFile
  <2>4. FirstFile.logic = FirstAddress("CashMarket")
    BY DEF FirstFile
  <2> HIDE DEF Init
  <2>5. file = FirstFile
    BY DEF Init
  <2> QED BY <2>1, <2>2, <2>3, <2>4, <2>5 DEF Describes, Name
<1> QED
  BY <1>3, <1>4
     DEF UpgradeInv, InStep, Recorded, Written, Dry, Alone, Passed, InCharge
-----------------------------------------------------------------------------
\* The actions of the process of a run.
LEMMA StartRunKeeps ==
  ASSUME UpgradeInv, NEW names \in Arguments, NEW dryRun \in BOOLEAN,
         StartRun(names, dryRun)
  PROVE  UpgradeInv'
<1> USE DEF UpgradeInv, StartRun, Start
<1>1. run' \in Run /\ run' = run + 1 /\ run \in Nat
  BY RunsAssumption DEF UTypes, Run
<1>2. UTypes'
  <2>1. args' \in [names : SUBSET Name, dryRun : BOOLEAN, clean : BOOLEAN]
    BY UpgradeAssumption DEF UTypes
  <2>2. Future'
    BY <1>1, RunsAssumption DEF UTypes, Future, Run
  <2>3. Settled'
    BY <1>1 DEF UTypes, Future, Settled
  <2> QED BY <1>1, <2>1, <2>2, <2>3, RunsAssumption DEF UTypes, Phase, Run
<1>3. InStep'
  BY DEF InStep
<1>4. Recorded'
  BY DEF Recorded, Describes
<1>5. Written'
  BY ProgramParts DEF Written
<1>6. Dry'
  BY <1>1 DEF Dry, UTypes, Future
<1>7. Alone'
  BY <1>1 DEF Alone, OwnsAdmin, UTypes
<1>8. Passed'
  BY ProgramParts DEF Passed
<1> QED BY <1>2, <1>3, <1>4, <1>5, <1>6, <1>7, <1>8

\* When the process is down nothing is asked of what it had in memory.
LEMMA ForgetKeeps ==
  ASSUME UpgradeInv, Forget, phase' = "down", UNCHANGED <<outside, wallet, run>>,
         pending' \in [Run -> Calls \cup {NoCall}], Future'
  PROVE  UpgradeInv'
<1> USE DEF UpgradeInv, Forget, outside
<1>1. UTypes'
  BY FirstTypes DEF UTypes, NoArguments, Phase, Settled
<1>2. InStep'
  BY DEF InStep
<1>3. Recorded'
  BY DEF Recorded, Describes
<1>4. Written' /\ Dry' /\ Alone' /\ Passed'
  BY DEF Written, Dry, Alone, Passed, InCharge
<1> QED BY <1>1, <1>2, <1>3, <1>4

\* The current part has a name.
LEMMA PartNames ==
  ASSUME AtPart
  PROVE  Part \in PartName
BY ProgramParts DEF AtPart, Part

\* What the script sends next is one of its calls, and none in a dry run.
LEMMA NextCalls ==
  ASSUME UpgradeInv, Wanted, NEW c \in NextCall
  PROVE  /\ c \in Calls /\ ~args.dryRun /\ AtPart
         /\ \/ MustCreate /\ c = Creation(LogicName(Part))
            \/ ~MustCreate /\ Part \in Proxy /\ c = Pointing(Part, Target)
<1> USE DEF UpgradeInv
<1>1. AtPart /\ ~args.dryRun
  BY DEF Wanted, NextCall
<1>2. Part \in PartName
  BY <1>1, PartNames
<1>3. CASE MustCreate
  <2>1. c = Creation(LogicName(Part))
    BY <1>1, <1>3 DEF NextCall
  <2>2. Bytecode(LogicName(Part), mem.libraries) \in Bytecodes
    BY <1>2, LogicNames, BytecodeType DEF UTypes, Files
  <2>3. c \in Calls
    BY <2>1, <2>2 DEF Creation, Calls
  <2> QED BY <1>1, <1>3, <2>1, <2>3
<1>4. CASE ~MustCreate
  <2>1. c = Pointing(Part, Target) /\ MustPoint
    BY <1>1, <1>4 DEF NextCall
  <2>2. Part \in Proxy
    BY <2>1 DEF MustPoint, Proxy
  <2>3. Target \in Address
    <3>1. CASE Part \in Markets
      BY <3>1 DEF Target, UTypes, Files
    <3>2. CASE Part \notin Markets
      BY <2>1, <3>2 DEF Target, MustPoint, UTypes, Address
    <3> QED BY <3>1, <3>2
  <2>4. c \in Calls
    BY <2>1, <2>2, <2>3 DEF Pointing, Calls
  <2> QED BY <1>1, <1>4, <2>1, <2>2, <2>4
<1> QED BY <1>3, <1>4

\* While the part and the memory are the same, so is what is asked for.
LEMMA SamePart ==
  ASSUME UNCHANGED <<mem, pc, logic, build>>
  PROVE  /\ AtPart' = AtPart /\ Part' = Part /\ Target' = Target
         /\ MustCreate' = MustCreate
         /\ \A n : CodeChanged(n)' = CodeChanged(n)
         /\ \A n : Bytecode(n, mem.libraries)' = Bytecode(n, mem.libraries)
BY DEF AtPart, Part, Target, MustCreate, CodeChanged, Bytecode

\* The script sends what its part asks for.
LEMMA SubmitKeeps ==
  ASSUME UpgradeInv, Submit
  PROVE  UpgradeInv'
<1> USE DEF UpgradeInv
<1>1. PICK c \in NextCall : Send(c)
  BY DEF Submit
<1>2. /\ c \in Calls /\ ~args.dryRun /\ AtPart
      /\ \/ MustCreate /\ c = Creation(LogicName(Part))
         \/ ~MustCreate /\ Part \in Proxy /\ c = Pointing(Part, Target)
  BY NextCalls DEF Submit
<1>3. /\ phase = "ready" /\ phase' = "waiting" /\ run \in Run
      /\ pending' = [pending EXCEPT ![run] = c] /\ pending'[run] = c
      /\ UNCHANGED <<wallet, run, outside, local>>
  BY <1>1 DEF Submit, Send, UTypes
<1> USE DEF outside, local
<1>4. UTypes'
  BY <1>2, <1>3, RunsAssumption DEF UTypes, Phase, Future, Settled, Run
<1>5. InStep'
  <2>1. LogicName(Part)' = LogicName(Part)
    BY <1>3, SamePart DEF LogicName
  <2>2. Creation(LogicName(Part))' = Creation(LogicName(Part))
    BY <1>3, SamePart DEF LogicName, Creation, Bytecode
  <2>3. Pointing(Part, Target)' = Pointing(Part, Target)
    BY <1>3, SamePart DEF Pointing
  <2> QED BY <1>2, <1>3, <2>1, <2>2, <2>3, SamePart DEF InStep
<1>6. Recorded'
  BY <1>3 DEF Recorded, Describes
<1>7. Written' /\ Dry'
  BY <1>2, <1>3 DEF Written, Dry
<1>8. Alone'
  BY <1>3 DEF Alone, OwnsAdmin, UTypes
<1>9. Passed'
  BY <1>3, SamePart DEF Passed, InCharge, OwnsAdmin
<1> QED BY <1>4, <1>5, <1>6, <1>7, <1>8, <1>9

\* The script sends it and dies.
LEMMA SubmitReplyLostKeeps ==
  ASSUME UpgradeInv, SubmitReplyLost
  PROVE  UpgradeInv'
<1> USE DEF UpgradeInv
<1>1. PICK c \in NextCall : ReplyLost(c)
  BY DEF SubmitReplyLost
<1>2. c \in Calls
  BY NextCalls DEF SubmitReplyLost
<1>3. /\ pending' = [pending EXCEPT ![run] = c] /\ run \in Run
      /\ phase' = "down" /\ UNCHANGED <<wallet, run, outside>>
  BY <1>1 DEF SubmitReplyLost, ReplyLost, UTypes
<1>4. pending' \in [Run -> Calls \cup {NoCall}] /\ Future'
  BY <1>2, <1>3, RunsAssumption DEF UTypes, Future, Run
<1>5. Forget
  BY DEF SubmitReplyLost
<1> QED BY <1>3, <1>4, <1>5, ForgetKeeps

\* The process ends otherwise.
LEMMA EndKeeps ==
  ASSUME UpgradeInv, ExitRun \/ Kill \/ Reverted
  PROVE  UpgradeInv'
<1>1. /\ phase' = "down" /\ UNCHANGED <<wallet, run, pending, outside>>
      /\ Forget
  BY DEF ExitRun, Kill, Reverted, Exit, Interrupt, Refused
<1>2. pending' \in [Run -> Calls \cup {NoCall}] /\ Future'
  BY <1>1 DEF UpgradeInv, UTypes, Future
<1> QED BY <1>1, <1>2, ForgetKeeps

\* Neither a request that is asked again nor a commit disturbs anything.
LEMMA UnchangedKeeps ==
  ASSUME UpgradeInv,
         UNCHANGED <<wallet, run, phase, pending,
                     build, code, impl, admin, file, local>>
  PROVE  UpgradeInv'
<1> USE DEF UpgradeInv, local
<1>1. UTypes'
  BY DEF UTypes, Future, Settled
<1>2. InStep'
  BY SamePart DEF InStep, Creation, Pointing, LogicName, Bytecode
<1>3. Recorded' /\ Written' /\ Dry'
  BY DEF Recorded, Describes, Written, Dry
<1>4. Alone' /\ Passed'
  BY SamePart DEF Alone, Passed, InCharge, OwnsAdmin
<1> QED BY <1>1, <1>2, <1>3, <1>4

\* The provider asks again.
LEMMA RetryKeeps ==
  ASSUME UpgradeInv, Retry
  PROVE  UpgradeInv'
BY UnchangedKeeps DEF Retry, Limited, outside

\* There is nothing to do in this part: a market that a run in charge passes
\* has the logic it remembers.
LEMMA SkipKeeps ==
  ASSUME UpgradeInv, Skip
  PROVE  UpgradeInv'
<1> USE DEF UpgradeInv
<1>1. /\ phase = "ready" /\ run \in Run
      /\ UNCHANGED <<wallet, run, phase, pending, outside, args, mem, receipt>>
      /\ pc' = pc + 1 /\ logic' = 0 /\ pc \in Nat \ {0}
  BY DEF Skip, Proceed, UTypes
<1> USE DEF outside
<1>2. pc \in 1..Len(Program) /\ Len(Program) \in Nat
  BY ProgramParts DEF Skip, AtPart
<1>3. UTypes'
  BY <1>1 DEF UTypes, Future, Settled
<1>4. InStep'
  BY <1>1 DEF InStep
<1>5. Recorded' /\ Written' /\ Dry'
  BY <1>1, <1>2 DEF Recorded, Describes, Written, Dry
<1>6. Alone'
  BY <1>1 DEF Alone, OwnsAdmin
<1>7. Passed'
  <2> SUFFICES ASSUME InCharge, NEW i \in DOMAIN Program, i < pc + 1,
                      Program[i] \in Markets
               PROVE  impl[Program[i]] = mem.logic /\ ~CodeChanged("CashMarket")
    BY <1>1 DEF Passed, InCharge, OwnsAdmin, CodeChanged, Bytecode
  <2>1. CASE i < pc
    BY <2>1 DEF Passed
  <2>2. CASE i = pc
    <3>1. Part \in Markets /\ LogicName(Part) = "CashMarket"
      BY <2>2 DEF Part, LogicName
    <3>2. Wanted
      BY <3>1 DEF Skip, Wanted, InCharge
    <3>3. ~MustCreate /\ ~MustPoint
      BY <3>2 DEF Skip, NextCall, InCharge
    <3>4. impl[Part] = mem.logic
      BY <3>1, <3>3 DEF MustPoint
    <3>5. ~CodeChanged("CashMarket")
      BY <3>1, <3>3 DEF MustCreate, InStep
    <3> QED BY <2>2, <3>4, <3>5 DEF Part
  <2> QED BY <1>2, <2>1, <2>2
<1> QED BY <1>3, <1>4, <1>5, <1>6, <1>7

\* The file is what is remembered.
LEMMA SaveKeeps ==
  ASSUME UpgradeInv, Save
  PROVE  UpgradeInv'
<1> USE DEF UpgradeInv
<1>1. /\ phase = "ready" /\ run \in Run
      /\ UNCHANGED <<wallet, run, phase, pending, build, code, impl, admin,
                     args, mem, logic, receipt>>
      /\ pc = Len(Program) + 1 /\ pc' = pc + 1 /\ Len(Program) \in Nat
      /\ file' = IF args.dryRun THEN file ELSE mem
  BY ProgramParts DEF Save, AtSave, Proceed, UTypes
<1>2. logic = 0
  BY <1>1, ProgramParts DEF InStep, AtPart
<1>3. UTypes'
  BY <1>1 DEF UTypes, Future, Settled
<1>4. InStep'
  BY <1>1, <1>2 DEF InStep
<1>5. Recorded' /\ Written' /\ Dry'
  BY <1>1 DEF Recorded, Describes, Written, Dry
<1>6. Alone'
  BY <1>1 DEF Alone, OwnsAdmin
<1>7. Passed'
  <2> SUFFICES ASSUME InCharge, NEW i \in DOMAIN Program,
                      Program[i] \in Markets
               PROVE  impl[Program[i]] = mem.logic /\ ~CodeChanged("CashMarket")
    BY <1>1 DEF Passed, InCharge, OwnsAdmin, CodeChanged, Bytecode
  <2>1. i < pc
    BY <1>1, ProgramParts
  <2> QED BY <2>1 DEF Passed
<1> QED BY <1>3, <1>4, <1>5, <1>6, <1>7

\* The proxy of the part has been pointed to the new logic.
LEMMA ConfirmPointingKeeps ==
  ASSUME UpgradeInv, ConfirmPointing
  PROVE  UpgradeInv'
<1> USE DEF UpgradeInv
<1>1. /\ phase = "mined" /\ phase' = "ready" /\ run \in Run /\ receipt = 0
      /\ UNCHANGED <<wallet, run, pending, outside, args, mem, receipt>>
      /\ pc' = pc + 1 /\ logic' = 0 /\ pc \in Nat \ {0}
  BY DEF ConfirmPointing, Confirm, UTypes
<1> USE DEF outside
<1>2. pc \in 1..Len(Program) /\ Len(Program) \in Nat
  BY <1>1, ProgramParts DEF InStep, AtPart
<1>3. UTypes'
  BY <1>1 DEF UTypes, Future, Settled, Phase
<1>4. InStep'
  BY <1>1 DEF InStep
<1>5. Recorded' /\ Written' /\ Dry'
  BY <1>1, <1>2 DEF Recorded, Describes, Written, Dry
<1>6. Alone'
  BY <1>1 DEF Alone, OwnsAdmin
<1>7. Passed'
  <2> SUFFICES ASSUME InCharge, NEW i \in DOMAIN Program, i < pc + 1,
                      Program[i] \in Markets
               PROVE  impl[Program[i]] = mem.logic /\ ~CodeChanged("CashMarket")
    BY <1>1 DEF Passed, InCharge, OwnsAdmin, CodeChanged, Bytecode
  <2>1. CASE i < pc
    BY <2>1 DEF Passed
  <2>2. CASE i = pc
    BY <1>1, <2>2 DEF Passed, Part
  <2> QED BY <1>2, <2>1, <2>2
<1> QED BY <1>3, <1>4, <1>5, <1>6, <1>7

\* What is remembered of a new contract is what the chain has.
LEMMA RememberDescribes ==
  ASSUME UpgradeInv, Describes(mem), NEW n \in Name, NEW a \in DOMAIN code,
         code[a] = Bytecode(n, mem.libraries)
  PROVE  /\ Remember(n, a) \in Files
         /\ Describes(Remember(n, a))
<1> DEFINE b == Bytecode(n, mem.libraries)
<1>1. b \in Bytecodes /\ a \in Address /\ mem \in Files
  BY BytecodeType DEF UpgradeInv, UTypes, Files, Address
<1>2. CASE n \in Library
  <2>1. Remember(n, a) = [mem EXCEPT !.libraries[n] = a, !.hash[n] = b]
    BY <1>2 DEF Remember
  <2>2. n # "CashMarket" /\ n \notin Contract
    BY <1>2, UpgradeAssumption
  <2> HIDE DEF b
  <2>3. Remember(n, a) \in Files
    <3>1. /\ [mem.libraries EXCEPT ![n] = a] \in [Library -> Address]
          /\ [mem.hash EXCEPT ![n] = b] \in [Name -> Bytecodes]
          /\ mem.logic \in Address
      BY <1>1, <1>2 DEF Files
    <3>2. Remember(n, a) = [libraries |-> [mem.libraries EXCEPT ![n] = a],
                            hash |-> [mem.hash EXCEPT ![n] = b],
                            logic |-> mem.logic]
      BY <1>1, <2>1 DEF Files
    <3> QED BY <3>1, <3>2 DEF Files
  <2>4. /\ Remember(n, a).libraries = [mem.libraries EXCEPT ![n] = a]
        /\ Remember(n, a).hash = [mem.hash EXCEPT ![n] = b]
        /\ Remember(n, a).logic = mem.logic
    BY <1>1, <2>1 DEF Files
  <2>5. code[a] = b
    BY DEF b
  <2>6. /\ mem.libraries \in [Library -> Address]
        /\ mem.hash \in [Name -> Bytecodes]
        /\ Library \cup Contract \cup {"CashMarket"} \subseteq Name
    BY <1>1 DEF Files, Name
  <2> DEFINE new == Remember(n, a)
  <2> HIDE DEF new
  <2>7. \A l \in Library :
          new.libraries[l] \in DOMAIN code /\ code[new.libraries[l]] = new.hash[l]
    BY <1>2, <2>4, <2>5, <2>6 DEF Describes, new
  <2>8. new.logic \in DOMAIN code /\ code[new.logic] = new.hash["CashMarket"]
    BY <2>2, <2>4, <2>6 DEF Describes, new
  <2>9. \A k \in Contract : \E d \in DOMAIN code : code[d] = new.hash[k]
    BY <2>2, <2>4, <2>6 DEF Describes, new
  <2>10. Describes(new)
    BY <2>7, <2>8, <2>9 DEF Describes
  <2> QED BY <2>3, <2>10 DEF new
<1>3. CASE n \notin Library
  <2>1. Remember(n, a) = [mem EXCEPT !.hash[n] = b,
                            !.logic = IF n = "CashMarket" THEN a ELSE @]
    BY <1>3 DEF Remember
  <2> HIDE DEF b
  <2>2. Remember(n, a) \in Files
    <3>1. /\ mem.libraries \in [Library -> Address]
          /\ [mem.hash EXCEPT ![n] = b] \in [Name -> Bytecodes]
          /\ (IF n = "CashMarket" THEN a ELSE mem.logic) \in Address
      BY <1>1 DEF Files
    <3>2. Remember(n, a) =
            [libraries |-> mem.libraries,
             hash |-> [mem.hash EXCEPT ![n] = b],
             logic |-> IF n = "CashMarket" THEN a ELSE mem.logic]
      BY <1>1, <2>1 DEF Files
    <3> QED BY <3>1, <3>2 DEF Files
  <2>3. /\ Remember(n, a).libraries = mem.libraries
        /\ Remember(n, a).hash = [mem.hash EXCEPT ![n] = b]
        /\ Remember(n, a).logic = IF n = "CashMarket" THEN a ELSE mem.logic
    BY <1>1, <2>1 DEF Files
  <2>4. code[a] = b
    BY DEF b
  <2>5. "CashMarket" \in Name /\ "CashMarket" \notin Library
    BY UpgradeAssumption DEF Name
  <2>6. /\ mem.libraries \in [Library -> Address]
        /\ mem.hash \in [Name -> Bytecodes]
        /\ Library \cup Contract \cup {"CashMarket"} \subseteq Name
    BY <1>1 DEF Files, Name
  <2> DEFINE new == Remember(n, a)
  <2> HIDE DEF new
  <2>7. \A l \in Library :
          new.libraries[l] \in DOMAIN code /\ code[new.libraries[l]] = new.hash[l]
    BY <1>3, <2>3, <2>6 DEF Describes, new
  <2>8. new.logic \in DOMAIN code /\ code[new.logic] = new.hash["CashMarket"]
    BY <2>3, <2>4, <2>6 DEF Describes, new
  <2>9. ASSUME NEW k \in Contract
        PROVE  \E d \in DOMAIN code : code[d] = new.hash[k]
    <3>1. CASE k = n
      BY <2>3, <2>4, <2>6, <3>1 DEF new
    <3>2. CASE k # n
      <4>1. new.hash[k] = mem.hash[k]
        BY <2>3, <2>6, <3>2 DEF new
      <4> QED BY <4>1 DEF Describes
    <3> QED BY <3>1, <3>2
  <2>10. Describes(new)
    BY <2>7, <2>8, <2>9 DEF Describes
  <2> QED BY <2>2, <2>10 DEF new
<1> QED BY <1>2, <1>3

\* The bytecode of the markets' logic depends on its source alone.
LEMMA MarketBytecode ==
  ASSUME NEW f, NEW g
  PROVE  Bytecode("CashMarket", f) = Bytecode("CashMarket", g)
BY Links DEF Bytecode

\* A contract of the part has been created. No market comes before the
\* markets' logic is deployed anew.
LEMMA ConfirmCreationKeeps ==
  ASSUME UpgradeInv, ConfirmCreation
  PROVE  UpgradeInv'
<1> USE DEF UpgradeInv
<1> DEFINE n == LogicName(Part)
<1>1. /\ phase = "mined" /\ phase' = "ready" /\ run \in Run /\ receipt # 0
      /\ UNCHANGED <<wallet, run, pending, outside, args>>
      /\ mem' = Remember(n, receipt) /\ receipt' = 0 /\ pc \in Nat \ {0}
      /\ logic' = (IF Part \in Library THEN 0 ELSE receipt)
      /\ pc' = IF Part \in Library THEN pc + 1 ELSE pc
  BY DEF ConfirmCreation, Confirm, UTypes
<1> USE DEF outside
<1>2. AtPart /\ pc \in 1..Len(Program) /\ Len(Program) \in Nat
  BY <1>1, ProgramParts DEF InStep, AtPart
<1>3. /\ Part \in PartName /\ n \in Name
      /\ receipt \in DOMAIN code /\ MustCreate
      /\ code[receipt] = Bytecode(n, mem.libraries)
  BY <1>1, <1>2, PartNames, LogicNames DEF InStep, UTypes
<1>4. mem' \in Files /\ Describes(Remember(n, receipt))
  BY <1>1, <1>3, RememberDescribes DEF Recorded
<1>5. UTypes'
  BY <1>1, <1>3, <1>4 DEF UTypes, Future, Settled, Phase
<1>6. CASE Part \in Library
  <2>1. logic' = 0 /\ pc' = pc + 1 /\ n = Part /\ Part \notin Markets
    BY <1>1, <1>3, <1>6, LogicNames
  <2>2. mem'.logic = mem.logic /\ mem'.hash["CashMarket"] = mem.hash["CashMarket"]
    <3>1. n # "CashMarket"
      BY <1>6, <2>1, UpgradeAssumption
    <3> QED BY <1>1, <1>6, <2>1, <3>1 DEF Remember, UTypes, Files, Name
  <2>3. CodeChanged("CashMarket")' = CodeChanged("CashMarket")
    <3>1. Bytecode("CashMarket", mem.libraries)' =
            Bytecode("CashMarket", mem.libraries)
      BY <1>1, Links DEF Bytecode
    <3> QED BY <2>2, <3>1 DEF CodeChanged
  <2>4. InStep'
    BY <1>1, <2>1 DEF InStep
  <2>5. Passed'
    <3> SUFFICES ASSUME InCharge, NEW i \in DOMAIN Program, i < pc + 1,
                        Program[i] \in Markets
                 PROVE  /\ impl[Program[i]] = mem.logic
                        /\ ~CodeChanged("CashMarket")
      BY <1>1, <2>1, <2>2, <2>3 DEF Passed, InCharge, OwnsAdmin
    <3>1. i # pc
      BY <2>1 DEF Part
    <3>2. i < pc
      BY <1>2, <3>1
    <3> QED BY <3>2 DEF Passed
  <2>6. Written'
    BY <1>2, <2>1 DEF Written
  <2> QED BY <2>4, <2>5, <2>6, <1>1, <1>4, <1>5
          DEF Recorded, Describes, Dry, Alone, OwnsAdmin
<1>7. CASE Part \notin Library
  <2>1. /\ logic' = receipt /\ pc' = pc
        /\ n \notin Library
    <3>1. n \notin Library
      BY <1>3, <1>7, LogicNames, UpgradeAssumption
    <3> QED BY <1>1, <1>7, <3>1
  <2>2. /\ mem'.libraries = mem.libraries
        /\ mem'.hash = [mem.hash EXCEPT ![n] = Bytecode(n, mem.libraries)]
        /\ mem'.logic = IF n = "CashMarket" THEN receipt ELSE mem.logic
    BY <1>1, <2>1 DEF Remember, UTypes, Files
  <2>3. Part' = Part /\ LogicName(Part)' = n /\ AtPart'
    BY <1>2, <2>1 DEF Part, LogicName, AtPart
  <2>4. \A k : Bytecode(k, mem.libraries)' = Bytecode(k, mem.libraries)
    BY <1>1, <2>2 DEF Bytecode
  <2>5. ~CodeChanged(LogicName(Part))'
    <3>1. mem'.hash[n] = Bytecode(n, mem.libraries)
      BY <1>3, <2>2 DEF UTypes, Files
    <3> QED BY <2>3, <2>4, <3>1 DEF CodeChanged
  <2>6. InStep'
    BY <1>1, <2>3, <2>5 DEF InStep
  <2>7. Passed'
    <3> SUFFICES ASSUME InCharge, NEW i \in DOMAIN Program, i < pc,
                        Program[i] \in Markets
                 PROVE  /\ impl[Program[i]] = mem'.logic
                        /\ ~CodeChanged("CashMarket")'
      BY <1>1, <2>1 DEF Passed, InCharge, OwnsAdmin
    <3>1. impl[Program[i]] = mem.logic /\ ~CodeChanged("CashMarket")
      BY DEF Passed
    <3>2. n # "CashMarket"
      BY <1>3, <1>7, <3>1 DEF MustCreate
    <3>3. mem'.logic = mem.logic /\ mem'.hash["CashMarket"] = mem.hash["CashMarket"]
      BY <2>2, <3>2 DEF UTypes, Files, Name
    <3> QED BY <3>1, <3>3, <2>4 DEF CodeChanged
  <2>8. Written'
    BY <1>2, <2>1 DEF Written
  <2> QED BY <2>6, <2>7, <2>8, <1>1, <1>4, <1>5
          DEF Recorded, Describes, Dry, Alone, OwnsAdmin
<1> QED BY <1>6, <1>7
-----------------------------------------------------------------------------
\* A longer chain has what it had, at the same addresses.
LEMMA Created ==
  ASSUME UpgradeInv, NEW b \in Bytecodes, code' = Append(code, b)
  PROVE  /\ code' \in Seq(Bytecodes)
         /\ Len(code) + 1 \in DOMAIN code' /\ code'[Len(code) + 1] = b
         /\ Len(code) + 1 # 0
         /\ \A a \in DOMAIN code : a \in DOMAIN code' /\ code'[a] = code[a]
<1>1. code \in Seq(Bytecodes)
  BY DEF UpgradeInv, UTypes
<1> QED BY <1>1

\* What becomes of the run when a transaction is mined: if it is the run's,
\* the run was waiting for it, and otherwise nothing changes for the run.
LEMMA Mined ==
  ASSUME UpgradeInv, NEW r \in Run, NEW succeeds \in BOOLEAN,
         Mine(r, succeeds)
  PROVE  /\ pending[r] \in Calls
         /\ pending' = [pending EXCEPT ![r] = NoCall]
         /\ pending' \in [Run -> Calls \cup {NoCall}]
         /\ UNCHANGED <<wallet, run>>
         /\ phase' \in Phase /\ (phase' # "down" <=> phase # "down")
         /\ Future' /\ Settled'
         /\ \/ /\ r = run /\ phase = "waiting"
               /\ phase' = IF succeeds THEN "mined" ELSE "reverted"
            \/ /\ r # run \/ phase = "down"
               /\ phase' = phase
<1> USE DEF UpgradeInv, UTypes, Mine
<1>1. /\ pending[r] \in Calls
      /\ pending' = [pending EXCEPT ![r] = NoCall]
      /\ pending' \in [Run -> Calls \cup {NoCall}]
      /\ UNCHANGED <<wallet, run>>
  OBVIOUS
<1>2. CASE r = run /\ phase # "down"
  <2>1. phase = "waiting"
    BY <1>2 DEF Settled, Phase
  <2>2. phase' = IF succeeds THEN "mined" ELSE "reverted"
    BY <1>2
  <2> QED BY <1>1, <1>2, <2>1, <2>2 DEF Phase, Future, Settled
<1>3. CASE r # run \/ phase = "down"
  BY <1>1, <1>3 DEF Phase, Future, Settled
<1> QED BY <1>2, <1>3

\* A contract that is created is a new one, and its address is in the receipt
\* of the run that asked for it.
LEMMA CreationMinedKeeps ==
  ASSUME UpgradeInv, NEW r \in Run, MineCall(r), pending[r].op = "create"
  PROVE  UpgradeInv'
<1> USE DEF UpgradeInv
<1> DEFINE c == pending[r]
<1>1. /\ Mine(r, TRUE)
      /\ code' = Append(code, c.code)
      /\ receipt' = IF r = run /\ phase = "waiting" THEN Len(code) + 1
                    ELSE receipt
      /\ UNCHANGED <<build, dirty, impl, admin, file, args, mem, pc, logic>>
  BY DEF MineCall
<1>2. /\ c \in Calls
      /\ pending' = [pending EXCEPT ![r] = NoCall]
      /\ pending' \in [Run -> Calls \cup {NoCall}]
      /\ UNCHANGED <<wallet, run>>
      /\ phase' \in Phase /\ (phase' # "down" <=> phase # "down")
      /\ Future' /\ Settled'
      /\ \/ r = run /\ phase = "waiting" /\ phase' = "mined"
         \/ (r # run \/ phase = "down") /\ phase' = phase
  BY <1>1, Mined
<1>3. c.code \in Bytecodes
  BY <1>2 DEF Calls
<1>4. /\ code' \in Seq(Bytecodes)
      /\ Len(code) + 1 \in DOMAIN code' /\ code'[Len(code) + 1] = c.code
      /\ Len(code) + 1 # 0
      /\ \A a \in DOMAIN code : a \in DOMAIN code' /\ code'[a] = code[a]
  BY <1>1, <1>3, Created
<1>5. UTypes'
  <2>1. /\ logic' \in {0} \cup DOMAIN code'
        /\ receipt' \in {0} \cup DOMAIN code'
    BY <1>1, <1>4 DEF UTypes
  <2> QED BY <1>1, <1>2, <1>4, <2>1 DEF UTypes
<1>6. InStep'
  <2>1. CASE r = run /\ phase = "waiting"
    <3>1. /\ MustCreate /\ AtPart
          /\ c = Creation(LogicName(Part))
      BY <2>1 DEF InStep, Pointing
    <3>2. code'[receipt'] = Bytecode(LogicName(Part), mem.libraries)
      BY <1>1, <1>4, <2>1, <3>1 DEF Creation
    <3>3. LogicName(Part)' = LogicName(Part)
      BY <1>1, SamePart DEF LogicName
    <3> QED BY <1>1, <1>2, <1>4, <2>1, <3>1, <3>2, <3>3, SamePart DEF InStep
  <2>2. CASE ~(r = run /\ phase = "waiting")
    <3>1. phase' = phase /\ receipt' = receipt
      BY <1>1, <1>2, <2>2
    <3>2. phase = "waiting" => pending'[run] = pending[run]
      BY <1>2, <2>2 DEF UTypes
    <3>3. receipt # 0 => code'[receipt] = code[receipt]
      BY <1>4 DEF UTypes
    <3>4. /\ LogicName(Part)' = LogicName(Part)
          /\ Creation(LogicName(Part))' = Creation(LogicName(Part))
          /\ Pointing(Part, Target)' = Pointing(Part, Target)
          /\ CodeChanged(LogicName(Part))' = CodeChanged(LogicName(Part))
          /\ Bytecode(LogicName(Part), mem.libraries)' =
               Bytecode(LogicName(Part), mem.libraries)
      BY <1>1, SamePart
         DEF LogicName, Creation, Pointing, Bytecode, CodeChanged
    <3>5. AtPart' = AtPart /\ Part' = Part /\ MustCreate' = MustCreate
      BY <1>1, SamePart
    <3>6. /\ UNCHANGED <<run, logic>>
          /\ receipt # 0 => phase = "mined"
      BY <1>1, <1>2 DEF InStep
    <3> QED BY <3>1, <3>2, <3>3, <3>4, <3>5, <3>6 DEF InStep
  <2> QED BY <2>1, <2>2
<1>7. Recorded'
  BY <1>1, <1>2, <1>4 DEF Recorded, Describes
<1>8. Written'
  BY <1>1, <1>2 DEF Written
<1>9. Dry'
  BY <1>1, <1>2 DEF Dry, UTypes
<1>10. Alone'
  BY <1>1, <1>2 DEF Alone, OwnsAdmin, UTypes
<1>11. Passed'
  <2>1. phase' = "mined" /\ receipt' = 0 => phase = "mined" /\ receipt = 0
    BY <1>1, <1>2, <1>4
  <2> QED BY <1>1, <1>2, <2>1, SamePart DEF Passed, InCharge, OwnsAdmin
<1> QED BY <1>5, <1>6, <1>7, <1>8, <1>9, <1>10, <1>11

\* A proxy that is pointed elsewhere during a clean run is the one that the
\* run is at, and it is pointed to what the run remembers.
LEMMA PointingMinedKeeps ==
  ASSUME UpgradeInv, NEW r \in Run, MineCall(r), pending[r].op = "upgrade"
  PROVE  UpgradeInv'
<1> USE DEF UpgradeInv
<1> DEFINE c == pending[r]
<1>1. /\ Mine(r, admin = wallet[r]) /\ c # NoCall
      /\ impl' = IF admin = wallet[r] THEN [impl EXCEPT ![c.proxy] = c.to]
                 ELSE impl
      /\ UNCHANGED <<build, dirty, code, admin, file, local>>
  BY DEF MineCall
<1> USE DEF local
<1>2. /\ c \in Calls
      /\ pending' = [pending EXCEPT ![r] = NoCall]
      /\ pending' \in [Run -> Calls \cup {NoCall}]
      /\ UNCHANGED <<wallet, run>>
      /\ phase' \in Phase /\ (phase' # "down" <=> phase # "down")
      /\ Future' /\ Settled'
      /\ \/ /\ r = run /\ phase = "waiting"
            /\ phase' = IF admin = wallet[r] THEN "mined" ELSE "reverted"
         \/ (r # run \/ phase = "down") /\ phase' = phase
  BY <1>1, Mined
<1>3. c.proxy \in Proxy /\ c.to \in Address
  BY <1>2 DEF Calls
<1>4. UTypes'
  <2>1. impl' \in [Proxy -> Address]
    BY <1>1, <1>3 DEF UTypes
  <2> QED BY <1>1, <1>2, <2>1 DEF UTypes
<1>5. ASSUME r = run, phase = "waiting"
      PROVE  /\ AtPart /\ ~MustCreate /\ Part \in Proxy /\ receipt = 0
             /\ c = Pointing(Part, Target)
  <2>1. AtPart /\ receipt = 0
    BY <1>5 DEF InStep
  <2>2. c # Creation(LogicName(Part))
    BY DEF Creation
  <2> QED BY <1>5, <2>1, <2>2 DEF InStep
<1>6. InStep'
  <2>1. CASE r = run /\ phase = "waiting"
    BY <1>1, <1>2, <1>5, <2>1, SamePart DEF InStep, LogicName
  <2>2. CASE ~(r = run /\ phase = "waiting")
    <3>1. phase' = phase
      BY <1>2, <2>2
    <3>2. phase = "waiting" => pending'[run] = pending[run]
      BY <1>2, <2>2 DEF UTypes
    <3>3. /\ LogicName(Part)' = LogicName(Part)
          /\ Creation(LogicName(Part))' = Creation(LogicName(Part))
          /\ Pointing(Part, Target)' = Pointing(Part, Target)
          /\ CodeChanged(LogicName(Part))' = CodeChanged(LogicName(Part))
          /\ Bytecode(LogicName(Part), mem.libraries)' =
               Bytecode(LogicName(Part), mem.libraries)
      BY <1>1, SamePart
         DEF LogicName, Creation, Pointing, Bytecode, CodeChanged
    <3>4. AtPart' = AtPart /\ Part' = Part /\ MustCreate' = MustCreate
      BY <1>1, SamePart
    <3>5. UNCHANGED <<run, logic, receipt, code>>
      BY <1>1, <1>2
    <3> QED BY <3>1, <3>2, <3>3, <3>4, <3>5 DEF InStep
  <2> QED BY <2>1, <2>2
<1>7. Recorded'
  BY <1>1, <1>2 DEF Recorded, Describes
<1>8. Written'
  BY <1>1, <1>2 DEF Written
<1>9. Dry'
  BY <1>1, <1>2 DEF Dry, UTypes
<1>10. Alone'
  BY <1>1, <1>2 DEF Alone, OwnsAdmin, UTypes
<1>11. Passed'
  <2>0. InCharge' = InCharge
    BY <1>1, <1>2 DEF InCharge, OwnsAdmin
  <2> SUFFICES ASSUME InCharge
               PROVE  Passed'
    BY <2>0 DEF Passed
  <2>1. r = run
    BY <1>1 DEF Alone, InCharge
  <2>2. phase = "waiting" /\ phase' = "mined"
    BY <1>2, <2>1 DEF InCharge, OwnsAdmin
  <2>3. impl' = [impl EXCEPT ![Part] = Target] /\ Part \in Proxy
    <3>1. c = Pointing(Part, Target) /\ Part \in Proxy
      BY <1>5, <2>1, <2>2
    <3>2. c.proxy = Part /\ c.to = Target
      BY <3>1 DEF Pointing
    <3>3. admin = wallet[r]
      BY <2>1 DEF InCharge, OwnsAdmin
    <3>4. impl' = [impl EXCEPT ![c.proxy] = c.to]
      BY <1>1, <3>3
    <3> QED BY <3>1, <3>2, <3>4
  <2>4. Part \in Markets =>
          impl'[Part] = mem.logic /\ ~CodeChanged("CashMarket")
    <3> SUFFICES ASSUME Part \in Markets
                 PROVE  impl'[Part] = mem.logic /\ ~CodeChanged("CashMarket")
      OBVIOUS
    <3>1. impl'[Part] = mem.logic
      BY <2>3 DEF Target, UTypes
    <3>2. LogicName(Part) = "CashMarket"
      BY DEF LogicName
    <3>3. ~CodeChanged("CashMarket")
      BY <1>5, <2>1, <2>2, <3>2 DEF MustCreate, InStep
    <3> QED BY <3>1, <3>3
  <2>5. ASSUME NEW i \in DOMAIN Program, i < pc, Program[i] \in Markets
        PROVE  impl'[Program[i]] = mem.logic /\ ~CodeChanged("CashMarket")
    <3>1. CASE Program[i] = Part
      BY <2>4, <2>5, <3>1
    <3>2. CASE Program[i] # Part
      <4>1. impl'[Program[i]] = impl[Program[i]]
        BY <2>3, <2>5, <3>2 DEF UTypes, Proxy
      <4> QED BY <2>5, <4>1 DEF Passed
    <3> QED BY <3>1, <3>2
  <2> QED BY <1>1, <2>4, <2>5, SamePart DEF Passed
<1> QED BY <1>4, <1>6, <1>7, <1>8, <1>9, <1>10, <1>11

\* What people do: a new source is compiled between two runs, and the
\* ProxyAdmin is given away from the deployer, possibly during a run.
LEMMA PeopleKeep ==
  ASSUME UpgradeInv,
         \/ \E n \in Name \ Library : Compile(n)
         \/ Commit
         \/ TransferOwner
  PROVE  UpgradeInv'
<1> USE DEF UpgradeInv
<1>1. CASE \E n \in Name \ Library : Compile(n)
  <2>1. PICK n \in Name : Compile(n)
    BY <1>1
  <2>2. /\ phase = "down" /\ build' \in [Name -> 1..MaxVersions]
        /\ UNCHANGED <<submission, code, impl, admin, file, local>>
    BY <2>1 DEF Compile, UTypes
  <2> USE DEF submission, local
  <2>3. UTypes'
    BY <2>2 DEF UTypes, Future, Settled
  <2>4. InStep' /\ Recorded'
    BY <2>2 DEF InStep, Recorded, Describes
  <2>5. Written' /\ Dry' /\ Alone' /\ Passed'
    BY <2>2 DEF Written, Dry, Alone, Passed, InCharge
  <2> QED BY <2>3, <2>4, <2>5
<1>2. CASE Commit
  <2>1. UNCHANGED <<submission, build, code, impl, admin, file, local>>
    BY <1>2 DEF Commit
  <2> QED BY <2>1, UnchangedKeeps DEF submission
<1>3. CASE TransferOwner
  <2>1. /\ admin = "deployer" /\ admin' = "successor"
        /\ UNCHANGED <<submission, build, code, impl, file, local>>
    BY <1>3 DEF TransferOwner
  <2> USE DEF submission, local
  <2>2. UTypes'
    BY <2>1 DEF UTypes, Future, Settled
  <2>3. InStep'
    BY <2>1, SamePart DEF InStep, Creation, Pointing, LogicName, Bytecode
  <2>4. Recorded' /\ Written' /\ Dry'
    BY <2>1 DEF Recorded, Describes, Written, Dry
  <2>5. Alone'
    BY <2>1 DEF Alone, OwnsAdmin
  <2>6. ~InCharge'
    BY <2>1 DEF Alone, InCharge, OwnsAdmin
  <2> QED BY <2>2, <2>3, <2>4, <2>5, <2>6 DEF Passed
<1> QED BY <1>1, <1>2, <1>3

\* Every step keeps the invariant.
LEMMA UpgradeStep == UpgradeInv /\ [Next]_vars => UpgradeInv'
<1> SUFFICES ASSUME UpgradeInv, [Next]_vars
             PROVE  UpgradeInv'
  OBVIOUS
<1>1. CASE Script
  BY <1>1, SubmitKeeps, SubmitReplyLostKeeps, RetryKeeps, SkipKeeps, SaveKeeps,
     EndKeeps, ConfirmCreationKeeps, ConfirmPointingKeeps DEF Script
<1>2. CASE Chain
  <2>1. PICK r \in Run : MineCall(r)
    BY <1>2 DEF Chain
  <2>2. pending[r].op = "create" \/ pending[r].op = "upgrade"
    BY <2>1 DEF MineCall
  <2> QED BY <2>1, <2>2, CreationMinedKeeps, PointingMinedKeeps
<1>3. CASE People
  BY <1>3, PeopleKeep, StartRunKeeps, EndKeeps DEF People
<1>4. CASE UNCHANGED vars
  <2>1. UNCHANGED <<submission, build, code, impl, admin, file, local>>
    BY <1>4 DEF vars
  <2> QED BY <2>1, UnchangedKeeps DEF submission
<1> QED BY <1>1, <1>2, <1>3, <1>4 DEF Next

\* The invariant of upgrade.ts, whatever runs die and whoever owns what.
THEOREM UpgradeInvariance == Spec => []UpgradeInv
BY UpgradeStart, UpgradeStep, PTL DEF Spec

\* Whatever runs die, the file of addresses describes contracts that are on
\* the chain, with the hash of their own bytecode (saveAddresses).
THEOREM FileAlwaysDescribesChain == Spec => []FileDescribesChain
<1>1. UpgradeInv => FileDescribesChain
  BY DEF UpgradeInv, Recorded, FileDescribesChain
<1> QED BY <1>1, UpgradeInvariance, PTL

\* A run of the ProxyAdmin's owner that gets to its end leaves all markets at
\* the logic that is built, whatever earlier runs left half done
\* (upgradeCashMarket compares the addresses, not the hashes).
THEOREM MarketsAlwaysFollowTheBuild == Spec => []MarketsFollowTheBuild
<1>1. UpgradeInv => MarketsFollowTheBuild
  <2> SUFFICES ASSUME UpgradeInv, Completed("CashMarket"), NEW m \in Markets
               PROVE  /\ impl[m] = file.logic
                      /\ code[impl[m]] = Bytecode("CashMarket", file.libraries)
    BY DEF MarketsFollowTheBuild
  <2> USE DEF UpgradeInv
  <2>1. InCharge /\ pc = Len(Program) + 2 /\ file = mem
    BY DEF Completed, InCharge, Written
  <2>2. PICK i \in DOMAIN Program : Program[i] = m
    BY ProgramParts
  <2>3. i < pc
    BY <2>1, ProgramParts
  <2>4. impl[m] = mem.logic /\ ~CodeChanged("CashMarket")
    BY <2>1, <2>2, <2>3 DEF Passed
  <2>5. code[mem.logic] = mem.hash["CashMarket"]
    BY <2>1 DEF Recorded, Describes, InCharge
  <2> QED BY <2>1, <2>4, <2>5 DEF CodeChanged
<1> QED BY <1>1, UpgradeInvariance, PTL

\* A dry run sends no transaction and does not write the file.
THEOREM DryRunsChangeNothing == Spec => DryRunChangesNothing
<1>1. ASSUME UpgradeInv, UpgradeInv', [Next]_vars, phase # "down", args.dryRun
      PROVE  file' = file /\ pending'[run] = NoCall
  <2> USE <1>1
  <2>1. run \in Run /\ pending[run] = NoCall
    BY DEF UpgradeInv, UTypes, Dry
  <2>2. CASE Submit \/ SubmitReplyLost
    BY <2>2 DEF Submit, SubmitReplyLost, NextCall
  <2>3. CASE UNCHANGED <<file, pending>>
    BY <2>1, <2>3
  <2>4. CASE Save
    BY <2>1, <2>4 DEF Save, Proceed
  <2>5. ASSUME NEW r \in Run, MineCall(r)
        PROVE  file' = file /\ pending'[run] = NoCall
    BY <2>1, <2>5 DEF MineCall, Mine, UpgradeInv, UTypes, local
  <2>6. CASE Script
    BY <2>2, <2>3, <2>4, <2>6
       DEF Script, Retry, Limited, Skip, Proceed, ExitRun, Exit,
           ConfirmCreation, ConfirmPointing, Confirm, Reverted, Refused, outside
  <2>7. CASE People
    BY <2>3, <2>7
       DEF People, Compile, Commit, TransferOwner, StartRun, Start, Kill,
           Interrupt, submission, outside
  <2> QED BY <2>3, <2>5, <2>6, <2>7 DEF Next, Chain, vars, submission
<1>2. UpgradeInv /\ UpgradeInv' /\ [Next]_vars =>
        [phase # "down" /\ args.dryRun =>
           /\ file' = file
           /\ pending'[run] = NoCall]_vars
  BY <1>1
<1> QED BY <1>2, UpgradeInvariance, PTL DEF Spec, DryRunChangesNothing

\* Every step is one of Submission's, or does not concern it.
LEMMA UpgradeStepsSubmit ==
  ASSUME Calls \subseteq Call
  PROVE  UpgradeInv /\ [Next]_vars => [SubmissionNext]_submission
<1> SUFFICES ASSUME UpgradeInv, [Next]_vars
             PROVE  [SubmissionNext]_submission
  OBVIOUS
<1>1. CASE Submit \/ SubmitReplyLost
  BY <1>1, NextCalls DEF Submit, SubmitReplyLost, SubmissionNext
<1>2. CASE Script
  BY <1>1, <1>2
     DEF Script, Retry, Skip, Save, ExitRun, ConfirmCreation, ConfirmPointing,
         Reverted, SubmissionNext
<1>3. CASE Chain
  <2>1. PICK r \in Run : MineCall(r)
    BY <1>3 DEF Chain
  <2>2. \E succeeds \in BOOLEAN : Mine(r, succeeds)
    <3>1. Mine(r, TRUE) \/ Mine(r, admin = wallet[r])
      BY <2>1 DEF MineCall
    <3> QED BY <3>1
  <2> QED BY <2>2 DEF SubmissionNext
<1>4. CASE People
  BY <1>4
     DEF People, Compile, Commit, TransferOwner, StartRun, Kill, SubmissionNext
<1>5. CASE UNCHANGED vars
  BY <1>5 DEF vars
<1> QED BY <1>2, <1>3, <1>4, <1>5 DEF Next

\* upgrade.ts sends its transactions only through txMined and
\* deployContract: the upgrade implements the submission of transactions,
\* and so has no call of its own outstanding when it reads the chain.
THEOREM UpgradeSubmits ==
  ASSUME Calls \subseteq Call
  PROVE  Spec => SubmissionSpec
<1>1. Init => SubmissionInit
  BY DEF Init
<1>2. UpgradeInv /\ [Next]_vars => [SubmissionNext]_submission
  BY UpgradeStepsSubmit
<1> QED
  BY <1>1, <1>2, UpgradeInvariance, PTL DEF Spec, SubmissionSpec
-----------------------------------------------------------------------------
\* The order of the program: libraries before everything else, and every
\* library and contract that is looked at is somewhere in it.
LibrariesFirst(s) ==
  /\ s \in Seq(PartName)
  /\ \A i, j \in DOMAIN s : s[i] \in Library /\ j <= i => s[j] \in Library

Occurs(n, s) == \E i \in DOMAIN s : s[i] = n

\* One name is a sequence with that name in it, if the name is looked at.
LEMMA OneOf ==
  ASSUME NEW n, NEW S, n \in Name => n \in S
  PROVE  One(n) \in Seq(S) /\ (n \in Name => Occurs(n, One(n)))
<1>1. CASE n \in Name
  <2>1. One(n) = <<n>> /\ <<n>> \in Seq(S) /\ 1 \in DOMAIN <<n>> /\ <<n>>[1] = n
    BY <1>1 DEF One
  <2> QED BY <2>1 DEF Occurs
<1>2. CASE n \notin Name
  <2>1. << >> \in Seq(S)
    OBVIOUS
  <2> QED BY <1>2, <2>1 DEF One
<1> QED BY <1>1, <1>2

\* What occurs in a sequence occurs in a longer one.
LEMMA OccursInBoth ==
  ASSUME NEW s \in Seq(PartName), NEW t \in Seq(PartName), NEW n, Occurs(n, s) \/ Occurs(n, t)
  PROVE  Occurs(n, s \o t)
<1>1. CASE Occurs(n, s)
  <2>1. PICK i \in DOMAIN s : s[i] = n
    BY <1>1 DEF Occurs
  <2>2. i \in DOMAIN (s \o t) /\ (s \o t)[i] = n
    BY <2>1
  <2> QED BY <2>2 DEF Occurs
<1>2. CASE Occurs(n, t)
  <2>1. PICK i \in DOMAIN t : t[i] = n
    BY <1>2 DEF Occurs
  <2>2. Len(s) + i \in DOMAIN (s \o t) /\ (s \o t)[Len(s) + i] = n
    BY <2>1
  <2> QED BY <2>2 DEF Occurs
<1> QED BY <1>1, <1>2

\* What is appended to a program with its libraries first is no library.
LEMMA OthersAfterLibraries ==
  ASSUME NEW s, LibrariesFirst(s), NEW t \in Seq(PartName \ Library)
  PROVE  LibrariesFirst(s \o t)
<1> DEFINE u == s \o t
<1>1. s \in Seq(PartName) /\ t \in Seq(PartName) /\ Len(s) \in Nat /\ Len(t) \in Nat
  BY DEF LibrariesFirst
<1>2. u \in Seq(PartName) /\ DOMAIN u = 1 .. (Len(s) + Len(t))
  BY <1>1
<1>3. \A i \in 1 .. Len(s) : u[i] = s[i]
  BY <1>1
<1>4. ASSUME NEW i \in DOMAIN u, i > Len(s) PROVE u[i] \notin Library
  <2>1. i - Len(s) \in DOMAIN t /\ u[i] = t[i - Len(s)]
    BY <1>1, <1>2, <1>4
  <2> QED BY <2>1
<1> HIDE DEF u
<1>5. ASSUME NEW i \in DOMAIN u, NEW j \in DOMAIN u, u[i] \in Library, j <= i
      PROVE  u[j] \in Library
  <2>1. i \in 1 .. Len(s) /\ j \in 1 .. Len(s)
    BY <1>1, <1>2, <1>4, <1>5
  <2> QED BY <1>1, <1>3, <1>5, <2>1 DEF LibrariesFirst
<1>6. LibrariesFirst(u)
  BY <1>2, <1>5 DEF LibrariesFirst
<1> QED BY <1>6 DEF u

\* The libraries come first, and each library and contract does come.
LEMMA ProgramOrder ==
  /\ \A i, j \in DOMAIN Program : Program[i] \in Library /\ j <= i => Program[j] \in Library
  /\ \A n \in Library \cup Contract : \E i \in DOMAIN Program : Program[i] = n
<1> DEFINE L == One("Liquidation")
           R == One("RiskFramework")
           E == One("Escrow")
           K == One("ERC1155Token")
           T == One("ERC1155Trade")
           P == One("Portfolios")
           Rest == PartName \ Library
<1>1. /\ L \in Seq(Library) /\ R \in Seq(Library)
      /\ E \in Seq(Rest) /\ K \in Seq(Rest) /\ T \in Seq(Rest) /\ P \in Seq(Rest)
      /\ \A n \in Name : n \in {"Liquidation"} => Occurs(n, L)
      /\ \A n \in Name : n \in {"RiskFramework"} => Occurs(n, R)
      /\ \A n \in Name : n \in {"Escrow"} => Occurs(n, E)
      /\ \A n \in Name : n \in {"ERC1155Token"} => Occurs(n, K)
      /\ \A n \in Name : n \in {"ERC1155Trade"} => Occurs(n, T)
      /\ \A n \in Name : n \in {"Portfolios"} => Occurs(n, P)
  BY OneOf, UpgradeAssumption DEF Name, PartName
<1>2. Market \in Seq(Rest)
  <2>1. Markets \subseteq Rest
    BY MarketAssumption DEF PartName
  <2> QED BY <2>1, MarketAssumption
<1>3. Program = ((((((L \o R) \o E) \o K) \o T) \o P) \o Market)
  BY DEF Program
<1> HIDE DEF L, R, E, K, T, P
<1>4. LibrariesFirst(L \o R)
  <2>1. Library \subseteq PartName
    BY DEF PartName
  <2>2. L \o R \in Seq(Library) /\ L \o R \in Seq(PartName)
    BY <1>1, <2>1
  <2> QED BY <2>2 DEF LibrariesFirst
<1> DEFINE s1 == L \o R
           s2 == s1 \o E
           s3 == s2 \o K
           s4 == s3 \o T
           s5 == s4 \o P
           s6 == s5 \o Market
<1>5. /\ L \in Seq(PartName) /\ R \in Seq(PartName) /\ E \in Seq(PartName) /\ K \in Seq(PartName)
      /\ T \in Seq(PartName) /\ P \in Seq(PartName) /\ Market \in Seq(PartName)
  BY <1>1, <1>2 DEF PartName
<1>6. \A n : Occurs(n, L) \/ Occurs(n, R) => Occurs(n, s1)
  BY <1>5, OccursInBoth
<1>first. LibrariesFirst(s1)
  BY <1>4
<1> HIDE DEF s1, Rest
<1>7. LibrariesFirst(s2) /\ \A n : Occurs(n, s1) \/ Occurs(n, E) => Occurs(n, s2)
  BY <1>1, <1>5, <1>first, OccursInBoth, OthersAfterLibraries DEF LibrariesFirst, Rest
<1> HIDE DEF s2
<1>8. LibrariesFirst(s3) /\ \A n : Occurs(n, s2) \/ Occurs(n, K) => Occurs(n, s3)
  BY <1>1, <1>5, <1>7, OccursInBoth, OthersAfterLibraries DEF LibrariesFirst, Rest
<1> HIDE DEF s3
<1>9. LibrariesFirst(s4) /\ \A n : Occurs(n, s3) \/ Occurs(n, T) => Occurs(n, s4)
  BY <1>1, <1>5, <1>8, OccursInBoth, OthersAfterLibraries DEF LibrariesFirst, Rest
<1> HIDE DEF s4
<1>10. LibrariesFirst(s5) /\ \A n : Occurs(n, s4) \/ Occurs(n, P) => Occurs(n, s5)
  BY <1>1, <1>5, <1>9, OccursInBoth, OthersAfterLibraries DEF LibrariesFirst, Rest
<1> HIDE DEF s5
<1>11. LibrariesFirst(s6) /\ \A n : Occurs(n, s5) => Occurs(n, s6)
  BY <1>2, <1>5, <1>10, OccursInBoth, OthersAfterLibraries DEF LibrariesFirst, Rest
<1>12. s6 = Program
  BY <1>3 DEF s1, s2, s3, s4, s5
<1>13. \A n \in Library \cup Contract : Occurs(n, Program)
  <2> TAKE n \in Library \cup Contract
  <2>1. n \in Name
    BY DEF Name
  <2>2. Occurs(n, L) \/ Occurs(n, R) \/ Occurs(n, E) \/ Occurs(n, K) \/ Occurs(n, T) \/ Occurs(n, P)
    <3>1. n \in {"Liquidation", "RiskFramework", "Escrow", "ERC1155Token", "ERC1155Trade", "Portfolios"}
      BY UpgradeAssumption
    <3> QED BY <1>1, <2>1, <3>1
  <2> QED BY <1>6, <1>7, <1>8, <1>9, <1>10, <1>11, <1>12, <2>2
<1> QED BY <1>11, <1>12, <1>13 DEF LibrariesFirst, Occurs
-----------------------------------------------------------------------------
(***************************************************************************)
(* What a run does with a library and a contract linked with it.           *)
(***************************************************************************)

\* Every address the chain, the script and the pool know is a contract's.
Reached ==
  /\ pc <= Len(Program) + 2
  /\ dirty \in BOOLEAN
  /\ impl \in [Proxy -> DOMAIN code]
  /\ \A r \in Run :
       pending[r] # NoCall /\ pending[r].op = "upgrade" => pending[r].to \in DOMAIN code

\* A contract is linked with libraries that were there before it.
Closed ==
  /\ \A a \in DOMAIN code : code[a].links \subseteq DOMAIN code
  /\ \A r \in Run :
       pending[r] # NoCall /\ pending[r].op = "create" => pending[r].code.links \subseteq DOMAIN code

\* So none that is known is linked with a library just deployed.
Fresh ==
  /\ receipt # 0 => \A n \in Contract : receipt \notin mem.hash[n].links
  /\ logic # 0 => /\ Part \notin Library
                  /\ code[logic] = Bytecode(LogicName(Part), mem.libraries)

InChargeOf(n, l) ==
  phase # "down" /\ args.clean /\ OwnsAdmin /\ ~args.dryRun /\ {n, l} \subseteq args.names

LibraryPassed(l) == \E i \in DOMAIN Program : i < pc /\ Program[i] = l

\* The contract is still to come and will be found changed, or it is being
\* upgraded, or its proxy is at what is built and linked.
NotYet(n) == CodeChanged(n) /\ \A j \in DOMAIN Program : j < pc => Program[j] # n
Underway(n) == AtPart /\ Part = n /\ logic # 0
AtNew(n) == code[impl[n]] = Bytecode(n, mem.libraries)

LinkingOf(n, l) ==
  InChargeOf(n, l) /\ LibraryPassed(l) =>
    /\ NotYet(n) \/ Underway(n) \/ AtNew(n)
    /\ phase = "mined" /\ receipt = 0 /\ AtPart /\ Part = n => AtNew(n)

Linking == \A n \in Contract : \A l \in LinkedWith(n) : LinkingOf(n, l)

LinkInv == Reached /\ Closed /\ Fresh /\ Linking
-----------------------------------------------------------------------------
\* A deployment links its contracts with its own libraries.
LEMMA LinkStart == Init => LinkInv
<1> SUFFICES ASSUME Init PROVE LinkInv
  OBVIOUS
<1> USE DEF Init, SubmissionInit
<1>1. DOMAIN code = 1..7
  OBVIOUS
<1>2. \A n \in Name : FirstAddress(n) \in 1..7
  BY FirstAddresses
<1>3. impl \in [Proxy -> DOMAIN code]
  <2>1. ASSUME NEW p \in Proxy PROVE FirstAddress(LogicName(p)) \in 1..7
    <3>1. LogicName(p) \in Name
      BY DEF LogicName, Proxy, Name
    <3> QED BY <3>1, <1>2
  <2> QED BY <1>1, <2>1
<1>4. Reached
  <2>1. 1 <= Len(Program) + 2
    BY ProgramParts
  <2> QED BY <1>3, <2>1 DEF Reached
<1>5. Closed
  <2>1. ASSUME NEW a \in DOMAIN code PROVE code[a].links \subseteq DOMAIN code
    <3>1. code[a].links = {FirstAddress(l) : l \in LinkedWith(FirstNames[a])}
      BY <1>1 DEF FirstCode
    <3>2. LinkedWith(FirstNames[a]) \subseteq Name
      BY Links DEF Name
    <3> QED BY <1>1, <1>2, <3>1, <3>2
  <2> QED BY <2>1 DEF Closed
<1>6. Fresh /\ Linking
  BY DEF Fresh, Linking, LinkingOf, InChargeOf
<1> QED BY <1>4, <1>5, <1>6 DEF LinkInv

\* A call the script sends names what is on the chain.
LEMMA CallsReach ==
  ASSUME UpgradeInv, phase # "down", Wanted, NEW c \in NextCall
  PROVE  /\ c.op = "upgrade" => c.to \in DOMAIN code
         /\ c.op = "create" => c.code.links \subseteq DOMAIN code
<1>1. /\ c \in Calls /\ AtPart
      /\ \/ MustCreate /\ c = Creation(LogicName(Part))
         \/ ~MustCreate /\ Part \in Proxy /\ c = Pointing(Part, Target)
  BY NextCalls
<1>2. Describes(mem)
  BY DEF UpgradeInv, Recorded
<1>3. ASSUME c.op = "create" PROVE c.code.links \subseteq DOMAIN code
  <2>1. c.code = Bytecode(LogicName(Part), mem.libraries)
    BY <1>1, <1>3 DEF Creation, Pointing
  <2>2. c.code.links = {mem.libraries[l] : l \in LinkedWith(LogicName(Part))}
    BY <2>1 DEF Bytecode
  <2>3. LinkedWith(LogicName(Part)) \subseteq Library
    BY Links
  <2> QED BY <1>2, <2>2, <2>3 DEF Describes
<1>4. ASSUME c.op = "upgrade" PROVE c.to \in DOMAIN code
  <2>1. ~MustCreate /\ c = Pointing(Part, Target)
    BY <1>1, <1>4 DEF Creation
  <2>2. c.to = Target
    BY <2>1 DEF Pointing
  <2>3. MustPoint
    <3>1. c \in (IF MustPoint /\ OwnsAdmin THEN {Pointing(Part, Target)} ELSE {})
      BY <2>1, NextCalls DEF NextCall
    <3> QED BY <3>1
  <2>4. CASE Part \in Markets
    BY <1>2, <2>2, <2>4 DEF Target, Describes
  <2>5. CASE Part \notin Markets
    <3>1. logic # 0 /\ Target = logic
      BY <2>3, <2>5 DEF MustPoint, Target
    <3> QED BY <2>2, <3>1 DEF UpgradeInv, UTypes
  <2> QED BY <2>4, <2>5
<1> QED BY <1>3, <1>4

\* The process ends.
LEMMA ForgetLinks ==
  ASSUME UpgradeInv, LinkInv, Forget, phase' = "down", UNCHANGED outside,
         \A r \in Run : \/ pending'[r] = pending[r]
                        \/ /\ pending'[r].op = "upgrade" => pending'[r].to \in DOMAIN code
                           /\ pending'[r].op = "create" => pending'[r].code.links \subseteq DOMAIN code
  PROVE  LinkInv'
<1> USE DEF LinkInv, Forget, outside
<1>1. Reached'
  <2>1. 1 <= Len(Program) + 2
    BY ProgramParts
  <2> QED BY <2>1 DEF Reached
<1>2. Closed'
  BY DEF Closed
<1>3. Fresh' /\ Linking'
  BY DEF Fresh, Linking, LinkingOf, InChargeOf
<1> QED BY <1>1, <1>2, <1>3

\* The script sends a call and dies.
LEMMA SubmitReplyLostLinks ==
  ASSUME UpgradeInv, LinkInv, SubmitReplyLost
  PROVE  LinkInv'
<1>1. PICK c \in NextCall : ReplyLost(c)
  BY DEF SubmitReplyLost
<1>2. /\ c.op = "upgrade" => c.to \in DOMAIN code
      /\ c.op = "create" => c.code.links \subseteq DOMAIN code
  BY <1>1, CallsReach DEF SubmitReplyLost, ReplyLost
<1>3. /\ pending' = [pending EXCEPT ![run] = c] /\ phase' = "down"
      /\ Forget /\ UNCHANGED outside
  BY <1>1 DEF SubmitReplyLost, ReplyLost
<1>4. pending \in [Run -> Calls \cup {NoCall}]
  BY DEF UpgradeInv, UTypes
<1> QED BY <1>2, <1>3, <1>4, ForgetLinks

\* The process ends otherwise.
LEMMA EndLinks ==
  ASSUME UpgradeInv, LinkInv, ExitRun \/ Kill \/ Reverted
  PROVE  LinkInv'
BY ForgetLinks DEF ExitRun, Kill, Reverted, Exit, Interrupt, Refused

\* Linking depends on the place of the run and what it has in memory.
LEMMA SameLinking ==
  ASSUME Linking, UNCHANGED <<build, code, impl, admin, wallet, run, args, mem, pc, logic>>,
         \/ UNCHANGED <<phase, receipt>>
         \/ phase # "down" /\ phase' = "waiting"
  PROVE  Linking'
<1> SUFFICES ASSUME NEW n \in Contract, NEW l \in LinkedWith(n), LinkingOf(n, l)
             PROVE  LinkingOf(n, l)'
  BY DEF Linking
<1>1. /\ AtPart' = AtPart /\ Part' = Part /\ CodeChanged(n)' = CodeChanged(n)
      /\ Bytecode(n, mem.libraries)' = Bytecode(n, mem.libraries)
  BY SamePart
<1>2. /\ NotYet(n)' = NotYet(n) /\ Underway(n)' = Underway(n) /\ AtNew(n)' = AtNew(n)
      /\ LibraryPassed(l)' = LibraryPassed(l) /\ OwnsAdmin' = OwnsAdmin
  BY <1>1 DEF NotYet, Underway, AtNew, LibraryPassed, OwnsAdmin
<1>3. InChargeOf(n, l)' => InChargeOf(n, l)
  BY <1>2 DEF InChargeOf
<1> QED BY <1>1, <1>2, <1>3 DEF LinkingOf

\* The script sends a call and waits.
LEMMA SubmitLinks ==
  ASSUME UpgradeInv, LinkInv, Submit
  PROVE  LinkInv'
<1> USE DEF LinkInv, outside, local
<1>1. PICK c \in NextCall : Send(c)
  BY DEF Submit
<1>2. /\ c.op = "upgrade" => c.to \in DOMAIN code
      /\ c.op = "create" => c.code.links \subseteq DOMAIN code
  BY <1>1, CallsReach DEF Submit, Send
<1>3. /\ pending' = [pending EXCEPT ![run] = c] /\ phase = "ready" /\ phase' = "waiting"
      /\ UNCHANGED <<wallet, run, outside, local>>
  BY <1>1 DEF Submit, Send
<1>4. pending \in [Run -> Calls \cup {NoCall}]
  BY DEF UpgradeInv, UTypes
<1>5. Reached'
  BY <1>2, <1>3, <1>4 DEF Reached
<1>6. Closed'
  BY <1>2, <1>3, <1>4 DEF Closed
<1>7. Fresh'
  BY <1>3, SamePart DEF Fresh, LogicName
<1>8. Linking'
  BY <1>3, SameLinking
<1> QED BY <1>5, <1>6, <1>7, <1>8

\* Neither a request that is asked again nor a commit disturbs anything.
LEMMA UnchangedLinks ==
  ASSUME UpgradeInv, LinkInv, dirty' \in BOOLEAN,
         UNCHANGED <<wallet, run, phase, pending, build, code, impl, admin, local>>
  PROVE  LinkInv'
<1> USE DEF LinkInv, local
<1>1. Reached' /\ Closed'
  BY DEF Reached, Closed
<1>2. Fresh'
  BY SamePart DEF Fresh, LogicName
<1>3. Linking'
  BY SameLinking
<1> QED BY <1>1, <1>2, <1>3

\* The provider asks again.
LEMMA RetryLinks ==
  ASSUME UpgradeInv, LinkInv, Retry
  PROVE  LinkInv'
BY UnchangedLinks DEF Retry, Limited, outside, LinkInv, Reached
-----------------------------------------------------------------------------
\* A new run has passed no library.
LEMMA StartRunLinks ==
  ASSUME UpgradeInv, LinkInv, NEW names \in Arguments, NEW dryRun \in BOOLEAN,
         StartRun(names, dryRun)
  PROVE  LinkInv'
<1> USE DEF LinkInv, StartRun, Start
<1>1. Reached'
  <2>1. 1 <= Len(Program) + 2
    BY ProgramParts
  <2> QED BY <2>1 DEF Reached
<1>2. Closed' /\ Fresh'
  BY DEF Closed, Fresh
<1>3. Linking'
  <2>1. \A l : ~LibraryPassed(l)'
    BY ProgramParts DEF LibraryPassed
  <2> QED BY <2>1 DEF Linking, LinkingOf
<1> QED BY <1>1, <1>2, <1>3

\* A contract the run names is not passed while it is changed, or while its
\* proxy still has to be pointed.
LEMMA SkipLinks ==
  ASSUME UpgradeInv, LinkInv, Skip
  PROVE  LinkInv'
<1> USE DEF LinkInv, outside
<1>1. /\ phase = "ready" /\ AtPart /\ pc \in DOMAIN Program /\ Len(Program) \in Nat
      /\ UNCHANGED <<wallet, run, phase, pending, outside, args, mem, receipt>>
      /\ pc' = pc + 1 /\ logic' = 0
  BY ProgramParts DEF Skip, Proceed, AtPart
<1>2. receipt = 0
  BY <1>1 DEF UpgradeInv, InStep
<1>3. pc \in 1 .. Len(Program)
  BY <1>1, ProgramParts
<1>4. Reached'
  BY <1>1, <1>3 DEF Reached
<1>5. Closed' /\ Fresh'
  BY <1>1, <1>2 DEF Closed, Fresh
<1>6. Linking'
  <2> SUFFICES ASSUME NEW n \in Contract, NEW l \in LinkedWith(n),
                      InChargeOf(n, l)', LibraryPassed(l)'
               PROVE  NotYet(n)' \/ AtNew(n)'
    BY <1>1 DEF Linking, LinkingOf
  <2>1. InChargeOf(n, l)
    BY <1>1 DEF InChargeOf, OwnsAdmin
  <2>2. \A k : Bytecode(k, mem.libraries)' = Bytecode(k, mem.libraries)
    BY <1>1 DEF Bytecode
  <2>3. AtNew(n) => AtNew(n)'
    BY <1>1, <2>2 DEF AtNew
  <2>4. CASE Part = n
    <3>1. LogicName(Part) = n /\ n \notin Library /\ n \notin Markets
      BY <2>4, LogicNames DEF PartName
    <3>2. Wanted
      BY <1>1, <2>1, <3>1 DEF Wanted, InChargeOf
    <3>3. ~MustCreate /\ ~MustPoint
      BY <2>1, <3>2 DEF Skip, NextCall, InChargeOf
    <3>4. logic = 0
      BY <2>4, <3>3 DEF MustPoint
    <3>5. ~CodeChanged(n)
      BY <3>1, <3>3, <3>4 DEF MustCreate
    <3>6. LibraryPassed(l)
      <4>1. PICK i \in DOMAIN Program : i < pc + 1 /\ Program[i] = l
        BY <1>1 DEF LibraryPassed
      <4>2. l \in Library
        BY Links
      <4>3. i # pc
        BY <2>4, <3>1, <4>1, <4>2 DEF Part
      <4>4. i < pc
        BY <1>3, <4>1, <4>3, ProgramParts
      <4> QED BY <4>1, <4>4 DEF LibraryPassed
    <3>7. AtNew(n)
      BY <2>1, <3>4, <3>5, <3>6 DEF Linking, LinkingOf, NotYet, Underway
    <3> QED BY <2>3, <3>7
  <2>5. CASE Part # n
    <3>1. CASE Part = l
      <4>1. l \in Library
        BY Links
      <4>2. LogicName(Part) = l
        BY <3>1, <4>1, LogicNames DEF PartName
      <4>3. Wanted
        BY <1>1, <2>1, <4>2 DEF Wanted, InChargeOf
      <4>4. ~MustCreate
        BY <2>1, <4>3 DEF Skip, NextCall, InChargeOf
      <4>5. logic # 0
        BY <3>1, <4>1, <4>4 DEF MustCreate
      <4> QED BY <3>1, <4>1, <4>5 DEF Fresh
    <3>2. CASE Part # l
      <4>1. LibraryPassed(l)
        <5>1. PICK i \in DOMAIN Program : i < pc + 1 /\ Program[i] = l
          BY <1>1 DEF LibraryPassed
        <5>2. i # pc
          BY <3>2, <5>1 DEF Part
        <5>3. i < pc
          BY <1>3, <5>1, <5>2, ProgramParts
        <5> QED BY <5>1, <5>3 DEF LibraryPassed
      <4>2. NotYet(n) \/ AtNew(n)
        BY <2>1, <2>5, <4>1 DEF Linking, LinkingOf, Underway
      <4>3. NotYet(n) => NotYet(n)'
        <5>1. CodeChanged(n)' = CodeChanged(n)
          BY <1>1, <2>2 DEF CodeChanged
        <5>2. ASSUME NotYet(n), NEW j \in DOMAIN Program, j < pc + 1
              PROVE  Program[j] # n
          BY <1>3, <2>5, <5>2, ProgramParts DEF NotYet, Part
        <5> QED BY <1>1, <5>1, <5>2 DEF NotYet
      <4> QED BY <2>3, <4>2, <4>3
    <3> QED BY <3>1, <3>2
  <2> QED BY <2>4, <2>5
<1> QED BY <1>4, <1>5, <1>6

\* At the end of the program every contract has been passed.
LEMMA SaveLinks ==
  ASSUME UpgradeInv, LinkInv, Save
  PROVE  LinkInv'
<1> USE DEF LinkInv
<1>1. /\ phase = "ready" /\ pc = Len(Program) + 1 /\ pc' = pc + 1 /\ Len(Program) \in Nat
      /\ UNCHANGED <<wallet, run, phase, pending, build, code, impl, admin,
                     args, mem, logic, receipt>>
  BY ProgramParts DEF Save, AtSave, Proceed
<1>2. logic = 0 /\ receipt = 0
  BY <1>1, ProgramParts DEF UpgradeInv, InStep, AtPart
<1>3. Reached'
  BY <1>1 DEF Reached, Save
<1>4. Closed' /\ Fresh'
  BY <1>1, <1>2 DEF Closed, Fresh
<1>5. Linking'
  <2> SUFFICES ASSUME NEW n \in Contract, NEW l \in LinkedWith(n),
                      InChargeOf(n, l)', LibraryPassed(l)'
               PROVE  NotYet(n)' \/ AtNew(n)'
    BY <1>1 DEF Linking, LinkingOf
  <2>1. InChargeOf(n, l)
    BY <1>1 DEF InChargeOf, OwnsAdmin
  <2>2. \A j \in DOMAIN Program : j < pc
    BY <1>1, ProgramParts
  <2>3. LibraryPassed(l)
    BY <2>2 DEF LibraryPassed
  <2>4. NotYet(n) \/ AtNew(n)
    BY <1>2, <2>1, <2>3 DEF Linking, LinkingOf, Underway
  <2>5. \E j \in DOMAIN Program : Program[j] = n
    BY ProgramOrder
  <2>6. AtNew(n)
    BY <2>2, <2>4, <2>5 DEF NotYet
  <2> QED BY <1>1, <2>6 DEF AtNew, Bytecode
<1> QED BY <1>3, <1>4, <1>5

\* The contract's proxy has been pointed to its new logic.
LEMMA ConfirmPointingLinks ==
  ASSUME UpgradeInv, LinkInv, ConfirmPointing
  PROVE  LinkInv'
<1> USE DEF LinkInv, outside
<1>1. /\ phase = "mined" /\ phase' = "ready" /\ receipt = 0
      /\ UNCHANGED <<wallet, run, pending, outside, args, mem, receipt>>
      /\ pc' = pc + 1 /\ logic' = 0
  BY DEF ConfirmPointing, Confirm
<1>2. AtPart /\ pc \in 1 .. Len(Program) /\ Len(Program) \in Nat /\ ~MustCreate /\ Part \in Proxy
  BY <1>1, ProgramParts DEF UpgradeInv, InStep, AtPart
<1>3. Reached'
  BY <1>1, <1>2 DEF Reached
<1>4. Closed' /\ Fresh'
  BY <1>1 DEF Closed, Fresh
<1>5. Linking'
  <2> SUFFICES ASSUME NEW n \in Contract, NEW l \in LinkedWith(n),
                      InChargeOf(n, l)', LibraryPassed(l)'
               PROVE  NotYet(n)' \/ AtNew(n)'
    BY <1>1 DEF Linking, LinkingOf
  <2>1. InChargeOf(n, l)
    BY <1>1 DEF InChargeOf, OwnsAdmin
  <2>2. \A k : Bytecode(k, mem.libraries)' = Bytecode(k, mem.libraries)
    BY <1>1 DEF Bytecode
  <2>3. AtNew(n) => AtNew(n)'
    BY <1>1, <2>2 DEF AtNew
  <2>4. LibraryPassed(l)
    <3>1. PICK i \in DOMAIN Program : i < pc + 1 /\ Program[i] = l
      BY <1>1 DEF LibraryPassed
    <3>2. i # pc
      <4>1. l \in Library /\ Part \notin Library
        BY <1>2, Links, MarketAssumption, UpgradeAssumption DEF Proxy
      <4> QED BY <3>1, <4>1 DEF Part
    <3>3. i < pc
      BY <1>2, <3>1, <3>2, ProgramParts
    <3> QED BY <3>1, <3>3 DEF LibraryPassed
  <2>5. CASE Part = n
    BY <1>1, <1>2, <2>1, <2>3, <2>4, <2>5 DEF Linking, LinkingOf
  <2>6. CASE Part # n
    <3>1. NotYet(n) \/ AtNew(n)
      BY <2>1, <2>4, <2>6 DEF Linking, LinkingOf, Underway
    <3>2. NotYet(n) => NotYet(n)'
      <4>1. CodeChanged(n)' = CodeChanged(n)
        BY <1>1, <2>2 DEF CodeChanged
      <4>2. ASSUME NotYet(n), NEW j \in DOMAIN Program, j < pc + 1
            PROVE  Program[j] # n
        BY <1>2, <2>6, <4>2, ProgramParts DEF NotYet, Part
      <4> QED BY <1>1, <4>1, <4>2 DEF NotYet
    <3> QED BY <2>3, <3>1, <3>2
  <2> QED BY <2>5, <2>6
<1> QED BY <1>3, <1>4, <1>5

\* A contract linked with a library just deployed is found changed: its
\* bytecode names an address that no contract is linked with.
LEMMA ConfirmCreationLinks ==
  ASSUME UpgradeInv, LinkInv, ConfirmCreation
  PROVE  LinkInv'
<1> USE DEF LinkInv, outside
<1> DEFINE k == LogicName(Part)
<1>1. /\ phase = "mined" /\ phase' = "ready" /\ receipt # 0
      /\ UNCHANGED <<wallet, run, pending, outside, args>>
      /\ mem' = Remember(k, receipt) /\ receipt' = 0
      /\ logic' = (IF Part \in Library THEN 0 ELSE receipt)
      /\ pc' = IF Part \in Library THEN pc + 1 ELSE pc
  BY DEF ConfirmCreation, Confirm
<1>2. AtPart /\ pc \in 1..Len(Program) /\ Len(Program) \in Nat
  BY <1>1, ProgramParts DEF UpgradeInv, InStep, AtPart
<1>3. /\ Part \in PartName /\ k \in Name
      /\ receipt \in DOMAIN code /\ MustCreate
      /\ code[receipt] = Bytecode(k, mem.libraries)
  BY <1>1, <1>2, PartNames, LogicNames DEF UpgradeInv, InStep, UTypes
<1>4. Reached'
  BY <1>1, <1>2 DEF Reached
<1>5. Closed'
  BY <1>1 DEF Closed
<1>6. mem \in Files
  BY DEF UpgradeInv, UTypes
<1>7. CASE Part \in Library
  <2>1. logic' = 0 /\ pc' = pc + 1 /\ k = Part
    BY <1>1, <1>3, <1>7, LogicNames
  <2>2. /\ mem'.libraries = [mem.libraries EXCEPT ![Part] = receipt]
        /\ \A n \in Contract : mem'.hash[n] = mem.hash[n]
    <3>1. /\ mem.libraries \in [Library -> Address] /\ mem.hash \in [Name -> Bytecodes]
          /\ Contract \subseteq Name /\ Part \notin Contract
      BY <1>3, <1>6, <1>7, LogicNames DEF Files, Name
    <3>2. mem' = [mem EXCEPT !.libraries[Part] = receipt, !.hash[Part] = Bytecode(Part, mem.libraries)]
      BY <1>1, <1>7, <2>1 DEF Remember
    <3> QED BY <1>6, <3>1, <3>2 DEF Files
  <2>3. Fresh'
    BY <1>1, <2>1 DEF Fresh
  <2>4. Linking'
    <3> SUFFICES ASSUME NEW n \in Contract, NEW l \in LinkedWith(n),
                        InChargeOf(n, l)', LibraryPassed(l)'
                 PROVE  NotYet(n)' \/ AtNew(n)'
      BY <1>1 DEF Linking, LinkingOf
    <3>1. \A j \in DOMAIN Program : j < pc + 1 => Program[j] # n
      <4>1. \A j \in DOMAIN Program : j <= pc => Program[j] \in Library
        BY <1>2, <1>7, ProgramOrder DEF AtPart, Part
      <4>2. n \notin Library
        BY LogicNames DEF PartName
      <4> QED BY <1>2, <4>1, <4>2, ProgramParts
    <3>2. l \in Library /\ InChargeOf(n, l)
      BY <1>1, Links DEF InChargeOf, OwnsAdmin
    <3>3. CASE l = Part
      <4>1. receipt \in Bytecode(n, mem'.libraries).links
        <5>1. mem'.libraries[l] = receipt
          BY <1>6, <2>2, <3>2, <3>3 DEF Files
        <5> QED BY <5>1 DEF Bytecode
      <4>2. receipt \notin mem'.hash[n].links
        BY <1>1, <2>2 DEF Fresh
      <4>3. mem'.hash[n] # Bytecode(n, mem'.libraries)
        BY <4>1, <4>2
      <4>4. CodeChanged(n)'
        <5>1. Bytecode(n, mem.libraries)' = Bytecode(n, mem'.libraries)
          BY <1>1 DEF Bytecode
        <5> QED BY <4>3, <5>1 DEF CodeChanged
      <4> QED BY <2>1, <3>1, <4>4 DEF NotYet
    <3>4. CASE l # Part
      <4>1. Bytecode(n, mem.libraries)' = Bytecode(n, mem.libraries)
        <5>1. LinkedWith(n) = {l}
          BY DEF LinkedWith
        <5>2. mem'.libraries[l] = mem.libraries[l]
          BY <1>6, <2>2, <3>2, <3>4 DEF Files
        <5> QED BY <1>1, <5>1, <5>2 DEF Bytecode
      <4>2. LibraryPassed(l)
        <5>1. PICK i \in DOMAIN Program : i < pc + 1 /\ Program[i] = l
          BY <2>1 DEF LibraryPassed
        <5>2. i # pc
          BY <3>4, <5>1 DEF Part
        <5>3. i < pc
          BY <1>2, <5>1, <5>2, ProgramParts
        <5> QED BY <5>1, <5>3 DEF LibraryPassed
      <4>3. Part # n
        BY <1>7, LogicNames DEF PartName
      <4>4. NotYet(n) \/ AtNew(n)
        BY <3>2, <4>2, <4>3 DEF Linking, LinkingOf, Underway
      <4>5. CodeChanged(n)' = CodeChanged(n)
        BY <2>2, <4>1 DEF CodeChanged
      <4>6. AtNew(n) => AtNew(n)'
        BY <1>1, <4>1 DEF AtNew
      <4>7. NotYet(n) => NotYet(n)'
        BY <2>1, <3>1, <4>5 DEF NotYet
      <4> QED BY <4>4, <4>6, <4>7
    <3> QED BY <3>3, <3>4
  <2> QED BY <1>4, <1>5, <2>3, <2>4
<1>8. CASE Part \notin Library
  <2>1. /\ logic' = receipt /\ pc' = pc
        /\ k \notin Library
    <3>1. k \notin Library
      BY <1>3, <1>8, LogicNames, UpgradeAssumption
    <3> QED BY <1>1, <1>8, <3>1
  <2>2. /\ mem'.libraries = mem.libraries
        /\ mem'.hash = [mem.hash EXCEPT ![k] = Bytecode(k, mem.libraries)]
    BY <1>1, <1>6, <2>1 DEF Remember, Files
  <2>3. Part' = Part /\ LogicName(Part)' = k /\ AtPart' = AtPart
    BY <2>1 DEF Part, LogicName, AtPart
  <2>4. \A n : Bytecode(n, mem.libraries)' = Bytecode(n, mem.libraries)
    BY <1>1, <2>2 DEF Bytecode
  <2>5. Fresh'
    BY <1>1, <1>3, <1>8, <2>1, <2>3, <2>4 DEF Fresh
  <2>6. Linking'
    <3> SUFFICES ASSUME NEW n \in Contract, NEW l \in LinkedWith(n),
                        InChargeOf(n, l)', LibraryPassed(l)'
                 PROVE  NotYet(n)' \/ Underway(n)' \/ AtNew(n)'
      BY <1>1 DEF Linking, LinkingOf
    <3>1. InChargeOf(n, l) /\ LibraryPassed(l)
      BY <1>1, <2>1 DEF InChargeOf, OwnsAdmin, LibraryPassed
    <3>2. CASE Part = n
      BY <1>1, <1>2, <2>1, <2>3, <3>2 DEF Underway
    <3>3. CASE Part # n
      <4>1. NotYet(n) \/ AtNew(n)
        BY <3>1, <3>3 DEF Linking, LinkingOf, Underway
      <4>2. k # n
        <5>1. n \in PartName /\ n \notin Markets /\ n # "CashMarket"
          BY LogicNames, UpgradeAssumption DEF PartName
        <5> QED BY <1>3, <3>3, <5>1, LogicNames
      <4>3. mem'.hash[n] = mem.hash[n]
        BY <1>6, <2>2, <4>2 DEF Files, Name
      <4>4. CodeChanged(n)' = CodeChanged(n)
        BY <2>4, <4>3 DEF CodeChanged
      <4>5. NotYet(n)' = NotYet(n)
        BY <2>1, <4>4 DEF NotYet
      <4>6. AtNew(n)' = AtNew(n)
        BY <1>1, <2>4 DEF AtNew
      <4> QED BY <4>1, <4>5, <4>6
    <3> QED BY <3>2, <3>3
  <2> QED BY <1>4, <1>5, <2>5, <2>6
<1> QED BY <1>7, <1>8

-----------------------------------------------------------------------------
\* A new contract changes nothing at the addresses there are.
LEMMA CreationMinedLinks ==
  ASSUME UpgradeInv, LinkInv, NEW r \in Run, MineCall(r), pending[r].op = "create"
  PROVE  LinkInv'
<1> USE DEF LinkInv
<1> DEFINE c == pending[r]
<1>1. /\ Mine(r, TRUE)
      /\ code' = Append(code, c.code)
      /\ receipt' = IF r = run /\ phase = "waiting" THEN Len(code) + 1
                    ELSE receipt
      /\ UNCHANGED <<build, dirty, impl, admin, file, args, mem, pc, logic>>
  BY DEF MineCall
<1>2. /\ c \in Calls /\ c # NoCall
      /\ pending' = [pending EXCEPT ![r] = NoCall]
      /\ pending \in [Run -> Calls \cup {NoCall}]
      /\ UNCHANGED <<wallet, run>>
      /\ phase' # "down" <=> phase # "down"
      /\ \/ r = run /\ phase = "waiting" /\ phase' = "mined"
         \/ (r # run \/ phase = "down") /\ phase' = phase
  BY <1>1, Mined DEF UpgradeInv, UTypes, Mine
<1>3. c.code \in Bytecodes /\ code \in Seq(Bytecodes)
  BY <1>2 DEF Calls, UpgradeInv, UTypes
<1>4. /\ Len(code) + 1 \in DOMAIN code' /\ code'[Len(code) + 1] = c.code
      /\ Len(code) + 1 # 0 /\ Len(code) + 1 \notin DOMAIN code
      /\ \A a \in DOMAIN code : a \in DOMAIN code' /\ code'[a] = code[a]
      /\ \A a \in DOMAIN code' : a \in DOMAIN code \/ a = Len(code) + 1
  BY <1>1, <1>3
<1>5. \A q \in Run : pending'[q] # NoCall => pending'[q] = pending[q]
  BY <1>2
<1>6. Reached'
  <2>1. impl' \in [Proxy -> DOMAIN code']
    BY <1>1, <1>4 DEF Reached
  <2> QED BY <1>1, <1>4, <1>5, <2>1 DEF Reached
<1>7. Closed'
  <2>1. \A a \in DOMAIN code' : code'[a].links \subseteq DOMAIN code'
    BY <1>2, <1>4 DEF Closed
  <2>2. \A q \in Run :
          pending'[q] # NoCall /\ pending'[q].op = "create" => pending'[q].code.links \subseteq DOMAIN code'
    BY <1>4, <1>5 DEF Closed
  <2> QED BY <2>1, <2>2 DEF Closed
<1>8. \A n : Bytecode(n, mem.libraries)' = Bytecode(n, mem.libraries)
  BY <1>1, SamePart
<1>9. Part' = Part /\ LogicName(Part)' = LogicName(Part) /\ AtPart' = AtPart
  BY <1>1, SamePart DEF LogicName
<1>10. Fresh'
  <2>1. logic # 0 => Part \notin Library /\ code'[logic] = Bytecode(LogicName(Part), mem.libraries)
    BY <1>4 DEF Fresh, UpgradeInv, UTypes
  <2>2. CASE r = run /\ phase = "waiting"
    <3>1. Describes(mem) /\ receipt' = Len(code) + 1
      BY <1>1, <2>2 DEF UpgradeInv, Recorded
    <3>2. ASSUME NEW n \in Contract PROVE mem.hash[n].links \subseteq DOMAIN code
      BY <3>1 DEF Describes, Closed
    <3> QED BY <1>1, <1>4, <1>8, <1>9, <2>1, <3>1, <3>2 DEF Fresh
  <2>3. CASE ~(r = run /\ phase = "waiting")
    BY <1>1, <1>8, <1>9, <2>1, <2>3 DEF Fresh
  <2> QED BY <2>2, <2>3
<1>11. Linking'
  <2> SUFFICES ASSUME NEW n \in Contract, NEW l \in LinkedWith(n), LinkingOf(n, l)
               PROVE  LinkingOf(n, l)'
    BY DEF Linking
  <2>1. CodeChanged(n)' = CodeChanged(n)
    BY <1>1, SamePart
  <2>2. AtNew(n)' = AtNew(n)
    <3>1. impl[n] \in DOMAIN code
      BY DEF Reached, Proxy
    <3> QED BY <1>1, <1>4, <1>8, <3>1 DEF AtNew
  <2>3. /\ NotYet(n)' = NotYet(n) /\ Underway(n)' = Underway(n)
        /\ LibraryPassed(l)' = LibraryPassed(l) /\ OwnsAdmin' = OwnsAdmin
    BY <1>1, <1>2, <1>9, <2>1 DEF NotYet, Underway, LibraryPassed, OwnsAdmin
  <2>4. InChargeOf(n, l)' = InChargeOf(n, l)
    BY <1>1, <1>2, <2>3 DEF InChargeOf
  <2>5. phase' = "mined" /\ receipt' = 0 => phase = "mined" /\ receipt = 0
    BY <1>1, <1>2, <1>4
  <2> QED BY <1>9, <2>2, <2>3, <2>4, <2>5 DEF LinkingOf
<1> QED BY <1>6, <1>7, <1>10, <1>11

\* During a clean run the proxy that is pointed is the one the run is at.
LEMMA PointingMinedLinks ==
  ASSUME UpgradeInv, LinkInv, NEW r \in Run, MineCall(r), pending[r].op = "upgrade"
  PROVE  LinkInv'
<1> USE DEF LinkInv
<1> DEFINE c == pending[r]
<1>1. /\ Mine(r, admin = wallet[r]) /\ c # NoCall
      /\ impl' = IF admin = wallet[r] THEN [impl EXCEPT ![c.proxy] = c.to]
                 ELSE impl
      /\ UNCHANGED <<build, dirty, code, admin, file, local>>
  BY DEF MineCall
<1> USE DEF local
<1>2. /\ c \in Calls
      /\ pending' = [pending EXCEPT ![r] = NoCall]
      /\ pending \in [Run -> Calls \cup {NoCall}]
      /\ UNCHANGED <<wallet, run>>
      /\ phase' # "down" <=> phase # "down"
      /\ \/ /\ r = run /\ phase = "waiting"
            /\ phase' = IF admin = wallet[r] THEN "mined" ELSE "reverted"
         \/ (r # run \/ phase = "down") /\ phase' = phase
  BY <1>1, Mined DEF UpgradeInv, UTypes
<1>3. \A q \in Run : pending'[q] # NoCall => pending'[q] = pending[q]
  BY <1>2
<1>4. c.proxy \in Proxy /\ c.to \in DOMAIN code
  BY <1>1, <1>2 DEF Calls, Reached
<1>5. Reached'
  <2>1. impl' \in [Proxy -> DOMAIN code]
    BY <1>1, <1>4 DEF Reached
  <2> QED BY <1>1, <1>3, <2>1 DEF Reached
<1>6. Closed'
  BY <1>1, <1>3 DEF Closed
<1>7. \A n : Bytecode(n, mem.libraries)' = Bytecode(n, mem.libraries)
  BY <1>1, SamePart
<1>8. Part' = Part /\ LogicName(Part)' = LogicName(Part) /\ AtPart' = AtPart
  BY <1>1, SamePart DEF LogicName
<1>9. Fresh'
  BY <1>1, <1>7, <1>8 DEF Fresh
<1>10. Linking'
  <2> SUFFICES ASSUME NEW n \in Contract, NEW l \in LinkedWith(n), LinkingOf(n, l),
                      InChargeOf(n, l)', LibraryPassed(l)'
               PROVE  /\ NotYet(n)' \/ Underway(n)' \/ AtNew(n)'
                      /\ AtPart /\ Part = n => AtNew(n)'
    BY <1>8 DEF Linking, LinkingOf
  <2>1. InChargeOf(n, l) /\ LibraryPassed(l) /\ OwnsAdmin
    BY <1>1, <1>2 DEF InChargeOf, OwnsAdmin, LibraryPassed
  <2>2. /\ r = run /\ phase = "waiting" /\ receipt = 0 /\ AtPart
        /\ ~MustCreate /\ Part \in Proxy /\ c = Pointing(Part, Target)
    <3>1. r = run /\ phase = "waiting" /\ phase # "mined"
      BY <1>1, <1>2, <2>1 DEF UpgradeInv, Alone, InChargeOf
    <3>2. c # Creation(LogicName(Part))
      BY DEF Creation
    <3> QED BY <3>1, <3>2 DEF UpgradeInv, InStep
  <2>3. impl' = [impl EXCEPT ![Part] = Target]
    <3>1. c.proxy = Part /\ c.to = Target
      BY <2>2 DEF Pointing
    <3> QED BY <1>1, <2>1, <2>2, <3>1 DEF OwnsAdmin
  <2>4. CASE Part = n
    <3>1. Part \notin Markets /\ n \notin Markets
      BY <2>4, LogicNames DEF PartName
    <3>2. Target = logic /\ logic # 0
      <4>1. Target = logic
        BY <3>1 DEF Target
      <4>2. Target \in DOMAIN code
        BY <1>4, <2>2 DEF Pointing
      <4>3. 0 \notin DOMAIN code
        BY DEF UpgradeInv, UTypes
      <4> QED BY <4>1, <4>2, <4>3
    <3>3. code[logic] = Bytecode(n, mem.libraries)
      BY <2>4, <3>1, <3>2 DEF Fresh, LogicName
    <3>4. impl'[n] = logic
      BY <2>2, <2>3, <2>4, <3>2 DEF Reached
    <3>5. AtNew(n)'
      BY <1>1, <1>7, <3>3, <3>4 DEF AtNew
    <3> QED BY <3>5
  <2>5. CASE Part # n
    <3>1. NotYet(n) \/ AtNew(n)
      BY <2>1, <2>5 DEF LinkingOf, Underway
    <3>2. impl'[n] = impl[n]
      BY <2>3, <2>5 DEF Reached, Proxy
    <3>3. AtNew(n)' = AtNew(n)
      BY <1>1, <1>7, <3>2 DEF AtNew
    <3>4. NotYet(n)' = NotYet(n)
      BY <1>1, SamePart DEF NotYet
    <3> QED BY <2>5, <3>1, <3>3, <3>4
  <2> QED BY <2>4, <2>5
<1> QED BY <1>5, <1>6, <1>9, <1>10

\* What people do: a run that loses the ProxyAdmin is no longer in charge.
LEMMA PeopleLink ==
  ASSUME UpgradeInv, LinkInv,
         \/ \E n \in Name \ Library : Compile(n)
         \/ Commit
         \/ TransferOwner
  PROVE  LinkInv'
<1>1. CASE \E n \in Name \ Library : Compile(n)
  <2>1. /\ phase = "down"
        /\ UNCHANGED <<submission, dirty, code, impl, admin, file, local>>
    BY <1>1 DEF Compile
  <2> USE DEF submission, local, LinkInv
  <2>2. Reached' /\ Closed'
    BY <2>1 DEF Reached, Closed
  <2>3. receipt = 0 /\ logic = 0
    BY <2>1 DEF UpgradeInv, InStep
  <2>4. Fresh' /\ Linking'
    BY <2>1, <2>3 DEF Fresh, Linking, LinkingOf, InChargeOf
  <2> QED BY <2>2, <2>4
<1>2. CASE Commit
  <2>1. UNCHANGED <<submission, build, code, impl, admin, file, local>> /\ dirty' \in BOOLEAN
    BY <1>2 DEF Commit
  <2> QED BY <2>1, UnchangedLinks DEF submission
<1>3. CASE TransferOwner
  <2>1. /\ admin = "deployer" /\ admin' = "successor"
        /\ UNCHANGED <<submission, build, dirty, code, impl, file, local>>
    BY <1>3 DEF TransferOwner
  <2> USE DEF submission, local, LinkInv
  <2>2. Reached' /\ Closed'
    BY <2>1 DEF Reached, Closed
  <2>3. Fresh'
    BY <2>1, SamePart DEF Fresh, LogicName
  <2>4. \A n, l : ~InChargeOf(n, l)'
    BY <2>1 DEF UpgradeInv, Alone, InChargeOf, OwnsAdmin
  <2>5. Linking'
    BY <2>4 DEF Linking, LinkingOf
  <2> QED BY <2>2, <2>3, <2>5
<1> QED BY <1>1, <1>2, <1>3

\* Every step keeps the second invariant.
LEMMA LinkStep == UpgradeInv /\ LinkInv /\ [Next]_vars => LinkInv'
<1> SUFFICES ASSUME UpgradeInv, LinkInv, [Next]_vars
             PROVE  LinkInv'
  OBVIOUS
<1>1. CASE Script
  BY <1>1, SubmitLinks, SubmitReplyLostLinks, RetryLinks, SkipLinks, SaveLinks,
     EndLinks, ConfirmCreationLinks, ConfirmPointingLinks DEF Script
<1>2. CASE Chain
  <2>1. PICK r \in Run : MineCall(r)
    BY <1>2 DEF Chain
  <2>2. pending[r].op = "create" \/ pending[r].op = "upgrade"
    BY <2>1 DEF MineCall
  <2> QED BY <2>1, <2>2, CreationMinedLinks, PointingMinedLinks
<1>3. CASE People
  BY <1>3, PeopleLink, StartRunLinks, EndLinks DEF People
<1>4. CASE UNCHANGED vars
  <2>1. UNCHANGED <<submission, build, dirty, code, impl, admin, file, local>>
    BY <1>4 DEF vars
  <2> QED BY <2>1, UnchangedLinks DEF submission, LinkInv, Reached
<1> QED BY <1>1, <1>2, <1>3, <1>4 DEF Next

\* What is linked stays on the chain, whatever runs die.
THEOREM LinkInvariance == Spec => []LinkInv
BY LinkStart, LinkStep, UpgradeInvariance, PTL DEF Spec

\* The state has its types: a proxy always points to a contract that exists,
\* whichever of the transactions of a dead run is mined.
THEOREM UpgradeTypeCorrect ==
  ASSUME Calls \subseteq Call
  PROVE  Spec => []UpgradeTypeOK
<1>1. UpgradeInv /\ LinkInv /\ TypeOK => UpgradeTypeOK
  <2> SUFFICES ASSUME UpgradeInv, LinkInv, TypeOK PROVE UpgradeTypeOK
    OBVIOUS
  <2>1. pc \in 1 .. (Len(Program) + 2)
    <3>1. pc \in Nat \ {0} /\ pc <= Len(Program) + 2 /\ Len(Program) \in Nat
      BY ProgramParts DEF UpgradeInv, UTypes, LinkInv, Reached
    <3> QED BY <3>1
  <2> QED BY <2>1 DEF UpgradeInv, UTypes, LinkInv, Reached, UpgradeTypeOK
<1>2. Init => SubmissionInit
  BY DEF Init
<1>3. UpgradeInv /\ [Next]_vars => [SubmissionNext]_submission
  BY UpgradeStepsSubmit
<1>4. Spec => SubmissionSpec
  BY <1>2, <1>3, UpgradeInvariance, PTL DEF Spec, SubmissionSpec
<1>5. SubmissionInv => TypeOK
  BY DEF SubmissionInv
<1> QED BY <1>1, <1>4, <1>5, UpgradeInvariance, LinkInvariance, SubmissionInvariance, PTL

\* A run of the ProxyAdmin's owner that gets to its end leaves a contract it
\* names linked with the library it names, whatever earlier runs left: the
\* new library's address is in no hash the file can hold, so the contract is
\* always found changed (deployLibrary, upgradeContract).
THEOREM AlwaysLinkedWithNewLibrary == Spec => []LinkedWithNewLibrary
<1>1. UpgradeInv /\ LinkInv => LinkedWithNewLibrary
  <2> SUFFICES ASSUME UpgradeInv, LinkInv, NEW n \in Contract, NEW l \in LinkedWith(n),
                      Completed(n), Completed(l)
               PROVE  code[impl[n]] = Bytecode(n, file.libraries)
    BY DEF LinkedWithNewLibrary
  <2>1. /\ InChargeOf(n, l) /\ pc = Len(Program) + 2 /\ Len(Program) \in Nat
        /\ file = mem
    BY ProgramParts DEF Completed, InChargeOf, UpgradeInv, Written
  <2>2. \A i \in DOMAIN Program : i < pc
    BY <2>1, ProgramParts
  <2>3. l \in Library
    BY Links
  <2>4. LibraryPassed(l) /\ ~NotYet(n)
    BY <2>2, <2>3, ProgramOrder DEF LibraryPassed, NotYet
  <2>5. ~AtPart
    BY <2>1, <2>2 DEF AtPart
  <2>6. AtNew(n)
    BY <2>1, <2>4, <2>5 DEF LinkInv, Linking, LinkingOf, Underway
  <2> QED BY <2>1, <2>6 DEF AtNew
<1> QED BY <1>1, UpgradeInvariance, LinkInvariance, PTL
=============================================================================
