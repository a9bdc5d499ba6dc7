------------------------------- MODULE Upgrade -------------------------------
(***************************************************************************)
(* upgrade.ts and the upgrade functions of NotionalDeployer: a script that *)
(* is given some names, deploys the libraries and the logic contracts      *)
(* whose bytecode is not that of the file of addresses, points the proxies *)
(* at them if its wallet owns the ProxyAdmin, and writes the file at its   *)
(* end.  A run that dies leaves contracts and pointed proxies behind, and  *)
(* a file that does not know them.                                         *)
(***************************************************************************)
EXTENDS Submission, Sequences

CONSTANTS
  Library,      \* the libraries looked at, of {"Liquidation", "RiskFramework"}
  Contract,     \* the core contracts looked at
  Market,       \* the sequence of the markets, in the order of their groups
  Arguments,    \* bound: the sets of names a run is given
  MaxVersions   \* bound: the versions of the source of a contract

Markets == {Market[i] : i \in DOMAIN Market}
Proxy == Contract \cup Markets
Name == Library \cup Contract \cup {"CashMarket"}

ASSUME MarketAssumption ==
  /\ Market \in Seq(Markets)
  /\ Markets \cap (Library \cup Contract) = {}
ASSUME UpgradeAssumption ==
  /\ Arguments \subseteq SUBSET Name
  /\ Library \subseteq {"Liquidation", "RiskFramework"}
  /\ Contract \subseteq {"Escrow", "ERC1155Token", "ERC1155Trade", "Portfolios"}
  /\ {"deployer", "successor"} \subseteq Wallet
  /\ MaxVersions \in Nat \ {0}

VARIABLES
  build,     \* the version of each name in the build directory
  dirty,     \* git status shows a change
  code,      \* the contracts on the chain, by address
  impl,      \* the logic each proxy points to
  admin,     \* the owner of the ProxyAdmin
  file,      \* CONTRACTS_FILE
  args,      \* the arguments of the current run, and how it was started
  mem,       \* the addresses and hashes the current run has in memory
  pc,        \* the part of the program the current run is at
  logic,     \* 0, or the new logic the current part has deployed
  receipt    \* the contract the current run's last transaction created

local == <<args, mem, pc, logic, receipt>>
vars == <<submission, build, dirty, code, impl, admin, file, local>>

\* The name of the bytecode behind a proxy.
LogicName(p) == IF p \in Markets THEN "CashMarket" ELSE p

\* The library that a contract is linked with, if it is looked at.
LinkedWith(n) ==
  CASE n = "Escrow" -> Library \cap {"Liquidation"}
    [] n = "Portfolios" -> Library \cap {"RiskFramework"}
    [] OTHER -> {}

\* The bytecode that is built and linked: its hash is what it is made of.
Bytecode(n, libraries) ==
  [name |-> n, version |-> build[n],
   links |-> {libraries[l] : l \in LinkedWith(n)}]

\* A name, if it is looked at.
One(n) == IF n \in Name THEN <<n>> ELSE << >>

\* Mutant: the contracts are upgraded before the libraries they link.
ProgramContractsFirst ==
  One("Escrow") \o One("ERC1155Token") \o One("ERC1155Trade")
  \o One("Portfolios") \o One("Liquidation") \o One("RiskFramework") \o Market

\* What main() attempts, in its order, with one part for each market.
Program ==
  One("Liquidation") \o One("RiskFramework") \o One("Escrow")
  \o One("ERC1155Token") \o One("ERC1155Trade") \o One("Portfolios") \o Market

Address == Nat \ {0}
Bytecodes ==
  [name : {"Liquidation", "RiskFramework", "CashMarket", "Escrow",
           "Portfolios", "ERC1155Token", "ERC1155Trade"},
   version : 1..MaxVersions, links : SUBSET Address]
Files ==
  [libraries : [Library -> Address], hash : [Name -> Bytecodes],
   logic : Address]

\* The transactions of the script.
Calls ==
  [op : {"create"}, code : Bytecodes]
    \cup [op : {"upgrade"}, proxy : Proxy, to : Address]

Creation(n) == [op |-> "create", code |-> Bytecode(n, mem.libraries)]
Pointing(p, a) == [op |-> "upgrade", proxy |-> p, to |-> a]
-----------------------------------------------------------------------------
\* The chain and the file as a finished deployment left them.
FirstNames == <<"Liquidation", "RiskFramework", "CashMarket", "Escrow",
                "Portfolios", "ERC1155Token", "ERC1155Trade">>

FirstAddress(n) == CHOOSE a \in 1..7 : FirstNames[a] = n

FirstCode(n) ==
  [name |-> n, version |-> 1,
   links |-> {FirstAddress(l) : l \in LinkedWith(n)}]

FirstFile ==
  [libraries |-> [l \in Library |-> FirstAddress(l)],
   hash |-> [n \in Name |-> FirstCode(n)],
   logic |-> FirstAddress("CashMarket")]

NoArguments == [names |-> {}, dryRun |-> TRUE, clean |-> FALSE]

Init ==
  /\ SubmissionInit
  /\ build = [n \in Name |-> 1]
  /\ dirty = FALSE
  /\ code = [a \in 1..7 |-> FirstCode(FirstNames[a])]
  /\ impl = [p \in Proxy |-> FirstAddress(LogicName(p))]
  /\ admin = "deployer"
  /\ file = FirstFile
  /\ args = NoArguments
  /\ mem = FirstFile
  /\ pc = 1
  /\ logic = 0
  /\ receipt = 0

\* The source is changed, committed and compiled.  A library is deployed
\* again whether or not it changed, so that one version of it is enough.
Compile(n) ==
  /\ phase = "down"
  /\ \E v \in 1..MaxVersions :
       v # build[n] /\ build' = [build EXCEPT ![n] = v]
  /\ UNCHANGED <<submission, dirty, code, impl, admin, file, local>>

\* The changed file of addresses is committed.
Commit ==
  /\ phase = "down"
  /\ dirty
  /\ dirty' = FALSE
  /\ UNCHANGED <<submission, build, code, impl, admin, file, local>>

\* The deployer gives the ProxyAdmin away (transferOwner).
TransferOwner ==
  /\ admin = "deployer"
  /\ admin' = "successor"
  /\ UNCHANGED <<submission, build, dirty, code, impl, file, local>>

\* The script starts: a dirty head ends it, so only a clean one counts.
StartRun(names, dryRun) ==
  /\ ~dirty
  /\ Start
  /\ args' = [names |-> names, dryRun |-> dryRun,
              clean |-> wallet[run + 1] = admin
                        /\ \A r \in Run : pending[r] = NoCall]
  /\ mem' = file
  /\ pc' = 1
  /\ logic' = 0
  /\ receipt' = 0
  /\ UNCHANGED <<build, dirty, code, impl, admin, file>>
-----------------------------------------------------------------------------
(***************************************************************************)
(* The parts of the program.                                               *)
(***************************************************************************)
Part == Program[pc]
AtPart == pc \in DOMAIN Program
Wanted == AtPart /\ LogicName(Part) \in args.names

\* upgradeCheckCodeHash
CodeChanged(n) == mem.hash[n] # Bytecode(n, mem.libraries)

OwnsAdmin == admin = wallet[run]

\* The address the proxy of this part should have: that of the new logic of
\* a core contract, or of the markets' logic, new or not.
Target == IF Part \in Markets THEN mem.logic ELSE logic

\* Mutant: as for core contracts, only new logic makes a market upgrade.
MustPointIfDeployed == Part \in Proxy /\ logic # 0

MustPoint ==
  \/ Part \in Contract /\ logic # 0
  \/ Part \in Markets /\ impl[Part] # mem.logic

\* deployLibrary; or new logic in upgradeContract, upgradeCashMarket
MustCreate ==
  /\ logic = 0
  /\ Part \in Library \/ CodeChanged(LogicName(Part))

\* Mutant: a dry run is recognised where logic is deployed, not at the proxy.
NextCallPointsDry ==
  IF MustCreate /\ ~args.dryRun THEN {Creation(LogicName(Part))}
  ELSE IF MustPoint /\ OwnsAdmin THEN {Pointing(Part, Target)}
  ELSE {}

\* The transaction the script sends next in this part, if there is one.
NextCall ==
  IF args.dryRun THEN {}
  ELSE IF MustCreate THEN {Creation(LogicName(Part))}
  ELSE IF MustPoint /\ OwnsAdmin THEN {Pointing(Part, Target)}
  ELSE {}

outside == <<build, dirty, code, impl, admin, file>>

\* The process ends, and nothing is left of what it had in memory.
Forget ==
  /\ args' = NoArguments
  /\ mem' = FirstFile
  /\ pc' = 1
  /\ logic' = 0
  /\ receipt' = 0

Submit ==
  /\ Wanted
  /\ \E c \in NextCall : Send(c)
  /\ UNCHANGED <<outside, local>>

SubmitReplyLost ==
  /\ Wanted
  /\ \E c \in NextCall : ReplyLost(c)
  /\ Forget
  /\ UNCHANGED outside

Retry == Limited /\ UNCHANGED <<outside, local>>

\* The part is not wanted, or there is nothing more to do in it: the
\* bytecode is unchanged, it is a dry run, or the ProxyAdmin is another's.
Skip ==
  /\ AtPart
  /\ Wanted => NextCall = {}
  /\ Proceed
  /\ pc' = pc + 1
  /\ logic' = 0
  /\ UNCHANGED <<outside, args, mem, receipt>>

\* Mutant: the address of new market logic is not kept.
RememberHashOnly(n, a) ==
  IF n \in Library
  THEN [mem EXCEPT !.libraries[n] = a, !.hash[n] = Bytecode(n, mem.libraries)]
  ELSE [mem EXCEPT !.hash[n] = Bytecode(n, mem.libraries)]

\* What the script remembers of a contract it has deployed.
Remember(n, a) ==
  IF n \in Library
  THEN [mem EXCEPT !.libraries[n] = a, !.hash[n] = Bytecode(n, mem.libraries)]
  ELSE [mem EXCEPT !.hash[n] = Bytecode(n, mem.libraries),
                   !.logic = IF n = "CashMarket" THEN a ELSE @]

\* The receipt of a new contract; a library is then done, logic is next
\* pointed to.
ConfirmCreation ==
  /\ Confirm
  /\ receipt # 0
  /\ mem' = Remember(LogicName(Part), receipt)
  /\ logic' = IF Part \in Library THEN 0 ELSE receipt
  /\ pc' = IF Part \in Library THEN pc + 1 ELSE pc
  /\ receipt' = 0
  /\ UNCHANGED <<outside, args>>

\* The receipt of a proxy's upgrade, which ends the part.
ConfirmPointing ==
  /\ Confirm
  /\ receipt = 0
  /\ pc' = pc + 1
  /\ logic' = 0
  /\ UNCHANGED <<outside, args, mem, receipt>>

Reverted == Refused /\ Forget /\ UNCHANGED outside

AtSave == pc = Len(Program) + 1

\* saveAddresses, unless it is a dry run.
Save ==
  /\ AtSave
  /\ Proceed
  /\ file' = IF args.dryRun THEN file ELSE mem
  /\ dirty' = (file' # file)
  /\ pc' = pc + 1
  /\ UNCHANGED <<build, code, impl, admin, args, mem, logic, receipt>>

\* The end of main(), an error before that, or one of verify() after it.
ExitRun == Exit /\ Forget /\ UNCHANGED outside

Kill == Interrupt /\ Forget /\ UNCHANGED outside

\* A contract is created, or a proxy's upgrade is asked of the ProxyAdmin,
\* which takes it from its owner only.
MineCall(r) ==
  LET c == pending[r]
      mine == r = run /\ phase = "waiting"
  IN \/ /\ c # NoCall /\ c.op = "create"
        /\ Mine(r, TRUE)
        /\ code' = Append(code, c.code)
        /\ receipt' = IF mine THEN Len(code) + 1 ELSE receipt
        /\ UNCHANGED <<build, dirty, impl, admin, file, args, mem, pc, logic>>
     \/ /\ c # NoCall /\ c.op = "upgrade"
        /\ Mine(r, admin = wallet[r])
        /\ impl' = IF admin = wallet[r] THEN [impl EXCEPT ![c.proxy] = c.to]
                   ELSE impl
        /\ UNCHANGED <<build, dirty, code, admin, file, local>>

Script ==
  \/ Submit \/ SubmitReplyLost \/ Retry \/ Skip \/ Save \/ ExitRun
  \/ ConfirmCreation \/ ConfirmPointing \/ Reverted

Chain == \E r \in Run : MineCall(r)

People ==
  \/ \E n \in Name \ Library : Compile(n)
  \/ Commit
  \/ TransferOwner
  \/ \E names \in Arguments, dryRun \in BOOLEAN : StartRun(names, dryRun)
  \/ Kill

Next == Script \/ Chain \/ People

Spec == Init /\ [][Next]_vars

\* The script goes on while nobody stops it, and the chain mines.
FairSpec == Spec /\ WF_vars(Script) /\ WF_vars(Chain)
-----------------------------------------------------------------------------
UpgradeTypeOK ==
  /\ TypeOK
  /\ build \in [Name -> 1..MaxVersions]
  /\ dirty \in BOOLEAN
  /\ code \in Seq(Bytecodes)
  /\ impl \in [Proxy -> DOMAIN code]
  /\ admin \in {"deployer", "successor"}
  /\ file \in Files
  /\ args \in [names : SUBSET Name, dryRun : BOOLEAN, clean : BOOLEAN]
  /\ mem \in Files
  /\ pc \in 1..(Len(Program) + 2)
  /\ {logic, receipt} \subseteq {0} \cup DOMAIN code

\* The address and the hash of each library and of the markets' logic belong
\* together, and every hash is that of some contract.
Describes(f) ==
  /\ \A l \in Library :
       f.libraries[l] \in DOMAIN code /\ code[f.libraries[l]] = f.hash[l]
  /\ f.logic \in DOMAIN code /\ code[f.logic] = f.hash["CashMarket"]
  /\ \A n \in Contract : \E a \in DOMAIN code : code[a] = f.hash[n]

\* The file describes contracts that are on the chain, whatever runs died.
FileDescribesChain == Describes(file)

\* A run that is over and wrote the file, was the owner's from its start,
\* and was started when nothing of an earlier run was outstanding.
Completed(n) ==
  /\ phase = "ready"
  /\ pc = Len(Program) + 2
  /\ n \in args.names
  /\ ~args.dryRun
  /\ args.clean
  /\ OwnsAdmin

\* Such a run for CashMarket leaves all markets at the logic the file names,
\* and that is what is built, whatever earlier runs left half done.
MarketsFollowTheBuild ==
  Completed("CashMarket") =>
    \A m \in Markets :
      /\ impl[m] = file.logic
      /\ code[impl[m]] = Bytecode("CashMarket", file.libraries)

\* Such a run for a library and a contract linked with it leaves the contract
\* at the new library.
LinkedWithNewLibrary ==
  \A n \in Contract : \A l \in LinkedWith(n) :
    Completed(n) /\ Completed(l) =>
      code[impl[n]] = Bytecode(n, file.libraries)

\* A dry run sends nothing and writes nothing.
DryRunChangesNothing ==
  [][phase # "down" /\ args.dryRun =>
       /\ file' = file
       /\ pending'[run] = NoCall]_vars

\* Such a run leaves every core contract it names at what is built.  The
\* code answers "Bytecode unchanged, do not deploy" for a contract whose new
\* logic an earlier run deployed and could not point the proxy to.
ContractsFollowTheBuild ==
  \A n \in Contract :
    Completed(n) => code[impl[n]] = Bytecode(n, file.libraries)
=============================================================================
