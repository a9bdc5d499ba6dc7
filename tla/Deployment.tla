----------------------------- MODULE Deployment -----------------------------
(***************************************************************************)
(* deploy.ts and NotionalDeployer.deploy, listCurrency, deployCashMarket,  *)
(* saveAddresses and transferOwner: the deployment of the whole system,    *)
(* one transaction after another, by a script that may die between any two *)
(* of them, with users on the chain who do not wait for its end.           *)
(*                                                                         *)
(* A contract is its name and the run that created it.  What deploy.ts     *)
(* does on a local chain (1337) and on a public one (1, 4, 42) differs: a  *)
(* local run creates the tokens, the oracles and the proxy factory it      *)
(* uses; runs on a public chain share one factory, on which an address     *)
(* depends on the salt and the sender only.                                *)
(***************************************************************************)
EXTENDS Submission, Sequences

CONSTANTS
  ChainId,   \* the kinds of chain to look at, of {"local", "public"}
  Fundable   \* bound: the markets users provide liquidity to

VARIABLES
  chainId,   \* DEPLOY_CHAIN_ID
  pc,        \* the step of the program the current run is at
  chain,     \* what each run has left on the chain
  file       \* the run whose addresses CONTRACTS_FILE holds, 0 if none

vars == <<submission, chainId, pc, chain, file>>

Core == {"Escrow", "Portfolios", "ERC1155Token", "ERC1155Trade"}
Market == {"dai_1M", "dai_3M", "usdc_3M"}
Currency == {"DAI", "USDC"}

\* The contracts with an owner, which transferOwner hands over.
Owned == Core \cup Market \cup {"Directory", "ProxyAdmin"}

CurrencyOf(m) == IF m = "usdc_3M" THEN "USDC" ELSE "DAI"

\* The contracts that call a core contract, and are told its address.
Dependents(n) ==
  CASE n = "Escrow" -> {"Portfolios", "ERC1155Trade"}
    [] n = "Portfolios" -> {"Escrow", "ERC1155Token", "ERC1155Trade"}
    [] n = "ERC1155Token" -> {"Portfolios"}
    [] n = "ERC1155Trade" -> {"Portfolios", "Escrow"}

\* The core contracts that a market looks up in the directory.
MarketDependencies == {"Escrow", "Portfolios", "ERC1155Trade"}

\* The logic behind a proxy.
LogicOf(n) == IF n \in Market THEN "CashMarket" ELSE n

\* The libraries the bytecode of a contract is linked with.
Links(n) ==
  CASE n = "Escrow" -> {"Liquidation"}
    [] n = "Portfolios" -> {"RiskFramework"}
    [] OTHER -> {}
-----------------------------------------------------------------------------
(***************************************************************************)
(* The program: one step is one transaction that is sent and waited for,   *)
(* except the one that writes the file.                                    *)
(***************************************************************************)
Step(op, on) == [op |-> op, on |-> on]
Create(n) == Step("create", n)
DeployProxyContract(n) == <<Create(n), Step("createProxy", n)>>

\* deployLocal and deployTestEnvironment
DeployLocal ==
  <<Create("WETH9"), Create("ERC1820Registry"), Create("CreateProxyFactory"),
    Create("DAI"), Create("USDC"),
    Create("DAI_oracle"), Step("setAnswer", "DAI_oracle"),
    Create("USDC_oracle"), Step("setAnswer", "USDC_oracle")>>

DeployLibraries == <<Create("Liquidation"), Create("RiskFramework")>>

DeployProxies ==
  DeployProxyContract("Directory") \o DeployProxyContract("Escrow")
  \o DeployProxyContract("Portfolios") \o DeployProxyContract("ERC1155Token")
  \o DeployProxyContract("ERC1155Trade")

SetDirectory ==
  <<Step("setContract", "Escrow"), Step("setContract", "Portfolios"),
    Step("setContract", "ERC1155Token"), Step("setContract", "ERC1155Trade")>>

SetDependencies ==
  <<Step("setDependencies", "Escrow"), Step("setDependencies", "ERC1155Token"),
    Step("setDependencies", "ERC1155Trade"),
    Step("setDependencies", "Portfolios")>>

SetDefaults ==
  <<Step("setDiscounts", "Escrow"), Step("setHaircuts", "Portfolios")>>

\* Mutant: the defaults are set before the contracts know each other.
DeployDefaultsFirst ==
  DeployLibraries \o <<Create("CashMarket"), Create("ProxyAdmin")>>
  \o DeployProxies \o SetDefaults \o SetDirectory \o SetDependencies

Deploy ==
  DeployLibraries \o <<Create("CashMarket"), Create("ProxyAdmin")>>
  \o DeployProxies \o SetDirectory \o SetDependencies \o SetDefaults

ListCurrency(c) == <<Step("listCurrency", c), Step("addExchangeRate", c)>>

\* Mutant: the rate factors, which open the market, are set before the fee.
DeployCashMarketOpenEarly(m) ==
  <<Step("createProxy", m), Step("initializeDependencies", m),
    Step("createCashGroup", m), Step("setMaxTradeSize", m),
    Step("setRateFactors", m), Step("setFee", m)>>

DeployCashMarket(m) ==
  <<Step("createProxy", m), Step("initializeDependencies", m),
    Step("createCashGroup", m), Step("setMaxTradeSize", m),
    Step("setFee", m), Step("setRateFactors", m)>>

\* Mutant: the loop over the cash groups ends before the last one.
TransferOwnerShortLoop ==
  <<Step("transferOwnership", "Escrow"), Step("transferOwnership", "Portfolios"),
    Step("transferOwnership", "Directory"),
    Step("transferOwnership", "ERC1155Token"),
    Step("transferOwnership", "ERC1155Trade"),
    Step("transferOwnership", "dai_1M"), Step("transferOwnership", "dai_3M"),
    Step("transferOwnership", "ProxyAdmin")>>

\* Mutant: the ProxyAdmin is handed over with the directory.
TransferOwnerAdminEarly ==
  <<Step("transferOwnership", "Escrow"), Step("transferOwnership", "Portfolios"),
    Step("transferOwnership", "Directory"),
    Step("transferOwnership", "ProxyAdmin"),
    Step("transferOwnership", "ERC1155Token"),
    Step("transferOwnership", "ERC1155Trade"),
    Step("transferOwnership", "dai_1M"), Step("transferOwnership", "dai_3M"),
    Step("transferOwnership", "usdc_3M")>>

TransferOwner ==
  <<Step("transferOwnership", "Escrow"), Step("transferOwnership", "Portfolios"),
    Step("transferOwnership", "Directory"),
    Step("transferOwnership", "ERC1155Token"),
    Step("transferOwnership", "ERC1155Trade"),
    Step("transferOwnership", "dai_1M"), Step("transferOwnership", "dai_3M"),
    Step("transferOwnership", "usdc_3M"),
    Step("transferOwnership", "ProxyAdmin")>>

SaveAddresses == Step("saveAddresses", "CONTRACTS_FILE")

Main(id) ==
  (IF id = "local" THEN DeployLocal ELSE << >>)
  \o Deploy
  \o ListCurrency("DAI")
  \o DeployCashMarket("dai_1M") \o DeployCashMarket("dai_3M")
  \o ListCurrency("USDC")
  \o DeployCashMarket("usdc_3M")
  \o <<SaveAddresses>> \o TransferOwner

Program == [id \in {"local", "public"} |-> Main(id)]

CallsOf(id) ==
  {Program[id][i] : i \in DOMAIN Program[id]} \ {SaveAddresses}

\* Every transaction a run can send, and those of the system itself.
LocalCalls == CallsOf("local")
SystemCalls == CallsOf("public")

ASSUME ChainAssumption ==
  /\ ChainId \subseteq {"local", "public"}
  /\ Fundable \subseteq Market
ASSUME DeploymentCalls == LocalCalls \subseteq Call /\ SystemCalls \subseteq Call
-----------------------------------------------------------------------------
(***************************************************************************)
(* What is on the chain.  A setting is the step that made it.              *)
(***************************************************************************)
Names == {c.on : c \in LocalCalls}

Party == {"nobody", "deployer", "successor"}

ChainType ==
  [created : SUBSET Names, proxies : SUBSET Names, directory : SUBSET Core,
   refs : [Core \cup Market -> SUBSET Core], owner : [Owned -> Party],
   settings : SUBSET LocalCalls, groups : SUBSET Market,
   funded : SUBSET Market]

Nothing ==
  [created |-> {}, proxies |-> {}, directory |-> {},
   refs |-> [n \in Core \cup Market |-> {}],
   owner |-> [n \in Owned |-> "nobody"],
   settings |-> {}, groups |-> {}, funded |-> {}]

IsSet(d, op, on) == Step(op, on) \in d.settings

\* In hundredths, as deploy.ts gives them; a discount that is not set is 0.
Buffer(c) == IF c = "DAI" THEN 140 ELSE 120
SettlementDiscount(d) == IF IsSet(d, "setDiscounts", "Escrow") THEN 102 ELSE 0

\* The proxy's address, which its salt and its sender make, is taken on the
\* factory that run r uses.
Occupied(r, n) ==
  /\ n \notin Market
  /\ \E q \in Run :
       /\ q = r \/ (chainId = "public" /\ wallet[q] = wallet[r])
       /\ n \in chain[q].proxies

\* Escrow and Portfolios accept each other's calls.
Connected(d) ==
  "Portfolios" \in d.refs["Escrow"] /\ "Escrow" \in d.refs["Portfolios"]

\* The requirements of the contract that is called, and for a new contract
\* those of linking, which throws before anything is sent.
Succeeds(r, c) ==
  LET d == chain[r]
      Ours(n) == d.owner[n] = "deployer"
  IN CASE c.op = "create" -> Links(c.on) \subseteq d.created
       [] c.op = "setAnswer" -> c.on \in d.created
       [] c.op = "createProxy" ->
            LogicOf(c.on) \in d.created /\ ~Occupied(r, c.on)
       [] c.op = "setContract" -> Ours("Directory")
       [] c.op = "setDependencies" ->
            Ours("Directory") /\ Dependents(c.on) \subseteq d.directory
       [] c.op = "setDiscounts" -> Ours("Escrow")
       [] c.op = "setHaircuts" -> Ours("Portfolios") /\ Connected(d)
       [] c.op = "listCurrency" ->
            /\ Ours("Escrow")
            /\ Connected(d)
            /\ ~IsSet(d, "listCurrency", c.on)
       [] c.op = "addExchangeRate" ->
            Ours("Escrow") /\ Buffer(c.on) > SettlementDiscount(d)
       [] c.op = "initializeDependencies" -> c.on \in d.proxies
       [] c.op = "createCashGroup" ->
            /\ Ours("Portfolios")
            /\ "Escrow" \in d.refs["Portfolios"]
            /\ IsSet(d, "listCurrency", CurrencyOf(c.on))
            /\ "Portfolios" \in d.refs[c.on]
       [] OTHER -> Ours(c.on)

\* What it changes.
After(d, c) ==
  CASE c.op = "create" ->
         [d EXCEPT !.created = @ \cup {c.on},
                   !.owner = IF c.on = "ProxyAdmin"
                             THEN [@ EXCEPT !["ProxyAdmin"] = "deployer"] ELSE @]
    [] c.op = "createProxy" ->
         [d EXCEPT !.proxies = @ \cup {c.on}, !.owner[c.on] = "deployer"]
    [] c.op = "setContract" -> [d EXCEPT !.directory = @ \cup {c.on}]
    [] c.op = "setDependencies" ->
         [d EXCEPT !.refs = [n \in Core \cup Market |->
            IF n \in Dependents(c.on)
            THEN (@[n] \ {c.on}) \cup ({c.on} \cap d.directory) ELSE @[n]]]
    [] c.op = "initializeDependencies" ->
         [d EXCEPT !.refs[c.on] = MarketDependencies \cap d.directory]
    [] c.op = "createCashGroup" -> [d EXCEPT !.groups = @ \cup {c.on}]
    [] c.op = "transferOwnership" -> [d EXCEPT !.owner[c.on] = "successor"]
    [] OTHER -> [d EXCEPT !.settings = @ \cup {c}]
-----------------------------------------------------------------------------
Init ==
  /\ SubmissionInit
  /\ chainId \in ChainId
  /\ pc = 1
  /\ chain = [r \in Run |-> Nothing]
  /\ file = 0

AtStep == pc \in DOMAIN Program[chainId]
AtCall == AtStep /\ Program[chainId][pc] # SaveAddresses

StartRun == Start /\ pc' = 1 /\ UNCHANGED <<chainId, chain, file>>

Submit ==
  AtCall /\ Send(Program[chainId][pc]) /\ UNCHANGED <<chainId, pc, chain, file>>

SubmitReplyLost ==
  /\ AtCall
  /\ ReplyLost(Program[chainId][pc])
  /\ UNCHANGED <<chainId, pc, chain, file>>

\* A local run has a provider that does not retry.
Retry ==
  /\ chainId = "public"
  /\ AtStep
  /\ Limited
  /\ UNCHANGED <<chainId, pc, chain, file>>

Save ==
  /\ AtStep /\ ~AtCall
  /\ Proceed
  /\ file' = run
  /\ pc' = pc + 1
  /\ UNCHANGED <<chainId, chain>>

\* process.exit: after the last step, or at an error before a step.
ExitRun == Exit /\ UNCHANGED <<chainId, pc, chain, file>>

Kill == Interrupt /\ UNCHANGED <<chainId, pc, chain, file>>

Confirmed == Confirm /\ pc' = pc + 1 /\ UNCHANGED <<chainId, chain, file>>

Reverted == Refused /\ UNCHANGED <<chainId, pc, chain, file>>

MineCall(r) ==
  /\ Mine(r, Succeeds(r, pending[r]))
  /\ chain' = [chain EXCEPT ![r] =
       IF Succeeds(r, pending[r]) THEN After(@, pending[r]) ELSE @]
  /\ UNCHANGED <<chainId, pc, file>>

\* Anyone calls a market's initializeDependencies again.
InitializeDependencies(r, m) ==
  /\ m \in chain[r].proxies
  /\ chain' = [chain EXCEPT ![r] =
       After(@, Step("initializeDependencies", m))]
  /\ UNCHANGED <<submission, chainId, pc, file>>

\* The first liquidity of a market: its rate factors are set, the Escrow and
\* the Portfolios take its calls, and its currency can be valued in ETH.
AddLiquidity(r, m) ==
  /\ IsSet(chain[r], "setRateFactors", m)
  /\ m \in chain[r].groups
  /\ {"Escrow", "Portfolios"} \subseteq chain[r].refs[m]
  /\ Connected(chain[r])
  /\ IsSet(chain[r], "addExchangeRate", CurrencyOf(m))
  /\ chain' = [chain EXCEPT ![r].funded = @ \cup {m}]
  /\ UNCHANGED <<submission, chainId, pc, file>>

Script ==
  Submit \/ SubmitReplyLost \/ Retry \/ Save \/ ExitRun \/ Confirmed \/ Reverted

Chain == \E r \in Run : MineCall(r)

Users ==
  \E r \in Run :
    \/ \E m \in Market : InitializeDependencies(r, m)
    \/ \E m \in Fundable : AddLiquidity(r, m)

Next == StartRun \/ Kill \/ Script \/ Chain \/ Users

Spec == Init /\ [][Next]_vars

\* The script does its next step while nobody stops it, and the chain mines.
FairSpec == Spec /\ WF_vars(Script) /\ WF_vars(Chain)
-----------------------------------------------------------------------------
DeploymentTypeOK ==
  /\ TypeOK
  /\ chainId \in ChainId
  /\ pc \in 1..(Len(Program[chainId]) + 1)
  /\ chain \in [Run -> ChainType]
  /\ file \in 0..run

\* A call is refused only where it must be: on a public chain on which an
\* earlier run of the same wallet that died left its directory, at the
\* address that depends on nothing but the name and the wallet.  Every other call finds what it needs
\* done by the calls before it.
RevertsOnlyOnCollision ==
  phase = "reverted" =>
    /\ chainId = "public"
    /\ Program[chainId][pc] = Step("createProxy", "Directory")
    /\ \E q \in 1..(run - 1) :
         wallet[q] = wallet[run] /\ "Directory" \in chain[q].proxies

\* Nobody waits for the end of the script: a market that users can put money
\* into has all of its parameters, although the script sets them one by one
\* and may have died.
OpenMarketIsConfigured ==
  \A r \in Run : \A m \in chain[r].funded :
    /\ \A op \in {"setMaxTradeSize", "setFee"} : IsSet(chain[r], op, m)
    /\ IsSet(chain[r], "setDiscounts", "Escrow")
    /\ IsSet(chain[r], "setHaircuts", "Portfolios")
    /\ Buffer(CurrencyOf(m)) > SettlementDiscount(chain[r])
    /\ chain[r].refs[m] = MarketDependencies
    /\ \A n \in Core : \A u \in Dependents(n) : n \in chain[r].refs[u]

Settings ==
  {c \in SystemCalls :
     c.op \in {"setDiscounts", "setHaircuts", "listCurrency",
               "addExchangeRate", "setMaxTradeSize", "setFee",
               "setRateFactors"}}

\* Everything the program makes, before it hands it over.
IsWhole(d) ==
  /\ Core \cup Market \cup {"Directory"} \subseteq d.proxies
  /\ {c.on : c \in {k \in SystemCalls : k.op = "create"}} \subseteq d.created
  /\ Settings \subseteq d.settings
  /\ d.directory = Core
  /\ d.groups = Market

\* A run that gets to its end, on the chains that runs before it left, has
\* made the whole system, is the one the file names, and has left nothing
\* of it with the wallet of the script: the calls of transferOwner, the
\* markets it looks up included, hand over all there is that has an owner.
FinishedIsHandedOver ==
  phase = "ready" /\ ~AtStep =>
    /\ IsWhole(chain[run])
    /\ file = run
    /\ \A n \in Owned : chain[run].owner[n] = "successor"

Published ==
  INSTANCE Publication WITH
    Part <- Owned, Admin <- "ProxyAdmin",
    whole <- {r \in Run : IsWhole(chain[r])},
    published <- file,
    given <- {g \in Run \X Owned : chain[g[1]].owner[g[2]] = "successor"}

\* The file names a whole deployment, of one run; nothing is handed over of a
\* deployment the file does not name, and the ProxyAdmin last.
ImplementsPublication == Published!PublicationSpec
=============================================================================
