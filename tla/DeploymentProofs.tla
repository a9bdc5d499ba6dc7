-------------------------- MODULE DeploymentProofs --------------------------
(***************************************************************************)
(* The deployment, for every number of runs and attempts: it submits its   *)
(* transactions as Submission says; wherever a run dies, what it leaves is *)
(* that of a prefix of its program (DeployInv); and, with one key, the     *)
(* file of addresses names whole deployments only.                         *)
(***************************************************************************)
EXTENDS Deployment, SubmissionProofs, Integers

\* The kind of chain never changes.
ChainKnown == chainId \in {"local", "public"}

\* A step that sends is one of the calls.
LEMMA StepsAreCalls == ChainKnown /\ AtCall => Program[chainId][pc] \in Call
<1> SUFFICES ASSUME ChainKnown, AtCall
             PROVE  Program[chainId][pc] \in Call
  OBVIOUS
<1>1. Program[chainId][pc] \in CallsOf(chainId)
  BY DEF AtCall, AtStep, CallsOf
<1>2. CASE chainId = "local"
  BY <1>1, <1>2, DeploymentCalls DEF LocalCalls
<1>3. CASE chainId = "public"
  BY <1>1, <1>3, DeploymentCalls DEF SystemCalls
<1> QED BY <1>2, <1>3 DEF ChainKnown

\* Every step of the deployment is a step of Submission, or leaves it alone.
LEMMA DeploymentStep ==
  ChainKnown /\ [Next]_vars => ChainKnown' /\ [SubmissionNext]_submission
<1> SUFFICES ASSUME ChainKnown, [Next]_vars
             PROVE  ChainKnown' /\ [SubmissionNext]_submission
  OBVIOUS
<1>1. CASE StartRun
  BY <1>1 DEF StartRun, ChainKnown, SubmissionNext
<1>2. CASE Kill
  BY <1>2 DEF Kill, ChainKnown, SubmissionNext
<1>3. CASE Script
  <2>1. CASE Submit
    BY <2>1, StepsAreCalls DEF Submit, ChainKnown, SubmissionNext
  <2>2. CASE SubmitReplyLost
    BY <2>2, StepsAreCalls DEF SubmitReplyLost, ChainKnown, SubmissionNext
  <2>3. CASE Retry
    BY <2>3 DEF Retry, ChainKnown, SubmissionNext
  <2>4. CASE Save
    BY <2>4 DEF Save, ChainKnown, SubmissionNext
  <2>5. CASE ExitRun
    BY <2>5 DEF ExitRun, ChainKnown, SubmissionNext
  <2>6. CASE Confirmed
    BY <2>6 DEF Confirmed, ChainKnown, SubmissionNext
  <2>7. CASE Reverted
    BY <2>7 DEF Reverted, ChainKnown, SubmissionNext
  <2> QED
    BY <1>3, <2>1, <2>2, <2>3, <2>4, <2>5, <2>6, <2>7 DEF Script
<1>4. CASE Chain
  <2>1. PICK r \in Run : MineCall(r)
    BY <1>4 DEF Chain
  <2>2. \E succeeds \in BOOLEAN : Mine(r, succeeds)
    <3>1. CASE Succeeds(r, pending[r]) = TRUE
      BY <2>1, <3>1 DEF MineCall
    <3>2. CASE Succeeds(r, pending[r]) # TRUE
      <4>1. Mine(r, FALSE)
        BY <2>1, <3>2, Zenon DEF MineCall, Mine
      <4> QED BY <4>1
    <3> QED BY <3>1, <3>2
  <2> QED BY <2>1, <2>2 DEF MineCall, ChainKnown, SubmissionNext
<1>5. CASE Users
  BY <1>5 DEF Users, InitializeDependencies, AddLiquidity, ChainKnown
<1>6. CASE UNCHANGED vars
  BY <1>6 DEF vars, submission, ChainKnown
<1> QED BY <1>1, <1>2, <1>3, <1>4, <1>5, <1>6 DEF Next

\* deploy.ts sends its transactions only through txMined and deployContract:
\* the deployment implements the submission of transactions.
THEOREM DeploymentSubmits == Spec => SubmissionSpec
<1>1. Init => SubmissionInit /\ ChainKnown
  BY ChainAssumption DEF Init, ChainKnown
<1> QED BY <1>1, DeploymentStep, PTL DEF Spec, SubmissionSpec

-----------------------------------------------------------------------------
(***************************************************************************)
(* The order of the program.  Rank is the place of a step in a run on a    *)
(* public chain; a local run has nine steps more before the first.         *)
(***************************************************************************)
\* The place of the creation of a contract.
RankCreate(n) ==
  CASE n = "WETH9" -> -8 [] n = "ERC1820Registry" -> -7
    [] n = "CreateProxyFactory" -> -6 [] n = "DAI" -> -5 [] n = "USDC" -> -4
    [] n = "DAI_oracle" -> -3 [] n = "USDC_oracle" -> -1
    [] n = "Liquidation" -> 1 [] n = "RiskFramework" -> 2 [] n = "CashMarket" -> 3
    [] n = "ProxyAdmin" -> 4 [] n = "Directory" -> 5 [] n = "Escrow" -> 7
    [] n = "Portfolios" -> 9 [] n = "ERC1155Token" -> 11 [] n = "ERC1155Trade" -> 13

\* The place of the first step of a market.
RankMarket(m) == CASE m = "dai_1M" -> 27 [] m = "dai_3M" -> 33 [] m = "usdc_3M" -> 41

\* The place of the creation of a proxy.
RankProxy(n) ==
  CASE n = "Directory" -> 6 [] n = "Escrow" -> 8 [] n = "Portfolios" -> 10
    [] n = "ERC1155Token" -> 12 [] n = "ERC1155Trade" -> 14 [] OTHER -> RankMarket(n)

\* The place of each entry of the directory.
RankContract(n) ==
  CASE n = "Escrow" -> 15 [] n = "Portfolios" -> 16
    [] n = "ERC1155Token" -> 17 [] n = "ERC1155Trade" -> 18

\* The place of the push of the directory to each core contract.
RankDependencies(n) ==
  CASE n = "Escrow" -> 19 [] n = "ERC1155Token" -> 20
    [] n = "ERC1155Trade" -> 21 [] n = "Portfolios" -> 22

\* The place of each hand over.
RankTransfer(n) ==
  CASE n = "Escrow" -> 48 [] n = "Portfolios" -> 49 [] n = "Directory" -> 50
    [] n = "ERC1155Token" -> 51 [] n = "ERC1155Trade" -> 52 [] n = "dai_1M" -> 53
    [] n = "dai_3M" -> 54 [] n = "usdc_3M" -> 55 [] n = "ProxyAdmin" -> 56

\* The place of a step.
Rank(c) ==
  CASE c.op = "create" -> RankCreate(c.on)
    [] c.op = "setAnswer" -> (IF c.on = "DAI_oracle" THEN -2 ELSE 0)
    [] c.op = "createProxy" -> RankProxy(c.on)
    [] c.op = "setContract" -> RankContract(c.on)
    [] c.op = "setDependencies" -> RankDependencies(c.on)
    [] c.op = "setDiscounts" -> 23
    [] c.op = "setHaircuts" -> 24
    [] c.op = "listCurrency" -> (IF c.on = "DAI" THEN 25 ELSE 39)
    [] c.op = "addExchangeRate" -> (IF c.on = "DAI" THEN 26 ELSE 40)
    [] c.op = "initializeDependencies" -> RankMarket(c.on) + 1
    [] c.op = "createCashGroup" -> RankMarket(c.on) + 2
    [] c.op = "setMaxTradeSize" -> RankMarket(c.on) + 3
    [] c.op = "setFee" -> RankMarket(c.on) + 4
    [] c.op = "setRateFactors" -> RankMarket(c.on) + 5
    [] c.op = "saveAddresses" -> 47
    [] c.op = "transferOwnership" -> RankTransfer(c.on)

\* A part of the program: its steps, how many, and the place it starts after.
Block(s, after, steps, n) ==
  /\ s \in Seq(steps) /\ Len(s) = n
  /\ \A i \in DOMAIN s : Rank(s[i]) = after + i
  /\ \A c \in steps : /\ Rank(c) \in (after + 1) .. (after + n)
                      /\ s[Rank(c) - after] = c

\* Two parts in a row are a part.
LEMMA BlocksJoin ==
  ASSUME NEW s, NEW t, NEW S, NEW T, NEW o \in Int, NEW m \in Nat, NEW n \in Nat,
         Block(s, o, S, m), NEW p, p = o + m, Block(t, p, T, n),
         NEW k, k = m + n
  PROVE  Block(s \o t, o, S \cup T, k)
<1> DEFINE u == s \o t
<1>1. /\ s \in Seq(S \cup T) /\ t \in Seq(S \cup T) /\ Len(s) = m /\ Len(t) = n
  BY DEF Block
<1>2. /\ u \in Seq(S \cup T) /\ Len(u) = m + n /\ DOMAIN u = 1 .. (m + n)
      /\ \A i \in 1 .. m : u[i] = s[i]
      /\ \A i \in (m + 1) .. (m + n) : u[i] = t[i - m]
      /\ DOMAIN s = 1 .. m /\ DOMAIN t = 1 .. n
  BY <1>1
<1> HIDE DEF u
<1>3. ASSUME NEW c \in S \cup T
      PROVE  Rank(c) \in (o + 1) .. (o + (m + n)) /\ u[Rank(c) - o] = c
  <2>1. CASE c \in S
    <3>1. Rank(c) \in (o + 1) .. (o + m) /\ s[Rank(c) - o] = c
      BY <2>1 DEF Block
    <3>2. Rank(c) - o \in 1 .. m
      BY <3>1
    <3> QED BY <1>2, <3>1, <3>2
  <2>2. CASE c \in T
    <3>1. Rank(c) \in (o + m + 1) .. (o + m + n) /\ t[Rank(c) - (o + m)] = c
      BY <2>2 DEF Block
    <3>2. Rank(c) - o \in (m + 1) .. (m + n) /\ Rank(c) - o - m = Rank(c) - (o + m)
      BY <3>1
    <3> QED BY <1>2, <3>1, <3>2, SMTT(30)
  <2> QED BY <2>1, <2>2
<1>4. ASSUME NEW i \in DOMAIN u PROVE Rank(u[i]) = o + i
  <2>1. CASE i \in 1 .. m
    <3>1. i \in DOMAIN s /\ u[i] = s[i]
      BY <1>1, <1>2, <2>1
    <3> QED BY <3>1 DEF Block
  <2>2. CASE i \notin 1 .. m
    <3>1. i \in (m + 1) .. (m + n) /\ i - m \in DOMAIN t /\ u[i] = t[i - m]
      BY <1>1, <1>2, <2>2
    <3>2. Rank(t[i - m]) = (o + m) + (i - m)
      BY <3>1 DEF Block
    <3> QED BY <3>1, <3>2
  <2> QED BY <2>1, <2>2
<1>5. Block(u, o, S \cup T, m + n)
  BY <1>2, <1>3, <1>4 DEF Block
<1> QED BY <1>5 DEF u

\* The steps of the parts of the program.
LocalSteps ==
  {Create(n) : n \in {"WETH9", "ERC1820Registry", "CreateProxyFactory", "DAI",
                      "USDC", "DAI_oracle", "USDC_oracle"}}
  \cup {Step("setAnswer", n) : n \in {"DAI_oracle", "USDC_oracle"}}
\* ... of deployLibraries, ...
LibrarySteps == {Create("Liquidation"), Create("RiskFramework")}
\* ... of the two logic contracts that are no system proxy, ...
LogicSteps == {Create("CashMarket"), Create("ProxyAdmin")}
\* ... of one system proxy, ...
ProxySteps(n) == {Create(n), Step("createProxy", n)}
\* ... of the entries of the directory, ...
DirectorySteps == {Step("setContract", n) : n \in Core}
\* ... of the pushes of the directory, ...
DependencySteps == {Step("setDependencies", n) : n \in Core}
\* ... of the default parameters, ...
DefaultSteps == {Step("setDiscounts", "Escrow"), Step("setHaircuts", "Portfolios")}
\* ... of one currency, ...
CurrencySteps(c) == {Step("listCurrency", c), Step("addExchangeRate", c)}
\* ... of one market, ...
MarketOp == {"createProxy", "initializeDependencies", "createCashGroup",
             "setMaxTradeSize", "setFee", "setRateFactors"}
MarketSteps(m) == {Step(op, m) : op \in MarketOp}
\* ... and of the hand over.
TransferSteps == {Step("transferOwnership", n) : n \in Owned}

\* The steps of a run on a public chain.
SystemSteps ==
  LibrarySteps \cup LogicSteps \cup ProxySteps("Directory")
  \cup ProxySteps("Escrow") \cup ProxySteps("Portfolios")
  \cup ProxySteps("ERC1155Token") \cup ProxySteps("ERC1155Trade")
  \cup DirectorySteps \cup DependencySteps \cup DefaultSteps
  \cup CurrencySteps("DAI") \cup MarketSteps("dai_1M") \cup MarketSteps("dai_3M")
  \cup CurrencySteps("USDC") \cup MarketSteps("usdc_3M")
  \cup {SaveAddresses} \cup TransferSteps

\* The steps of a run, and the place of its last step before them.
Steps(id) == IF id = "local" THEN LocalSteps \cup SystemSteps ELSE SystemSteps
Base(id) == IF id = "local" THEN -9 ELSE 0

\* Each part of the program has the places its steps are given.
LEMMA LocalBlock == Block(DeployLocal, -9, LocalSteps, 9)
<1>1. \A i \in 1 .. 9 : Rank(DeployLocal[i]) = -9 + i
  BY SMTT(30) DEF DeployLocal, Rank, RankCreate, Create, Step
<1>2. \A c \in LocalSteps : c \in {DeployLocal[i] : i \in 1 .. 9}
  BY DEF DeployLocal, LocalSteps
<1>3. DeployLocal \in Seq(LocalSteps) /\ Len(DeployLocal) = 9 /\ DOMAIN DeployLocal = 1 .. 9
  BY DEF DeployLocal, LocalSteps
<1> QED BY <1>1, <1>2, <1>3, SMTT(30) DEF Block

LEMMA LibraryBlock == Block(DeployLibraries, 0, LibrarySteps, 2)
BY DEF Block, DeployLibraries, LibrarySteps, Rank, RankCreate, Create, Step

LEMMA LogicBlock == Block(<<Create("CashMarket"), Create("ProxyAdmin")>>, 2, LogicSteps, 2)
BY SMTT(30) DEF Block, LogicSteps, Rank, RankCreate, Create, Step

LEMMA ProxyBlock ==
  ASSUME NEW n \in Core \cup {"Directory"}
  PROVE  Block(DeployProxyContract(n), RankCreate(n) - 1, ProxySteps(n), 2)
<1>1. RankCreate(n) \in Int /\ RankProxy(n) = RankCreate(n) + 1
  BY DEF Core, RankCreate, RankProxy
<1> QED
  BY <1>1 DEF Block, DeployProxyContract, ProxySteps, Rank, Create, Step

LEMMA DirectoryBlock == Block(SetDirectory, 14, DirectorySteps, 4)
<1>1. \A i \in 1 .. 4 : Rank(SetDirectory[i]) = 14 + i
  BY DEF SetDirectory, Rank, RankContract, Create, Step
<1>2. \A c \in DirectorySteps : c \in {SetDirectory[i] : i \in 1 .. 4}
  BY DEF SetDirectory, DirectorySteps, Core
<1>3. SetDirectory \in Seq(DirectorySteps) /\ Len(SetDirectory) = 4 /\ DOMAIN SetDirectory = 1 .. 4
  BY DEF SetDirectory, DirectorySteps, Core
<1> QED BY <1>1, <1>2, <1>3 DEF Block

LEMMA DependencyBlock == Block(SetDependencies, 18, DependencySteps, 4)
<1>1. \A i \in 1 .. 4 : Rank(SetDependencies[i]) = 18 + i
  BY DEF SetDependencies, Rank, RankDependencies, Create, Step
<1>2. \A c \in DependencySteps : c \in {SetDependencies[i] : i \in 1 .. 4}
  BY DEF SetDependencies, DependencySteps, Core
<1>3. SetDependencies \in Seq(DependencySteps) /\ Len(SetDependencies) = 4 /\ DOMAIN SetDependencies = 1 .. 4
  BY DEF SetDependencies, DependencySteps, Core
<1> QED BY <1>1, <1>2, <1>3 DEF Block

LEMMA DefaultBlock == Block(SetDefaults, 22, DefaultSteps, 2)
BY DEF Block, SetDefaults, DefaultSteps, Rank, Step

LEMMA DAIBlock == Block(ListCurrency("DAI"), 24, CurrencySteps("DAI"), 2)
BY DEF Block, ListCurrency, CurrencySteps, Rank, Step

LEMMA USDCBlock == Block(ListCurrency("USDC"), 38, CurrencySteps("USDC"), 2)
BY DEF Block, ListCurrency, CurrencySteps, Rank, Step

LEMMA MarketBlock ==
  ASSUME NEW m \in Market
  PROVE  Block(DeployCashMarket(m), RankMarket(m) - 1, MarketSteps(m), 6)
<1>1. RankMarket(m) \in Int /\ RankProxy(m) = RankMarket(m)
  BY DEF Market, RankMarket, RankProxy
<1> DEFINE s == DeployCashMarket(m)
<1>2. /\ Len(s) = 6 /\ DOMAIN s = 1 .. 6 /\ s \in Seq(MarketSteps(m))
      /\ s[1] = Step("createProxy", m) /\ s[2] = Step("initializeDependencies", m)
      /\ s[3] = Step("createCashGroup", m) /\ s[4] = Step("setMaxTradeSize", m)
      /\ s[5] = Step("setFee", m) /\ s[6] = Step("setRateFactors", m)
  BY DEF DeployCashMarket, MarketSteps, MarketOp
<1> HIDE DEF s
<1>3. \A i \in 1 .. 6 : Rank(s[i]) = RankMarket(m) - 1 + i
  BY <1>1, <1>2 DEF Rank, Step
<1>4. \A c \in MarketSteps(m) : c \in {s[i] : i \in 1 .. 6}
  BY <1>2 DEF MarketSteps, MarketOp
<1>5. ASSUME NEW c \in MarketSteps(m)
      PROVE  /\ Rank(c) \in (RankMarket(m) - 1 + 1) .. (RankMarket(m) - 1 + 6)
             /\ s[Rank(c) - (RankMarket(m) - 1)] = c
  <2>1. PICK i \in 1 .. 6 : c = s[i]
    BY <1>4
  <2>2. Rank(c) = RankMarket(m) - 1 + i
    BY <1>3, <2>1
  <2>3. Rank(c) - (RankMarket(m) - 1) = i
    BY <1>1, <2>2
  <2> QED BY <1>1, <2>1, <2>2, <2>3
<1>6. Block(s, RankMarket(m) - 1, MarketSteps(m), 6)
  BY <1>2, <1>3, <1>5, Zenon DEF Block
<1> QED BY <1>6 DEF s

LEMMA SaveBlock == Block(<<SaveAddresses>>, 46, {SaveAddresses}, 1)
BY DEF Block, SaveAddresses, Rank, Step

LEMMA TransferBlock == Block(TransferOwner, 47, TransferSteps, 9)
<1>1. \A i \in 1 .. 9 : Rank(TransferOwner[i]) = 47 + i
  BY SMTT(30) DEF TransferOwner, Rank, RankTransfer, Create, Step
<1>2. \A c \in TransferSteps : c \in {TransferOwner[i] : i \in 1 .. 9}
  BY DEF TransferOwner, TransferSteps, Owned, Core, Market
<1>3. TransferOwner \in Seq(TransferSteps) /\ Len(TransferOwner) = 9 /\ DOMAIN TransferOwner = 1 .. 9
  BY DEF TransferOwner, TransferSteps, Owned, Core, Market
<1> QED BY <1>1, <1>2, <1>3 DEF Block

\* The parts up to the system proxies.
LEMMA DeployProxiesBlock ==
  Block(DeployProxies, 4,
        ProxySteps("Directory") \cup ProxySteps("Escrow") \cup ProxySteps("Portfolios")
        \cup ProxySteps("ERC1155Token") \cup ProxySteps("ERC1155Trade"), 10)
<1> DEFINE P(n) == DeployProxyContract(n)
           s2 == P("Directory") \o P("Escrow")
           s3 == s2 \o P("Portfolios")
           s4 == s3 \o P("ERC1155Token")
           S2 == ProxySteps("Directory") \cup ProxySteps("Escrow")
           S3 == S2 \cup ProxySteps("Portfolios")
           S4 == S3 \cup ProxySteps("ERC1155Token")
<1>1. /\ Block(P("Directory"), 4, ProxySteps("Directory"), 2)
      /\ Block(P("Escrow"), 6, ProxySteps("Escrow"), 2)
      /\ Block(P("Portfolios"), 8, ProxySteps("Portfolios"), 2)
  BY ProxyBlock DEF Core, RankCreate
<1>2. /\ Block(P("ERC1155Token"), 10, ProxySteps("ERC1155Token"), 2)
      /\ Block(P("ERC1155Trade"), 12, ProxySteps("ERC1155Trade"), 2)
  BY ProxyBlock DEF Core, RankCreate
<1> HIDE DEF P
<1>3. Block(s2, 4, S2, 4)
  BY <1>1, BlocksJoin
<1> HIDE DEF s2, S2
<1>4. Block(s3, 4, S3, 6)
  BY <1>1, <1>3, BlocksJoin
<1> HIDE DEF s3, S3
<1>5. Block(s4, 4, S4, 8)
  BY <1>2, <1>4, BlocksJoin
<1> HIDE DEF s4, S4
<1>6. Block(s4 \o P("ERC1155Trade"), 4, S4 \cup ProxySteps("ERC1155Trade"), 10)
  BY <1>2, <1>5, BlocksJoin
<1> QED BY <1>6 DEF DeployProxies, P, s2, s3, s4, S2, S3, S4

LEMMA DeployBlock ==
  Block(Deploy, 0,
        LibrarySteps \cup LogicSteps
        \cup (ProxySteps("Directory") \cup ProxySteps("Escrow")
              \cup ProxySteps("Portfolios") \cup ProxySteps("ERC1155Token")
              \cup ProxySteps("ERC1155Trade"))
        \cup DirectorySteps \cup DependencySteps \cup DefaultSteps, 24)
<1> DEFINE l == <<Create("CashMarket"), Create("ProxyAdmin")>>
           p == ProxySteps("Directory") \cup ProxySteps("Escrow")
                \cup ProxySteps("Portfolios") \cup ProxySteps("ERC1155Token")
                \cup ProxySteps("ERC1155Trade")
           s2 == DeployLibraries \o l
           s3 == s2 \o DeployProxies
           s4 == s3 \o SetDirectory
           s5 == s4 \o SetDependencies
           S2 == LibrarySteps \cup LogicSteps
           S3 == S2 \cup p
           S4 == S3 \cup DirectorySteps
           S5 == S4 \cup DependencySteps
<1>1. Block(DeployProxies, 4, p, 10)
  BY DeployProxiesBlock
<1>2. Block(l, 2, LogicSteps, 2)
  BY LogicBlock
<1> HIDE DEF p, l
<1>3. Block(s2, 0, S2, 4)
  BY <1>2, LibraryBlock, BlocksJoin
<1> HIDE DEF s2, S2
<1>4. Block(s3, 0, S3, 14)
  BY <1>1, <1>3, BlocksJoin
<1> HIDE DEF s3, S3
<1>5. Block(s4, 0, S4, 18)
  BY <1>4, DirectoryBlock, BlocksJoin
<1> HIDE DEF s4, S4
<1>6. Block(s5, 0, S5, 22)
  BY <1>5, DependencyBlock, BlocksJoin
<1> HIDE DEF s5, S5
<1>7. Block(s5 \o SetDefaults, 0, S5 \cup DefaultSteps, 24)
  BY <1>6, DefaultBlock, BlocksJoin
<1> QED BY <1>7 DEF Deploy, p, l, s2, s3, s4, s5, S2, S3, S4, S5

\* The program, put together.
LEMMA ProgramBlock ==
  ASSUME NEW id \in {"local", "public"}
  PROVE  Block(Program[id], Base(id), Steps(id), 56 - Base(id))
<1> DEFINE l == IF id = "local" THEN DeployLocal ELSE << >>
           L == IF id = "local" THEN LocalSteps ELSE {}
           D == LibrarySteps \cup LogicSteps
                \cup (ProxySteps("Directory") \cup ProxySteps("Escrow")
                      \cup ProxySteps("Portfolios") \cup ProxySteps("ERC1155Token")
                      \cup ProxySteps("ERC1155Trade"))
                \cup DirectorySteps \cup DependencySteps \cup DefaultSteps
           b == Base(id)
           M(m) == DeployCashMarket(m)
           s1 == l \o Deploy                    S1 == L \cup D
           s2 == s1 \o ListCurrency("DAI")      S2 == S1 \cup CurrencySteps("DAI")
           s3 == s2 \o M("dai_1M")              S3 == S2 \cup MarketSteps("dai_1M")
           s4 == s3 \o M("dai_3M")              S4 == S3 \cup MarketSteps("dai_3M")
           s5 == s4 \o ListCurrency("USDC")     S5 == S4 \cup CurrencySteps("USDC")
           s6 == s5 \o M("usdc_3M")             S6 == S5 \cup MarketSteps("usdc_3M")
           s7 == s6 \o <<SaveAddresses>>        S7 == S6 \cup {SaveAddresses}
           s8 == s7 \o TransferOwner            S8 == S7 \cup TransferSteps
<1>1. Block(l, b, L, 0 - b)
  <2>1. Block(<< >>, 0, {}, 0)
    BY DEF Block
  <2> QED BY <2>1, LocalBlock DEF Base
<1>2. Block(Deploy, 0, D, 24)
  BY DeployBlock
<1>3. /\ Block(M("dai_1M"), 26, MarketSteps("dai_1M"), 6)
      /\ Block(M("dai_3M"), 32, MarketSteps("dai_3M"), 6)
      /\ Block(M("usdc_3M"), 40, MarketSteps("usdc_3M"), 6)
  BY MarketBlock DEF Market, RankMarket
<1>4. b \in Int /\ 0 - b \in Nat
  BY DEF Base
<1> HIDE DEF l, L, D, b, M
<1>5. Block(s1, b, S1, 24 - b)
  BY <1>1, <1>2, <1>4, BlocksJoin
<1> HIDE DEF s1, S1
<1>6. Block(s2, b, S2, 26 - b)
  BY <1>4, <1>5, DAIBlock, BlocksJoin
<1> HIDE DEF s2, S2
<1>7. Block(s3, b, S3, 32 - b)
  BY <1>3, <1>4, <1>6, BlocksJoin
<1> HIDE DEF s3, S3
<1>8. Block(s4, b, S4, 38 - b)
  BY <1>3, <1>4, <1>7, BlocksJoin
<1> HIDE DEF s4, S4
<1>9. Block(s5, b, S5, 40 - b)
  BY <1>4, <1>8, USDCBlock, BlocksJoin
<1> HIDE DEF s5, S5
<1>10. Block(s6, b, S6, 46 - b)
  BY <1>3, <1>4, <1>9, BlocksJoin
<1> HIDE DEF s6, S6
<1>11. Block(s7, b, S7, 47 - b)
  BY <1>4, <1>10, SaveBlock, BlocksJoin
<1> HIDE DEF s7, S7
<1>12. Block(s8, b, S8, 56 - b)
  BY <1>4, <1>11, TransferBlock, BlocksJoin
<1>13. s8 = Program[id]
  BY DEF Program, Main, l, M, s1, s2, s3, s4, s5, s6, s7
<1>14. S8 = Steps(id)
  BY DEF Steps, SystemSteps, L, D, S1, S2, S3, S4, S5, S6, S7
<1> HIDE DEF s8, S8
<1> QED BY <1>12, <1>13, <1>14 DEF b

\* What the program is, by the places of its steps.
LEMMA ProgramOrder ==
  ASSUME NEW id \in {"local", "public"}
  PROVE  /\ Base(id) \in -9 .. 0 /\ Len(Program[id]) = 56 - Base(id)
         /\ DOMAIN Program[id] = 1 .. (56 - Base(id))
         /\ \A i \in DOMAIN Program[id] : /\ Program[id][i] \in Steps(id)
                                          /\ Rank(Program[id][i]) = Base(id) + i
         /\ \A c \in Steps(id) : /\ Rank(c) \in (Base(id) + 1) .. 56
                                 /\ Program[id][Rank(c) - Base(id)] = c
<1>1. Base(id) \in -9 .. 0
  BY DEF Base
<1>2. Block(Program[id], Base(id), Steps(id), 56 - Base(id))
  BY ProgramBlock
<1>3. /\ Program[id] \in Seq(Steps(id)) /\ Len(Program[id]) = 56 - Base(id)
      /\ \A i \in DOMAIN Program[id] : Rank(Program[id][i]) = Base(id) + i
      /\ \A c \in Steps(id) : /\ Rank(c) \in (Base(id) + 1) .. (Base(id) + (56 - Base(id)))
                              /\ Program[id][Rank(c) - Base(id)] = c
  BY <1>2 DEF Block
<1>4. DOMAIN Program[id] = 1 .. (56 - Base(id))
  BY <1>3
<1>5. \A i \in DOMAIN Program[id] : Program[id][i] \in Steps(id)
  BY <1>3
<1>6. Base(id) + (56 - Base(id)) = 56
  BY <1>1
<1> QED BY <1>1, <1>3, <1>4, <1>5, <1>6

\* No two steps have the same place.
LEMMA OnePlace ==
  ASSUME NEW id \in {"local", "public"}, NEW c \in Steps(id), NEW e \in Steps(id),
         Rank(c) = Rank(e)
  PROVE  c = e
BY ProgramOrder

\* The calls of a run are its steps, but for the file.
LEMMA CallsAreSteps ==
  ASSUME NEW id \in {"local", "public"}
  PROVE  CallsOf(id) = Steps(id) \ {SaveAddresses}
<1>1. \A i \in DOMAIN Program[id] : Program[id][i] \in Steps(id)
  BY ProgramOrder
<1>2. ASSUME NEW c \in Steps(id)
      PROVE  \E i \in DOMAIN Program[id] : Program[id][i] = c
  <2>1. Rank(c) \in (Base(id) + 1) .. 56 /\ Program[id][Rank(c) - Base(id)] = c
    BY ProgramOrder
  <2>2. Rank(c) - Base(id) \in DOMAIN Program[id]
    <3>1. Base(id) \in -9 .. 0 /\ DOMAIN Program[id] = 1 .. (56 - Base(id))
      BY ProgramOrder
    <3> QED BY <2>1, <3>1
  <2> QED BY <2>1, <2>2
<1> QED BY <1>1, <1>2 DEF CallsOf

\* The calls that leave a setting.
SettingOp == {"setAnswer", "setDiscounts", "setHaircuts", "listCurrency",
              "addExchangeRate", "setMaxTradeSize", "setFee", "setRateFactors"}

\* The contracts a local run deploys for itself, those behind a system
\* proxy, and all that the program creates.
LocalNames == {"WETH9", "ERC1820Registry", "CreateProxyFactory", "DAI", "USDC",
               "DAI_oracle", "USDC_oracle"}
Proxied == Core \cup {"Directory"}
Logics == Proxied \cup {"Liquidation", "RiskFramework", "CashMarket", "ProxyAdmin"}

\* The kinds of step, and what each is about.
Kind(c) ==
  \/ c.op = "create" /\ c.on \in Logics \cup LocalNames
  \/ c.op = "setAnswer" /\ c.on \in {"DAI_oracle", "USDC_oracle"}
  \/ c.op = "createProxy" /\ c.on \in Proxied \cup Market
  \/ c.op \in {"setContract", "setDependencies"} /\ c.on \in Core
  \/ c.op = "setDiscounts" /\ c.on = "Escrow"
  \/ c.op = "setHaircuts" /\ c.on = "Portfolios"
  \/ c.op \in {"listCurrency", "addExchangeRate"} /\ c.on \in Currency
  \/ c.op \in {"initializeDependencies", "createCashGroup", "setMaxTradeSize",
               "setFee", "setRateFactors"} /\ c.on \in Market
  \/ c.op = "transferOwnership" /\ c.on \in Owned
  \/ c = SaveAddresses

\* Those of a local run alone.
LocalKind(c) ==
  (c.op = "create" /\ c.on \in LocalNames) \/ c.op = "setAnswer"

\* Every step is of one of those kinds.
LEMMA Kinds ==
  ASSUME NEW id \in {"local", "public"}, NEW c \in Steps(id)
  PROVE  c = Step(c.op, c.on) /\ Kind(c) /\ (id = "public" => ~LocalKind(c))
<1> USE DEF Step, Create
<1>1. CASE id = "local" /\ c \in LocalSteps
  BY <1>1 DEF LocalSteps, Kind, LocalNames
<1>2. CASE c \in LibrarySteps \cup LogicSteps
  BY <1>2 DEF LibrarySteps, LogicSteps, Kind, LocalKind, LocalNames, Logics
<1>3. CASE \E n \in Proxied : c \in ProxySteps(n)
  BY <1>3 DEF ProxySteps, Kind, LocalKind, LocalNames, Logics, Proxied, Core
<1>4. CASE c \in DirectorySteps \cup DependencySteps
  BY <1>4 DEF DirectorySteps, DependencySteps, Kind, LocalKind
<1>5. CASE c \in DefaultSteps
  BY <1>5 DEF DefaultSteps, Kind, LocalKind
<1>6. CASE \E x \in Currency : c \in CurrencySteps(x)
  BY <1>6 DEF CurrencySteps, Kind, LocalKind
<1>7. CASE \E m \in Market : c \in MarketSteps(m)
  BY <1>7 DEF MarketSteps, MarketOp, Kind, LocalKind
<1>8. CASE c = SaveAddresses
  BY <1>8 DEF SaveAddresses, Kind, LocalKind
<1>9. CASE c \in TransferSteps
  BY <1>9 DEF TransferSteps, Kind, LocalKind
<1> QED
  BY <1>1, <1>2, <1>3, <1>4, <1>5, <1>6, <1>7, <1>8, <1>9
     DEF Steps, SystemSteps, Proxied, Core, Market, Currency

\* Every step of those kinds is in the program.
LEMMA KindsAreSteps ==
  ASSUME NEW id \in {"local", "public"}
  PROVE  /\ \A n \in Logics : Create(n) \in Steps(id)
         /\ \A n \in Proxied \cup Market : Step("createProxy", n) \in Steps(id)
         /\ \A n \in Core : /\ Step("setContract", n) \in Steps(id)
                            /\ Step("setDependencies", n) \in Steps(id)
         /\ DefaultSteps \subseteq Steps(id)
         /\ \A x \in Currency : CurrencySteps(x) \subseteq Steps(id)
         /\ \A m \in Market : MarketSteps(m) \subseteq Steps(id)
         /\ TransferSteps \subseteq Steps(id)
         /\ id = "local" => LocalSteps \subseteq Steps(id)
<1>1. SystemSteps \subseteq Steps(id) /\ (id = "local" => LocalSteps \subseteq Steps(id))
  BY DEF Steps
<1>2. \A n \in Logics : Create(n) \in SystemSteps
  BY DEF Logics, Proxied, Core, SystemSteps, LibrarySteps, LogicSteps, ProxySteps
<1>3. \A n \in Proxied : Step("createProxy", n) \in SystemSteps
  BY DEF Proxied, Core, SystemSteps, ProxySteps
<1>4. /\ \A n \in Core : /\ Step("setContract", n) \in SystemSteps
                         /\ Step("setDependencies", n) \in SystemSteps
  BY DEF SystemSteps, DirectorySteps, DependencySteps
<1>5. /\ DefaultSteps \subseteq SystemSteps /\ TransferSteps \subseteq SystemSteps
      /\ \A x \in Currency : CurrencySteps(x) \subseteq SystemSteps
      /\ \A m \in Market : MarketSteps(m) \subseteq SystemSteps
  BY DEF SystemSteps, Currency, Market
<1>6. \A m \in Market : Step("createProxy", m) \in MarketSteps(m)
  BY DEF MarketSteps, MarketOp
<1> QED BY <1>1, <1>2, <1>3, <1>4, <1>5, <1>6

-----------------------------------------------------------------------------
(***************************************************************************)
(* What a prefix of the program leaves on the chain.                       *)
(***************************************************************************)

\* The steps of the program up to a place.
Did(id, k) == {c \in Steps(id) : Rank(c) <= k}

\* The step that gives a contract its first owner.
Giver(n) == IF n = "ProxyAdmin" THEN Create(n) ELSE Step("createProxy", n)

\* The steps in D were mined, one after another, and no other.
Made(D, d) ==
  /\ d \in ChainType
  /\ \A n \in Names : n \in d.created <=> Create(n) \in D
  /\ \A n \in Names : n \in d.proxies <=> Step("createProxy", n) \in D
  /\ \A n \in Core : n \in d.directory <=> Step("setContract", n) \in D
  /\ \A m \in Market : m \in d.groups <=> Step("createCashGroup", m) \in D
  /\ \A c \in LocalCalls : c \in d.settings <=> c \in D /\ c.op \in SettingOp
  /\ \A n \in Core, u \in Core :
       n \in d.refs[u] <=> u \in Dependents(n) /\ Step("setDependencies", n) \in D
  /\ \A m \in Market : \/ d.refs[m] = MarketDependencies
                       \/ d.refs[m] = {} /\ Step("initializeDependencies", m) \notin D
  /\ \A m \in d.funded : Step("setRateFactors", m) \in D
  /\ \A n \in Owned :
       d.owner[n] = IF Step("transferOwnership", n) \in D THEN "successor"
                    ELSE IF Giver(n) \in D THEN "deployer" ELSE "nobody"

\* A chain d has had the program mined up to place k, and p is not sent or
\* the step after it.
Stands(id, k, d, p) ==
  /\ Made(Did(id, k), d)
  /\ p # NoCall => p \in Steps(id) \ {SaveAddresses} /\ Rank(p) = k + 1

\* Run r has come to place k.
At(r, k) ==
  /\ Stands(chainId, k, chain[r], pending[r])
  /\ k > Base(chainId) => r \in acted

\* The place the script is at.
Place == Base(chainId) + pc

\* The places a run can have come to.
Levels == {k \in -9 .. 56 : k >= Base(chainId)}

\* Every run has come to some place of its program, in order.
InOrder == \A r \in Run : \E k \in Levels : At(r, k)

\* The script is where its chain is: it sends the step after the last one
\* that was mined, and counts on a step only when it was.
Current ==
  /\ phase \in {"ready", "waiting", "reverted"} => At(run, Place - 1)
  /\ phase = "mined" => At(run, Place)
  /\ phase \in {"waiting", "mined", "reverted"} => AtCall
  /\ phase = "waiting" => pending[run] = Program[chainId][pc]

\* No chain has anything of a run that has not started.
Unused == \A r \in Run : r > run => chain[r] = Nothing

\* On a public chain the proxy of the directory has one address per wallet.
OneDirectory ==
  chainId = "public" =>
    \A q, r \in Run :
      /\ wallet[q] = wallet[r]
      /\ "Directory" \in chain[q].proxies
      /\ "Directory" \in chain[r].proxies
      => q = r

\* The inductive invariant of the deployment.
DeployInv ==
  /\ chainId \in ChainId
  /\ pc \in 1 .. (Len(Program[chainId]) + 1)
  /\ file \in 0 .. run
  /\ chain \in [Run -> ChainType]
  /\ InOrder
  /\ Current
  /\ Unused
  /\ OneDirectory
  /\ RevertsOnlyOnCollision

\* A run that has written the file and goes on is the one it names.
FileIsCurrent == phase # "down" /\ Place > 47 => file = run

\* What the file promises: the run it names is whole, is the one that goes on
\* from it, and is the only one that hands anything over.
FileInv ==
  /\ file # 0 => IsWhole(chain[file])
  /\ FileIsCurrent
  /\ \A r \in Run :
       pending[r] # NoCall /\ pending[r].op = "transferOwnership" => file = r

\* The places of the parts.
LEMMA Places ==
  /\ \A c \in LocalSteps : Rank(c) \in -8 .. 0
  /\ \A c \in LibrarySteps \cup LogicSteps : Rank(c) \in 1 .. 4
  /\ \A n \in Proxied : \A c \in ProxySteps(n) : Rank(c) \in 5 .. 14
  /\ \A c \in DirectorySteps : Rank(c) \in 15 .. 18
  /\ \A c \in DependencySteps : Rank(c) \in 19 .. 22
  /\ \A c \in DefaultSteps : Rank(c) \in 23 .. 24
  /\ \A c \in CurrencySteps("DAI") : Rank(c) \in 25 .. 26
  /\ \A c \in CurrencySteps("USDC") : Rank(c) \in 39 .. 40
  /\ \A c \in TransferSteps : Rank(c) \in 48 .. 56
<1>1. \A n \in Proxied : \A c \in ProxySteps(n) : Rank(c) \in 5 .. 14
  <2>1. \A n \in Proxied : RankCreate(n) \in 5 .. 13
    BY DEF Proxied, Core, RankCreate
  <2>2. ASSUME NEW n \in Proxied, NEW c \in ProxySteps(n) PROVE Rank(c) \in 5 .. 14
    <3>1. Block(DeployProxyContract(n), RankCreate(n) - 1, ProxySteps(n), 2)
      BY ProxyBlock DEF Proxied
    <3>2. Rank(c) \in (RankCreate(n) - 1 + 1) .. (RankCreate(n) - 1 + 2)
      BY <3>1 DEF Block
    <3>3. RankCreate(n) \in 5 .. 13
      BY <2>1
    <3> QED BY <3>2, <3>3
  <2> QED BY <2>2
<1>2. \A c \in LocalSteps : Rank(c) \in -8 .. 0
  BY LocalBlock DEF Block
<1>3. \A c \in LibrarySteps \cup LogicSteps : Rank(c) \in 1 .. 4
  BY LibraryBlock, LogicBlock DEF Block
<1>4. /\ \A c \in DirectorySteps : Rank(c) \in 15 .. 18
      /\ \A c \in DependencySteps : Rank(c) \in 19 .. 22
  BY DirectoryBlock, DependencyBlock DEF Block
<1>5. /\ \A c \in DefaultSteps : Rank(c) \in 23 .. 24
      /\ \A c \in CurrencySteps("DAI") : Rank(c) \in 25 .. 26
      /\ \A c \in CurrencySteps("USDC") : Rank(c) \in 39 .. 40
      /\ \A c \in TransferSteps : Rank(c) \in 48 .. 56
  BY DefaultBlock, DAIBlock, USDCBlock, TransferBlock DEF Block
<1> QED BY <1>1, <1>2, <1>3, <1>4, <1>5

\* The six steps of a market, from its place on.
LEMMA MarketPlaces ==
  ASSUME NEW m \in Market
  PROVE  /\ RankMarket(m) \in 27 .. 41
         /\ Rank(Step("createProxy", m)) = RankMarket(m)
         /\ Rank(Step("initializeDependencies", m)) = RankMarket(m) + 1
         /\ Rank(Step("createCashGroup", m)) = RankMarket(m) + 2
         /\ Rank(Step("setMaxTradeSize", m)) = RankMarket(m) + 3
         /\ Rank(Step("setFee", m)) = RankMarket(m) + 4
         /\ Rank(Step("setRateFactors", m)) = RankMarket(m) + 5
<1>1. RankMarket(m) \in 27 .. 41
  BY DEF Market, RankMarket
<1>2. RankProxy(m) = RankMarket(m)
  BY DEF Market, RankProxy
<1> QED BY <1>1, <1>2 DEF Rank, Step

\* Steps that a run mines are calls of a local run, and their contracts named.
LEMMA StepsNamed ==
  ASSUME NEW id \in {"local", "public"}, NEW c \in Steps(id), c # SaveAddresses
  PROVE  c \in LocalCalls /\ c.on \in Names
<1>1. c \in Steps("local")
  BY DEF Steps
<1>2. LocalCalls = Steps("local") \ {SaveAddresses}
  BY CallsAreSteps DEF LocalCalls
<1> QED BY <1>1, <1>2 DEF Names

\* The next step adds itself to those that are done.
LEMMA DidNext ==
  ASSUME NEW id \in {"local", "public"}, NEW k \in Int, NEW c \in Steps(id),
         Rank(c) = k + 1
  PROVE  /\ Did(id, k + 1) = Did(id, k) \cup {c}
         /\ c \notin Did(id, k)
<1>1. \A e \in Steps(id) : Rank(e) \in Int
  <2>1. \A e \in Steps(id) : Rank(e) \in (Base(id) + 1) .. 56
    BY ProgramOrder
  <2>2. Base(id) \in Int
    BY ProgramOrder
  <2> QED BY <2>1, <2>2
<1>2. \A e \in Steps(id) : Rank(e) = k + 1 => e = c
  BY OnePlace
<1> QED BY <1>1, <1>2 DEF Did

\* What a call leaves in each field.
Effects(d, c, e) ==
  /\ e \in ChainType
  /\ e.created = IF c.op = "create" THEN d.created \cup {c.on} ELSE d.created
  /\ e.proxies = IF c.op = "createProxy" THEN d.proxies \cup {c.on} ELSE d.proxies
  /\ e.directory = IF c.op = "setContract" THEN d.directory \cup {c.on} ELSE d.directory
  /\ e.groups = IF c.op = "createCashGroup" THEN d.groups \cup {c.on} ELSE d.groups
  /\ e.settings = IF c.op \in SettingOp THEN d.settings \cup {c} ELSE d.settings
  /\ e.funded = d.funded
  /\ \A n \in Owned : e.owner[n] = IF c = Giver(n) THEN "deployer"
                                   ELSE IF c = Step("transferOwnership", n) THEN "successor"
                                   ELSE d.owner[n]
  /\ \A u \in Core \cup Market : e.refs[u] =
       IF c.op = "setDependencies" /\ u \in Dependents(c.on)
       THEN (d.refs[u] \ {c.on}) \cup ({c.on} \cap d.directory)
       ELSE IF c = Step("initializeDependencies", u)
       THEN MarketDependencies \cap d.directory ELSE d.refs[u]

\* What After does to a chain, field by field.
LEMMA AfterEffects ==
  ASSUME NEW d \in ChainType, NEW c \in LocalCalls, c = Step(c.op, c.on),
         Kind(c), c # SaveAddresses, c.on \in Names
  PROVE  Effects(d, c, After(d, c))
<1> DEFINE op == c.op
           on == c.on
           e == After(d, c)
           Refs == \A u \in Core \cup Market : e.refs[u] =
             IF op = "setDependencies" /\ u \in Dependents(on)
             THEN (d.refs[u] \ {on}) \cup ({on} \cap d.directory)
             ELSE IF c = Step("initializeDependencies", u)
             THEN MarketDependencies \cap d.directory ELSE d.refs[u]
<1> HIDE DEF e
<1>1. CASE op = "create"
  <2>1. e = [d EXCEPT !.created = @ \cup {on},
                        !.owner = IF on = "ProxyAdmin" THEN [@ EXCEPT !["ProxyAdmin"] = "deployer"] ELSE @]
    BY <1>1 DEF After, e
  <2>2. e \in ChainType
    <3> DEFINE o == IF on = "ProxyAdmin" THEN [d.owner EXCEPT !["ProxyAdmin"] = "deployer"] ELSE d.owner
    <3>1. d.owner \in [Owned -> Party] /\ "deployer" \in Party
      BY DEF ChainType, Party
    <3>2. o \in [Owned -> Party]
      BY <3>1
    <3>3. on \in Names /\ e = [d EXCEPT !.created = @ \cup {on}, !.owner = o]
      BY <2>1 DEF ChainType
    <3> HIDE DEF o
    <3> QED BY <3>2, <3>3 DEF ChainType
  <2>3. /\ e.created = IF op = "create" THEN d.created \cup {on} ELSE d.created
        /\ e.proxies = IF op = "createProxy" THEN d.proxies \cup {on} ELSE d.proxies
        /\ e.directory = IF op = "setContract" THEN d.directory \cup {on} ELSE d.directory
        /\ e.groups = IF op = "createCashGroup" THEN d.groups \cup {on} ELSE d.groups
        /\ e.settings = IF op \in SettingOp THEN d.settings \cup {c} ELSE d.settings
        /\ e.funded = d.funded
    BY <1>1, <2>1 DEF ChainType, SettingOp
  <2>4. \A n \in Owned : e.owner[n] = IF c = Giver(n) THEN "deployer"
                               ELSE IF c = Step("transferOwnership", n) THEN "successor"
                               ELSE d.owner[n]
    BY <1>1, <2>1 DEF ChainType, Giver, Create, Step, Owned, Core, Market
  <2>5. Refs
    BY <1>1, <2>1 DEF ChainType, Step
  <2> QED BY <2>2, <2>3, <2>4, <2>5 DEF Effects, e
<1>2. CASE op = "createProxy"
  <2>1. on \in Owned /\ on # "ProxyAdmin"
    BY <1>2 DEF Kind, SaveAddresses, Step, Proxied, Core, Market, Owned
  <2>2. e = [d EXCEPT !.proxies = @ \cup {on}, !.owner[on] = "deployer"]
    BY <1>2 DEF After, e
  <2>3. e \in ChainType
    <3> DEFINE o == [d.owner EXCEPT ![on] = "deployer"]
    <3>1. d.owner \in [Owned -> Party] /\ "deployer" \in Party
      BY DEF ChainType, Party
    <3>2. o \in [Owned -> Party]
      BY <3>1
    <3>3. on \in Names /\ e = [d EXCEPT !.proxies = @ \cup {on}, !.owner = o]
      BY <2>2 DEF ChainType
    <3> HIDE DEF o
    <3> QED BY <3>2, <3>3 DEF ChainType
  <2>4. /\ e.created = IF op = "create" THEN d.created \cup {on} ELSE d.created
        /\ e.proxies = IF op = "createProxy" THEN d.proxies \cup {on} ELSE d.proxies
        /\ e.directory = IF op = "setContract" THEN d.directory \cup {on} ELSE d.directory
        /\ e.groups = IF op = "createCashGroup" THEN d.groups \cup {on} ELSE d.groups
        /\ e.settings = IF op \in SettingOp THEN d.settings \cup {c} ELSE d.settings
        /\ e.funded = d.funded
    BY <1>2, <2>2 DEF ChainType, SettingOp
  <2>5. \A n \in Owned : e.owner[n] = IF c = Giver(n) THEN "deployer"
                               ELSE IF c = Step("transferOwnership", n) THEN "successor"
                               ELSE d.owner[n]
    BY <1>2, <2>1, <2>2 DEF ChainType, Giver, Create, Step, Owned, Core, Market
  <2>6. Refs
    BY <1>2, <2>1, <2>2 DEF ChainType, Step
  <2> QED BY <2>3, <2>4, <2>5, <2>6 DEF Effects, e
<1>3. CASE op = "setContract"
  <2>1. on \in Core
    BY <1>3 DEF Kind, SaveAddresses, Step, Proxied, Core, Market, Owned
  <2>2. e = [d EXCEPT !.directory = @ \cup {on}]
    BY <1>3 DEF After, e
  <2>3. e \in ChainType
    BY <1>3, <2>1, <2>2 DEF ChainType
  <2>4. /\ e.created = IF op = "create" THEN d.created \cup {on} ELSE d.created
        /\ e.proxies = IF op = "createProxy" THEN d.proxies \cup {on} ELSE d.proxies
        /\ e.directory = IF op = "setContract" THEN d.directory \cup {on} ELSE d.directory
        /\ e.groups = IF op = "createCashGroup" THEN d.groups \cup {on} ELSE d.groups
        /\ e.settings = IF op \in SettingOp THEN d.settings \cup {c} ELSE d.settings
        /\ e.funded = d.funded
    BY <1>3, <2>2 DEF ChainType, SettingOp
  <2>5. \A n \in Owned : e.owner[n] = IF c = Giver(n) THEN "deployer"
                               ELSE IF c = Step("transferOwnership", n) THEN "successor"
                               ELSE d.owner[n]
    BY <1>3, <2>1, <2>2 DEF ChainType, Giver, Create, Step
  <2>6. Refs
    BY <1>3, <2>1, <2>2 DEF ChainType, Step
  <2> QED BY <2>3, <2>4, <2>5, <2>6 DEF Effects, e
<1>4. CASE op = "setDependencies"
  <2>1. on \in Core
    BY <1>4 DEF Kind, SaveAddresses, Step, Proxied, Core, Market, Owned
  <2>2. e = [d EXCEPT !.refs = [n \in Core \cup Market |->
               IF n \in Dependents(on) THEN (@[n] \ {on}) \cup ({on} \cap d.directory) ELSE @[n]]]
    BY <1>4 DEF After, e
  <2>3. e \in ChainType
    BY <1>4, <2>1, <2>2 DEF ChainType
  <2>4. /\ e.created = IF op = "create" THEN d.created \cup {on} ELSE d.created
        /\ e.proxies = IF op = "createProxy" THEN d.proxies \cup {on} ELSE d.proxies
        /\ e.directory = IF op = "setContract" THEN d.directory \cup {on} ELSE d.directory
        /\ e.groups = IF op = "createCashGroup" THEN d.groups \cup {on} ELSE d.groups
        /\ e.settings = IF op \in SettingOp THEN d.settings \cup {c} ELSE d.settings
        /\ e.funded = d.funded
    BY <1>4, <2>2 DEF ChainType, SettingOp
  <2>5. \A n \in Owned : e.owner[n] = IF c = Giver(n) THEN "deployer"
                               ELSE IF c = Step("transferOwnership", n) THEN "successor"
                               ELSE d.owner[n]
    BY <1>4, <2>1, <2>2 DEF ChainType, Giver, Create, Step
  <2>6. Refs
    BY <1>4, <2>1, <2>2 DEF ChainType, Step
  <2> QED BY <2>3, <2>4, <2>5, <2>6 DEF Effects, e
<1>5. CASE op = "initializeDependencies"
  <2>1. on \in Market
    BY <1>5 DEF Kind, SaveAddresses, Step, Proxied, Core, Market, Owned
  <2>2. e = [d EXCEPT !.refs[on] = MarketDependencies \cap d.directory]
    BY <1>5 DEF After, e
  <2>3. e \in ChainType
    BY <1>5, <2>1, <2>2 DEF ChainType, MarketDependencies, Core
  <2>4. /\ e.created = IF op = "create" THEN d.created \cup {on} ELSE d.created
        /\ e.proxies = IF op = "createProxy" THEN d.proxies \cup {on} ELSE d.proxies
        /\ e.directory = IF op = "setContract" THEN d.directory \cup {on} ELSE d.directory
        /\ e.groups = IF op = "createCashGroup" THEN d.groups \cup {on} ELSE d.groups
        /\ e.settings = IF op \in SettingOp THEN d.settings \cup {c} ELSE d.settings
        /\ e.funded = d.funded
    BY <1>5, <2>2 DEF ChainType, SettingOp
  <2>5. \A n \in Owned : e.owner[n] = IF c = Giver(n) THEN "deployer"
                               ELSE IF c = Step("transferOwnership", n) THEN "successor"
                               ELSE d.owner[n]
    BY <1>5, <2>1, <2>2 DEF ChainType, Giver, Create, Step
  <2>6. Refs
    BY <1>5, <2>1, <2>2 DEF ChainType, Step
  <2> QED BY <2>3, <2>4, <2>5, <2>6 DEF Effects, e
<1>6. CASE op = "createCashGroup"
  <2>1. on \in Market
    BY <1>6 DEF Kind, SaveAddresses, Step, Proxied, Core, Market, Owned
  <2>2. e = [d EXCEPT !.groups = @ \cup {on}]
    BY <1>6 DEF After, e
  <2>3. e \in ChainType
    BY <1>6, <2>1, <2>2 DEF ChainType
  <2>4. /\ e.created = IF op = "create" THEN d.created \cup {on} ELSE d.created
        /\ e.proxies = IF op = "createProxy" THEN d.proxies \cup {on} ELSE d.proxies
        /\ e.directory = IF op = "setContract" THEN d.directory \cup {on} ELSE d.directory
        /\ e.groups = IF op = "createCashGroup" THEN d.groups \cup {on} ELSE d.groups
        /\ e.settings = IF op \in SettingOp THEN d.settings \cup {c} ELSE d.settings
        /\ e.funded = d.funded
    BY <1>6, <2>2 DEF ChainType, SettingOp
  <2>5. \A n \in Owned : e.owner[n] = IF c = Giver(n) THEN "deployer"
                               ELSE IF c = Step("transferOwnership", n) THEN "successor"
                               ELSE d.owner[n]
    BY <1>6, <2>1, <2>2 DEF ChainType, Giver, Create, Step, Owned, Core, Market
  <2>6. Refs
    BY <1>6, <2>1, <2>2 DEF ChainType, Step
  <2> QED BY <2>3, <2>4, <2>5, <2>6 DEF Effects, e
<1>7. CASE op = "transferOwnership"
  <2>1. on \in Owned
    BY <1>7 DEF Kind, SaveAddresses, Step, Proxied, Core, Market, Owned
  <2>2. e = [d EXCEPT !.owner[on] = "successor"]
    BY <1>7 DEF After, e
  <2>3. e \in ChainType
    BY <1>7, <2>1, <2>2 DEF ChainType, Party
  <2>4. /\ e.created = IF op = "create" THEN d.created \cup {on} ELSE d.created
        /\ e.proxies = IF op = "createProxy" THEN d.proxies \cup {on} ELSE d.proxies
        /\ e.directory = IF op = "setContract" THEN d.directory \cup {on} ELSE d.directory
        /\ e.groups = IF op = "createCashGroup" THEN d.groups \cup {on} ELSE d.groups
        /\ e.settings = IF op \in SettingOp THEN d.settings \cup {c} ELSE d.settings
        /\ e.funded = d.funded
    BY <1>7, <2>2 DEF ChainType, SettingOp
  <2>5. \A n \in Owned : e.owner[n] = IF c = Giver(n) THEN "deployer"
                               ELSE IF c = Step("transferOwnership", n) THEN "successor"
                               ELSE d.owner[n]
    BY <1>7, <2>1, <2>2 DEF ChainType, Giver, Create, Step
  <2>6. Refs
    BY <1>7, <2>1, <2>2 DEF ChainType, Step
  <2> QED BY <2>3, <2>4, <2>5, <2>6 DEF Effects, e
<1>8. CASE op \in SettingOp
  <2>1. e = [d EXCEPT !.settings = @ \cup {c}]
    BY <1>8 DEF After, SettingOp, e
  <2>2. e \in ChainType
    BY <1>8, <2>1 DEF ChainType
  <2>3. /\ e.created = IF op = "create" THEN d.created \cup {on} ELSE d.created
        /\ e.proxies = IF op = "createProxy" THEN d.proxies \cup {on} ELSE d.proxies
        /\ e.directory = IF op = "setContract" THEN d.directory \cup {on} ELSE d.directory
        /\ e.groups = IF op = "createCashGroup" THEN d.groups \cup {on} ELSE d.groups
        /\ e.settings = IF op \in SettingOp THEN d.settings \cup {c} ELSE d.settings
        /\ e.funded = d.funded
    BY <1>8, <2>1 DEF ChainType, SettingOp
  <2>4. \A n \in Owned : e.owner[n] = IF c = Giver(n) THEN "deployer"
                               ELSE IF c = Step("transferOwnership", n) THEN "successor"
                               ELSE d.owner[n]
    BY <1>8, <2>1 DEF ChainType, Giver, Create, Step, SettingOp
  <2>5. Refs
    BY <1>8, <2>1 DEF ChainType, Step, SettingOp
  <2> QED BY <2>2, <2>3, <2>4, <2>5 DEF Effects, e
<1>9. \/ op = "create" \/ op = "createProxy" \/ op = "setContract" \/ op = "setDependencies"
      \/ op = "initializeDependencies" \/ op = "createCashGroup"
      \/ op = "transferOwnership" \/ op \in SettingOp
  BY DEF Kind, SettingOp
<1> QED BY <1>1, <1>2, <1>3, <1>4, <1>5, <1>6, <1>7, <1>8, <1>9

\* What the steps before it have done for a step.
Prepared(D, c) ==
  /\ c.op = "create" => \A n \in Links(c.on) : Create(n) \in D
  /\ c.op = "setAnswer" => Create(c.on) \in D
  /\ c.op = "createProxy" => Create(LogicOf(c.on)) \in D
  /\ c.op \notin {"create", "setAnswer", "createProxy"} =>
       \A n \in Proxied : Step("createProxy", n) \in D
  /\ c.op \in {"setDependencies", "initializeDependencies"} =>
       \A n \in Core : Step("setContract", n) \in D
  /\ c.op \in {"setHaircuts", "listCurrency", "createCashGroup"} =>
       \A n \in Core : Step("setDependencies", n) \in D
  /\ c.op \in MarketOp \ {"createProxy"} => Step("createProxy", c.on) \in D
  /\ c.op = "createCashGroup" =>
       /\ Step("listCurrency", CurrencyOf(c.on)) \in D
       /\ Step("initializeDependencies", c.on) \in D
  /\ c.op # "transferOwnership" =>
       \A n \in Owned : Step("transferOwnership", n) \notin D
  /\ c.op = "transferOwnership" => Giver(c.on) \in D

\* The numbers of the steps of each kind, in a form to compare.
LEMMA RankRanges ==
  /\ \A n \in LocalNames : Rank(Create(n)) \in -8 .. -1
  /\ \A n \in Logics : Rank(Create(n)) \in 1 .. 13
  /\ \A n \in Proxied : Rank(Create(n)) \in 5 .. 13
  /\ \A n \in Proxied : Rank(Step("createProxy", n)) = Rank(Create(n)) + 1
  /\ \A n \in Core : Rank(Step("setContract", n)) \in 15 .. 18
  /\ \A n \in Core : Rank(Step("setDependencies", n)) \in 19 .. 22
  /\ Rank(Step("setDiscounts", "Escrow")) = 23
  /\ Rank(Step("setHaircuts", "Portfolios")) = 24
  /\ \A x \in Currency : Rank(Step("listCurrency", x)) \in 25 .. 39
  /\ \A x \in Currency : Rank(Step("addExchangeRate", x)) \in 26 .. 40
  /\ \A n \in Owned : Rank(Step("transferOwnership", n)) \in 48 .. 56
<1>1. /\ \A n \in LocalNames : Rank(Create(n)) \in -8 .. -1
      /\ \A n \in Logics : Rank(Create(n)) \in 1 .. 13
      /\ \A n \in Proxied : Rank(Create(n)) \in 5 .. 13
  <2>1. \A n : Rank(Create(n)) = RankCreate(n)
    BY DEF Rank, Create, Step
  <2>2. \A n \in LocalNames : RankCreate(n) \in -8 .. -1
    BY DEF LocalNames, RankCreate
  <2>3. \A n \in Logics : RankCreate(n) \in 1 .. 13
    BY DEF Logics, Proxied, Core, RankCreate
  <2>4. \A n \in Proxied : RankCreate(n) \in 5 .. 13
    BY DEF Proxied, Core, RankCreate
  <2> QED BY <2>1, <2>2, <2>3, <2>4
<1>2. \A n \in Proxied : Rank(Step("createProxy", n)) = Rank(Create(n)) + 1
  BY DEF Proxied, Core, Rank, RankCreate, RankProxy, Create, Step
<1>3. /\ \A n \in Core : Rank(Step("setContract", n)) \in 15 .. 18
      /\ \A n \in Core : Rank(Step("setDependencies", n)) \in 19 .. 22
      /\ \A n \in Owned : Rank(Step("transferOwnership", n)) \in 48 .. 56
  BY Places DEF DirectorySteps, DependencySteps, TransferSteps
<1>4. /\ Rank(Step("setDiscounts", "Escrow")) = 23
      /\ Rank(Step("setHaircuts", "Portfolios")) = 24
  BY DEF Rank, Step
<1>5. /\ \A x \in Currency : Rank(Step("listCurrency", x)) \in 25 .. 39
      /\ \A x \in Currency : Rank(Step("addExchangeRate", x)) \in 26 .. 40
  BY DEF Currency, Rank, Step
<1> QED BY <1>1, <1>2, <1>3, <1>4, <1>5

\* Ownership is handed over after everything else.
LEMMA TransfersAreLast ==
  ASSUME NEW id \in {"local", "public"}, NEW c \in Steps(id), c # SaveAddresses
  PROVE  IF c.op = "transferOwnership" THEN Rank(c) \in 48 .. 56
         ELSE Rank(c) \in -8 .. 46
<1> DEFINE op == c.op
           on == c.on
<1>0. c = Step(op, on) /\ Kind(c)
  BY Kinds
<1>1. CASE op = "create"
  BY <1>0, <1>1, RankRanges DEF Create, Kind, SaveAddresses, Step
<1>2. CASE op = "setAnswer"
  BY <1>0, <1>2 DEF Rank, Kind, SaveAddresses, Step
<1>3. CASE op = "createProxy"
  <2>1. on \in Proxied \/ on \in Market
    BY <1>0, <1>3 DEF Kind, SaveAddresses, Step
  <2>2. CASE on \in Proxied
    BY <1>0, <1>3, <2>2, RankRanges
  <2>3. CASE on \in Market
    BY <1>0, <1>3, <2>3, MarketPlaces
  <2> QED BY <2>1, <2>2, <2>3
<1>4. CASE op \in {"setContract", "setDependencies", "setDiscounts", "setHaircuts",
                  "listCurrency", "addExchangeRate"}
  BY <1>0, <1>4, RankRanges DEF Kind, SaveAddresses, Step
<1>5. CASE op \in MarketOp \ {"createProxy"}
  <2>1. on \in Market
    BY <1>0, <1>5 DEF Kind, SaveAddresses, Step, MarketOp
  <2> QED BY <1>0, <1>5, <2>1, MarketPlaces DEF MarketOp
<1>6. CASE op = "transferOwnership"
  <2>1. on \in Owned
    BY <1>0, <1>6 DEF Kind, SaveAddresses, Step
  <2> QED BY <1>0, <1>6, <2>1, RankRanges
<1> QED BY <1>0, <1>1, <1>2, <1>3, <1>4, <1>5, <1>6 DEF Kind, MarketOp

\* The order of the program: what a step needs comes before it.
LEMMA OrderPrepares ==
  ASSUME NEW id \in {"local", "public"}, NEW k \in Int, NEW c \in Steps(id),
         Rank(c) = k + 1, c # SaveAddresses
  PROVE  Prepared(Did(id, k), c)
<1> DEFINE D == Did(id, k)
           op == c.op
           on == c.on
<1>0. c = Step(op, on) /\ Kind(c) /\ (id = "public" => ~LocalKind(c))
  BY Kinds
<1>a. ASSUME NEW e \in Steps(id), Rank(e) \in Int, Rank(e) < Rank(c)
      PROVE  e \in D
  BY <1>a DEF Did
<1>b. ASSUME NEW e, Rank(e) \in Int, Rank(e) > k
      PROVE  e \notin D
  BY <1>b DEF Did
<1> HIDE DEF D
<1>1. op = "create" => \A n \in Links(on) : Create(n) \in D
  <2> SUFFICES ASSUME op = "create", NEW n \in Links(on) PROVE Create(n) \in D
    OBVIOUS
  <2>1. \/ on = "Escrow" /\ n = "Liquidation"
        \/ on = "Portfolios" /\ n = "RiskFramework"
    <3>1. CASE on = "Escrow"
      BY <3>1 DEF Links
    <3>2. CASE on = "Portfolios"
      BY <3>2 DEF Links
    <3>3. CASE on # "Escrow" /\ on # "Portfolios"
      BY <3>3 DEF Links
    <3> QED BY <3>1, <3>2, <3>3
  <2>2. Create(n) \in Steps(id)
    BY <2>1, KindsAreSteps DEF Logics
  <2>3. Rank(Create(n)) \in 1 .. 2
    BY <2>1 DEF Rank, RankCreate, Create, Step
  <2>4. Rank(c) \in 5 .. 13
    BY <1>0, <2>1, RankRanges DEF Create, Proxied, Core
  <2> QED BY <1>a, <2>2, <2>3, <2>4
<1>2. op = "setAnswer" => Create(on) \in D
  <2> SUFFICES ASSUME op = "setAnswer" PROVE Create(on) \in D
    OBVIOUS
  <2>1. on \in {"DAI_oracle", "USDC_oracle"} /\ id = "local"
    BY <1>0 DEF Kind, LocalKind, SaveAddresses, Step
  <2>2. Create(on) \in Steps(id)
    BY <2>1, KindsAreSteps DEF LocalSteps
  <2>3. Rank(Create(on)) \in Int /\ Rank(Create(on)) < Rank(c)
    BY <1>0, <2>1 DEF Rank, RankCreate, Create, Step
  <2> QED BY <1>a, <2>2, <2>3
<1>3. op = "createProxy" => Create(LogicOf(on)) \in D
  <2> SUFFICES ASSUME op = "createProxy" PROVE Create(LogicOf(on)) \in D
    OBVIOUS
  <2>1. on \in Proxied \/ on \in Market
    BY <1>0 DEF Kind, SaveAddresses, Step
  <2>2. CASE on \in Proxied
    <3>1. LogicOf(on) = on
      BY <2>2 DEF Proxied, Core, Market, LogicOf
    <3>2. Create(on) \in Steps(id)
      BY <2>2, KindsAreSteps DEF Logics
    <3>3. Rank(Create(on)) \in Int /\ Rank(Create(on)) < Rank(c)
      BY <1>0, <2>2, RankRanges
    <3> QED BY <1>a, <3>1, <3>2, <3>3
  <2>3. CASE on \in Market
    <3>1. LogicOf(on) = "CashMarket"
      BY <2>3 DEF LogicOf
    <3>2. Create("CashMarket") \in Steps(id)
      BY KindsAreSteps DEF Logics
    <3>3. Rank(Create("CashMarket")) = 3
      BY DEF Rank, RankCreate, Create, Step
    <3>4. Rank(c) \in 27 .. 41
      BY <1>0, <2>3, MarketPlaces
    <3> QED BY <1>a, <3>1, <3>2, <3>3, <3>4
  <2> QED BY <2>1, <2>2, <2>3
<1>4. op \notin {"create", "setAnswer", "createProxy"} => Rank(c) \in 15 .. 56
  <2>1. CASE op \in {"setContract", "setDependencies"}
    BY <1>0, <2>1, RankRanges DEF Kind, SaveAddresses, Step
  <2>2. CASE op \in {"setDiscounts", "setHaircuts", "transferOwnership"}
    BY <1>0, <2>2, RankRanges DEF Kind, SaveAddresses, Step
  <2>3. CASE op \in {"listCurrency", "addExchangeRate"}
    BY <1>0, <2>3, RankRanges DEF Kind, SaveAddresses, Step
  <2>4. CASE op \in {"initializeDependencies", "createCashGroup", "setMaxTradeSize",
                     "setFee", "setRateFactors"}
    <3>1. on \in Market
      BY <1>0, <2>4 DEF Kind, SaveAddresses, Step
    <3>2. Rank(c) \in 28 .. 46
      BY <1>0, <2>4, <3>1, MarketPlaces
    <3> QED BY <3>2
  <2> QED BY <1>0, <2>1, <2>2, <2>3, <2>4 DEF Kind
<1>5. op \notin {"create", "setAnswer", "createProxy"} =>
        \A n \in Proxied : Step("createProxy", n) \in D
  BY <1>4, <1>a, RankRanges, KindsAreSteps
<1>6. op \in {"setDependencies", "initializeDependencies"} =>
        \A n \in Core : Step("setContract", n) \in D
  <2> SUFFICES ASSUME op \in {"setDependencies", "initializeDependencies"},
                      NEW n \in Core
               PROVE  Step("setContract", n) \in D
    OBVIOUS
  <2>1. CASE op = "setDependencies"
    <3>1. on \in Core
      BY <1>0, <2>1 DEF Kind, SaveAddresses, Step
    <3> QED BY <1>0, <1>a, <2>1, <3>1, RankRanges, KindsAreSteps
  <2>2. CASE op = "initializeDependencies"
    <3>1. on \in Market
      BY <1>0, <2>2 DEF Kind, SaveAddresses, Step
    <3>2. Rank(c) \in 28 .. 42
      BY <1>0, <2>2, <3>1, MarketPlaces
    <3> QED BY <1>a, <3>2, RankRanges, KindsAreSteps
  <2> QED BY <2>1, <2>2
<1>7. op \in {"setHaircuts", "listCurrency", "createCashGroup"} =>
        \A n \in Core : Step("setDependencies", n) \in D
  <2> SUFFICES ASSUME op \in {"setHaircuts", "listCurrency", "createCashGroup"},
                      NEW n \in Core
               PROVE  Step("setDependencies", n) \in D
    OBVIOUS
  <2>1. Rank(c) \in 23 .. 56
    <3>1. CASE op = "setHaircuts"
      BY <1>0, <3>1, RankRanges DEF Kind, SaveAddresses, Step
    <3>2. CASE op = "listCurrency"
      BY <1>0, <3>2, RankRanges DEF Kind, SaveAddresses, Step
    <3>3. CASE op = "createCashGroup"
      <4>1. on \in Market
        BY <1>0, <3>3 DEF Kind, SaveAddresses, Step
      <4> QED BY <1>0, <3>3, <4>1, MarketPlaces
    <3> QED BY <3>1, <3>2, <3>3
  <2> QED BY <1>a, <2>1, RankRanges, KindsAreSteps
<1>8. ASSUME op \in MarketOp \ {"createProxy"}
      PROVE  on \in Market /\ Step("createProxy", on) \in D
  <2>1. on \in Market
    BY <1>0, <1>8 DEF Kind, SaveAddresses, Step, MarketOp
  <2>2. Rank(Step("createProxy", on)) \in Int /\ Rank(Step("createProxy", on)) < Rank(c)
    BY <1>0, <1>8, <2>1, MarketPlaces DEF MarketOp
  <2> QED BY <1>a, <2>1, <2>2, KindsAreSteps
<1>9. ASSUME op = "createCashGroup"
      PROVE  /\ Step("listCurrency", CurrencyOf(on)) \in D
             /\ Step("initializeDependencies", on) \in D
  <2>1. on \in Market
    BY <1>0, <1>9 DEF Kind, SaveAddresses, Step
  <2>2. Step("initializeDependencies", on) \in Steps(id)
    BY <2>1, KindsAreSteps DEF MarketSteps, MarketOp
  <2>3. Step("initializeDependencies", on) \in D
    BY <1>0, <1>9, <1>a, <2>1, <2>2, MarketPlaces
  <2>4. Step("listCurrency", CurrencyOf(on)) \in Steps(id)
    BY <2>1, KindsAreSteps DEF CurrencyOf, Currency, CurrencySteps
  <2>5. Rank(c) = RankMarket(on) + 2
    BY <1>0, <1>9, <2>1, MarketPlaces
  <2>6. /\ Rank(Step("listCurrency", CurrencyOf(on))) \in Int
        /\ Rank(Step("listCurrency", CurrencyOf(on))) < RankMarket(on) + 2
    BY <2>1 DEF Market, CurrencyOf, Rank, RankMarket, Step
  <2> QED BY <1>a, <2>3, <2>4, <2>5, <2>6
<1>10. ASSUME op # "transferOwnership", NEW n \in Owned
       PROVE  Step("transferOwnership", n) \notin D
  <2>1. Rank(c) \in -8 .. 46
    BY <1>10, TransfersAreLast
  <2> QED BY <1>b, <2>1, RankRanges
<1>11. ASSUME op = "transferOwnership" PROVE Giver(on) \in D
  <2>1. on \in Owned
    BY <1>0, <1>11 DEF Kind, SaveAddresses, Step
  <2>2. Rank(c) \in 48 .. 56
    BY <1>0, <1>11, <2>1, RankRanges
  <2>3. CASE on = "ProxyAdmin"
    BY <1>a, <2>2, <2>3, KindsAreSteps, RankRanges DEF Giver, Logics
  <2>4. CASE on \in Proxied
    <3>1. Giver(on) = Step("createProxy", on)
      BY <2>4 DEF Giver, Proxied, Core
    <3> QED BY <1>a, <2>2, <2>4, <3>1, KindsAreSteps, RankRanges
  <2>5. CASE on \in Market
    <3>1. Giver(on) = Step("createProxy", on)
      BY <2>5 DEF Giver, Market
    <3> QED BY <1>a, <2>2, <2>5, <3>1, KindsAreSteps, MarketPlaces
  <2> QED BY <2>1, <2>3, <2>4, <2>5 DEF Owned, Proxied
<1> QED
  BY <1>1, <1>2, <1>3, <1>5, <1>6, <1>7, <1>8, <1>9, <1>10, <1>11 DEF Prepared, D

\* Before the first step there is nothing.
LEMMA NothingMade ==
  ASSUME NEW id \in {"local", "public"}
  PROVE  Made(Did(id, Base(id)), Nothing)
<1>1. Did(id, Base(id)) = {}
  <2>1. \A c \in Steps(id) : Rank(c) \in (Base(id) + 1) .. 56
    BY ProgramOrder
  <2>2. Base(id) \in Int
    BY ProgramOrder
  <2> QED BY <2>1, <2>2 DEF Did
<1>2. Nothing \in ChainType
  BY DEF Nothing, ChainType, Party
<1>3. Made({}, Nothing)
  BY <1>2 DEF Made, Nothing
<1> QED BY <1>1, <1>3

\* The next step takes what is made to what is made with it.
LEMMA MadeNext ==
  ASSUME NEW id \in {"local", "public"}, NEW k \in Int, NEW c \in Steps(id),
         Rank(c) = k + 1, c # SaveAddresses, NEW d, Made(Did(id, k), d)
  PROVE  Made(Did(id, k + 1), After(d, c))
<1> DEFINE D == Did(id, k)
           E == Did(id, k + 1)
           e == After(d, c)
           op == c.op
           on == c.on
<1>1. E = D \cup {c} /\ c \notin D
  BY DidNext
<1>2. Prepared(D, c)
  BY OrderPrepares
<1>3. c = Step(op, on) /\ Kind(c) /\ c \in LocalCalls /\ on \in Names
  BY Kinds, StepsNamed
<1>4. Made(D, d) /\ d \in ChainType
  BY DEF Made
<1> HIDE DEF D, E, e
<1>5. /\ e \in ChainType
      /\ e.created = IF op = "create" THEN d.created \cup {on} ELSE d.created
      /\ e.proxies = IF op = "createProxy" THEN d.proxies \cup {on} ELSE d.proxies
      /\ e.directory = IF op = "setContract" THEN d.directory \cup {on} ELSE d.directory
      /\ e.groups = IF op = "createCashGroup" THEN d.groups \cup {on} ELSE d.groups
      /\ e.settings = IF op \in SettingOp THEN d.settings \cup {c} ELSE d.settings
      /\ e.funded = d.funded
      /\ \A n \in Owned : e.owner[n] = IF c = Giver(n) THEN "deployer"
                                       ELSE IF c = Step("transferOwnership", n) THEN "successor"
                                       ELSE d.owner[n]
      /\ \A u \in Core \cup Market : e.refs[u] =
           IF op = "setDependencies" /\ u \in Dependents(on)
           THEN (d.refs[u] \ {on}) \cup ({on} \cap d.directory)
           ELSE IF c = Step("initializeDependencies", u)
           THEN MarketDependencies \cap d.directory ELSE d.refs[u]
  <2>1. Effects(d, c, e)
    BY <1>3, <1>4, AfterEffects DEF e
  <2> QED BY <2>1 DEF Effects
<1>6. \A o, n : c = Step(o, n) <=> o = op /\ n = on
  BY <1>3 DEF Step
<1>7. op \in {"setDependencies", "initializeDependencies"} => Core \subseteq d.directory
  BY <1>2, <1>4 DEF Prepared, Made
<1> HIDE DEF op, on
<1>8. \A n \in Names : n \in e.created <=> Create(n) \in E
  BY <1>1, <1>4, <1>5, <1>6 DEF Made, Create
<1>9. \A n \in Names : n \in e.proxies <=> Step("createProxy", n) \in E
  BY <1>1, <1>4, <1>5, <1>6 DEF Made
<1>10. \A n \in Core : n \in e.directory <=> Step("setContract", n) \in E
  BY <1>1, <1>4, <1>5, <1>6 DEF Made
<1>11. \A m \in Market : m \in e.groups <=> Step("createCashGroup", m) \in E
  BY <1>1, <1>4, <1>5, <1>6 DEF Made
<1>12. \A x \in LocalCalls : x \in e.settings <=> x \in E /\ x.op \in SettingOp
  BY <1>1, <1>4, <1>5 DEF Made, op
<1>13. ASSUME NEW n \in Core, NEW u \in Core
       PROVE  n \in e.refs[u] <=> u \in Dependents(n) /\ Step("setDependencies", n) \in E
  <2>1. n \in d.refs[u] <=> u \in Dependents(n) /\ Step("setDependencies", n) \in D
    BY <1>4 DEF Made
  <2>2. c # Step("initializeDependencies", u)
    BY <1>3 DEF Kind, Core, Market, Step, SaveAddresses
  <2>3. CASE c = Step("setDependencies", n)
    <3>1. op = "setDependencies" /\ on = n /\ n \in d.directory
      BY <1>6, <1>7, <2>3
    <3>2. e.refs[u] = IF u \in Dependents(n)
                      THEN (d.refs[u] \ {n}) \cup ({n} \cap d.directory) ELSE d.refs[u]
      BY <1>5, <2>2, <3>1
    <3>3. Step("setDependencies", n) \in E /\ Step("setDependencies", n) \notin D
      BY <1>1, <2>3
    <3> QED BY <2>1, <3>1, <3>2, <3>3
  <2>4. CASE c # Step("setDependencies", n)
    BY <1>1, <1>5, <1>6, <1>7, <2>1, <2>2, <2>4
  <2> QED BY <2>3, <2>4
<1>14. ASSUME NEW m \in Market
       PROVE  \/ e.refs[m] = MarketDependencies
              \/ e.refs[m] = {} /\ Step("initializeDependencies", m) \notin E
  <2>1. \/ d.refs[m] = MarketDependencies
        \/ d.refs[m] = {} /\ Step("initializeDependencies", m) \notin D
    BY <1>4 DEF Made
  <2>2. op = "setDependencies" => m \notin Dependents(on)
    BY <1>3, <1>6 DEF Kind, Dependents, Core, Market, Step, SaveAddresses, op, on
  <2>3. e.refs[m] = IF c = Step("initializeDependencies", m)
                    THEN MarketDependencies \cap d.directory ELSE d.refs[m]
    BY <1>5, <2>2
  <2>4. CASE c = Step("initializeDependencies", m)
    BY <1>6, <1>7, <2>3, <2>4 DEF MarketDependencies, Core
  <2>5. CASE c # Step("initializeDependencies", m)
    BY <1>1, <2>1, <2>3, <2>5
  <2> QED BY <2>4, <2>5
<1>15. \A m \in e.funded : Step("setRateFactors", m) \in E
  BY <1>1, <1>4, <1>5 DEF Made
<1>16. ASSUME NEW n \in Owned
       PROVE  e.owner[n] = IF Step("transferOwnership", n) \in E THEN "successor"
                           ELSE IF Giver(n) \in E THEN "deployer" ELSE "nobody"
  <2>1. d.owner[n] = IF Step("transferOwnership", n) \in D THEN "successor"
                     ELSE IF Giver(n) \in D THEN "deployer" ELSE "nobody"
    BY <1>4 DEF Made
  <2>2. Giver(n) # Step("transferOwnership", n)
    BY DEF Giver, Create, Step
  <2>3. CASE c = Giver(n)
    <3>1. op # "transferOwnership"
      BY <1>6, <2>3 DEF Giver, Create
    <3>2. Step("transferOwnership", n) \notin D
      BY <1>2, <3>1 DEF Prepared, op
    <3> QED BY <1>1, <1>5, <2>2, <2>3, <3>2
  <2>4. CASE c # Giver(n)
    BY <1>1, <1>5, <2>1, <2>4
  <2> QED BY <2>3, <2>4
<1>17. Made(E, e)
  BY <1>5, <1>8, <1>9, <1>10, <1>11, <1>12, <1>13, <1>14, <1>15, <1>16 DEF Made
<1> QED BY <1>17 DEF E, e

\* A call that is next finds what it needs, but perhaps the address it
\* would create taken.
LEMMA NextSucceeds ==
  ASSUME NEW id \in {"local", "public"}, NEW k \in Int, NEW c \in Steps(id),
         Rank(c) = k + 1, c # SaveAddresses, NEW r,
         Made(Did(id, k), chain[r])
  PROVE  Succeeds(r, c) \/ (c.op = "createProxy" /\ Occupied(r, c.on))
<1> DEFINE D == Did(id, k)
           d == chain[r]
           op == c.op
           on == c.on
<1>1. c \notin D
  BY DidNext
<1>2. Prepared(D, c)
  BY OrderPrepares
<1>3. c = Step(op, on) /\ Kind(c)
  BY Kinds
<1>4. Made(D, d)
  OBVIOUS
<1> HIDE DEF D, d
<1>5. ASSUME op # "transferOwnership", NEW n \in Owned, Giver(n) \in D
      PROVE  d.owner[n] = "deployer"
  <2>1. Step("transferOwnership", n) \notin D
    BY <1>2, <1>5 DEF Prepared
  <2> QED BY <1>4, <1>5, <2>1 DEF Made
<1>6. ASSUME NEW n \in Logics, Create(n) \in D PROVE n \in d.created
  <2>1. n \in Names
    <3>1. Create(n) \in Steps("local")
      BY KindsAreSteps
    <3>2. Create(n) # SaveAddresses /\ Create(n).on = n
      BY DEF Create, Step, SaveAddresses
    <3> QED BY <3>1, <3>2, StepsNamed
  <2> QED BY <1>4, <1>6, <2>1 DEF Made
<1>7. \A n \in Proxied : Giver(n) = Step("createProxy", n) /\ n \in Owned
  BY DEF Proxied, Core, Giver, Owned
<1>8. \A n \in Market : Giver(n) = Step("createProxy", n) /\ n \in Owned
  BY DEF Market, Giver, Owned
<1>9. op \in {"setHaircuts", "listCurrency", "createCashGroup"} =>
        /\ Connected(d)
        /\ "Escrow" \in d.refs["Portfolios"]
  <2>1. /\ "Portfolios" \in Core /\ "Escrow" \in Core
        /\ "Escrow" \in Dependents("Portfolios") /\ "Portfolios" \in Dependents("Escrow")
    BY DEF Core, Dependents
  <2> QED BY <1>2, <1>4, <2>1 DEF Prepared, Made, Connected
<1>10. CASE op = "create"
  <2>1. \A n \in Links(on) : n \in Logics
    BY DEF Links, Logics
  <2>2. Links(on) \subseteq d.created
    BY <1>2, <1>6, <1>10, <2>1 DEF Prepared
  <2> QED BY <1>10, <2>2 DEF Succeeds, d
<1>11. CASE op = "setAnswer"
  <2>1. Create(on) \in D
    BY <1>2, <1>11 DEF Prepared
  <2>2. on \in Names
    BY StepsNamed
  <2>3. on \in d.created
    BY <1>4, <2>1, <2>2 DEF Made
  <2> QED BY <1>11, <2>3 DEF Succeeds, d
<1>12. CASE op = "createProxy"
  <2>1. Create(LogicOf(on)) \in D
    BY <1>2, <1>12 DEF Prepared
  <2>2. LogicOf(on) \in Logics
    BY <1>3, <1>12 DEF Kind, SaveAddresses, Step, LogicOf, Logics
  <2>3. LogicOf(on) \in d.created
    BY <1>6, <2>1, <2>2
  <2> QED BY <1>12, <2>3 DEF Succeeds, d
<1>13. op \notin {"create", "setAnswer", "createProxy", "transferOwnership"} =>
         \A n \in Proxied : d.owner[n] = "deployer"
  BY <1>2, <1>5, <1>7 DEF Prepared
<1>14. CASE op = "setContract"
  <2>1. d.owner["Directory"] = "deployer"
    BY <1>13, <1>14 DEF Proxied
  <2> QED BY <1>14, <2>1 DEF Succeeds, d
<1>15. CASE op = "setDependencies"
  <2>1. d.owner["Directory"] = "deployer"
    BY <1>13, <1>15 DEF Proxied
  <2>2. Core \subseteq d.directory
    BY <1>2, <1>4, <1>15 DEF Prepared, Made
  <2>3. on \in Core
    BY <1>3, <1>15 DEF Kind, SaveAddresses, Step
  <2>4. Dependents(on) \subseteq d.directory
    BY <2>2, <2>3 DEF Dependents, Core
  <2> QED BY <1>15, <2>1, <2>4 DEF Succeeds, d
<1>16. CASE op = "setDiscounts"
  <2>1. d.owner["Escrow"] = "deployer"
    BY <1>13, <1>16 DEF Proxied, Core
  <2> QED BY <1>16, <2>1 DEF Succeeds, d
<1>17. CASE op = "setHaircuts"
  <2>1. d.owner["Portfolios"] = "deployer"
    BY <1>13, <1>17 DEF Proxied, Core
  <2> QED BY <1>9, <1>17, <2>1 DEF Succeeds, d
<1>18. CASE op = "listCurrency"
  <2>1. d.owner["Escrow"] = "deployer"
    BY <1>13, <1>18 DEF Proxied, Core
  <2>2. c \in LocalCalls
    BY StepsNamed
  <2>3. ~IsSet(d, "listCurrency", on)
    BY <1>1, <1>3, <1>4, <1>18, <2>2 DEF Made, IsSet
  <2> QED BY <1>9, <1>18, <2>1, <2>3 DEF Succeeds, d
<1>19. CASE op = "addExchangeRate"
  <2>1. d.owner["Escrow"] = "deployer"
    BY <1>13, <1>19 DEF Proxied, Core
  <2>2. Buffer(on) > SettlementDiscount(d)
    BY DEF Buffer, SettlementDiscount
  <2> QED BY <1>19, <2>1, <2>2 DEF Succeeds, d
<1>20. op \in MarketOp \ {"createProxy"} => on \in Market
  BY <1>3 DEF Kind, SaveAddresses, Step, MarketOp
<1>21. CASE op = "initializeDependencies"
  <2>1. Step("createProxy", on) \in D
    BY <1>2, <1>21 DEF Prepared, MarketOp
  <2>2. on \in Names
    BY StepsNamed
  <2>3. on \in d.proxies
    BY <1>4, <2>1, <2>2 DEF Made
  <2> QED BY <1>21, <2>3 DEF Succeeds, d
<1>22. CASE op = "createCashGroup"
  <2>1. d.owner["Portfolios"] = "deployer"
    BY <1>13, <1>22 DEF Proxied, Core
  <2>2. on \in Market
    BY <1>20, <1>22 DEF MarketOp
  <2>3. IsSet(d, "listCurrency", CurrencyOf(on))
    <3> DEFINE l == Step("listCurrency", CurrencyOf(on))
    <3>1. l \in D
      BY <1>2, <1>22 DEF Prepared
    <3>2. l \in Steps("local") /\ l # SaveAddresses /\ l.op \in SettingOp
      BY KindsAreSteps DEF CurrencyOf, Currency, CurrencySteps, Step, SaveAddresses, SettingOp
    <3>3. l \in LocalCalls
      BY <3>2, StepsNamed
    <3> QED BY <1>4, <3>1, <3>2, <3>3 DEF Made, IsSet
  <2>4. "Portfolios" \in d.refs[on]
    BY <1>2, <1>4, <1>22, <2>2 DEF Prepared, Made, MarketDependencies
  <2> QED BY <1>9, <1>22, <2>1, <2>3, <2>4 DEF Succeeds, d
<1>23. CASE op \in {"setMaxTradeSize", "setFee", "setRateFactors"}
  <2>1. on \in Market /\ Step("createProxy", on) \in D
    BY <1>2, <1>20, <1>23 DEF Prepared, MarketOp
  <2>2. d.owner[on] = "deployer"
    BY <1>5, <1>8, <1>23, <2>1
  <2> QED BY <1>23, <2>2 DEF Succeeds, d
<1>24. CASE op = "transferOwnership"
  <2>1. on \in Owned /\ Giver(on) \in D
    BY <1>2, <1>3, <1>24 DEF Prepared, Kind, SaveAddresses, Step
  <2>2. d.owner[on] = "deployer"
    BY <1>1, <1>3, <1>4, <1>24, <2>1 DEF Made
  <2> QED BY <1>24, <2>2 DEF Succeeds, d
<1> QED
  BY <1>3, <1>10, <1>11, <1>12, <1>14, <1>15, <1>16, <1>17, <1>18, <1>19, <1>21,
     <1>22, <1>23, <1>24 DEF Kind

\* Writing the file leaves no trace on the chain.
LEMMA MadeSaved ==
  ASSUME NEW id \in {"local", "public"}, NEW d, Made(Did(id, 46), d)
  PROVE  Made(Did(id, 47), d)
<1> DEFINE D == Did(id, 46)
           E == Did(id, 47)
<1>1. SaveAddresses \in Steps(id) /\ Rank(SaveAddresses) = 46 + 1
  BY DEF Steps, SystemSteps, Rank, SaveAddresses, Step
<1>2. E = D \cup {SaveAddresses}
  BY <1>1, DidNext
<1>3. \A o, n : o # "saveAddresses" => Step(o, n) # SaveAddresses
  BY DEF SaveAddresses, Step
<1>4. \A n : Create(n) # SaveAddresses /\ Giver(n) # SaveAddresses
  BY <1>3 DEF Create, Giver
<1>5. SaveAddresses.op \notin SettingOp
  BY DEF SaveAddresses, Step, SettingOp
<1>6. Made(D, d)
  OBVIOUS
<1> HIDE DEF D, E
<1>7. Made(E, d)
  BY <1>2, <1>3, <1>4, <1>5, <1>6 DEF Made
<1> QED BY <1>7 DEF E

\* A market's dependencies may be looked up again: they are what they were.
LEMMA MadeInitialized ==
  ASSUME NEW id \in {"local", "public"}, NEW k \in Int, NEW d,
         Made(Did(id, k), d), NEW m \in Market, m \in d.proxies
  PROVE  /\ Made(Did(id, k), After(d, Step("initializeDependencies", m)))
         /\ After(d, Step("initializeDependencies", m)).proxies = d.proxies
<1> DEFINE D == Did(id, k)
           c == Step("initializeDependencies", m)
           e == After(d, c)
<1>1. Made(D, d) /\ d \in ChainType
  BY DEF Made
<1>2. /\ c.op = "initializeDependencies" /\ c.on = m
      /\ c.op \notin SettingOp /\ c # SaveAddresses
      /\ \A n : c # Giver(n) /\ c # Step("transferOwnership", n)
      /\ \A u : c = Step("initializeDependencies", u) <=> u = m
  BY DEF Step, SettingOp, SaveAddresses, Giver, Create
<1>3. c \in Steps("local")
  BY KindsAreSteps DEF MarketSteps, MarketOp
<1>4. c \in LocalCalls /\ m \in Names /\ c = Step(c.op, c.on) /\ Kind(c)
  BY <1>2, <1>3, StepsNamed, Kinds
<1>5. Effects(d, c, e)
  BY <1>1, <1>2, <1>4, AfterEffects
<1>6. Core \subseteq d.directory
  <2>1. Step("createProxy", m) \in D
    BY <1>1, <1>4 DEF Made
  <2>2. k \in Int /\ k >= 27
    BY <2>1, MarketPlaces DEF Did
  <2>3. \A n \in Core : Step("setContract", n) \in D
    BY <2>2, RankRanges, KindsAreSteps DEF Did
  <2> QED BY <1>1, <2>3 DEF Made
<1> HIDE DEF D, c, e
<1>7. /\ e \in ChainType /\ e.created = d.created /\ e.proxies = d.proxies
      /\ e.directory = d.directory /\ e.groups = d.groups
      /\ e.settings = d.settings /\ e.funded = d.funded
      /\ \A n \in Owned : e.owner[n] = d.owner[n]
      /\ \A u \in Core \cup Market : e.refs[u] =
           IF u = m THEN MarketDependencies \cap d.directory ELSE d.refs[u]
  BY <1>2, <1>5 DEF Effects
<1>8. /\ \A n \in Core, u \in Core :
           n \in e.refs[u] <=> u \in Dependents(n) /\ Step("setDependencies", n) \in D
      /\ \A u \in Market : \/ e.refs[u] = MarketDependencies
                           \/ e.refs[u] = {} /\ Step("initializeDependencies", u) \notin D
  <2>1. \A u \in Core : e.refs[u] = d.refs[u]
    BY <1>7 DEF Core, Market
  <2>2. e.refs[m] = MarketDependencies
    BY <1>6, <1>7 DEF MarketDependencies, Core
  <2>3. \A u \in Market : u # m => e.refs[u] = d.refs[u]
    BY <1>7
  <2> QED BY <1>1, <2>1, <2>2, <2>3 DEF Made
<1>9. Made(D, e)
  BY <1>1, <1>7, <1>8 DEF Made
<1> QED BY <1>7, <1>9 DEF D, c, e

\* Liquidity comes only to a market whose last parameter is set.
LEMMA MadeFunded ==
  ASSUME NEW D, NEW d, Made(D, d), NEW m \in Market,
         IsSet(d, "setRateFactors", m)
  PROVE  Made(D, [d EXCEPT !.funded = @ \cup {m}])
<1> DEFINE e == [d EXCEPT !.funded = @ \cup {m}]
<1>1. d \in ChainType
  BY DEF Made
<1>2. /\ e \in ChainType /\ e.created = d.created /\ e.proxies = d.proxies
      /\ e.directory = d.directory /\ e.groups = d.groups
      /\ e.settings = d.settings /\ e.owner = d.owner /\ e.refs = d.refs
      /\ e.funded = d.funded \cup {m}
  BY <1>1 DEF ChainType
<1> HIDE DEF e
<1>3. Step("setRateFactors", m) \in D
  <2>1. Step("setRateFactors", m) \in LocalCalls
    BY <1>1 DEF IsSet, ChainType
  <2> QED BY <2>1 DEF Made, IsSet
<1>4. Made(D, e)
  BY <1>2, <1>3 DEF Made
<1> QED BY <1>4 DEF e

\* What is known of the program the run follows.
LEMMA Here ==
  ASSUME DeployInv
  PROVE  /\ chainId \in {"local", "public"} /\ Base(chainId) \in -9 .. 0
         /\ pc \in 1 .. (57 - Base(chainId)) /\ Place \in (Base(chainId) + 1) .. 57
         /\ AtStep <=> Place <= 56
         /\ AtStep => /\ Program[chainId][pc] \in Steps(chainId)
                      /\ Rank(Program[chainId][pc]) = Place
<1>1. chainId \in {"local", "public"}
  BY ChainAssumption DEF DeployInv
<1>2. /\ Base(chainId) \in -9 .. 0 /\ Len(Program[chainId]) = 56 - Base(chainId)
      /\ DOMAIN Program[chainId] = 1 .. (56 - Base(chainId))
      /\ \A i \in DOMAIN Program[chainId] :
           /\ Program[chainId][i] \in Steps(chainId)
           /\ Rank(Program[chainId][i]) = Base(chainId) + i
  BY <1>1, ProgramOrder
<1>3. pc \in 1 .. (57 - Base(chainId))
  BY <1>2 DEF DeployInv
<1> QED BY <1>1, <1>2, <1>3, SMTT(30) DEF AtStep, Place

\* Steps of the script that leave the chain and what is pending alone.
LEMMA QuietKeeps ==
  ASSUME DeployInv, SubmissionInv,
         UNCHANGED <<wallet, chainId, chain, pending, acted>>,
         run' = run, pc' = pc, file' = file,
         phase' = "down" \/ (phase' = phase)
  PROVE  DeployInv'
<1>1. Run' = Run /\ Levels' = Levels /\ Place' = Place
  BY DEF Run, Levels, Place
<1>2. InOrder'
  <2> SUFFICES ASSUME NEW r \in Run PROVE \E k \in Levels : At(r, k)'
    BY <1>1 DEF InOrder
  <2>1. PICK k \in Levels : At(r, k)
    BY DEF DeployInv, InOrder
  <2> QED BY <2>1 DEF At
<1>3. Current'
  BY <1>1 DEF DeployInv, Current, At, AtCall, AtStep
<1>4. RevertsOnlyOnCollision'
  BY <1>1 DEF DeployInv, RevertsOnlyOnCollision
<1> QED
  BY <1>2, <1>3, <1>4 DEF DeployInv, Unused, OneDirectory

\* A run starts at the first step, on a chain with nothing of its own.
LEMMA StartKeeps ==
  ASSUME DeployInv, SubmissionInv, StartRun PROVE DeployInv'
<1> USE DEF StartRun, Start
<1>0. /\ chainId \in {"local", "public"} /\ Base(chainId) \in -9 .. 0
      /\ run \in Nat /\ run + 1 \in Run /\ run' = run + 1
      /\ Place' = Base(chainId) + 1
  BY Here, RunsAssumption DEF SubmissionInv, TypeOK, Run, Place
<1>1. Run' = Run /\ Levels' = Levels
  BY DEF Run, Levels
<1>2. InOrder'
  <2> SUFFICES ASSUME NEW r \in Run PROVE \E k \in Levels : At(r, k)'
    BY <1>1 DEF InOrder
  <2>1. PICK k \in Levels : At(r, k)
    BY DEF DeployInv, InOrder
  <2> QED BY <2>1 DEF At
<1>3. chain[run'] = Nothing /\ pending[run'] = NoCall
  BY <1>0 DEF DeployInv, Unused, SubmissionInv, Future
<1>4. Place' - 1 = Base(chainId)
  BY <1>0
<1>5. Made(Did(chainId, Base(chainId)), Nothing)
  BY <1>0, NothingMade
<1>6. At(run, Place - 1)'
  BY <1>0, <1>3, <1>4, <1>5 DEF At, Stands
<1>7. Current'
  BY <1>6 DEF Current
<1>8. Unused'
  BY <1>0 DEF DeployInv, Unused, Run
<1>9. RevertsOnlyOnCollision'
  BY DEF RevertsOnlyOnCollision
<1>10. pc' \in 1 .. (Len(Program[chainId']) + 1)
  BY <1>0, ProgramOrder
<1>11. file' \in 0 .. run'
  BY <1>0 DEF DeployInv
<1> QED
  BY <1>2, <1>7, <1>8, <1>9, <1>10, <1>11 DEF DeployInv, OneDirectory

\* A call is sent: it is the one the program is at.
LEMMA SendKeeps ==
  ASSUME DeployInv, SubmissionInv, AtCall, phase = "ready",
         phase' \in {"waiting", "down"},
         pending' = [pending EXCEPT ![run] = Program[chainId][pc]],
         UNCHANGED <<wallet, run, acted, chainId, pc, chain, file>>
  PROVE  DeployInv'
<1> DEFINE c == Program[chainId][pc]
<1>0. /\ chainId \in {"local", "public"} /\ Base(chainId) \in -9 .. 0
      /\ Place \in (Base(chainId) + 1) .. 56
      /\ c \in Steps(chainId) \ {SaveAddresses} /\ Rank(c) = Place
  BY Here DEF AtCall
<1>1. run \in Run /\ pending'[run] = c
      /\ \A r \in Run : r # run => pending'[r] = pending[r]
  BY DEF SubmissionInv, TypeOK
<1>2. Run' = Run /\ Levels' = Levels /\ Place' = Place
  BY DEF Run, Levels, Place
<1> HIDE DEF c
<1>3. At(run, Place - 1)
  BY DEF DeployInv, Current
<1>4. At(run, Place - 1)'
  BY <1>0, <1>1, <1>2, <1>3 DEF At, Stands
<1>5. InOrder'
  <2> SUFFICES ASSUME NEW r \in Run PROVE \E k \in Levels : At(r, k)'
    BY <1>2 DEF InOrder
  <2>1. CASE r = run
    <3>1. Place - 1 \in Levels
      BY <1>0 DEF Levels
    <3>2. PICK k \in Levels : k = Place - 1
      BY <3>1
    <3>3. At(r, k)'
      BY <1>2, <1>4, <2>1, <3>2 DEF At
    <3> QED BY <3>3
  <2>2. CASE r # run
    <3>1. PICK k \in Levels : At(r, k)
      BY DEF DeployInv, InOrder
    <3> QED BY <1>1, <2>2, <3>1 DEF At
  <2> QED BY <2>1, <2>2
<1>6. Current'
  BY <1>1, <1>4 DEF Current, AtCall, AtStep, c
<1>7. RevertsOnlyOnCollision'
  BY DEF RevertsOnlyOnCollision
<1> QED
  BY <1>2, <1>5, <1>6, <1>7 DEF DeployInv, Unused, OneDirectory

\* The file is written between two calls.
LEMMA SaveKeeps ==
  ASSUME DeployInv, SubmissionInv, Save PROVE DeployInv'
<1> USE DEF Save, Proceed
<1>0. /\ chainId \in {"local", "public"} /\ Base(chainId) \in -9 .. 0
      /\ pc \in 1 .. (57 - Base(chainId))
      /\ Place \in (Base(chainId) + 1) .. 56
      /\ Program[chainId][pc] = SaveAddresses /\ Rank(SaveAddresses) = Place
  BY Here DEF AtCall
<1>1. Place = 47
  BY <1>0 DEF Rank, SaveAddresses, Step
<1>2. Run' = Run /\ Levels' = Levels /\ Place' = 48 /\ run \in Run
  <2>1. run \in Run
    BY DEF SubmissionInv, TypeOK
  <2>2. Place' = Place + 1
    BY <1>0 DEF Place
  <2> QED BY <1>1, <2>1, <2>2 DEF Run, Levels
<1>3. At(run, 46) /\ pending[run] = NoCall
  BY <1>1 DEF DeployInv, Current, SubmissionInv, Settled
<1>4. Stands(chainId, 47, chain[run], pending[run]) /\ run \in acted
  BY <1>0, <1>3, MadeSaved DEF At, Stands
<1>5. At(run, Place - 1)'
  BY <1>2, <1>4 DEF At
<1>6. InOrder'
  <2> SUFFICES ASSUME NEW r \in Run PROVE \E k \in Levels : At(r, k)'
    BY <1>2 DEF InOrder
  <2>1. PICK k \in Levels : At(r, k)
    BY DEF DeployInv, InOrder
  <2> QED BY <2>1 DEF At
<1>7. Current'
  BY <1>5 DEF Current
<1>8. RevertsOnlyOnCollision'
  BY DEF RevertsOnlyOnCollision
<1>9. pc' \in 1 .. (Len(Program[chainId']) + 1)
  <2>1. Len(Program[chainId]) = 56 - Base(chainId)
    BY <1>0, ProgramOrder
  <2>2. Base(chainId) + pc = 47
    BY <1>1 DEF Place
  <2>3. pc \in 1 .. (56 - Base(chainId)) /\ pc + 1 \in 1 .. (56 - Base(chainId) + 1)
    <3> DEFINE b == Base(chainId)
    <3>1. b \in Int /\ pc \in 1 .. (57 - b) /\ b + pc = 47
      BY <1>0, <2>2
    <3> HIDE DEF b
    <3>2. pc \in 1 .. (56 - b) /\ pc + 1 \in 1 .. (56 - b + 1)
      BY <3>1
    <3> QED BY <3>2 DEF b
  <2>4. chainId' = chainId /\ pc' = pc + 1
    OBVIOUS
  <2> QED BY <2>1, <2>3, <2>4
<1>10. file' \in 0 .. run'
  BY <1>2, RunsAssumption DEF Run
<1> QED
  BY <1>2, <1>6, <1>7, <1>8, <1>9, <1>10 DEF DeployInv, Unused, OneDirectory

\* A call that was seen mined takes the script to the next step.
LEMMA ConfirmKeeps ==
  ASSUME DeployInv, SubmissionInv, Confirmed PROVE DeployInv'
<1> USE DEF Confirmed, Confirm
<1>0. /\ chainId \in {"local", "public"} /\ Base(chainId) \in -9 .. 0
      /\ pc \in 1 .. (57 - Base(chainId))
      /\ AtCall => Place <= 56
  BY Here DEF AtCall
<1>1. AtCall /\ At(run, Place)
  BY DEF DeployInv, Current
<1>2. Run' = Run /\ Levels' = Levels /\ Place' - 1 = Place
  BY <1>0 DEF Run, Levels, Place
<1>3. At(run, Place - 1)'
  BY <1>1, <1>2 DEF At
<1>4. InOrder'
  <2> SUFFICES ASSUME NEW r \in Run PROVE \E k \in Levels : At(r, k)'
    BY <1>2 DEF InOrder
  <2>1. PICK k \in Levels : At(r, k)
    BY DEF DeployInv, InOrder
  <2> QED BY <2>1 DEF At
<1>5. Current'
  BY <1>3 DEF Current
<1>6. RevertsOnlyOnCollision'
  BY DEF RevertsOnlyOnCollision
<1>7. pc' \in 1 .. (Len(Program[chainId']) + 1)
  <2>1. Len(Program[chainId]) = 56 - Base(chainId)
    BY <1>0, ProgramOrder
  <2>2. chainId' = chainId /\ pc' = pc + 1
    OBVIOUS
  <2>3. pc + Base(chainId) <= 56
    BY <1>0, <1>1 DEF Place
  <2>4. pc + 1 \in 1 .. (56 - Base(chainId) + 1)
    BY <1>0, <2>3
  <2> QED BY <2>1, <2>2, <2>4
<1> QED
  BY <1>2, <1>4, <1>5, <1>6, <1>7 DEF DeployInv, Unused, OneDirectory

\* A step changes the proxies only if it makes one.
LEMMA AfterProxies ==
  ASSUME NEW id \in {"local", "public"}, NEW c \in Steps(id), c # SaveAddresses,
         NEW d \in ChainType
  PROVE  /\ After(d, c) \in ChainType
         /\ After(d, c).proxies = IF c.op = "createProxy" THEN d.proxies \cup {c.on}
                                  ELSE d.proxies
<1>1. c = Step(c.op, c.on) /\ Kind(c)
  BY Kinds
<1>2. c \in LocalCalls /\ c.on \in Names
  BY StepsNamed
<1>3. Effects(d, c, After(d, c))
  BY <1>1, <1>2, AfterEffects
<1> QED BY <1>3 DEF Effects

\* A call of any run, the current one or one that died, is mined: it finds
\* what it needs, or is createProxy of the directory and finds it taken.
LEMMA MineKeeps ==
  ASSUME DeployInv, SubmissionInv, NEW r \in Run, MineCall(r)
  PROVE  DeployInv'
<1> DEFINE c == pending[r]
<1>0. /\ chainId \in {"local", "public"} /\ Base(chainId) \in -9 .. 0
      /\ Place \in (Base(chainId) + 1) .. 57
  BY Here
<1>1. /\ c # NoCall /\ pending' = [pending EXCEPT ![r] = NoCall]
      /\ acted' = acted \cup {r}
      /\ phase' = IF r # run \/ phase = "down" THEN phase
                  ELSE IF Succeeds(r, c) THEN "mined" ELSE "reverted"
      /\ run' = run /\ chainId' = chainId /\ pc' = pc /\ file' = file
      /\ wallet' = wallet
      /\ chain' = [chain EXCEPT ![r] = IF Succeeds(r, c) THEN After(@, c) ELSE @]
  BY DEF MineCall, Mine
<1>2. /\ pending'[r] = NoCall /\ \A s \in Run : s # r => pending'[s] = pending[s]
      /\ chain'[r] = IF Succeeds(r, c) THEN After(chain[r], c) ELSE chain[r]
      /\ \A s \in Run : s # r => chain'[s] = chain[s]
      /\ chain[r] \in ChainType
  BY <1>1 DEF DeployInv, SubmissionInv, TypeOK
<1>3. r <= run /\ run \in Run
  BY <1>1, RunsAssumption DEF SubmissionInv, Future, Run, TypeOK
<1>4. Run' = Run /\ Levels' = Levels /\ Place' = Place
  BY <1>1 DEF Run, Levels, Place
<1>5. c \in Steps(chainId) \ {SaveAddresses}
  <2>1. PICK k \in Levels : At(r, k)
    BY DEF DeployInv, InOrder
  <2> QED BY <1>1, <2>1 DEF At, Stands
<1> HIDE DEF c
<1>6. /\ After(chain[r], c) \in ChainType
      /\ After(chain[r], c).proxies = IF c.op = "createProxy" THEN chain[r].proxies \cup {c.on}
                                      ELSE chain[r].proxies
  BY <1>0, <1>2, <1>5, AfterProxies
<1>7. chain' \in [Run -> ChainType]
  BY <1>1, <1>6 DEF DeployInv
\* The run itself goes one place on, if its call succeeds.
<1>8. ASSUME NEW k \in Int, At(r, k), Succeeds(r, c)
      PROVE  Stands(chainId, k + 1, chain'[r], NoCall) /\ k + 1 <= 56
  <2>1. Made(Did(chainId, k), chain[r]) /\ Rank(c) = k + 1
    BY <1>1, <1>8 DEF At, Stands, c
  <2>2. Made(Did(chainId, k + 1), After(chain[r], c))
    BY <1>0, <1>5, <2>1, MadeNext
  <2>3. Rank(c) \in (Base(chainId) + 1) .. 56
    BY <1>0, <1>5, ProgramOrder
  <2> QED BY <1>2, <1>8, <2>1, <2>2, <2>3 DEF Stands
<1>9. ASSUME NEW k \in Int, At(r, k), ~Succeeds(r, c)
      PROVE  /\ Stands(chainId, k, chain'[r], NoCall)
             /\ c.op = "createProxy" /\ Occupied(r, c.on)
  <2>1. Made(Did(chainId, k), chain[r]) /\ Rank(c) = k + 1
    BY <1>1, <1>9 DEF At, Stands, c
  <2>2. c.op = "createProxy" /\ Occupied(r, c.on)
    BY <1>0, <1>5, <1>9, <2>1, NextSucceeds
  <2> QED BY <1>2, <1>9, <2>1, <2>2 DEF Stands
<1>10. InOrder'
  <2> SUFFICES ASSUME NEW s \in Run PROVE \E k \in Levels : At(s, k)'
    BY <1>4 DEF InOrder
  <2>1. PICK k \in Levels : At(s, k)
    BY DEF DeployInv, InOrder
  <2>2. k \in Int /\ k >= Base(chainId)
    BY DEF Levels
  <2>3. CASE s # r
    BY <1>1, <1>2, <2>1, <2>3 DEF At
  <2>4. CASE s = r /\ Succeeds(r, c)
    <3>1. Stands(chainId, k + 1, chain'[r], NoCall) /\ k + 1 <= 56
      BY <1>8, <2>1, <2>2, <2>4
    <3>2. k + 1 \in Levels
      BY <1>0, <2>2, <3>1 DEF Levels
    <3>3. At(s, k + 1)'
      BY <1>1, <1>2, <2>4, <3>1 DEF At
    <3> QED BY <3>2, <3>3
  <2>5. CASE s = r /\ ~Succeeds(r, c)
    <3>1. Stands(chainId, k, chain'[r], NoCall)
      BY <1>9, <2>1, <2>2, <2>5
    <3>2. At(s, k)'
      BY <1>1, <1>2, <2>5, <3>1 DEF At
    <3> QED BY <3>2
  <2> QED BY <2>3, <2>4, <2>5
<1>11. Current' /\ (r = run /\ phase # "down" => phase = "waiting" /\ At(run, Place - 1))
  <2>1. CASE r # run \/ phase = "down"
    <3>1. phase' = phase
      BY <1>1, <2>1
    <3>2. CASE phase = "down"
      BY <3>1, <3>2, <2>1 DEF Current
    <3>3. CASE r # run
      <4>1. chain'[run] = chain[run] /\ pending'[run] = pending[run]
        BY <1>2, <1>3, <3>3
      <4> QED
        BY <1>1, <1>4, <3>1, <3>3, <4>1 DEF DeployInv, Current, At, AtCall, AtStep
    <3> QED BY <2>1, <3>2, <3>3
  <2>2. CASE r = run /\ phase # "down"
    <3>1. phase = "waiting"
      BY <1>1, <2>2 DEF SubmissionInv, Settled, TypeOK, Phase, c
    <3>2. At(run, Place - 1) /\ AtCall /\ Place - 1 \in Int
      BY <1>0, <3>1 DEF DeployInv, Current
    <3>3. CASE Succeeds(r, c)
      <4>1. phase' = "mined"
        BY <1>1, <2>2, <3>3
      <4>2. Stands(chainId, Place - 1 + 1, chain'[r], NoCall)
        BY <1>8, <2>2, <3>2, <3>3
      <4>3. Place - 1 + 1 = Place
        BY <1>0
      <4>4. At(run, Place)'
        BY <1>1, <1>2, <1>4, <2>2, <4>2, <4>3 DEF At
      <4> QED BY <1>1, <3>1, <3>2, <4>1, <4>4 DEF Current, AtCall, AtStep
    <3>4. CASE ~Succeeds(r, c)
      <4>1. phase' = "reverted"
        BY <1>1, <2>2, <3>4
      <4>2. Stands(chainId, Place - 1, chain'[r], NoCall)
        BY <1>9, <2>2, <3>2, <3>4
      <4>3. At(run, Place - 1)'
        BY <1>1, <1>2, <1>4, <2>2, <4>2 DEF At
      <4> QED BY <1>1, <3>1, <3>2, <4>1, <4>3 DEF Current, AtCall, AtStep
    <3> QED BY <3>3, <3>4
  <2> QED BY <2>1, <2>2
<1>12. Unused'
  BY <1>1, <1>2, <1>3, RunsAssumption DEF DeployInv, Unused, Run
<1>13. OneDirectory'
  <2> SUFFICES ASSUME chainId = "public", NEW p \in Run, NEW q \in Run,
                      wallet[p] = wallet[q],
                      "Directory" \in chain'[p].proxies, "Directory" \in chain'[q].proxies
               PROVE  p = q
    BY <1>1, <1>4 DEF OneDirectory
  <2>1. CASE chain'[r].proxies = chain[r].proxies \/ "Directory" \in chain[r].proxies
    <3>1. \A s \in Run : "Directory" \in chain'[s].proxies => "Directory" \in chain[s].proxies
      BY <1>2, <2>1
    <3> QED BY <3>1 DEF DeployInv, OneDirectory
  <2>2. CASE chain'[r].proxies # chain[r].proxies /\ "Directory" \notin chain[r].proxies
    <3>1. Succeeds(r, c) /\ c.op = "createProxy" /\ chain'[r].proxies = chain[r].proxies \cup {c.on}
      BY <1>2, <1>6, <2>2
    <3>2. CASE c.on = "Directory"
      <4>1. ~Occupied(r, "Directory")
        BY <3>1, <3>2 DEF Succeeds
      <4>2. \A s \in Run :
              wallet[s] = wallet[r] => "Directory" \notin chain[s].proxies
        BY <4>1 DEF Occupied, Market
      <4> QED BY <1>2, <4>2 DEF DeployInv, OneDirectory
    <3>3. CASE c.on # "Directory"
      <4>1. \A s \in Run : "Directory" \in chain'[s].proxies => "Directory" \in chain[s].proxies
        BY <1>2, <3>1, <3>3
      <4> QED BY <4>1 DEF DeployInv, OneDirectory
    <3> QED BY <3>2, <3>3
  <2> QED BY <2>1, <2>2
<1>14. \A s \in Run : chain[s].proxies \subseteq chain'[s].proxies
  BY <1>2, <1>6
<1>15. RevertsOnlyOnCollision'
  <2> SUFFICES ASSUME phase' = "reverted"
               PROVE  /\ chainId = "public"
                      /\ Program[chainId][pc] = Step("createProxy", "Directory")
                      /\ \E q \in 1 .. (run - 1) :
                           wallet[q] = wallet[run] /\ "Directory" \in chain'[q].proxies
    BY <1>1 DEF RevertsOnlyOnCollision
  <2>1. 1 .. (run - 1) \subseteq Run
    BY <1>3, RunsAssumption DEF Run
  <2>2. CASE phase = "reverted"
    BY <1>14, <2>1, <2>2 DEF DeployInv, RevertsOnlyOnCollision
  <2>3. CASE phase # "reverted"
    <3>1. r = run /\ phase # "down" /\ ~Succeeds(r, c)
      BY <1>1, <2>3
    <3>2. phase = "waiting" /\ At(run, Place - 1) /\ Place - 1 \in Int
      BY <1>0, <1>11, <3>1
    <3>3. c.op = "createProxy" /\ Occupied(r, c.on)
      BY <1>9, <3>1, <3>2
    <3>4. c = Program[chainId][pc] /\ c = Step("createProxy", c.on)
      <4>1. c = Step(c.op, c.on)
        BY <1>0, <1>5, Kinds
      <4> QED BY <3>1, <3>2, <3>3, <4>1 DEF DeployInv, Current, c
    <3>5. c.on \in Proxied
      <4>1. Kind(c)
        BY <1>0, <1>5, Kinds
      <4> QED BY <3>3, <3>4, <4>1 DEF Occupied, Kind, SaveAddresses, Step
    <3>6. PICK q \in Run : /\ q = r \/ (chainId = "public" /\ wallet[q] = wallet[r])
                           /\ c.on \in chain[q].proxies
      BY <3>3 DEF Occupied
    <3>7. Made(Did(chainId, Place - 1), chain[r]) /\ Rank(c) = Place - 1 + 1
      BY <1>1, <3>1, <3>2 DEF At, Stands, c
    <3>8. c \notin Did(chainId, Place - 1) /\ c.on \in Names
      BY <1>0, <1>5, <3>2, <3>7, DidNext, StepsNamed
    <3>9. q # r /\ chainId = "public" /\ wallet[q] = wallet[r]
      BY <3>4, <3>6, <3>7, <3>8 DEF Made
    <3>10. q \in 1 .. (run - 1)
      <4>1. q <= run
        <5>1. CASE q > run
          <6>1. chain[q] = Nothing
            BY <5>1 DEF DeployInv, Unused
          <6> QED BY <3>6, <6>1 DEF Nothing
        <5> QED BY <1>3, <5>1, RunsAssumption DEF Run
      <4> QED BY <1>3, <3>1, <3>9, <4>1, RunsAssumption DEF Run
    <3>11. CASE c.on = "Directory"
      <4>1. "Directory" \in chain'[q].proxies
        BY <1>14, <3>6, <3>11
      <4> QED BY <3>1, <3>4, <3>9, <3>10, <3>11, <4>1
    \* Any other would find its own directory made before it, and that of
    \* the run whose proxy is in its way.
    <3>12. CASE c.on # "Directory"
      <4>1. "Directory" \in Names /\ Step("createProxy", "Directory") \in Steps(chainId)
        <5>1. Step("createProxy", "Directory") \in Steps("local")
              /\ Step("createProxy", "Directory") \in Steps(chainId)
          BY <1>0, KindsAreSteps DEF Proxied
        <5>2. Step("createProxy", "Directory") # SaveAddresses
              /\ Step("createProxy", "Directory").on = "Directory"
          BY DEF Step, SaveAddresses
        <5> QED BY <5>1, <5>2, StepsNamed
      <4>2. Rank(Step("createProxy", "Directory")) = 6
        BY DEF Rank, RankProxy, Step
      <4>3. Rank(Step("createProxy", c.on)) \in Int /\ Rank(Step("createProxy", c.on)) > 6
        BY <3>5, <3>12 DEF Proxied, Core, Rank, RankProxy, Step
      <4>4. "Directory" \in chain[r].proxies
        <5>1. Step("createProxy", "Directory") \in Did(chainId, Place - 1)
          BY <1>0, <3>4, <3>7, <4>1, <4>2, <4>3 DEF Did
        <5> QED BY <3>7, <4>1, <5>1 DEF Made
      <4>5. PICK k \in Levels : At(q, k)
        BY DEF DeployInv, InOrder
      <4>6. "Directory" \in chain[q].proxies
        <5>1. Step("createProxy", c.on) \in Did(chainId, k)
          BY <3>6, <3>8, <4>5 DEF At, Stands, Made
        <5>2. k \in Int /\ k > 6
          BY <4>3, <5>1 DEF Did, Levels
        <5>3. Step("createProxy", "Directory") \in Did(chainId, k)
          BY <4>1, <4>2, <5>2 DEF Did
        <5> QED BY <4>1, <4>5, <5>3 DEF At, Stands, Made
      <4>7. q = r
        BY <3>9, <4>4, <4>6 DEF DeployInv, OneDirectory
      <4> QED BY <3>9, <4>7
    <3> QED BY <3>11, <3>12
  <2> QED BY <2>2, <2>3
<1>16. pc' \in 1 .. (Len(Program[chainId']) + 1) /\ file' \in 0 .. run'
       /\ chainId' \in ChainId
  BY <1>1 DEF DeployInv
<1> QED BY <1>7, <1>10, <1>11, <1>12, <1>13, <1>15, <1>16 DEF DeployInv, Run

\* A user's call keeps a chain where its run has brought it.
LEMMA UserKeeps ==
  ASSUME DeployInv, SubmissionInv, NEW r \in Run, NEW e,
         chain' = [chain EXCEPT ![r] = e], e \in ChainType,
         chain[r] # Nothing, e.proxies = chain[r].proxies,
         \A k \in Levels : Made(Did(chainId, k), chain[r]) => Made(Did(chainId, k), e),
         UNCHANGED <<submission, chainId, pc, file>>
  PROVE  DeployInv'
<1>0. /\ chainId \in {"local", "public"} /\ Base(chainId) \in -9 .. 0
      /\ Place \in (Base(chainId) + 1) .. 57
      /\ AtStep <=> Place <= 56
  BY Here
<1>1. /\ chain'[r] = e /\ \A s \in Run : s # r => chain'[s] = chain[s]
      /\ \A s \in Run : chain'[s].proxies = chain[s].proxies
      /\ chain' \in [Run -> ChainType]
  BY DEF DeployInv
<1>2. /\ Run' = Run /\ Levels' = Levels /\ Place' = Place
      /\ UNCHANGED <<wallet, run, phase, tries, pending, acted>>
  BY DEF Run, Levels, Place, submission
<1>3. ASSUME NEW s \in Run, NEW k \in Levels, At(s, k)
      PROVE  Stands(chainId, k, chain'[s], pending[s])
  BY <1>1, <1>3 DEF At, Stands
<1>4. InOrder'
  <2> SUFFICES ASSUME NEW s \in Run PROVE \E k \in Levels : At(s, k)'
    BY <1>2 DEF InOrder
  <2>1. PICK k \in Levels : At(s, k)
    BY DEF DeployInv, InOrder
  <2> QED BY <1>2, <1>3, <2>1 DEF At
<1>5. Current'
  <2>1. phase # "down" => run \in Run
    BY DEF SubmissionInv, TypeOK
  <2>2. ASSUME phase \in {"ready", "waiting", "reverted"} PROVE At(run, Place - 1)'
    <3>1. At(run, Place - 1) /\ Place - 1 \in Levels /\ run \in Run
      BY <1>0, <2>1, <2>2 DEF DeployInv, Current, Levels
    <3>2. Stands(chainId, Place - 1, chain'[run], pending[run])
      BY <1>3, <3>1
    <3> QED BY <1>2, <3>1, <3>2 DEF At
  <2>3. ASSUME phase = "mined" PROVE At(run, Place)'
    <3>1. AtCall /\ At(run, Place) /\ run \in Run
      BY <2>1, <2>3 DEF DeployInv, Current
    <3>2. Place \in Levels
      BY <1>0, <3>1 DEF AtCall, Levels
    <3>3. Stands(chainId, Place, chain'[run], pending[run])
      BY <1>3, <3>1, <3>2
    <3> QED BY <1>2, <3>1, <3>3 DEF At
  <2> QED BY <1>2, <2>2, <2>3 DEF DeployInv, Current, AtCall, AtStep
<1>6. Unused'
  BY <1>1, <1>2 DEF DeployInv, Unused
<1>7. OneDirectory'
  BY <1>1, <1>2 DEF DeployInv, OneDirectory
<1>8. RevertsOnlyOnCollision'
  <2>1. phase # "down" => run \in Run
    BY DEF SubmissionInv, TypeOK
  <2>2. phase # "down" => 1 .. (run - 1) \subseteq Run
    BY <2>1, RunsAssumption DEF Run
  <2> QED BY <1>1, <1>2, <2>2 DEF DeployInv, RevertsOnlyOnCollision
<1> QED BY <1>1, <1>2, <1>4, <1>5, <1>6, <1>7, <1>8 DEF DeployInv

\* The two calls of users leave what the program made.
LEMMA UsersKeep ==
  ASSUME DeployInv, SubmissionInv, NEW r \in Run
  PROVE  /\ \A m \in Market : InitializeDependencies(r, m) => DeployInv'
         /\ \A m \in Fundable : AddLiquidity(r, m) => DeployInv'
<1>0. chainId \in {"local", "public"} /\ Levels \subseteq Int /\ chain[r] \in ChainType
  <2>1. chainId \in {"local", "public"}
    BY Here
  <2>2. Levels \subseteq Int
    BY DEF Levels
  <2> QED BY <2>1, <2>2 DEF DeployInv
<1>00. PICK k0 \in Levels : Made(Did(chainId, k0), chain[r])
  BY DEF DeployInv, InOrder, At, Stands
<1>1. ASSUME NEW m \in Market, InitializeDependencies(r, m) PROVE DeployInv'
  <2> DEFINE e == After(chain[r], Step("initializeDependencies", m))
  <2>1. m \in chain[r].proxies /\ chain' = [chain EXCEPT ![r] = e]
        /\ UNCHANGED <<submission, chainId, pc, file>>
    BY <1>1 DEF InitializeDependencies, DeployInv
  <2>2. chain[r] # Nothing
    BY <2>1 DEF Nothing
  <2>3. \A k \in Levels : Made(Did(chainId, k), chain[r]) =>
          Made(Did(chainId, k), e) /\ e.proxies = chain[r].proxies
    BY <1>0, <2>1, MadeInitialized
  <2>4. e \in ChainType /\ e.proxies = chain[r].proxies
    BY <1>00, <2>3 DEF Made
  <2> HIDE DEF e
  <2> QED BY <2>1, <2>2, <2>3, <2>4, UserKeeps
<1>2. ASSUME NEW m \in Fundable, AddLiquidity(r, m) PROVE DeployInv'
  <2> DEFINE e == [chain[r] EXCEPT !.funded = @ \cup {m}]
  <2>1. IsSet(chain[r], "setRateFactors", m) /\ m \in Market
        /\ UNCHANGED <<submission, chainId, pc, file>>
    BY <1>2, ChainAssumption DEF AddLiquidity
  <2>2. chain' = [chain EXCEPT ![r] = e]
    BY <1>2 DEF AddLiquidity, DeployInv
  <2>3. chain[r] # Nothing
    BY <2>1 DEF Nothing, IsSet
  <2>4. \A k \in Levels : Made(Did(chainId, k), chain[r]) => Made(Did(chainId, k), e)
    BY <2>1, MadeFunded
  <2>5. e \in ChainType /\ e.proxies = chain[r].proxies
    BY <1>0, <2>1 DEF ChainType
  <2> HIDE DEF e
  <2> QED BY <2>1, <2>2, <2>3, <2>4, <2>5, UserKeeps
<1> QED BY <1>1, <1>2

\* The first state.
LEMMA DeployStart == Init => DeployInv
<1> SUFFICES ASSUME Init PROVE DeployInv
  OBVIOUS
<1> USE DEF Init, SubmissionInit
<1>1. /\ chainId \in {"local", "public"} /\ Base(chainId) \in -9 .. 0
      /\ Base(chainId) \in Levels /\ Len(Program[chainId]) = 56 - Base(chainId)
  <2>1. chainId \in {"local", "public"}
    BY ChainAssumption
  <2>2. Base(chainId) \in -9 .. 0 /\ Len(Program[chainId]) = 56 - Base(chainId)
    BY <2>1, ProgramOrder
  <2> QED BY <2>1, <2>2 DEF Levels
<1>2. Made(Did(chainId, Base(chainId)), Nothing)
  BY <1>1, NothingMade
<1>3. InOrder
  <2>1. \A r \in Run : At(r, Base(chainId))
    BY <1>1, <1>2 DEF At, Stands
  <2> QED BY <1>1, <2>1 DEF InOrder
<1>4. Nothing \in ChainType
  BY <1>2 DEF Made
<1> QED
  BY <1>1, <1>3, <1>4 DEF DeployInv, Current, Unused, OneDirectory,
     RevertsOnlyOnCollision, Nothing

\* One step of the deployment, by the kinds of Next.
LEMMA DeployStep == DeployInv /\ SubmissionInv /\ [Next]_vars => DeployInv'
<1> SUFFICES ASSUME DeployInv, SubmissionInv, [Next]_vars PROVE DeployInv'
  OBVIOUS
<1>1. CASE StartRun
  BY <1>1, StartKeeps
<1>2. CASE Kill
  BY <1>2, QuietKeeps DEF Kill, Interrupt
<1>3. CASE Script
  <2>1. CASE Submit
    BY <2>1, SendKeeps DEF Submit, Send
  <2>2. CASE SubmitReplyLost
    BY <2>2, SendKeeps DEF SubmitReplyLost, ReplyLost
  <2>3. CASE Retry
    BY <2>3, QuietKeeps DEF Retry, Limited
  <2>4. CASE Save
    BY <2>4, SaveKeeps
  <2>5. CASE ExitRun
    BY <2>5, QuietKeeps DEF ExitRun, Exit
  <2>6. CASE Confirmed
    BY <2>6, ConfirmKeeps
  <2>7. CASE Reverted
    BY <2>7, QuietKeeps DEF Reverted, Refused
  <2> QED BY <1>3, <2>1, <2>2, <2>3, <2>4, <2>5, <2>6, <2>7 DEF Script
<1>4. CASE Chain
  BY <1>4, MineKeeps DEF Chain
<1>5. CASE Users
  <2>1. CASE \E r \in Run : \E m \in Market : InitializeDependencies(r, m)
    BY <2>1, UsersKeep
  <2>2. CASE \E r \in Run : \E m \in Fundable : AddLiquidity(r, m)
    BY <2>2, UsersKeep
  <2> QED BY <1>5, <2>1, <2>2 DEF Users
<1>6. CASE UNCHANGED vars
  BY <1>6, QuietKeeps DEF vars, submission
<1> QED BY <1>1, <1>2, <1>3, <1>4, <1>5, <1>6 DEF Next

\* Wherever a run dies, and whatever users do meanwhile, what it leaves is
\* that of a prefix of its program.
THEOREM DeployInvariance == Spec => [](SubmissionInv /\ DeployInv)
<1>1. Spec => []SubmissionInv
  BY DeploymentSubmits, SubmissionInvariance, PTL
<1>2. Spec => []DeployInv
  BY <1>1, DeployStart, DeployStep, PTL DEF Spec
<1> QED BY <1>1, <1>2, PTL

\* Type correctness.
THEOREM DeploymentTypeCorrect == Spec => []DeploymentTypeOK
<1>1. SubmissionInv /\ DeployInv => DeploymentTypeOK
  BY DEF SubmissionInv, DeployInv, DeploymentTypeOK
<1> QED BY <1>1, DeployInvariance, PTL

\* No call of the script is refused but for the address of the directory.
THEOREM DeploymentRevertsOnlyOnCollision == Spec => []RevertsOnlyOnCollision
<1>1. SubmissionInv /\ DeployInv => RevertsOnlyOnCollision
  BY DEF DeployInv
<1> QED BY <1>1, DeployInvariance, PTL

\* A chain that the program has brought to some place opens no market that
\* is not configured.
LEMMA MadeIsConfigured ==
  ASSUME DeployInv, NEW r \in Run, NEW m \in chain[r].funded
  PROVE  /\ \A op \in {"setMaxTradeSize", "setFee"} : IsSet(chain[r], op, m)
         /\ IsSet(chain[r], "setDiscounts", "Escrow")
         /\ IsSet(chain[r], "setHaircuts", "Portfolios")
         /\ Buffer(CurrencyOf(m)) > SettlementDiscount(chain[r])
         /\ chain[r].refs[m] = MarketDependencies
         /\ \A n \in Core : \A u \in Dependents(n) : n \in chain[r].refs[u]
<1> DEFINE d == chain[r]
           D(k) == Did(chainId, k)
<1>1. PICK k \in Levels : Made(D(k), d)
  BY DEF DeployInv, InOrder, At, Stands
<1>2. chainId \in {"local", "public"} /\ k \in Int
  BY Here DEF Levels
<1> HIDE DEF d
<1>3. m \in Market /\ Step("setRateFactors", m) \in D(k)
  BY <1>1 DEF Made, ChainType, d
<1>4. RankMarket(m) \in 27 .. 41 /\ RankMarket(m) + 5 <= k
  BY <1>3, MarketPlaces DEF Did
<1>5. ASSUME NEW c \in Steps(chainId), Rank(c) \in Int, Rank(c) < RankMarket(m) + 5
      PROVE  c \in D(k)
  BY <1>2, <1>4, <1>5 DEF Did
<1>6. ASSUME NEW c \in D(k), c.op \in SettingOp PROVE c \in d.settings
  <2>1. c \in Steps(chainId) /\ c # SaveAddresses
    BY <1>6 DEF Did, SettingOp, SaveAddresses, Step
  <2>2. c \in LocalCalls
    BY <1>2, <2>1, StepsNamed
  <2> QED BY <1>1, <1>6, <2>2 DEF Made
<1>7. ASSUME NEW op \in {"setMaxTradeSize", "setFee"} PROVE IsSet(d, op, m)
  <2>1. Step(op, m) \in Steps(chainId)
    BY <1>2, <1>3, KindsAreSteps DEF MarketSteps, MarketOp
  <2>2. Rank(Step(op, m)) \in Int /\ Rank(Step(op, m)) < RankMarket(m) + 5
    BY <1>3, <1>4, MarketPlaces
  <2>3. Step(op, m).op \in SettingOp
    BY DEF Step, SettingOp
  <2> QED BY <1>5, <1>6, <2>1, <2>2, <2>3 DEF IsSet
<1>8. IsSet(d, "setDiscounts", "Escrow") /\ IsSet(d, "setHaircuts", "Portfolios")
  <2> DEFINE x == Step("setDiscounts", "Escrow")
             h == Step("setHaircuts", "Portfolios")
  <2>1. x \in Steps(chainId) /\ h \in Steps(chainId)
    BY <1>2, KindsAreSteps DEF DefaultSteps
  <2>2. Rank(x) = 23 /\ Rank(h) = 24
    BY RankRanges
  <2>3. x.op \in SettingOp /\ h.op \in SettingOp
    BY DEF Step, SettingOp
  <2> HIDE DEF x, h
  <2>4. x \in d.settings /\ h \in d.settings
    BY <1>4, <1>5, <1>6, <2>1, <2>2, <2>3
  <2> QED BY <2>4 DEF IsSet, x, h
<1>9. Buffer(CurrencyOf(m)) > SettlementDiscount(d)
  BY DEF Buffer, SettlementDiscount
<1>10. d.refs[m] = MarketDependencies
  <2>1. Step("initializeDependencies", m) \in Steps(chainId)
    BY <1>2, <1>3, KindsAreSteps DEF MarketSteps, MarketOp
  <2>2. Step("initializeDependencies", m) \in D(k)
    BY <1>3, <1>4, <1>5, <2>1, MarketPlaces
  <2> QED BY <1>1, <1>3, <2>2 DEF Made
<1>11. ASSUME NEW n \in Core, NEW u \in Dependents(n) PROVE n \in d.refs[u]
  <2>1. u \in Core
    BY DEF Core, Dependents
  <2>2. Step("setDependencies", n) \in D(k)
    BY <1>2, <1>4, <1>5, KindsAreSteps, RankRanges
  <2> QED BY <1>1, <2>1, <2>2 DEF Made
<1> QED BY <1>7, <1>8, <1>9, <1>10, <1>11 DEF d

\* A market that users can put money into has all of its parameters.
THEOREM OpenMarketAlwaysConfigured == Spec => []OpenMarketIsConfigured
<1>1. SubmissionInv /\ DeployInv => OpenMarketIsConfigured
  BY MadeIsConfigured DEF OpenMarketIsConfigured
<1> QED BY <1>1, DeployInvariance, PTL

-----------------------------------------------------------------------------
(***************************************************************************)
(* The file of addresses.                                                  *)
(***************************************************************************)

\* The runs that are whole, and what they handed over, as Publication has them.
Whole == {r \in Run : IsWhole(chain[r])}
Given == {g \in Run \X Owned : chain[g[1]].owner[g[2]] = "successor"}

\* All runs have the same key.
OneKey == \A v, w \in Wallet : v = w

\* A chain is whole from the last call before the file is written.
LEMMA WholeMade ==
  ASSUME NEW id \in {"local", "public"}, NEW k \in Int, NEW d, Made(Did(id, k), d)
  PROVE  IsWhole(d) <=> k >= 46
<1> DEFINE D == Did(id, k)
<1>1. Made(D, d) /\ d \in ChainType
  BY DEF Made
<1>2. ASSUME IsWhole(d) PROVE k >= 46
  <2> DEFINE c == Step("setRateFactors", "usdc_3M")
  <2>1. c \in Steps("public") /\ c # SaveAddresses /\ c.op = "setRateFactors"
        /\ c \in Steps("local")
    <3>1. "usdc_3M" \in Market
      BY DEF Market
    <3>2. c \in MarketSteps("usdc_3M")
      BY DEF MarketSteps, MarketOp
    <3> QED BY <3>1, <3>2, KindsAreSteps DEF Step, SaveAddresses
  <2>2. c \in SystemCalls /\ c \in LocalCalls
    BY <2>1, CallsAreSteps DEF SystemCalls, LocalCalls
  <2>3. c \in d.settings
    BY <1>2, <2>1, <2>2 DEF IsWhole, Settings
  <2>4. c \in D
    BY <1>1, <2>2, <2>3 DEF Made
  <2>5. Rank(c) = 46
    BY DEF Rank, RankMarket, Step
  <2> QED BY <2>4, <2>5 DEF Did
<1>3. ASSUME k >= 46 PROVE IsWhole(d)
  <2>1. ASSUME NEW c \in SystemCalls, c.op # "transferOwnership"
        PROVE  c \in D /\ c \in LocalCalls /\ c.on \in Names /\ c = Step(c.op, c.on)
    <3>1. c \in Steps("public") /\ c # SaveAddresses /\ c \in Steps(id)
      BY CallsAreSteps DEF SystemCalls, Steps
    <3>2. Rank(c) \in -8 .. 46
      BY <2>1, <3>1, TransfersAreLast
    <3> QED BY <1>3, <3>1, <3>2, StepsNamed, Kinds DEF Did
  <2>2. Settings \subseteq d.settings
    <3>1. \A c \in Settings : c \in SystemCalls /\ c.op # "transferOwnership" /\ c.op \in SettingOp
      BY DEF Settings, SettingOp
    <3> QED BY <1>1, <2>1, <3>1 DEF Made
  <2>3. {c.on : c \in {x \in SystemCalls : x.op = "create"}} \subseteq d.created
    <3> SUFFICES ASSUME NEW c \in SystemCalls, c.op = "create" PROVE c.on \in d.created
      OBVIOUS
    <3>1. c \in D /\ c.on \in Names /\ c = Create(c.on)
      BY <2>1 DEF Create
    <3> QED BY <1>1, <3>1 DEF Made
  <2>4. ASSUME NEW e \in Steps("public"), e # SaveAddresses, e.op # "transferOwnership"
        PROVE  e \in D /\ e.on \in Names
    <3>1. e \in SystemCalls
      BY <2>4, CallsAreSteps DEF SystemCalls
    <3> QED BY <2>1, <2>4, <3>1
  <2>5. \A o, n : o # "saveAddresses" => Step(o, n) # SaveAddresses /\ Step(o, n).op = o
                                         /\ Step(o, n).on = n
    BY DEF Step, SaveAddresses
  <2>6. \A n \in Proxied \cup Market : n \in d.proxies
    <3> SUFFICES ASSUME NEW n \in Proxied \cup Market PROVE n \in d.proxies
      OBVIOUS
    <3>1. Step("createProxy", n) \in Steps("public")
      BY KindsAreSteps
    <3>2. Step("createProxy", n) \in D /\ n \in Names
      BY <2>4, <2>5, <3>1
    <3> QED BY <1>1, <3>2 DEF Made
  <2>7. d.directory = Core
    <3>1. \A n \in Core : Step("setContract", n) \in D
      BY <2>4, <2>5, KindsAreSteps
    <3>2. d.directory \subseteq Core
      BY <1>1, Zenon DEF ChainType
    <3>3. \A n \in Core : n \in d.directory <=> Step("setContract", n) \in D
      BY <1>1, Zenon DEF Made
    <3> QED BY <3>1, <3>2, <3>3
  <2>8. d.groups = Market
    <3>1. \A m \in Market : Step("createCashGroup", m) \in D
      <4> SUFFICES ASSUME NEW m \in Market PROVE Step("createCashGroup", m) \in D
        OBVIOUS
      <4>1. Step("createCashGroup", m) \in Steps("public")
        BY KindsAreSteps DEF MarketSteps, MarketOp
      <4> QED BY <2>4, <2>5, <4>1
    <3>2. d.groups \subseteq Market
      BY <1>1, Zenon DEF ChainType
    <3>3. \A m \in Market : m \in d.groups <=> Step("createCashGroup", m) \in D
      BY <1>1, Zenon DEF Made
    <3> QED BY <3>1, <3>2, <3>3
  <2> QED BY <2>2, <2>3, <2>6, <2>7, <2>8 DEF IsWhole, Proxied
<1> QED BY <1>2, <1>3

\* What is handed over is what the steps handed over.
LEMMA GivenMade ==
  ASSUME NEW D, NEW d, Made(D, d), NEW n \in Owned
  PROVE  d.owner[n] = "successor" <=> Step("transferOwnership", n) \in D
BY DEF Made

\* A user's call neither completes a deployment nor hands anything over.
LEMMA UsersPublishNothing ==
  ASSUME DeployInv, Users
  PROVE  /\ UNCHANGED <<submission, chainId, pc, file>>
         /\ \A s \in Run : /\ IsWhole(chain'[s]) <=> IsWhole(chain[s])
                           /\ \A n \in Owned : chain'[s].owner[n] = chain[s].owner[n]
<1>0. chainId \in {"local", "public"}
  BY Here
<1>1. PICK r \in Run : \/ \E m \in Market : InitializeDependencies(r, m)
                       \/ \E m \in Fundable : AddLiquidity(r, m)
  BY DEF Users
<1>2. PICK k \in Levels : Made(Did(chainId, k), chain[r])
  BY DEF DeployInv, InOrder, At, Stands
<1>3. k \in Int
  BY DEF Levels
<1>4. /\ Made(Did(chainId, k), chain'[r])
      /\ \A s \in Run : s # r => chain'[s] = chain[s]
      /\ UNCHANGED <<submission, chainId, pc, file>>
  <2>1. CASE \E m \in Market : InitializeDependencies(r, m)
    <3>1. PICK m \in Market : InitializeDependencies(r, m)
      BY <2>1
    <3> DEFINE e == After(chain[r], Step("initializeDependencies", m))
    <3>2. m \in chain[r].proxies /\ chain' = [chain EXCEPT ![r] = e]
          /\ UNCHANGED <<submission, chainId, pc, file>>
      BY <3>1 DEF InitializeDependencies, DeployInv
    <3>3. Made(Did(chainId, k), e)
      BY <1>0, <1>2, <1>3, <3>2, MadeInitialized
    <3> HIDE DEF e
    <3> QED BY <3>2, <3>3 DEF DeployInv
  <2>2. CASE \E m \in Fundable : AddLiquidity(r, m)
    <3>1. PICK m \in Fundable : AddLiquidity(r, m)
      BY <2>2
    <3> DEFINE e == [chain[r] EXCEPT !.funded = @ \cup {m}]
    <3>2. IsSet(chain[r], "setRateFactors", m) /\ m \in Market
          /\ UNCHANGED <<submission, chainId, pc, file>>
      BY <3>1, ChainAssumption DEF AddLiquidity
    <3>3. chain' = [chain EXCEPT ![r] = e]
      BY <3>1 DEF AddLiquidity, DeployInv
    <3>4. Made(Did(chainId, k), e)
      BY <1>2, <3>2, MadeFunded
    <3> HIDE DEF e
    <3> QED BY <3>2, <3>3, <3>4 DEF DeployInv
  <2> QED BY <1>1, <2>1, <2>2
<1>5. IsWhole(chain'[r]) <=> IsWhole(chain[r])
  BY <1>0, <1>2, <1>3, <1>4, WholeMade
<1>6. \A n \in Owned : chain'[r].owner[n] = chain[r].owner[n]
  BY <1>2, <1>4 DEF Made
<1> QED BY <1>4, <1>5, <1>6

\* A call that is mined takes its run one place on, or changes nothing.
LEMMA MiningMoves ==
  ASSUME DeployInv, SubmissionInv, NEW r \in Run, MineCall(r)
  PROVE  /\ pending[r] # NoCall /\ pending[r] \in Steps(chainId) \ {SaveAddresses}
         /\ chainId \in {"local", "public"} /\ chainId' = chainId
         /\ file' = file /\ pc' = pc /\ run' = run
         /\ phase = "down" => phase' = "down"
         /\ \A s \in Run : s # r => chain'[s] = chain[s] /\ pending'[s] = pending[s]
         /\ pending'[r] = NoCall
         /\ \/ chain'[r] = chain[r]
            \/ \E k \in Int : /\ Rank(pending[r]) = k + 1
                              /\ Made(Did(chainId, k), chain[r])
                              /\ Made(Did(chainId, k + 1), chain'[r])
<1> DEFINE c == pending[r]
<1>0. chainId \in {"local", "public"}
  BY Here
<1>1. /\ c # NoCall /\ pending' = [pending EXCEPT ![r] = NoCall]
      /\ run' = run /\ chainId' = chainId /\ pc' = pc /\ file' = file
      /\ phase = "down" => phase' = "down"
      /\ chain' = [chain EXCEPT ![r] = IF Succeeds(r, c) THEN After(@, c) ELSE @]
  BY DEF MineCall, Mine
<1>2. /\ pending'[r] = NoCall /\ \A s \in Run : s # r => pending'[s] = pending[s]
      /\ chain'[r] = IF Succeeds(r, c) THEN After(chain[r], c) ELSE chain[r]
      /\ \A s \in Run : s # r => chain'[s] = chain[s]
  BY <1>1 DEF DeployInv, SubmissionInv, TypeOK
<1>3. PICK k \in Levels : At(r, k)
  BY DEF DeployInv, InOrder
<1>4. /\ k \in Int /\ c \in Steps(chainId) \ {SaveAddresses} /\ Rank(c) = k + 1
      /\ Made(Did(chainId, k), chain[r])
  BY <1>1, <1>3 DEF Levels, At, Stands
<1>5. Made(Did(chainId, k + 1), After(chain[r], c))
  BY <1>0, <1>4, MadeNext
<1>6. \/ chain'[r] = chain[r]
      \/ Made(Did(chainId, k + 1), chain'[r])
  BY <1>2, <1>5
<1> HIDE DEF c
<1>7. pending[r] = c
  BY DEF c
<1> QED BY <1>0, <1>1, <1>2, <1>4, <1>6, <1>7

\* The file is written at place 47 only, and nothing else takes the script
\* past it.
LEMMA FileCurrentStep ==
  ASSUME DeployInv, SubmissionInv, FileIsCurrent, [Next]_vars
  PROVE  FileIsCurrent'
<1>0. /\ chainId \in {"local", "public"} /\ Base(chainId) \in -9 .. 0
      /\ pc \in 1 .. (57 - Base(chainId)) /\ Place \in (Base(chainId) + 1) .. 57
      /\ AtStep => Rank(Program[chainId][pc]) = Place
      /\ AtStep => Program[chainId][pc] \in Steps(chainId)
  BY Here
<1>1. CASE StartRun
  <2>1. Place' = Base(chainId) + 1
    BY <1>1 DEF StartRun, Place
  <2> QED BY <1>0, <2>1 DEF FileIsCurrent
<1>2. CASE Save
  BY <1>2 DEF Save, Proceed, FileIsCurrent
<1>3. CASE Confirmed
  <2>1. Place' = Place + 1
    BY <1>0, <1>3 DEF Confirmed, Place
  <2>2. phase = "mined" /\ AtCall
    BY <1>3 DEF Confirmed, Confirm, DeployInv, Current
  <2>3. Place # 47
    <3>1. Rank(SaveAddresses) = 47 /\ SaveAddresses \in Steps(chainId)
      BY DEF Rank, SaveAddresses, Step, Steps, SystemSteps
    <3> QED BY <1>0, <2>2, <3>1, OnePlace DEF AtCall
  <2> QED BY <1>0, <1>3, <2>1, <2>2, <2>3 DEF Confirmed, Confirm, FileIsCurrent
<1>4. CASE \/ Kill \/ Submit \/ SubmitReplyLost \/ Retry \/ ExitRun \/ Reverted
           \/ Chain \/ Users \/ UNCHANGED vars
  <2>1. /\ UNCHANGED <<chainId, pc, file, run>>
        /\ phase = "down" => phase' = "down"
    <3>1. CASE Kill \/ Retry \/ ExitRun \/ Reverted
      BY <3>1 DEF Kill, Retry, ExitRun, Reverted, Interrupt, Limited, Exit, Refused
    <3>2. CASE Submit \/ SubmitReplyLost
      BY <3>2 DEF Submit, SubmitReplyLost, Send, ReplyLost
    <3>3. CASE Chain
      BY <3>3 DEF Chain, MineCall, Mine
    <3>4. CASE Users
      BY <3>4 DEF Users, InitializeDependencies, AddLiquidity, submission
    <3>5. CASE UNCHANGED vars
      BY <3>5 DEF vars, submission
    <3> QED BY <1>4, <3>1, <3>2, <3>3, <3>4, <3>5
  <2>2. Place' = Place
    BY <2>1 DEF Place
  <2> QED BY <2>1, <2>2 DEF FileIsCurrent
<1> QED BY <1>1, <1>2, <1>3, <1>4 DEF Next, Script

\* A chain on which the whole program was done is whole and handed over.
LEMMA DoneIsHandedOver ==
  ASSUME NEW id \in {"local", "public"}, NEW d, Made(Did(id, 56), d)
  PROVE  IsWhole(d) /\ \A n \in Owned : d.owner[n] = "successor"
<1>1. IsWhole(d)
  BY WholeMade
<1>2. ASSUME NEW n \in Owned PROVE Step("transferOwnership", n) \in Did(id, 56)
  <2>1. Step("transferOwnership", n) \in TransferSteps
    BY DEF TransferSteps
  <2>2. Rank(Step("transferOwnership", n)) \in 48 .. 56
    BY <2>1, Places
  <2>3. Step("transferOwnership", n) \in Steps(id)
    BY <2>1 DEF Steps, SystemSteps
  <2> QED BY <2>2, <2>3 DEF Did
<1> QED BY <1>1, <1>2, GivenMade

\* A run that gets to its end has brought its chain to the last place of its
\* program, which is after the file and after the last hand over.
THEOREM FinishedAlwaysHandedOver == Spec => []FinishedIsHandedOver
<1>1. Init => FileIsCurrent
  BY DEF Init, SubmissionInit, FileIsCurrent
<1>2. SubmissionInv /\ DeployInv /\ FileIsCurrent /\ [Next]_vars => FileIsCurrent'
  BY FileCurrentStep
<1>3. Spec => []FileIsCurrent
  BY <1>1, <1>2, DeployInvariance, PTL DEF Spec
<1>4. SubmissionInv /\ DeployInv /\ FileIsCurrent => FinishedIsHandedOver
  <2> SUFFICES ASSUME SubmissionInv, DeployInv, FileIsCurrent, phase = "ready", ~AtStep
               PROVE  /\ IsWhole(chain[run])
                      /\ file = run
                      /\ \A n \in Owned : chain[run].owner[n] = "successor"
    BY DEF FinishedIsHandedOver
  <2>1. chainId \in {"local", "public"} /\ Place - 1 = 56 /\ Place > 47
    BY Here
  <2>2. file = run
    BY <2>1 DEF FileIsCurrent
  <2>3. At(run, 56)
    BY <2>1 DEF DeployInv, Current
  <2>4. Made(Did(chainId, 56), chain[run])
    BY <2>3 DEF At, Stands
  <2> QED BY <2>1, <2>2, <2>4, DoneIsHandedOver
<1> QED BY <1>3, <1>4, DeployInvariance, PTL

\* Before the first run there is no file.
LEMMA FileStart == Init => FileInv
<1> SUFFICES ASSUME Init PROVE FileInv
  OBVIOUS
<1> QED BY DEF Init, SubmissionInit, FileInv, FileIsCurrent

\* With one key a run that died has nothing pending when another is past the
\* file, so that what is handed over is of the run in the file.
LEMMA FileStep ==
  ASSUME OneKey, DeployInv, SubmissionInv, FileInv, [Next]_vars
  PROVE  FileInv'
<1>0. /\ chainId \in {"local", "public"} /\ Base(chainId) \in -9 .. 0
      /\ pc \in 1 .. (57 - Base(chainId)) /\ Place \in (Base(chainId) + 1) .. 57
      /\ AtStep <=> Place <= 56
      /\ AtStep => /\ Program[chainId][pc] \in Steps(chainId)
                   /\ Rank(Program[chainId][pc]) = Place
  BY Here
<1>00. FileIsCurrent'
  BY FileCurrentStep DEF FileInv
<1>1. phase # "down" => run \in Run
  BY DEF SubmissionInv, TypeOK
<1>2. file # 0 => file \in Run
  BY RunsAssumption DEF DeployInv, SubmissionInv, TypeOK, Run
\* Nothing is sent, mined or saved.
<1>3. ASSUME UNCHANGED <<chain, pending, file>> PROVE FileInv'
  BY <1>00, <1>3 DEF FileInv, Run
<1>4. CASE StartRun \/ Kill \/ Retry \/ ExitRun \/ Confirmed \/ Reverted
  <2>1. UNCHANGED <<chain, pending, file>>
    BY <1>4 DEF StartRun, Kill, Retry, ExitRun, Confirmed, Reverted, Start,
         Interrupt, Limited, Exit, Confirm, Refused
  <2> QED BY <1>3, <2>1
<1>5. CASE Submit \/ SubmitReplyLost
  <2> DEFINE c == Program[chainId][pc]
  <2>1. /\ AtCall /\ phase = "ready" /\ run' = run
        /\ pending' = [pending EXCEPT ![run] = c]
        /\ UNCHANGED <<chainId, pc, chain, file>>
    BY <1>5 DEF Submit, SubmitReplyLost, Send, ReplyLost
  <2>2. c \in Steps(chainId) /\ c # SaveAddresses /\ Rank(c) = Place
    BY <1>0, <2>1 DEF AtCall
  <2>3. c.op = "transferOwnership" => file = run
    <3>1. c.op = "transferOwnership" => Rank(c) \in 48 .. 56
      BY <1>0, <2>2, TransfersAreLast
    <3> QED BY <2>1, <2>2, <3>1 DEF FileInv, FileIsCurrent
  <2>4. pending'[run] = c /\ \A s \in Run : s # run => pending'[s] = pending[s]
    BY <1>1, <2>1 DEF SubmissionInv, TypeOK
  <2> HIDE DEF c
  <2>5. ASSUME NEW s \in Run, pending'[s] # NoCall, pending'[s].op = "transferOwnership"
        PROVE  file' = s
    <3>1. CASE s = run
      BY <2>1, <2>3, <2>4, <2>5, <3>1
    <3>2. CASE s # run
      BY <2>1, <2>4, <2>5, <3>2 DEF FileInv
    <3> QED BY <3>1, <3>2
  <2> QED BY <1>00, <2>1, <2>5 DEF FileInv, Run
<1>6. CASE Save
  <2>1. /\ phase = "ready" /\ file' = run /\ run' = run /\ pc' = pc + 1
        /\ UNCHANGED <<chainId, chain, pending>> /\ run \in Run
        /\ AtStep /\ Program[chainId][pc] = SaveAddresses
    BY <1>1, <1>6 DEF Save, Proceed, AtCall
  <2>2. Place = 47
    BY <1>0, <2>1 DEF Rank, SaveAddresses, Step
  <2>3. Stands(chainId, 46, chain[run], pending[run]) /\ run \in acted
    BY <1>0, <2>1, <2>2 DEF DeployInv, Current, At
  <2>4. IsWhole(chain[run])
    BY <1>0, <2>3, WholeMade DEF Stands
  <2>5. ASSUME NEW s \in Run PROVE pending[s] = NoCall
    <3>1. CASE s = run
      BY <2>1, <3>1 DEF SubmissionInv, Settled
    <3>2. CASE s > run
      BY <3>2 DEF SubmissionInv, Future
    <3>3. CASE s < run
      <4>1. wallet[s] = wallet[run]
        BY <2>1 DEF OneKey, SubmissionInv, TypeOK
      <4> QED BY <2>3, <3>3, <4>1 DEF SubmissionInv, NoncesInOrder
    <3> QED BY <2>1, <3>1, <3>2, <3>3, RunsAssumption DEF Run
  <2> QED BY <1>00, <2>1, <2>4, <2>5 DEF FileInv, Run
<1>7. CASE Chain
  <2>1. PICK r \in Run : MineCall(r)
    BY <1>7 DEF Chain
  <2>2. /\ file' = file /\ Place' = Place /\ run' = run
        /\ phase = "down" => phase' = "down"
        /\ \A s \in Run : s # r => chain'[s] = chain[s] /\ pending'[s] = pending[s]
        /\ pending'[r] = NoCall
    BY <2>1, MiningMoves DEF Place
  <2>3. IsWhole(chain[r]) => IsWhole(chain'[r])
    <3>1. CASE chain'[r] = chain[r]
      BY <3>1
    <3>2. CASE \E k \in Int : /\ Made(Did(chainId, k), chain[r])
                              /\ Made(Did(chainId, k + 1), chain'[r])
      <4>1. PICK k \in Int : /\ Made(Did(chainId, k), chain[r])
                             /\ Made(Did(chainId, k + 1), chain'[r])
        BY <3>2
      <4>2. /\ IsWhole(chain[r]) <=> k >= 46
            /\ IsWhole(chain'[r]) <=> k + 1 >= 46
        BY <1>0, <4>1, WholeMade
      <4> QED BY <4>2
    <3> QED BY <2>1, <3>1, <3>2, MiningMoves
  <2>4. file' # 0 => IsWhole(chain'[file'])
    BY <1>2, <2>2, <2>3 DEF FileInv
  <2>5. ASSUME NEW s \in Run, pending'[s] # NoCall, pending'[s].op = "transferOwnership"
        PROVE  file' = s
    BY <2>2, <2>5 DEF FileInv
  <2> QED BY <1>00, <2>2, <2>4, <2>5 DEF FileInv, Run
<1>8. CASE Users
  <2>1. /\ UNCHANGED <<submission, chainId, pc, file>>
        /\ \A s \in Run : IsWhole(chain'[s]) <=> IsWhole(chain[s])
    BY <1>8, UsersPublishNothing
  <2>2. Place' = Place /\ UNCHANGED <<run, phase, pending>>
    BY <2>1 DEF Place, submission
  <2> QED BY <1>00, <1>2, <2>1, <2>2 DEF FileInv, Run
<1>9. CASE UNCHANGED vars
  BY <1>3, <1>9 DEF vars, submission
<1> QED
  BY <1>4, <1>5, <1>6, <1>7, <1>8, <1>9 DEF Next, Script

\* Neither the file nor what it promises changes.
LEMMA NothingPublished ==
  ASSUME file' = file,
         \A s \in Run : /\ IsWhole(chain'[s]) <=> IsWhole(chain[s])
                        /\ \A n \in Owned : chain'[s].owner[n] = chain[s].owner[n]
  PROVE  Whole' = Whole /\ Given' = Given
<1>1. Whole' = Whole
  BY DEF Whole, Run
<1>2. \A s \in Run, n \in Owned :
        chain'[s].owner[n] = "successor" <=> chain[s].owner[n] = "successor"
  OBVIOUS
<1>3. Given' = {g \in Run \X Owned : chain'[g[1]].owner[g[2]] = "successor"}
  BY DEF Given, Run
<1>4. \A g \in Run \X Owned : g[1] \in Run /\ g[2] \in Owned
  OBVIOUS
<1>5. Given' = Given
  BY <1>2, <1>3, <1>4 DEF Given
<1> QED BY <1>1, <1>5

\* The runs that are whole, and what is handed over, when one run goes on.
LEMMA RunMoves ==
  ASSUME NEW id \in {"local", "public"}, NEW k \in Int, NEW r \in Run, NEW c \in Steps(id),
         c # SaveAddresses, Rank(c) = k + 1,
         Made(Did(id, k), chain[r]), Made(Did(id, k + 1), chain'[r]),
         \A s \in Run : s # r => chain'[s] = chain[s]
  PROVE  /\ Whole' = IF k = 45 THEN Whole \cup {r} ELSE Whole
         /\ k = 45 => r \notin Whole
         /\ k >= 46 => r \in Whole
         /\ \A n \in Owned : c # Step("transferOwnership", n) =>
              (<<r, n>> \in Given' <=> <<r, n>> \in Given)
         /\ \A n \in Owned : c = Step("transferOwnership", n) =>
              <<r, n>> \in Given' /\ <<r, n>> \notin Given
         /\ \A s \in Run : s # r => \A n \in Owned : <<s, n>> \in Given' <=> <<s, n>> \in Given
         /\ \A n \in Owned : Step("transferOwnership", n) \in Did(id, k) => <<r, n>> \in Given
<1>1. /\ IsWhole(chain[r]) <=> k >= 46
      /\ IsWhole(chain'[r]) <=> k + 1 >= 46
  BY WholeMade
<1>2. Run' = Run
  BY DEF Run
<1>3. /\ Whole' = IF k = 45 THEN Whole \cup {r} ELSE Whole
      /\ k = 45 => r \notin Whole
      /\ k >= 46 => r \in Whole
  BY <1>1, <1>2 DEF Whole
<1>4. \A s \in Run, n \in Owned : /\ <<s, n>> \in Given <=> chain[s].owner[n] = "successor"
                                  /\ <<s, n>> \in Given' <=> chain'[s].owner[n] = "successor"
  BY <1>2 DEF Given
<1>5. /\ Did(id, k + 1) = Did(id, k) \cup {c}
      /\ c \notin Did(id, k)
  BY DidNext
<1>6. \A n \in Owned : /\ chain[r].owner[n] = "successor" <=>
                            Step("transferOwnership", n) \in Did(id, k)
                       /\ chain'[r].owner[n] = "successor" <=>
                            Step("transferOwnership", n) \in Did(id, k + 1)
  BY GivenMade
<1>7. \A n \in Owned : c # Step("transferOwnership", n) =>
        (<<r, n>> \in Given' <=> <<r, n>> \in Given)
  BY <1>4, <1>5, <1>6
<1>8. \A n \in Owned : c = Step("transferOwnership", n) =>
        <<r, n>> \in Given' /\ <<r, n>> \notin Given
  BY <1>4, <1>5, <1>6
<1>9. \A s \in Run : s # r => \A n \in Owned : <<s, n>> \in Given' <=> <<s, n>> \in Given
  BY <1>4
<1>10. \A n \in Owned : Step("transferOwnership", n) \in Did(id, k) => <<r, n>> \in Given
  BY <1>4, <1>6
<1> QED BY <1>3, <1>7, <1>8, <1>9, <1>10

\* Two sets of pairs with the same pairs.
LEMMA SamePairs ==
  ASSUME NEW S, NEW T, NEW A, NEW B, S \subseteq A \X B, T \subseteq A \X B,
         \A a \in A, b \in B : <<a, b>> \in S <=> <<a, b>> \in T
  PROVE  S = T
OBVIOUS

\* What was handed over are pairs of a run and a contract.
LEMMA GivenPairs == Given \subseteq Run \X Owned /\ Given' \subseteq Run \X Owned
BY DEF Given, Run

\* What Publication sees.
PublishedVars == <<Whole, file, Given>>

\* A call that is mined completes a deployment, hands a contract over, or
\* does nothing that Publication sees.
LEMMA MiningPublishes ==
  ASSUME DeployInv, SubmissionInv, FileInv, NEW r \in Run, MineCall(r)
  PROVE  \/ UNCHANGED PublishedVars
         \/ Published!PublicationNext
<1> DEFINE c == pending[r]
<1>1. /\ c # NoCall /\ c \in Steps(chainId) /\ c # SaveAddresses
      /\ chainId \in {"local", "public"}
      /\ file' = file
      /\ \A s \in Run : s # r => chain'[s] = chain[s]
  BY MiningMoves
<1>2. CASE chain'[r] = chain[r]
  <2>1. \A s \in Run : chain'[s] = chain[s]
    BY <1>1, <1>2
  <2> QED BY <1>1, <2>1, NothingPublished DEF PublishedVars
<1>3. CASE \E k \in Int : /\ Rank(c) = k + 1
                          /\ Made(Did(chainId, k), chain[r])
                          /\ Made(Did(chainId, k + 1), chain'[r])
  <2>1. PICK k \in Int : /\ Rank(c) = k + 1
                         /\ Made(Did(chainId, k), chain[r])
                         /\ Made(Did(chainId, k + 1), chain'[r])
    BY <1>3
  <2>2. c = Step(c.op, c.on) /\ Kind(c)
    BY <1>1, Kinds
  <2>3. IF c.op = "transferOwnership" THEN k + 1 \in 48 .. 56 ELSE k + 1 \in -8 .. 46
    BY <1>1, <2>1, TransfersAreLast
  <2> HIDE DEF c
  <2>4. /\ Whole' = IF k = 45 THEN Whole \cup {r} ELSE Whole
        /\ k = 45 => r \notin Whole
        /\ k >= 46 => r \in Whole
        /\ \A n \in Owned : c # Step("transferOwnership", n) =>
             (<<r, n>> \in Given' <=> <<r, n>> \in Given)
        /\ \A n \in Owned : c = Step("transferOwnership", n) =>
             <<r, n>> \in Given' /\ <<r, n>> \notin Given
        /\ \A s \in Run : s # r => \A n \in Owned : <<s, n>> \in Given' <=> <<s, n>> \in Given
        /\ \A n \in Owned : Step("transferOwnership", n) \in Did(chainId, k) => <<r, n>> \in Given
    BY <1>1, <2>1, RunMoves
  <2>5. CASE c.op # "transferOwnership"
    <3>1. \A n : c # Step("transferOwnership", n)
      BY <2>5 DEF Step
    <3>2. Given' = Given
      <4>1. \A s \in Run, n \in Owned : <<s, n>> \in Given' <=> <<s, n>> \in Given
        BY <2>4, <3>1
      <4> QED BY <4>1, GivenPairs, SamePairs
    <3>3. CASE k = 45
      <4>1. Published!Complete(r)
        BY <1>1, <2>4, <3>2, <3>3 DEF Published!Complete, Whole, Given
      <4> QED BY <4>1 DEF Published!PublicationNext
    <3>4. CASE k # 45
      BY <1>1, <2>4, <3>2, <3>4 DEF PublishedVars
    <3> QED BY <3>3, <3>4
  <2>6. CASE c.op = "transferOwnership"
    <3>1. PICK n \in Owned : c = Step("transferOwnership", n)
      BY <2>2, <2>6 DEF Kind, SaveAddresses, Step
    <3>2. file = r
      BY <1>1, <2>6 DEF FileInv, c
    <3>3. k >= 46 /\ k # 45
      BY <2>3, <2>6
    <3>4. r \in Whole /\ Whole' = Whole /\ <<r, n>> \notin Given
      BY <2>4, <3>1, <3>3
    <3>5. Given' = Given \cup {<<r, n>>}
      <4>1. \A s \in Run, p \in Owned :
              <<s, p>> \in Given' <=> <<s, p>> \in Given \cup {<<r, n>>}
        <5> SUFFICES ASSUME NEW s \in Run, NEW p \in Owned
                     PROVE  <<s, p>> \in Given' <=> <<s, p>> \in Given \cup {<<r, n>>}
          OBVIOUS
        <5>1. CASE s # r
          BY <2>4, <5>1
        <5>2. CASE s = r /\ p = n
          BY <2>4, <3>1, <5>2
        <5>3. CASE s = r /\ p # n
          <6>1. c # Step("transferOwnership", p)
            BY <3>1, <5>3 DEF Step
          <6> QED BY <2>4, <5>3, <6>1
        <5> QED BY <5>1, <5>2, <5>3
      <4>2. Given \cup {<<r, n>>} \subseteq Run \X Owned
        BY <3>1, GivenPairs
      <4> QED BY <4>1, <4>2, GivenPairs, SamePairs
    <3>6. ASSUME n = "ProxyAdmin", NEW q \in Owned \ {"ProxyAdmin"}
          PROVE  <<r, q>> \in Given
      <4>1. Rank(c) = 56
        BY <3>1, <3>6 DEF Rank, RankTransfer, Step
      <4>2. Step("transferOwnership", q) \in Steps(chainId)
        BY <1>1, KindsAreSteps DEF TransferSteps
      <4>3. Rank(Step("transferOwnership", q)) \in 48 .. 55
        BY DEF Owned, Core, Market, Rank, RankTransfer, Step
      <4>4. Step("transferOwnership", q) \in Did(chainId, k)
        BY <2>1, <4>1, <4>2, <4>3 DEF Did
      <4> QED BY <2>4, <4>4
    <3>7. Published!Give(n)
      <4>1. file \in Whole /\ <<file, n>> \notin Given
        BY <3>2, <3>4
      <4>2. n = "ProxyAdmin" => \A q \in Owned \ {"ProxyAdmin"} : <<file, q>> \in Given
        BY <3>2, <3>6
      <4>3. Given' = Given \cup {<<file, n>>} /\ Whole' = Whole /\ file' = file
        BY <1>1, <3>2, <3>4, <3>5
      <4> QED BY <4>1, <4>2, <4>3 DEF Published!Give, Whole, Given
    <3> QED BY <3>7 DEF Published!PublicationNext
  <2> QED BY <2>5, <2>6
<1> QED BY <1>2, <1>3, MiningMoves

\* Every step of the deployment is one of Publication, or is not seen by it.
LEMMA PublicationStep ==
  ASSUME DeployInv, SubmissionInv, FileInv, [Next]_vars
  PROVE  UNCHANGED PublishedVars \/ Published!PublicationNext
<1>1. ASSUME UNCHANGED <<chain, file>> PROVE UNCHANGED PublishedVars
  BY <1>1, NothingPublished DEF PublishedVars
<1>2. CASE StartRun \/ Kill \/ UNCHANGED vars
  BY <1>1, <1>2 DEF StartRun, Kill, vars
<1>3. CASE Submit \/ SubmitReplyLost \/ Retry \/ ExitRun \/ Confirmed \/ Reverted
  BY <1>1, <1>3 DEF Submit, SubmitReplyLost, Retry, ExitRun, Confirmed, Reverted
<1>4. CASE Save
  <2>0. /\ chainId \in {"local", "public"} /\ Place \in Int
        /\ AtStep => /\ Program[chainId][pc] \in Steps(chainId)
                     /\ Rank(Program[chainId][pc]) = Place
    BY Here
  <2>1. /\ phase = "ready" /\ file' = run /\ chain' = chain /\ run \in Run
        /\ AtStep /\ Program[chainId][pc] = SaveAddresses
    BY <1>4 DEF Save, Proceed, AtCall, SubmissionInv, TypeOK
  <2>2. Place = 47
    BY <2>0, <2>1 DEF Rank, SaveAddresses, Step
  <2>3. Stands(chainId, 46, chain[run], pending[run])
    BY <2>1, <2>2 DEF DeployInv, Current, At
  <2>4. run \in Whole
    BY <2>0, <2>1, <2>3, WholeMade DEF Stands, Whole
  <2>5. Whole' = Whole /\ Given' = Given
    BY <2>1 DEF Whole, Given, Run
  <2>6. Published!Publish(run)
    BY <2>1, <2>4, <2>5 DEF Published!Publish, Whole, Given
  <2> QED BY <2>1, <2>6 DEF Published!PublicationNext
<1>5. CASE Chain
  BY <1>5, MiningPublishes DEF Chain
<1>6. CASE Users
  BY <1>6, UsersPublishNothing, NothingPublished DEF PublishedVars
<1> QED BY <1>2, <1>3, <1>4, <1>5, <1>6 DEF Next, Script

\* When all runs have the one key deploy.ts reads from its configuration, the
\* deployment implements Publication: the file never names a deployment that
\* is not complete, nothing is handed over that the file does not name, and
\* ProxyAdmin goes last.
THEOREM DeploymentPublishes ==
  ASSUME OneKey PROVE Spec => ImplementsPublication
<1>1. Init => Published!PublicationInit
  <2> SUFFICES ASSUME Init PROVE Published!PublicationInit
    OBVIOUS
  <2>1. chainId \in {"local", "public"} /\ Base(chainId) \in Int /\ Base(chainId) <= 0
    BY ChainAssumption DEF Init, Base
  <2>2. Made(Did(chainId, Base(chainId)), Nothing)
    BY <2>1, NothingMade
  <2>3. ~IsWhole(Nothing)
    BY <2>1, <2>2, WholeMade
  <2>4. Whole = {}
    BY <2>3 DEF Init, Whole
  <2>5. Given = {}
    BY DEF Init, Given, Nothing
  <2> QED BY <2>4, <2>5 DEF Init, Published!PublicationInit, Whole, Given
<1>2. Spec => [](SubmissionInv /\ DeployInv)
  BY DeployInvariance
<1>3. SubmissionInv /\ DeployInv /\ FileInv /\ [Next]_vars => FileInv'
  BY FileStep
<1>4. Spec => []FileInv
  BY <1>2, <1>3, FileStart, PTL DEF Spec
<1>5. SubmissionInv /\ DeployInv /\ FileInv /\ [Next]_vars =>
        [Published!PublicationNext]_<<Whole, file, Given>>
  BY PublicationStep DEF PublishedVars
<1>6. /\ Whole = {r \in Run : IsWhole(chain[r])}
      /\ Given = {g \in Run \X Owned : chain[g[1]].owner[g[2]] = "successor"}
  BY DEF Whole, Given
<1> QED
  BY <1>1, <1>2, <1>4, <1>5, PTL DEF Spec, ImplementsPublication, Published!PublicationSpec, Whole, Given
=============================================================================
