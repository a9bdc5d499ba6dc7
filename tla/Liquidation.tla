---------------------------- MODULE Liquidation ----------------------------
(***************************************************************************)
(* The arithmetic of contracts/utils/Liquidation.sol and the sales out of  *)
(* a portfolio it calls: Portfolios.raiseCurrentCashViaLiquidityToken and  *)
(* raiseCurrentCashViaCashReceiver, CashMarket.tradeLiquidityToken.        *)
(*                                                                         *)
(* Debts are in LocalCurrency, collateral is in ETH, and each of the two   *)
(* has a cash group: a ledger here is one of Ledger.tla whose `portfolio'  *)
(* and `markets' are per currency.  Both tokens have DECIMALS decimals, so *)
(* factors localDecimals/collateralDecimals cancel.                        *)
(***************************************************************************)
EXTENDS Ledger, SequencesExt

CONSTANTS
  LIQUIDATION_DISCOUNT,  \* G_LIQUIDATION_DISCOUNT
  SETTLEMENT_DISCOUNT,   \* G_SETTLEMENT_DISCOUNT
  REPO_INCENTIVE,        \* G_LIQUIDITY_TOKEN_REPO_INCENTIVE
  LIQUIDATION_BUFFER,    \* Liquidation.LIQUIDATION_BUFFER
  MUST_INVERT            \* Rate.mustInvert of the LocalCurrency/ETH oracle

ASSUME LiquidationAssumption ==
  /\ LIQUIDITY_HAIRCUT \in 1 .. DECIMALS - 1
  /\ SETTLEMENT_DISCOUNT \in 1 .. LOCAL_BUFFER - 1
  /\ LIQUIDATION_DISCOUNT \in 1 .. LOCAL_BUFFER - 1
  /\ REPO_INCENTIVE \in Nat \ {0} /\ LIQUIDATION_BUFFER \in Nat \ {0}
  /\ MUST_INVERT \in BOOLEAN

PositivePart(x) == Max({x, 0})

-----------------------------------------------------------------------------
(* The two cash groups                                                     *)

WethGroup == INSTANCE Ledger WITH LocalCurrency <- ETH, ETH <- LocalCurrency

GroupOf(s, c) ==
  [cash |-> s.cash, held |-> s.held, portfolio |-> s.portfolio[c], markets |-> s.markets[c]]

WithGroup(s, c, g) ==
  [cash      |-> g.cash,
   held      |-> g.held,
   portfolio |-> [s.portfolio EXCEPT ![c] = g.portfolio],
   markets   |-> [s.markets EXCEPT ![c] = g.markets]]

(* _settleMaturedAssets over the assets of both groups. *)
SettleGroups(s, a, t) ==
  LET settled == WithGroup(s, LocalCurrency, Settle(GroupOf(s, LocalCurrency), a, t))
  IN  WithGroup(settled, ETH, WethGroup!Settle(GroupOf(settled, ETH), a, t))

CanSettleGroups(s, a, t) ==
  /\ CanSettle(GroupOf(s, LocalCurrency), a, t)
  /\ WethGroup!CanSettle(GroupOf(s, ETH), a, t)

(* freeCollateralFactors: net value and cash claims per currency, and the
   free collateral they add up to. *)
NetAvailable(s, a, c, t) == s.cash[c][a] + PortfolioValue(s.portfolio[c][a], s.markets[c], t)

CashClaims(s, a, c, t) ==
  SumFunction([m \in Maturity |-> CashClaim(s.portfolio[c][a], s.markets[c], m, t)])

Aggregate(s, a, t, price) ==
  SumFunction([c \in Currency |-> ETHValue(c, NetAvailable(s, a, c, t), price)])

CanValueGroups(s, a, t) == \A c \in Currency : CanValue(s.portfolio[c][a], s.markets[c], t)

-----------------------------------------------------------------------------
(* ExchangeRate.sol                                                        *)

InverseRate(oracle) == (RATE_DECIMALS * RATE_DECIMALS) \div oracle

(* _fetchExchangeRate without inversion asked for: LocalCurrency in ETH. *)
Price(oracle) == IF MUST_INVERT THEN InverseRate(oracle) ELSE oracle

(* _convertETHTo asks for the inversion, and gets it whatever mustInvert is. *)
ETHToLocal(amount, oracle) == (InverseRate(oracle) * amount) \div RATE_DECIMALS

-----------------------------------------------------------------------------
(* Amounts                                                                 *)

(* _fcAggregateToLocal: what is short, with the buffer against truncation. *)
LocalShortfall(aggregate, oracle) ==
  ETHToLocal((-aggregate * LIQUIDATION_BUFFER) \div DECIMALS, oracle)

(* Mutant of LocalToTrade: what the purchase costs the account is forgotten. *)
LocalToTradeAtBuffer(required, debt) == Min({debt, (required * DECIMALS) \div LOCAL_BUFFER})

(* _calculateLocalCurrencyToTrade: paying a debt frees its buffer and costs
   the discount. *)
LocalToTrade(required, debt) ==
  Min({debt, (required * DECIMALS) \div (LOCAL_BUFFER - LIQUIDATION_DISCOUNT)})

(* _calculateCollateralToSell, and _calculateLocalCurrencyAmount back. *)
CollateralToSell(discount, local, price) ==
  ((price * local * discount) \div RATE_DECIMALS) \div DECIMALS

LocalAmount(discount, collateral, price) ==
  ((collateral * RATE_DECIMALS * DECIMALS * DECIMALS) \div price) \div (discount * DECIMALS)

(* _calculateLiquidityTokenHaircut: what the haircut keeps off a claim. *)
HaircutOff(claim) == (claim * DECIMALS) \div LIQUIDITY_HAIRCUT - claim

(* The claim to withdraw so that its haircut frees `x'. *)
ClaimFreeing(x) == (x * DECIMALS) \div (DECIMALS - LIQUIDITY_HAIRCUT)

-----------------------------------------------------------------------------
(* Portfolios.sol, CashMarket.sol: raising cash                            *)

(* Mutant of TokensFor: more tokens than the account has. *)
TokensForUncapped(pool, all, cashRequired) ==
  IF pool.totalCurrentCash = 0 THEN all
  ELSE Share(pool.totalLiquidity, cashRequired, pool.totalCurrentCash)

(* As many tokens as the cash still needed takes, or all of them. *)
TokensFor(pool, all, cashRequired) ==
  IF CashShare(pool, all) > cashRequired
    THEN Share(pool.totalLiquidity, cashRequired, pool.totalCurrentCash)
    ELSE all

(* Mutant of TradeToken: the tokens are burnt, their fCash is forgotten. *)
TradeTokenWithoutfCash(r, m) ==
  LET pool == r.markets[m]
      tokens == TokensFor(pool, r.portfolio.token[m], r.left)
  IN  [portfolio |-> TakeToken(r.portfolio, m, tokens),
       markets   |-> [r.markets EXCEPT ![m] = Redeem(pool, tokens)],
       left      |-> r.left - CashShare(pool, tokens),
       done      |-> r.left = CashShare(pool, tokens)]

(* _tradeLiquidityToken with tradeLiquidityToken: the tokens are burnt for their
   cash, and the fCash they claim goes to the account. *)
TradeToken(r, m) ==
  LET pool == r.markets[m]
      tokens == TokensFor(pool, r.portfolio.token[m], r.left)
  IN  IF r.done THEN r
      ELSE [portfolio |-> TakeToken(AddfCash(r.portfolio, m, fCashShare(pool, tokens)), m, tokens),
            markets   |-> [r.markets EXCEPT ![m] = Redeem(pool, tokens)],
            left      |-> r.left - CashShare(pool, tokens),
            done      |-> r.left = CashShare(pool, tokens)]

(* raiseCurrentCashViaLiquidityToken: over the sorted portfolio until nothing
   is left to raise. *)
SellTokens(p, mk, amount) ==
  MapThenFoldSet(LAMBDA m, sale : TradeToken(sale, m),
                 [portfolio |-> p, markets |-> mk, left |-> amount, done |-> FALSE],
                 LAMBDA m : m,
                 Max,  \* traded last
                 p.listed)

(* The market's balance gives up what was raised, and the caller decides who
   gets it. *)
RaiseViaTokens(s, a, c, amount) ==
  LET r == SellTokens(s.portfolio[c][a], s.markets[c], amount)
  IN  [ledger |-> [cash      |-> [s.cash EXCEPT ![c] = Credit(@, CASH_MARKET, r.left - amount)],
                   held      |-> s.held,
                   portfolio |-> [s.portfolio EXCEPT ![c][a] = r.portfolio],
                   markets   |-> [s.markets EXCEPT ![c] = r.markets]],
       left   |-> r.left]

(* Mutant of SellReceiver: a receiver is always sold whole. *)
SellReceiverWhole(r, p, m, t) ==
  [r EXCEPT !.moved[m] = p.fCash[m], !.left = PositivePart(@ - ReceiverValue(p.fCash[m], m, t))]

(* _calculateNotionalToTransfer: the part of a receiver whose value is needed. *)
SellReceiver(r, p, m, t) ==
  LET value == ReceiverValue(p.fCash[m], m, t)
  IN  IF r.left = 0 THEN r
      ELSE [moved |-> [r.moved EXCEPT ![m] = IF value >= r.left THEN Share(p.fCash[m], r.left, value)
                                                                ELSE p.fCash[m]],
            left  |-> PositivePart(r.left - value),
            ok    |-> r.ok /\ value >= 0]

(* raiseCurrentCashViaCashReceiver: receivers of `a' go to the liquidator at
   their present value, in the order the array has them. *)
SellReceivers(p, amount, order, t) ==
  FoldLeft(LAMBDA sale, m : SellReceiver(sale, p, m, t),
           [moved |-> [m \in Maturity |-> 0], left |-> amount, ok |-> TRUE], order)

Moved(p, moved, sign) == [p EXCEPT !.fCash = [m \in Maturity |-> @[m] + sign * moved[m]]]

RaiseViaReceivers(s, a, liquidator, c, amount, order, t) ==
  LET r == SellReceivers(s.portfolio[c][a], amount, order, t)
      given == [s.portfolio[c] EXCEPT ![a] = Moved(@, r.moved, -1)]
  IN  [ledger |-> [cash      |-> s.cash,
                   held      |-> s.held,
                   portfolio |-> [s.portfolio EXCEPT ![c] =
                                    [given EXCEPT ![liquidator] = Moved(@, r.moved, 1)]],
                   markets   |-> s.markets],
       left   |-> r.left,
       ok     |-> r.ok]

Receivers(s, a, c) == {m \in Maturity : s.portfolio[c][a].fCash[m] > 0}

CanRaiseViaReceivers(s, a, amount) ==
  /\ \A c \in Currency : s.portfolio[c][a].listed = {}
  /\ \E c \in Currency : Receivers(s, a, c) # {}
  /\ amount > 0

-----------------------------------------------------------------------------
(* What one liquidation or settlement of `payer' works on: the free         *)
(* collateral factors and the transfers found so far.                       *)
(*   required        localCurrencyRequired, what is still short             *)
(*   toPayer         netLocalCurrencyPayer                                  *)
(*   fromLiquidator  netLocalCurrencyLiquidator                             *)
(*   toLiquidator    collateralTransfer                                     *)
(*   balance         payerCollateralBalance                                 *)
(*   ok              nothing so far reverts                                 *)
Case(s, payer, t, oracle) ==
  [ledger          |-> s,
   aggregate       |-> Aggregate(s, payer, t, Price(oracle)),
   localNet        |-> NetAvailable(s, payer, LocalCurrency, t),
   localClaim      |-> CashClaims(s, payer, LocalCurrency, t),
   collateralNet   |-> NetAvailable(s, payer, ETH, t),
   collateralClaim |-> CashClaims(s, payer, ETH, t),
   required        |-> 0,
   toPayer         |-> 0,
   fromLiquidator  |-> 0,
   toLiquidator    |-> 0,
   balance         |-> s.cash[ETH][payer],
   ok              |-> TRUE]

(* _liquidateLocalLiquidityTokens: only the part a haircut kept off the claims
   helps the account, and the liquidator gets its incentive out of that part. *)
LiquidateLocalTokens(x, payer, required) ==
  LET toTrade == (required * REPO_INCENTIVE) \div (DECIMALS - LIQUIDITY_HAIRCUT)
      sale == RaiseViaTokens(x.ledger, payer, LocalCurrency, toTrade)
      withdrawn == toTrade - sale.left
      freed == (withdrawn * (DECIMALS - LIQUIDITY_HAIRCUT)) \div DECIMALS
      raised == IF sale.left > 0
                  THEN (withdrawn * (DECIMALS - LIQUIDITY_HAIRCUT)) \div REPO_INCENTIVE
                  ELSE required
      incentive == freed - raised
  IN  [x EXCEPT !.ledger = sale.ledger,
                !.toPayer = withdrawn - incentive,
                !.fromLiquidator = -incentive,
                !.localNet = @ + raised,
                !.required = required - raised,
                !.ok = incentive >= 0]

(* _calculatePostfCashValue: fCash is not sold here.  What it is worth may
   only make up for a negative balance; the excess is not for sale. *)
fCashValue(x) == PositivePart(x.collateralNet - x.balance - x.collateralClaim)

BalanceAdjustment(x) == Min({fCashValue(x), PositivePart(-x.balance)})

(* Mutant of ForSale: what the account owes in collateral fCash is forgotten. *)
ForSaleBeforeDebts(x) == PositivePart(x.balance) + x.collateralClaim

ForSale(x) == x.collateralNet - (fCashValue(x) - BalanceAdjustment(x))

(* Mutant of BalanceAfter: a shortfall of the sale is not charged. *)
BalanceAfterWithoutRemainder(balance, sold, raised, left) == balance - sold + raised

(* _calculateCollateralBalances: the balance pays what it can, the tokens raise
   the rest, and what they raise too much is credited back. *)
BalanceAfter(balance, sold, raised, left) == balance - sold + raised - left

(* _tradeCollateralCurrency with _calculatePurchaseAmounts: sell what the debt
   needs at the discounted price, at most what is for sale and what the haircut
   keeps off the claims; that part is raised at its full claim. *)
TradeCollateral(x, payer, required, discount, price) ==
  LET wanted == CollateralToSell(discount, required, price)
      limit == ForSale(x) + HaircutOff(x.collateralClaim)
      sold == Min({wanted, limit})
      bought == IF wanted > limit THEN LocalAmount(discount, sold, price) ELSE required
      balance == x.balance + BalanceAdjustment(x)
      toRaise == Max({ClaimFreeing(PositivePart(sold - ForSale(x))), sold - balance})
      sale == RaiseViaTokens(x.ledger, payer, ETH, toRaise)
  IN  IF wanted = 0 THEN x
      ELSE IF ForSale(x) <= 0 THEN [x EXCEPT !.ok = FALSE]
      ELSE IF toRaise = 0
        THEN [x EXCEPT !.toPayer = @ + bought,
                       !.fromLiquidator = @ + bought,
                       !.toLiquidator = sold,
                       !.balance = @ - sold]
        ELSE [x EXCEPT !.ledger = sale.ledger,
                       !.toPayer = @ + bought,
                       !.fromLiquidator = @ + bought,
                       !.toLiquidator = sold,
                       !.balance = BalanceAfter(balance, sold, toRaise, sale.left)
                                     - BalanceAdjustment(x),
                       !.ok = @ /\ (balance < sold => sale.left <= 1)]

(* liquidate: liquidity tokens of the local currency first, then collateral,
   as long as there is a debt that paying helps; maxAmount = 0 is no limit. *)
LiquidateDebt(x0, payer, maxAmount, oracle) ==
  LET short == LocalShortfall(x0.aggregate, oracle)
      x == IF x0.localClaim > 0 THEN LiquidateLocalTokens(x0, payer, short)
                                ELSE [x0 EXCEPT !.required = short]
      debt == LocalToTrade(x.required, -x.localNet)
      required == IF maxAmount > 0 THEN Min({debt, maxAmount}) ELSE debt
  IN  IF x.required > 0 /\ x.localNet < 0
        THEN TradeCollateral(x, payer, required, LIQUIDATION_DISCOUNT, Price(oracle))
        ELSE x

(* settle: liquidity tokens of the local currency pay first, then collateral if
   the account is collateralized; withdrawing more than the claim it is valued
   at adds to its collateral. *)
SettleDebt(x0, payer, value, price) ==
  LET sale == RaiseViaTokens(x0.ledger, payer, LocalCurrency, value)
      raised == value - sale.left
      gained == PositivePart(raised - x0.localClaim)
      buffer == IF x0.localNet < 0 THEN LOCAL_BUFFER ELSE DECIMALS
      x == IF x0.localClaim > 0
             THEN [x0 EXCEPT !.ledger = sale.ledger,
                             !.toPayer = raised,
                             !.aggregate = @ + ((price * gained * buffer) \div RATE_DECIMALS) \div DECIMALS]
             ELSE x0
  IN  IF value > x.toPayer /\ x.aggregate >= 0
        THEN TradeCollateral(x, payer, value - x.toPayer, SETTLEMENT_DISCOUNT, price)
        ELSE x

(* _tradefCash: the liquidator buys receivers of the collateral currency with
   local currency.  The value of what it gets is what it owes in collateral, so
   no collateral cash moves. *)
TradefCash(s, payer, liquidator, required, net, discount, price, order, t) ==
  LET wanted == CollateralToSell(discount, required, price)
      sell == Min({wanted, net})
      local == IF wanted > net THEN LocalAmount(discount, net, price) ELSE required
      sale == RaiseViaReceivers(s, payer, liquidator, ETH, sell, order, t)
      toPayer == local - LocalAmount(discount, sale.left, price)
  IN  [ledger  |-> sale.ledger,
       toPayer |-> toPayer,
       ok      |-> net > 0 /\ CanRaiseViaReceivers(s, payer, sell) /\ sale.ok /\ toPayer >= 0]
=============================================================================
