---------------------------- MODULE Liquidations ----------------------------
(***************************************************************************)
(* The transactions of Escrow.sol by which a third party pays an account's *)
(* debt for its collateral: cash settlement, liquidation, and the purchase *)
(* of fCash for either, with settlement of matured assets, the passing of  *)
(* time and a moving rate in between.                                      *)
(*                                                                         *)
(* The account's debt is in LocalCurrency, the collateral in ETH; both     *)
(* have a cash group, so collateral may be cash, locked up in liquidity    *)
(* tokens, or fCash.  CASH_MARKET stands for the market contract of either *)
(* group: the two hold balances in different currencies.                   *)
(***************************************************************************)
EXTENDS Liquidation

CONSTANTS
  Start,      \* the ledgers a behaviour may start from
  Liquidator, \* the accounts that liquidate and settle
  Payer,      \* the accounts that are liquidated and settled
  Amount,     \* the amounts liquidators ask for
  Rate,       \* the LOCAL/ETH rates the oracle may report
  MaxTime,    \* bound of the model: the last block time
  TokenKind   \* how the token of LocalCurrency moves: "plain", "fee" or "hook"

ASSUME LiquidationsAssumption ==
  /\ Liquidator \subseteq Account /\ Payer \subseteq Account
  /\ Amount \subseteq Nat /\ Rate \subseteq Nat \ {0} /\ MaxTime \in Nat
  /\ TokenKind \in {"plain", "fee", "hook"}

-----------------------------------------------------------------------------
(* The books of the two cash groups                                        *)

LedgersType == [cash : [Currency -> [Holder -> Int]],
                held : [Currency -> Nat],
                portfolio : [Currency -> [Account -> Portfolio]],
                markets : [Currency -> [Maturity -> Market]]]

(* What maturity m of currency c still owes to the cash balances. *)
Unsettled(s, c, m) ==
  SumFunction([a \in Account |-> s.portfolio[c][a].fCash[m]]) + s.markets[c][m].totalfCash

TokensCovered(s, c) ==
  s.held[c] = SumFunction(s.cash[c]) + SumFunction([m \in Maturity |-> Unsettled(s, c, m)])

PoolsBacked(s, c) ==
  s.cash[c][CASH_MARKET] = SumFunction([m \in Maturity |-> s.markets[c][m].totalCurrentCash])

TokensInPortfolios(s, c, m) ==
  SumFunction([a \in Account |-> s.portfolio[c][a].token[m]]) = s.markets[c][m].totalLiquidity

(* A behaviour starts with what Notional keeps true of every ledger. *)
ASSUME StartAssumption ==
  \A s \in Start :
    /\ s \in LedgersType
    /\ \A c \in Currency :
         /\ TokensCovered(s, c)
         /\ PoolsBacked(s, c)
         /\ \A m \in Maturity :
              /\ TokensInPortfolios(s, c, m)
              /\ 0 < m => Unsettled(s, c, m) = 0
              /\ \A a \in Account :
                   s.portfolio[c][a].token[m] > 0 => m \in s.portfolio[c][a].listed
              /\ LET pool == s.markets[c][m]
                 IN  /\ (pool.totalLiquidity = 0) <=> (pool.totalCurrentCash = 0)
                     /\ (pool.totalLiquidity = 0) <=> (pool.totalfCash = 0)

-----------------------------------------------------------------------------
VARIABLES
  cash,       \* Escrow.cashBalances
  held,       \* what token.balanceOf(Escrow) returns
  portfolio,  \* Portfolios._accountAssets, by the currency of the cash group
  markets,    \* CashMarket.markets of the two cash groups
  now,        \* block.timestamp
  rate        \* latestAnswer of the LOCAL/ETH oracle

ledgerVars == <<cash, held, portfolio, markets>>
vars == <<cash, held, portfolio, markets, now, rate>>

ledger == [cash |-> cash, held |-> held, portfolio |-> portfolio, markets |-> markets]

TypeOK ==
  /\ ledger \in LedgersType
  /\ now \in 0 .. MaxTime
  /\ rate \in Rate

Init ==
  /\ \E s \in Start : /\ cash = s.cash
                      /\ held = s.held
                      /\ portfolio = s.portfolio
                      /\ markets = s.markets
  /\ now = 0
  /\ rate \in Rate

Commit(s) ==
  /\ cash' = s.cash
  /\ held' = s.held
  /\ portfolio' = s.portfolio
  /\ markets' = s.markets
  /\ UNCHANGED <<now, rate>>

FC(s, a) == Aggregate(s, a, now, Price(rate))

(* freeCollateralFactors settles the account before it is valued. *)
CanBeFactored(a) ==
  /\ CanSettleGroups(ledger, a, now)
  /\ CanValueGroups(SettleGroups(ledger, a, now), a, now)

(* Mutant of Owes: any debt will do. *)
OwesAnything(s, a, value) == value > 0 /\ s.cash[LocalCurrency][a] < 0

Owes(s, a, value) == value > 0 /\ s.cash[LocalCurrency][a] <= -value

HasCollateral(s, a) == \E c \in Currency : s.cash[c][a] > 0

-----------------------------------------------------------------------------
(* _finishLiquidateSettle of LocalCurrency                                 *)

Received(s, amount) == [s EXCEPT !.held[LocalCurrency] = @ + amount]

Charged(s, a, amount) == [s EXCEPT !.cash[LocalCurrency] = Credit(@, a, -amount)]

(* Mutant of Finish: a token with a transfer fee is not taken off the balance. *)
FinishWithoutCharge(s, a, net) == IF net > 0 /\ TokenKind = "fee" THEN SettleGroups(s, a, now) ELSE Received(s, net)

(* Plain tokens come in by a transfer, and an ERC777 transfer calls
   tokensReceived, which credits the sender.  A token with a transfer fee does
   not move: the liquidator pays from its balance and is checked, which settles
   it.  A negative amount is withdrawn to the liquidator. *)
Finish(s, a, net) ==
  IF net <= 0 \/ TokenKind = "plain" THEN Received(s, net)
  ELSE IF TokenKind = "hook" THEN Received(Charged(s, a, -net), net)
  ELSE SettleGroups(Charged(s, a, net), a, now)

CanFinish(s, a, net) ==
  /\ s.held[LocalCurrency] + net >= 0
  /\ net > 0 /\ TokenKind = "fee" =>
       /\ s.cash[LocalCurrency][a] >= net
       /\ CanSettleGroups(Charged(s, a, net), a, now)
       /\ LET after == Finish(s, a, net)
          IN  CanValueGroups(after, a, now) /\ FC(after, a) >= 0

(* The transfers of a settled or liquidated case, then both calls to
   _finishLiquidateSettle: local currency in, collateral out. *)
Paid(x, payer) ==
  [Charged(x.ledger, payer, -x.toPayer) EXCEPT !.cash[ETH] = [@ EXCEPT ![payer] = x.balance]]

Conclude(x, liquidator, payer) ==
  LET paid == Paid(x, payer)
  IN  /\ x.ok
      /\ x.toLiquidator <= held[ETH]
      /\ CanFinish(paid, liquidator, x.fromLiquidator)
      /\ Commit([Finish(paid, liquidator, x.fromLiquidator) EXCEPT !.held[ETH] = @ - x.toLiquidator])

-----------------------------------------------------------------------------
(* settleCashBalance: pay `value' of a debt the account has. *)
SettleCashBalance(settler, payer, value) ==
  LET s == SettleGroups(ledger, payer, now)
      x == SettleDebt(Case(s, payer, now, rate), payer, value, Price(rate))
  IN  /\ settler # payer
      /\ CanBeFactored(payer)
      /\ Owes(s, payer, value)
      /\ x.fromLiquidator >= 0
      /\ Conclude(x, settler, payer)

(* liquidate: only an account below zero. *)
Liquidate(liquidator, payer, maxAmount) ==
  LET s == SettleGroups(ledger, payer, now)
      opened == Case(s, payer, now, rate)
  IN  /\ liquidator # payer
      /\ CanBeFactored(payer)
      /\ opened.aggregate < 0
      /\ Conclude(LiquidateDebt(opened, payer, maxAmount, rate), liquidator, payer)

(* settlefCash with collateral in the same currency: receivers are sold for the
   debt at their present value. *)
SettleLocalfCash(settler, payer, value) ==
  LET s == SettleGroups(ledger, payer, now)
  IN  /\ CanBeFactored(payer)
      /\ FC(s, payer) >= 0
      /\ Owes(s, payer, value)
      /\ ~HasCollateral(s, payer)
      /\ CanRaiseViaReceivers(s, payer, value)
      /\ \E order \in SetToSeqs(Receivers(s, payer, LocalCurrency)) :
           LET sale == RaiseViaReceivers(s, payer, settler, LocalCurrency, value, order, now)
               raised == value - sale.left
               paid == Charged(sale.ledger, payer, -raised)
           IN  /\ sale.ok
               /\ CanFinish(paid, settler, raised)
               /\ Commit(Finish(paid, settler, raised))

ConcludefCash(x, liquidator, payer) ==
  LET paid == Charged(x.ledger, payer, -x.toPayer)
  IN  /\ x.ok
      /\ CanFinish(paid, liquidator, x.toPayer)
      /\ Commit(Finish(paid, liquidator, x.toPayer))

(* settlefCash with collateral in ETH. *)
SettlefCash(settler, payer, value) ==
  LET s == SettleGroups(ledger, payer, now)
      net == NetAvailable(s, payer, ETH, now)
  IN  /\ CanBeFactored(payer)
      /\ FC(s, payer) >= 0
      /\ Owes(s, payer, value)
      /\ ~HasCollateral(s, payer)
      /\ \E order \in SetToSeqs(Receivers(s, payer, ETH)) :
           ConcludefCash(TradefCash(s, payer, settler, value, net, SETTLEMENT_DISCOUNT,
                                    Price(rate), order, now), settler, payer)

(* liquidatefCash: only an account below zero, for its debt in LocalCurrency. *)
LiquidatefCash(liquidator, payer) ==
  LET s == SettleGroups(ledger, payer, now)
      localNet == NetAvailable(s, payer, LocalCurrency, now)
      net == NetAvailable(s, payer, ETH, now)
      required == LocalToTrade(LocalShortfall(FC(s, payer), rate), -localNet)
  IN  /\ CanBeFactored(payer)
      /\ ~HasCollateral(s, payer)
      /\ FC(s, payer) < 0
      /\ localNet < 0
      /\ \E order \in SetToSeqs(Receivers(s, payer, ETH)) :
           ConcludefCash(TradefCash(s, payer, liquidator, required, net, LIQUIDATION_DISCOUNT,
                                    Price(rate), order, now), liquidator, payer)

(* settleMaturedAssets, by anyone. *)
SettleMaturedAssets(a) ==
  /\ \E c \in Currency, m \in Maturity :
       m <= now /\ (m \in portfolio[c][a].listed \/ portfolio[c][a].fCash[m] # 0)
  /\ CanSettleGroups(ledger, a, now)
  /\ Commit(SettleGroups(ledger, a, now))

Tick ==
  /\ now < MaxTime
  /\ now' = now + 1
  /\ UNCHANGED <<ledgerVars, rate>>

MoveRate ==
  /\ rate' \in Rate \ {rate}
  /\ UNCHANGED <<ledgerVars, now>>

SettleStep(payer) ==
  \E settler \in Liquidator, value \in Amount :
    \/ SettleCashBalance(settler, payer, value)
    \/ SettleLocalfCash(settler, payer, value)
    \/ SettlefCash(settler, payer, value)

LiquidateStep(payer) ==
  \E liquidator \in Liquidator :
    \/ \E maxAmount \in Amount \cup {0} : Liquidate(liquidator, payer, maxAmount)
    \/ LiquidatefCash(liquidator, payer)

Next ==
  \/ \E payer \in Payer : SettleStep(payer) \/ LiquidateStep(payer)
  \/ \E a \in Account : SettleMaturedAssets(a)
  \/ Tick
  \/ MoveRate

Spec == Init /\ [][Next]_vars

-----------------------------------------------------------------------------
(* Invariants                                                              *)

(* test/testUtils.ts:126-150 for every currency and after every liquidation:
   the tokens held are what the balances and the matured, unsettled assets add
   up to.  The transfers are worked out from one estimate of the collateral,
   what is raised from the pools from another. *)
EscrowSolvent == \A c \in Currency : TokensCovered(ledger, c)

(* test/testUtils.ts:160-167 and 195-210: liquidations burn tokens out of the
   middle of a pool; its cash stays backed and its tokens stay accounted for. *)
MarketIntegrity ==
  \A c \in Currency :
    /\ PoolsBacked(ledger, c)
    /\ \A m \in Maturity : /\ TokensInPortfolios(ledger, c, m)
                           /\ now < m => Unsettled(ledger, c, m) = 0

-----------------------------------------------------------------------------
(* Action properties.  The amounts of a purchase come from the factors read   *)
(* before anything is traded; these say what the account is left with after.  *)

ViewFC(a) == FC(ledger, a)

Net(a, c) == NetAvailable(ledger, a, c, now)

SameTime == now' = now /\ rate' = rate

(* What truncation may cost: a unit of either currency, priced in ETH. *)
Dust == 1 + (Price(rate) * LOCAL_BUFFER) \div (RATE_DECIMALS * DECIMALS)

(* What a purchase can still take: _calculatePostfCashValue and the haircut. *)
Sellable(a) ==
  LET x == Case(ledger, a, now, rate)
  IN  ForSale(x) + HaircutOff(x.collateralClaim)

(* Escrow.sol:240-243, "the possibility that free collateral actually ends up in
   a worse position in the event of a third party settlement": no transaction of
   a third party lowers the free collateral of an account that still owes local
   currency afterwards, by more than truncation.  The discount is paid for by the
   buffer of the debt that is gone; so the premise is needed, an account with a
   cash debt and larger claims loses the discount. *)
PayingDebtKeepsCollateral ==
  [][\A p \in Payer :
       SameTime /\ Net(p, LocalCurrency)' <= 0 => ViewFC(p)' >= ViewFC(p) - Dust]_vars

(* Liquidation.sol:643-647, "remainder could put the account into a debt that it
   cannot pay off": collateral is sold on an estimate of what the liquidity
   tokens raise; the account is never left owing collateral by the sale. *)
CollateralNotOversold ==
  [][\A p \in Payer : SameTime => Net(p, ETH)' >= Min({Net(p, ETH), 0}) - 1]_vars

(* _settleCashBalance and settlefCash pay a debt and no more: liquidity tokens,
   collateral and receivers together never raise a balance above zero. *)
SettlementPaysOnlyTheDebt ==
  [][\A p \in Payer : cash'[LocalCurrency][p] > 0 => ~SettleStep(p)]_vars

(* Escrow.sol:852-853, a liquidation without a limit goes "up to the maximum
   allowed by the free collateral calculation": afterwards the account has no
   shortfall, or no local debt, or nothing left to sell, up to truncation.  One
   liquidation is enough. *)
LiquidationRestores ==
  [][\A p \in Payer, liquidator \in Liquidator :
       /\ SameTime /\ CanBeFactored(p) /\ FC(SettleGroups(ledger, p, now), p) < 0
       /\ ViewFC(p)' < -Dust
       /\ Net(p, LocalCurrency)' < -1
       /\ Sellable(p)' > 1
       => ~Liquidate(liquidator, p, 0)]_vars

(* ExchangeRate.sol:69, "the equivalent value in base": the local currency a
   liquidation looks for is worth the shortfall it was computed from. *)
ShortfallIsCovered ==
  \A p \in Payer :
    ViewFC(p) < 0 =>
      Price(rate) * (LocalShortfall(ViewFC(p), rate) + 1) >= -ViewFC(p) * RATE_DECIMALS
=============================================================================
