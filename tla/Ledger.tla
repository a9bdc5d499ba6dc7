------------------------------- MODULE Ledger -------------------------------
(***************************************************************************)
(* The internal functions of Escrow.sol, CashMarket.sol and Portfolios.sol *)
(* that transactions are put together from, as pure operators on the       *)
(* ledger: the storage of the three contracts that moves when assets and   *)
(* cash move.                                                              *)
(*                                                                         *)
(*   cash      Escrow.cashBalances: per currency and holder; accounts, the *)
(*             reserve and the market contract itself are holders          *)
(*   held      the tokens the Escrow contract really owns, per currency    *)
(*   portfolio Portfolios._accountAssets, read as positions                *)
(*   markets   CashMarket.markets, per maturity                            *)
(*                                                                         *)
(* An operator named CanX holds when X does not revert.                    *)
(***************************************************************************)
EXTENDS RiskFramework

CONSTANTS
  Account,          \* everyone who may hold a balance or a portfolio, the reserve included
  RESERVE_ACCOUNT,  \* G_RESERVE_ACCOUNT, where transaction fees go
  CASH_MARKET       \* the CashMarket contract as a holder of cash

ASSUME LedgerAssumption ==
  /\ IsFiniteSet(Account)
  /\ RESERVE_ACCOUNT \in Account
  /\ CASH_MARKET \notin Account

Holder == Account \cup {CASH_MARKET}

LedgerType == [cash : [Currency -> [Holder -> Int]],
               held : [Currency -> Nat],
               portfolio : [Account -> Portfolio],
               markets : [Maturity -> Market]]

EmptyMarket == [totalfCash |-> 0, totalLiquidity |-> 0, totalCurrentCash |-> 0]

-----------------------------------------------------------------------------
(* Escrow.sol                                                              *)

Credit(balance, h, amount) == [balance EXCEPT ![h] = @ + amount]

(* Tokens come in with a deposit (amount > 0) or go out with a withdrawal:
   the Escrow's token balance and the account's move together. *)
MoveIn(s, a, c, amount) ==
  [cash      |-> [s.cash EXCEPT ![c] = Credit(@, a, amount)],
   held      |-> [s.held EXCEPT ![c] = @ + amount],
   portfolio |-> s.portfolio,
   markets   |-> s.markets]

(* depositIntoMarket: the fee and the value come out of the account. *)
DepositIntoMarket(s, a, value, fee) ==
  [s EXCEPT !.cash[LocalCurrency] =
     Credit(Credit(Credit(@, RESERVE_ACCOUNT, fee), CASH_MARKET, value), a, -(value + fee))]

CanDepositIntoMarket(s, a, value, fee) ==
  DepositIntoMarket(s, a, value, fee).cash[LocalCurrency][a] >= 0

(* withdrawFromMarket: the fee stays out of what the account receives. *)
WithdrawFromMarket(s, a, value, fee) ==
  [s EXCEPT !.cash[LocalCurrency] =
     Credit(Credit(Credit(@, RESERVE_ACCOUNT, fee), a, value - fee), CASH_MARKET, -value)]

CanWithdrawFromMarket(s, value, fee) ==
  fee <= value /\ value <= s.cash[LocalCurrency][CASH_MARKET]

-----------------------------------------------------------------------------
(* CashMarket.sol                                                          *)

(* Mutants of CashShare and fCashShare: rounded up. *)
CashShareUp(mk, tokens) ==
  (mk.totalCurrentCash * tokens + mk.totalLiquidity - 1) \div mk.totalLiquidity
fCashShareUp(mk, tokens) ==
  (mk.totalfCash * tokens + mk.totalLiquidity - 1) \div mk.totalLiquidity

(* _settleLiquidityToken, and the same arithmetic in _removeLiquidity: tokens
   take their share of the pool and are burnt. *)
CashShare(mk, tokens) == Share(mk.totalCurrentCash, tokens, mk.totalLiquidity)
fCashShare(mk, tokens) == Share(mk.totalfCash, tokens, mk.totalLiquidity)

(* Mutant of Redeem: the pool forgets to write off the cash. *)
RedeemKeepsCash(mk, tokens) ==
  [mk EXCEPT !.totalfCash = @ - fCashShare(mk, tokens), !.totalLiquidity = @ - tokens]

Redeem(mk, tokens) ==
  [totalfCash       |-> mk.totalfCash - fCashShare(mk, tokens),
   totalLiquidity   |-> mk.totalLiquidity - tokens,
   totalCurrentCash |-> mk.totalCurrentCash - CashShare(mk, tokens)]

CanRedeem(mk, tokens) == mk.totalLiquidity > 0 /\ tokens <= mk.totalLiquidity

-----------------------------------------------------------------------------
(* Portfolios.sol                                                          *)

UpsertfCash(s, a, m, n) == [s EXCEPT !.portfolio[a] = AddfCash(@, m, n)]

UpsertToken(s, a, m, n) == [s EXCEPT !.portfolio[a] = AddToken(@, m, n)]

ReduceToken(s, a, m, n) == [s EXCEPT !.portfolio[a] = TakeToken(@, m, n)]

CanReduceToken(s, a, m, n) == CanTakeToken(s.portfolio[a], m, n)

(* _settleMaturedAssets: every matured asset of the account becomes cash, in
   one transaction; its liquidity tokens are redeemed from their pools. *)
MaturedTokens(s, a, t) == {m \in s.portfolio[a].listed : m <= t}

RedeemedAt(s, a, t, m) ==
  IF m \in MaturedTokens(s, a, t) THEN CashShare(s.markets[m], s.portfolio[a].token[m]) ELSE 0

(* Mutant of SettledAt: a liquidity token settles to its cash only. *)
SettledAtWithoutClaim(s, a, t, m) == IF m > t THEN 0 ELSE s.portfolio[a].fCash[m]

SettledAt(s, a, t, m) ==
  IF m > t THEN 0
  ELSE s.portfolio[a].fCash[m]
         + IF m \in s.portfolio[a].listed
             THEN fCashShare(s.markets[m], s.portfolio[a].token[m])
             ELSE 0

RedeemedCash(s, a, t) == SumFunction([m \in Maturity |-> RedeemedAt(s, a, t, m)])

SettledCash(s, a, t) == SumFunction([m \in Maturity |-> SettledAt(s, a, t, m)])

Settle(s, a, t) ==
  [cash |-> [s.cash EXCEPT ![LocalCurrency] =
       Credit(Credit(@, CASH_MARKET, -RedeemedCash(s, a, t)),
              a, RedeemedCash(s, a, t) + SettledCash(s, a, t))],
   held |-> s.held,
   portfolio |-> [s.portfolio EXCEPT ![a] = Unmatured(@, t)],
   markets |-> [m \in Maturity |->
       IF m \in MaturedTokens(s, a, t) THEN Redeem(s.markets[m], s.portfolio[a].token[m])
                                       ELSE s.markets[m]]]

CanSettle(s, a, t) ==
  /\ \A m \in MaturedTokens(s, a, t) : CanRedeem(s.markets[m], s.portfolio[a].token[m])
  /\ RedeemedCash(s, a, t) <= s.cash[LocalCurrency][CASH_MARKET]

-----------------------------------------------------------------------------
(* freeCollateralView of an account, and when it returns. *)
AccountFC(s, a, t, rate) ==
  FreeCollateral([c \in Currency |-> s.cash[c][a]], s.portfolio[a], s.markets, t, rate)

CanValueAccount(s, a, t) == CanValue(s.portfolio[a], s.markets, t)
=============================================================================
