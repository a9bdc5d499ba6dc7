------------------------------ MODULE Notional ------------------------------
(***************************************************************************)
(* The transactions of Notional over one cash group: deposits and          *)
(* withdrawals (Escrow.sol), liquidity and trading (CashMarket.sol),       *)
(* transfers and minting (ERC1155Token.sol, ERC1155Trade.sol), settlement  *)
(* (Portfolios.sol) and the passing of time.                               *)
(*                                                                         *)
(* A transaction is atomic and the chain orders them, so one action is one *)
(* external call with every internal call it makes; a revert is a          *)
(* transaction that does not happen.  The price a trade gets from the rate *)
(* curve is left open within the bounds CashMarket enforces.               *)
(***************************************************************************)
EXTENDS Ledger

CONSTANTS
  Trader,           \* the accounts that send transactions to the markets
  Amount,           \* the amounts users put into calls
  Deposits,         \* Deposits[c]: the amounts deposited in currency c
  TRANSACTION_FEE,  \* G_TRANSACTION_FEE
  MAX_TRADE_SIZE,   \* G_MAX_TRADE_SIZE
  Rate,             \* the LOCAL/ETH rates the oracle may report
  MaxTime,          \* bound of the model: the last block time
  MaxHeld,          \* bound of the model: tokens ever held, per currency
  MaxNotional,      \* bound of the model: size of an fCash position or pool
  MaxLiquidity      \* bound of the model: liquidity tokens of a pool

ASSUME NotionalAssumption ==
  /\ Trader \subseteq Account
  /\ Amount \subseteq Nat
  /\ \A c \in Currency : Deposits[c] \subseteq Nat
  /\ TRANSACTION_FEE \in Nat /\ MAX_TRADE_SIZE \in Nat
  /\ Rate \subseteq Nat \ {0}
  /\ MaxTime \in Nat /\ MaxNotional \in Nat /\ MaxLiquidity \in Nat /\ MaxHeld \in [Currency -> Nat]

VARIABLES
  cash,       \* Escrow.cashBalances
  held,       \* what token.balanceOf(Escrow) returns
  portfolio,  \* Portfolios._accountAssets
  markets,    \* CashMarket.markets
  now,        \* block.timestamp
  rate        \* latestAnswer of the LOCAL/ETH oracle

ledgerVars == <<cash, held, portfolio, markets>>
vars == <<cash, held, portfolio, markets, now, rate>>

ledger == [cash |-> cash, held |-> held, portfolio |-> portfolio, markets |-> markets]

TypeOK ==
  /\ ledger \in LedgerType
  /\ now \in 0 .. MaxTime
  /\ rate \in Rate

Init ==
  /\ cash = [c \in Currency |-> [h \in Holder |-> 0]]
  /\ held = [c \in Currency |-> 0]
  /\ portfolio = [a \in Account |-> EmptyPortfolio]
  /\ markets = [m \in Maturity |-> EmptyMarket]
  /\ now = 0
  /\ rate \in Rate

-----------------------------------------------------------------------------
(* The bounds of the model: they cut behaviours off, they do not change them. *)
WithinBounds(s) ==
  /\ \A c \in Currency : s.held[c] <= MaxHeld[c]
  /\ \A m \in Maturity : /\ s.markets[m].totalfCash <= MaxNotional
                         /\ s.markets[m].totalLiquidity <= MaxLiquidity
  /\ \A a \in Account, m \in Maturity : s.portfolio[a].fCash[m] \in -MaxNotional .. MaxNotional

Commit(s) ==
  /\ WithinBounds(s)
  /\ cash' = s.cash
  /\ held' = s.held
  /\ portfolio' = s.portfolio
  /\ markets' = s.markets
  /\ UNCHANGED <<now, rate>>

(* freeCollateral(account) >= 0: settle what has matured, then value what is left. *)
Collateralized(s, a) ==
  /\ CanValueAccount(s, a, now)
  /\ AccountFC(s, a, now, rate) >= 0

(* Mutant of CommitIfCollateralized: the state before the call is checked. *)
CommitIfOnceCollateralized(s, a) ==
  /\ Collateralized(ledger, a)
  /\ CanSettle(s, a, now)
  /\ Commit(Settle(s, a, now))

CommitIfCollateralized(s, a) ==
  LET settled == Settle(s, a, now)
  IN  /\ CanSettle(s, a, now)
      /\ Collateralized(settled, a)
      /\ Commit(settled)

-----------------------------------------------------------------------------
(* Escrow.sol                                                              *)

(* deposit, depositEth: no check, nothing is settled. *)
Deposit(a, c, amount) ==
  Commit(MoveIn(ledger, a, c, amount))

(* withdraw: settles first, then gives what the balance allows, at most `amount'. *)
Withdraw(a, c, amount) ==
  LET settled == Settle(ledger, a, now)
      balance == settled.cash[c][a]
      taken == IF balance < amount THEN balance ELSE amount
      after == MoveIn(settled, a, c, -taken)
  IN  /\ CanSettle(ledger, a, now)
      /\ balance > 0
      /\ taken <= held[c]
      /\ Collateralized(after, a)
      /\ Commit(after)

(* withdrawEth: the balance must cover the amount before anything is settled. *)
WithdrawEth(a, amount) ==
  /\ amount <= cash[ETH][a]
  /\ amount <= held[ETH]
  /\ CommitIfCollateralized(MoveIn(ledger, a, ETH, -amount), a)

(* settleReserve: the reserve pays the debt of an account that has nothing left. *)
SettleReserve(a, c) ==
  LET settled == Settle(ledger, a, now)
      debt == -settled.cash[c][a]
      reserve == settled.cash[c][RESERVE_ACCOUNT]
      after == IF debt < reserve
                 THEN [[settled.cash[c] EXCEPT ![a] = 0] EXCEPT ![RESERVE_ACCOUNT] = reserve - debt]
                 ELSE [[settled.cash[c] EXCEPT ![a] = reserve - debt] EXCEPT ![RESERVE_ACCOUNT] = 0]
  IN  /\ CanSettle(ledger, a, now)
      /\ \A d \in Currency : settled.cash[d][a] <= 0
      /\ \A m \in Maturity : settled.portfolio[a].fCash[m] <= 0
      /\ settled.portfolio[a].listed = {}
      /\ debt > 0
      /\ Commit([settled EXCEPT !.cash[c] = after])

-----------------------------------------------------------------------------
(* CashMarket.sol                                                          *)

MaxMaturity == now - (now % MATURITY_LENGTH) + MATURITY_LENGTH * NUM_MATURITIES

(* _isValidBlock; maturities are multiples of MATURITY_LENGTH. *)
IsActive(m) == now < m /\ NUM_MATURITIES > 0 /\ m <= MaxMaturity

TransactionFee(amount, m) ==
  ((amount * TRANSACTION_FEE * (m - now)) \div MATURITY_LENGTH) \div DECIMALS

(* addLiquidity: the first provider sets the pool's fCash, later ones match
   the pool's proportion; the provider owes the fCash it adds. *)
AddLiquidity(a, m, amount, maxfCash) ==
  LET mk == markets[m]
      first == mk.totalLiquidity = 0
      tokens == IF first THEN amount ELSE Share(mk.totalLiquidity, amount, mk.totalCurrentCash)
      fCash == IF first THEN maxfCash ELSE Share(mk.totalfCash, amount, mk.totalCurrentCash)
      grown == [totalfCash       |-> IF first THEN maxfCash ELSE mk.totalfCash + fCash,
                totalLiquidity   |-> IF first THEN amount ELSE mk.totalLiquidity + tokens,
                totalCurrentCash |-> IF first THEN amount ELSE mk.totalCurrentCash + amount]
      pooled == DepositIntoMarket([ledger EXCEPT !.markets[m] = grown], a, amount, 0)
  IN  /\ IsActive(m)
      /\ IF first THEN amount > 0 /\ maxfCash > 0
                  ELSE mk.totalCurrentCash > 0 /\ fCash <= maxfCash
      /\ CanDepositIntoMarket(ledger, a, amount, 0)
      /\ CommitIfCollateralized(UpsertfCash(UpsertToken(pooled, a, m, tokens), a, m, -fCash), a)

(* removeLiquidity: tokens are burnt for their share of cash and fCash. *)
RemoveLiquidity(a, m, tokens) ==
  LET mk == markets[m]
      pooled == WithdrawFromMarket([ledger EXCEPT !.markets[m] = Redeem(mk, tokens)],
                                   a, CashShare(mk, tokens), 0)
  IN  /\ now < m
      /\ CanRedeem(mk, tokens)
      /\ CanWithdrawFromMarket(ledger, CashShare(mk, tokens), 0)
      /\ CanReduceToken(ledger, a, m, tokens)
      /\ CommitIfCollateralized(
           UpsertfCash(ReduceToken(pooled, a, m, tokens), a, m, fCashShare(mk, tokens)), a)

(* takeCurrentCash: borrow `amount' now for a debt of fCash at maturity.  The
   curve pays at most par and never the whole pool. *)
TakeCurrentCash(a, m, fCash, amount) ==
  LET mk == markets[m]
      fee == TransactionFee(amount, m)
      traded == [totalfCash       |-> mk.totalfCash + fCash,
                 totalLiquidity   |-> mk.totalLiquidity,
                 totalCurrentCash |-> mk.totalCurrentCash - amount]
      paid == WithdrawFromMarket([ledger EXCEPT !.markets[m] = traded], a, amount, fee)
  IN  /\ IsActive(m)
      /\ fCash <= MAX_TRADE_SIZE
      /\ 0 < fCash /\ fCash < mk.totalCurrentCash
      /\ 0 < amount /\ amount <= fCash
      /\ fee < amount
      /\ CanWithdrawFromMarket(ledger, amount, fee)
      /\ CommitIfCollateralized(UpsertfCash(paid, a, m, -fCash), a)

(* takefCash: lend `amount' now for fCash at maturity, at most par after the
   fee; the pool keeps some fCash. *)
TakefCash(a, m, fCash, amount) ==
  LET mk == markets[m]
      fee == TransactionFee(amount, m)
      traded == [totalfCash       |-> mk.totalfCash - fCash,
                 totalLiquidity   |-> mk.totalLiquidity,
                 totalCurrentCash |-> mk.totalCurrentCash + amount]
      paid == DepositIntoMarket([ledger EXCEPT !.markets[m] = traded], a, amount, fee)
  IN  /\ IsActive(m)
      /\ fCash <= MAX_TRADE_SIZE
      /\ 0 < fCash /\ fCash < mk.totalfCash
      /\ 0 < amount /\ amount + fee <= fCash
      /\ CanDepositIntoMarket(ledger, a, amount, fee)
      /\ CommitIfCollateralized(UpsertfCash(paid, a, m, fCash), a)

-----------------------------------------------------------------------------
(* ERC1155Token.sol, ERC1155Trade.sol                                      *)

(* safeTransferFrom of a cash receiver: only the sender is checked. *)
TransferfCash(from, to, m, value) ==
  /\ now < m
  /\ 0 < portfolio[from].fCash[m] /\ value <= portfolio[from].fCash[m]
  /\ CommitIfCollateralized(UpsertfCash(UpsertfCash(ledger, from, m, -value), to, m, value), from)

(* safeTransferFrom of a liquidity token; a value of zero is not refused. *)
TransferToken(from, to, m, value) ==
  /\ now < m
  /\ CanReduceToken(ledger, from, m, value)
  /\ CommitIfCollateralized(UpsertToken(ReduceToken(ledger, from, m, value), to, m, value), from)

(* mintfCashPair: a debt and the matching claim outside the pool; only the
   payer is checked. *)
MintfCashPair(payer, receiver, m, notional) ==
  /\ now < m /\ m <= MaxMaturity
  /\ CommitIfCollateralized(
       UpsertfCash(UpsertfCash(ledger, payer, m, -notional), receiver, m, notional), payer)

-----------------------------------------------------------------------------
(* Portfolios.sol                                                          *)

HasMatured(a) ==
  \E m \in Maturity : m <= now /\ (m \in portfolio[a].listed \/ portfolio[a].fCash[m] # 0)

(* settleMaturedAssets: anyone, for any account. *)
SettleMaturedAssets(a) ==
  /\ HasMatured(a)
  /\ CanSettle(ledger, a, now)
  /\ Commit(Settle(ledger, a, now))

-----------------------------------------------------------------------------
(* The environment: a later block, a new oracle answer.                    *)
Tick ==
  /\ now < MaxTime
  /\ now' = now + 1
  /\ UNCHANGED <<ledgerVars, rate>>

MoveRate ==
  /\ rate' \in Rate \ {rate}
  /\ UNCHANGED <<ledgerVars, now>>

EscrowNext ==
  \E a \in Trader :
    \/ \E c \in Currency : \E amount \in Deposits[c] : Deposit(a, c, amount)
    \/ \E c \in Currency, amount \in Amount : Withdraw(a, c, amount)
    \/ \E amount \in Amount : WithdrawEth(a, amount)

MarketNext ==
  \E a \in Trader, m \in Maturity, x \in Amount :
    \/ \E y \in Amount : AddLiquidity(a, m, x, y)
    \/ RemoveLiquidity(a, m, x)
    \/ \E y \in 1 .. x : TakeCurrentCash(a, m, x, y)
    \/ \E y \in 1 .. x : TakefCash(a, m, x, y)

TransferNext ==
  \E a \in Trader, b \in Account, m \in Maturity, x \in Amount :
    \/ TransferfCash(a, b, m, x)
    \/ TransferToken(a, b, m, x)
    \/ MintfCashPair(a, b, m, x)

SettleNext ==
  \E a \in Account :
    \/ SettleMaturedAssets(a)
    \/ \E c \in Currency : SettleReserve(a, c)

Next == EscrowNext \/ MarketNext \/ TransferNext \/ SettleNext \/ Tick \/ MoveRate

Spec == Init /\ [][Next]_vars
-----------------------------------------------------------------------------
(* Invariants                                                              *)

(* The cash a pool says it holds is in the market's Escrow balance: what
   test/testUtils.ts:160-167 compares after every test, here after every
   transaction.  Each call moves the two in different contracts. *)
PoolCashBacked ==
  cash[LocalCurrency][CASH_MARKET] = SumFunction([m \in Maturity |-> markets[m].totalCurrentCash])

(* Liquidity tokens in portfolios add up to the pool's supply
   (testUtils.ts:210): no entry is lost by a transfer, a merge or settlement. *)
TokensMatchSupply ==
  \A m \in Maturity :
    /\ SumFunction([a \in Account |-> portfolio[a].token[m]]) = markets[m].totalLiquidity
    /\ \A a \in Account : portfolio[a].token[m] > 0 => m \in portfolio[a].listed

(* What maturity m still owes to the cash balances: claims less debts, with
   the pool's own fCash on the side of the claims. *)
Unsettled(m) ==
  SumFunction([a \in Account |-> portfolio[a].fCash[m]]) + markets[m].totalfCash

(* "Cash must always net out to zero" (testUtils.ts:204-208): until maturity,
   every claim to future cash is somebody's debt. *)
fCashNetsToZero == \A m \in Maturity : now < m => Unsettled(m) = 0

(* The tokens the Escrow holds are exactly what the balances and the matured,
   unsettled assets add up to: testUtils.ts:126-150 without first settling
   every account, so at any point of a partly settled maturity. *)
EscrowSolvent ==
  \A c \in Currency :
    held[c] = SumFunction(cash[c])
                + IF c = LocalCurrency THEN SumFunction([m \in Maturity |-> Unsettled(m)]) ELSE 0

(* A pool with suppliers has both cash and fCash, one without has neither:
   trades, withdrawals and settlement in any order never strand a pool or
   leave value in it that no token claims. *)
PoolAlive ==
  \A m \in Maturity :
    /\ (markets[m].totalLiquidity = 0) <=> (markets[m].totalCurrentCash = 0)
    /\ (markets[m].totalLiquidity = 0) <=> (markets[m].totalfCash = 0)

(* Every account whose liquidity token entries are all worth something can be
   settled, whoever else settled before it ("anyone may settle the assets in
   any account", Portfolios.sol:570-575). *)
HoldersCanSettle ==
  \A a \in Account :
    (\A m \in portfolio[a].listed : portfolio[a].token[m] > 0) => CanSettle(ledger, a, now)

(* What the same comment says without that condition.  An entry of zero
   tokens, which addLiquidity writes when the provider's share rounds to
   zero, divides by the supply of a pool that may be empty by then. *)
AnyoneMaySettle == \A a \in Account : CanSettle(ledger, a, now)

-----------------------------------------------------------------------------
(* Action properties                                                       *)

FC(a) == AccountFC(ledger, a, now, rate)
Valued(a) == CanValueAccount(ledger, a, now)

(* "An account's free collateral position will remain unchanged after
   settlement" (Escrow.sol:648-651), of the settled account; settling one
   account never lowers the collateral of another that shares its pool. *)
SettlementKeepsCollateral ==
  [][\A a \in Account :
       SettleMaturedAssets(a) =>
         /\ Valued(a) => Valued(a)' /\ FC(a)' = FC(a)
         /\ \A b \in Account : Valued(b) /\ Valued(b)' => FC(b)' >= FC(b)]_vars

(* What the collateral of b depends on changes in a step in which no pool
   trades and nothing enters or leaves the Escrow: cheaper to evaluate than
   the transfers, of which all this is true or which are nothing to b. *)
TouchedWithoutTrade(b) ==
  /\ <<portfolio[b], markets, cash>>' # <<portfolio[b], markets, cash>>
  /\ <<held, now, rate>>' = <<held, now, rate>>
  /\ \A m \in Maturity : now < m => markets'[m] = markets[m]

(* Transfers and mints add value to the receiver: "Their free collateral
   position will always increase" (Portfolios.sol:497-498, 564-565), the
   reason it is not checked. *)
Receives(b) ==
  \E a \in Trader \ {b}, m \in Maturity, x \in Amount :
    TransferfCash(a, b, m, x) \/ TransferToken(a, b, m, x) \/ MintfCashPair(a, b, m, x)

ReceiverNeverWorseOff ==
  [][\A b \in Account :
       TouchedWithoutTrade(b) /\ Valued(b) /\ Valued(b)' /\ FC(b)' < FC(b)
         => ~Receives(b)]_vars

(* Entering, leaving and settling round against whoever does it: the cash
   behind one token of a pool never falls except by trading. *)
TokenCashNeverDiluted ==
  [][\A m \in Maturity :
       LET old == markets[m]
           new == markets'[m]
       IN  old.totalLiquidity > 0 /\ new.totalLiquidity > 0 /\ old.totalLiquidity # new.totalLiquidity
             => new.totalCurrentCash * old.totalLiquidity >= old.totalCurrentCash * new.totalLiquidity]_vars

(* A collateralized account falls below zero only when the rate moves or a
   pool it supplies trades: its own calls are checked, nobody else's call
   takes from it, and time only adds value. *)
CollateralLostOnlyToMarkets ==
  [][\A a \in Account :
       rate' = rate /\ (\A m \in portfolio[a].listed : markets'[m] = markets[m])
         /\ Valued(a) /\ Valued(a)' /\ FC(a)' < 0 => FC(a) < 0]_vars
=============================================================================
