--------------------------- MODULE NotionalProofs ---------------------------
(***************************************************************************)
(* The invariants and action properties of Notional, for every value of    *)
(* its constants.                                                          *)
(*                                                                         *)
(* The inductive invariant has two parts.  Sound(ledger, now) of           *)
(* LedgerProofs.tla: the totals that two contracts keep of the same thing  *)
(* agree; every call is a balanced change of the ledger followed by a      *)
(* settlement, and both preserve it.  Whole(ledger): the Escrow's tokens   *)
(* cover its debts; it needs the reserve never to be in debt itself, which *)
(* holds as long as every call is at its caller's own expense.             *)
(*                                                                         *)
(* About free collateral every call is compared with an order on ledgers:  *)
(* for whoever does not make the call the ledger it leaves is Better, or   *)
(* at least NoWorse, position by position (LedgerProofs.tla).              *)
(***************************************************************************)
EXTENDS Notional, LedgerProofs

(* What the Escrow holds covers what it owes, as long as nobody acts for the
   reserve: settleReserve pays a debt OF the reserve out of nothing. *)
Whole(s) == RESERVE_ACCOUNT \notin Trader => Solvent(s) /\ InCredit(s, RESERVE_ACCOUNT)

IInv ==
  /\ Sound(ledger, now)
  /\ Whole(ledger)
  /\ now \in 0 .. MaxTime
  /\ rate \in Rate

(* r is s after a call that balances, at the expense of its caller a. *)
OwnExpense(s, r, a) ==
  /\ Balanced(s, r)
  /\ a # RESERVE_ACCOUNT => Gains(s, r, RESERVE_ACCOUNT)

-----------------------------------------------------------------------------
(* How a transaction ends.                                                 *)

LEMMA OwnExpenseKeeps ==
  ASSUME NEW s, NEW r, NEW a \in Trader, NEW t, Sound(s, t), Whole(s), OwnExpense(s, r, a)
  PROVE  Sound(r, t) /\ Whole(r)
<1>1. /\ s \in LedgerType /\ r \in LedgerType /\ Balanced(s, r) /\ Kept(s, r)
      /\ RESERVE_ACCOUNT \in Account
  BY LedgerAssumption DEF Sound, OwnExpense, Balanced, Kept
<1>2. Sound(r, t)
  BY <1>1, KeptSound
<1>3. ASSUME RESERVE_ACCOUNT \notin Trader PROVE Solvent(r) /\ InCredit(r, RESERVE_ACCOUNT)
  <2>1. Solvent(s) /\ InCredit(s, RESERVE_ACCOUNT) /\ Gains(s, r, RESERVE_ACCOUNT)
    BY <1>3 DEF Whole, OwnExpense
  <2>2. Solvent(r)
    BY <1>1, <2>1, BalancedSolvent
  <2>3. InCredit(r, RESERVE_ACCOUNT)
    BY <1>1, <2>1, GainsInCredit
  <2> QED BY <2>2, <2>3
<1> QED BY <1>2, <1>3 DEF Whole

LEMMA SettleKeeps ==
  ASSUME NEW s, NEW a \in Account, NEW t \in Int, Sound(s, t), Whole(s), CanSettle(s, a, t)
  PROVE  Sound(Settle(s, a, t), t) /\ Whole(Settle(s, a, t))
<1>1. Sound(Settle(s, a, t), t)
  BY SettleSound
<1>2. s \in LedgerType /\ TokensListed(s) /\ RESERVE_ACCOUNT \in Account
  BY LedgerAssumption DEF Sound
<1>3. ASSUME RESERVE_ACCOUNT \notin Trader
      PROVE  Solvent(Settle(s, a, t)) /\ InCredit(Settle(s, a, t), RESERVE_ACCOUNT)
  BY <1>2, <1>3, SettleSolvent, SettleInCredit DEF Whole
<1> QED BY <1>1, <1>3 DEF Whole

LEMMA CommitKeeps ==
  ASSUME IInv, NEW s, Sound(s, now), Whole(s), Commit(s)
  PROVE  IInv'
<1>1. s \in LedgerType
  BY DEF Sound
<1>2. s = [cash |-> s.cash, held |-> s.held, portfolio |-> s.portfolio, markets |-> s.markets]
  BY <1>1 DEF LedgerType
<1>3. ledger' = s
  BY <1>2 DEF Commit, ledger
<1>4. now' = now /\ rate' = rate
  BY DEF Commit
<1> QED BY <1>3, <1>4 DEF IInv

LEMMA CommitIfCollateralizedKeeps ==
  ASSUME IInv, NEW s, NEW a \in Trader, OwnExpense(ledger, s, a), CommitIfCollateralized(s, a)
  PROVE  IInv'
<1>1. Sound(ledger, now) /\ Whole(ledger) /\ now \in Int
  BY DEF IInv
<1>2. a \in Account
  BY NotionalAssumption
<1>3. Sound(s, now) /\ Whole(s)
  BY <1>1, OwnExpenseKeeps
<1>4. CanSettle(s, a, now) /\ Commit(Settle(s, a, now))
  BY DEF CommitIfCollateralized
<1>5. Sound(Settle(s, a, now), now) /\ Whole(Settle(s, a, now))
  BY <1>1, <1>2, <1>3, <1>4, SettleKeeps
<1> QED BY <1>4, <1>5, CommitKeeps

LEMMA PoolsAlive ==
  ASSUME IInv, NEW m \in Maturity
  PROVE  /\ ledger \in LedgerType
         /\ markets[m] = ledger.markets[m]
         /\ markets[m] \in Market
         /\ markets[m].totalfCash \in Nat
         /\ markets[m].totalLiquidity \in Nat
         /\ markets[m].totalCurrentCash \in Nat
         /\ Alive(markets[m])
<1>1. ledger \in LedgerType /\ markets[m] = ledger.markets[m] /\ Alive(markets[m])
  BY DEF IInv, Sound, ledger
<1> QED BY <1>1, PoolTotals

LEMMA FeeNat ==
  ASSUME IInv, NEW amount \in Nat, NEW m \in Maturity, now < m
  PROVE  TransactionFee(amount, m) \in Nat
<1> DEFINE x == amount * TRANSACTION_FEE
           y == x * (m - now)
<1>1. /\ now \in Int /\ m \in Int /\ TRANSACTION_FEE \in Nat
      /\ MATURITY_LENGTH \in Nat \ {0} /\ DECIMALS \in Nat \ {0}
  BY RiskAssumption, NotionalAssumption DEF IInv
<1>2. x \in Nat /\ m - now \in Nat
  BY <1>1
<1> HIDE DEF x
<1>3. y \in Nat
  BY <1>2
<1> HIDE DEF y
<1>4. (y \div MATURITY_LENGTH) \in Nat
  BY <1>1, <1>3
<1>5. (y \div MATURITY_LENGTH) \div DECIMALS \in Nat
  BY <1>1, <1>4
<1> QED BY <1>5 DEF TransactionFee, x, y

-----------------------------------------------------------------------------
(* Escrow.sol                                                              *)

LEMMA DepositKeeps ==
  ASSUME IInv, NEW a \in Trader, NEW c \in Currency, NEW amount \in Nat, Deposit(a, c, amount)
  PROVE  IInv'
<1> DEFINE s == MoveIn(ledger, a, c, amount)
<1>1. /\ ledger \in LedgerType /\ Sound(ledger, now) /\ Whole(ledger)
      /\ a \in Account /\ RESERVE_ACCOUNT \in Account
  BY NotionalAssumption, LedgerAssumption DEF IInv, Sound
<1>2. ledger.held[c] + amount \in Nat
  BY <1>1 DEF LedgerType
<1>3. OwnExpense(ledger, s, a)
  BY <1>1, <1>2, MoveInBalanced, MoveInGains DEF OwnExpense
<1> HIDE DEF s
<1>4. Sound(s, now) /\ Whole(s)
  BY <1>1, <1>3, OwnExpenseKeeps
<1> QED BY <1>4, CommitKeeps DEF Deposit, s

LEMMA WithdrawKeeps ==
  ASSUME IInv, NEW a \in Trader, NEW c \in Currency, NEW amount \in Nat, Withdraw(a, c, amount)
  PROVE  IInv'
<1> DEFINE settled == Settle(ledger, a, now)
           balance == settled.cash[c][a]
           taken == IF balance < amount THEN balance ELSE amount
           after == MoveIn(settled, a, c, -taken)
<1>1. /\ CanSettle(ledger, a, now) /\ balance > 0 /\ taken <= held[c] /\ Commit(after)
  BY DEF Withdraw
<1>2. /\ Sound(ledger, now) /\ Whole(ledger) /\ now \in Int
      /\ a \in Account /\ RESERVE_ACCOUNT \in Account
  BY NotionalAssumption, LedgerAssumption DEF IInv
<1>3. Sound(settled, now) /\ Whole(settled)
  BY <1>1, <1>2, SettleKeeps
<1>4. settled \in LedgerType /\ settled.held[c] = held[c]
  <2>1. settled.held = held
    BY DEF Settle, ledger
  <2> QED BY <1>3, <2>1 DEF Sound
<1> HIDE DEF settled
<1>5. balance \in Int /\ settled.held[c] \in Nat
  BY <1>2, <1>4 DEF LedgerType, Holder
<1> HIDE DEF balance
<1>6. -taken \in Int /\ settled.held[c] + (-taken) \in Nat
  BY <1>1, <1>4, <1>5
<1> HIDE DEF taken
<1>7. OwnExpense(settled, after, a)
  BY <1>2, <1>4, <1>6, MoveInBalanced, MoveInGains DEF OwnExpense
<1> HIDE DEF after
<1>8. Sound(after, now) /\ Whole(after)
  BY <1>3, <1>7, OwnExpenseKeeps
<1> QED BY <1>1, <1>8, CommitKeeps

LEMMA WithdrawEthKeeps ==
  ASSUME IInv, NEW a \in Trader, NEW amount \in Nat, WithdrawEth(a, amount)
  PROVE  IInv'
<1> DEFINE s == MoveIn(ledger, a, ETH, -amount)
<1>1. /\ ledger \in LedgerType /\ ETH \in Currency /\ ledger.held[ETH] = held[ETH]
      /\ a \in Account /\ RESERVE_ACCOUNT \in Account
  BY NotionalAssumption, LedgerAssumption DEF IInv, Sound, Currency, ledger
<1>2. amount <= held[ETH] /\ CommitIfCollateralized(s, a)
  BY DEF WithdrawEth
<1>3. -amount \in Int /\ ledger.held[ETH] + (-amount) \in Nat
  BY <1>1, <1>2 DEF LedgerType
<1>4. OwnExpense(ledger, s, a)
  BY <1>1, <1>3, MoveInBalanced, MoveInGains DEF OwnExpense
<1> HIDE DEF s
<1> QED BY <1>2, <1>4, CommitIfCollateralizedKeeps

(* The reserve pays no more than it has, and not its own debts: those it
   cannot have. *)
LEMMA SettleReserveKeeps ==
  ASSUME IInv, NEW a \in Account, NEW c \in Currency, SettleReserve(a, c)
  PROVE  IInv'
<1> DEFINE settled == Settle(ledger, a, now)
           b == settled.cash[c]
           debt == -b[a]
           reserve == b[RESERVE_ACCOUNT]
           after == IF debt < reserve
                      THEN [[b EXCEPT ![a] = 0] EXCEPT ![RESERVE_ACCOUNT] = reserve - debt]
                      ELSE [[b EXCEPT ![a] = reserve - debt] EXCEPT ![RESERVE_ACCOUNT] = 0]
           r == [settled EXCEPT !.cash[c] = after]
<1>1. CanSettle(ledger, a, now) /\ debt > 0 /\ Commit(r)
  BY DEF SettleReserve
<1>2. Sound(ledger, now) /\ Whole(ledger) /\ now \in Int
  BY DEF IInv
<1>3. Sound(settled, now) /\ Whole(settled)
  BY <1>1, <1>2, SettleKeeps
<1> HIDE DEF settled
<1>4. settled \in LedgerType
  BY <1>3 DEF Sound
<1>5. /\ b \in [Holder -> Int] /\ a \in Holder /\ RESERVE_ACCOUNT \in Holder
      /\ CASH_MARKET \in Holder /\ a # CASH_MARKET /\ RESERVE_ACCOUNT # CASH_MARKET
  BY <1>4, LedgerAssumption DEF LedgerType, Holder
<1> HIDE DEF b
<1>6. after \in [Holder -> Int] /\ after[CASH_MARKET] = b[CASH_MARKET]
  BY <1>5
<1>7. ASSUME b[RESERVE_ACCOUNT] >= 0
      PROVE  after[RESERVE_ACCOUNT] >= 0 /\ SumFunction(after) = SumFunction(b)
  <2>1. a # RESERVE_ACCOUNT /\ b[a] \in Int /\ b[RESERVE_ACCOUNT] \in Int
    BY <1>1, <1>5, <1>7
  <2>2. IsFiniteSet(Holder)
    BY LedgerAssumption, FS_AddElement DEF Holder
  <2>3. SumFunction(b) \in Int
    BY <1>5, <2>2, SumInt
  <2>4. ASSUME NEW x \in Int, NEW y \in Int, x + y = b[a] + b[RESERVE_ACCOUNT]
        PROVE  SumFunction([[b EXCEPT ![a] = x] EXCEPT ![RESERVE_ACCOUNT] = y]) = SumFunction(b)
    <3> DEFINE b1 == [b EXCEPT ![a] = x]
               b2 == [b1 EXCEPT ![RESERVE_ACCOUNT] = y]
    <3>1. b1 \in [Holder -> Int] /\ b1[RESERVE_ACCOUNT] = b[RESERVE_ACCOUNT]
      BY <1>5, <2>1
    <3>2. SumFunction(b1) = SumFunction(b) + x - b[a]
      BY <1>5, <2>2, SumUpdate
    <3> HIDE DEF b1
    <3>3. SumFunction(b2) = SumFunction(b1) + y - b1[RESERVE_ACCOUNT]
      BY <1>5, <2>2, <3>1, SumUpdate
    <3> HIDE DEF b2
    <3>4. SumFunction(b2) = SumFunction(b)
      BY <2>1, <2>3, <2>4, <3>1, <3>2, <3>3
    <3> QED BY <3>4 DEF b1, b2
  <2>5. CASE debt < reserve
    <3>1. SumFunction(after) = SumFunction(b)
      <4>1. 0 \in Int /\ reserve - debt \in Int /\ 0 + (reserve - debt) = b[a] + b[RESERVE_ACCOUNT]
        BY <2>1
      <4> QED BY <2>4, <2>5, <4>1
    <3>2. after[RESERVE_ACCOUNT] = reserve - debt
      BY <1>5, <2>5
    <3> QED BY <2>1, <2>5, <3>1, <3>2
  <2>6. CASE ~ (debt < reserve)
    <3>1. SumFunction(after) = SumFunction(b)
      <4>1. 0 \in Int /\ reserve - debt \in Int /\ (reserve - debt) + 0 = b[a] + b[RESERVE_ACCOUNT]
        BY <2>1
      <4> QED BY <2>4, <2>6, <4>1
    <3>2. after[RESERVE_ACCOUNT] = 0
      BY <1>5, <2>6
    <3> QED BY <3>1, <3>2
  <2> QED BY <2>5, <2>6
<1> HIDE DEF after
<1>8. /\ r \in LedgerType /\ r.cash[c] = after
      /\ \A d \in Currency : d # c => r.cash[d] = settled.cash[d]
      /\ r.held = settled.held /\ r.portfolio = settled.portfolio /\ r.markets = settled.markets
  <2>1. after \in [Holder -> Int]
    BY <1>6
  <2> QED BY <1>4, <2>1, BalancesReplaced, ZenonT(60)
<1> HIDE DEF r
<1>9. Kept(settled, r)
  BY <1>4, <1>6, <1>8, BalancesKept DEF b
<1>10. Sound(r, now)
  BY <1>3, <1>9, KeptSound
<1>11. ASSUME RESERVE_ACCOUNT \notin Trader PROVE Solvent(r) /\ InCredit(r, RESERVE_ACCOUNT)
  <2>1. Solvent(settled) /\ InCredit(settled, RESERVE_ACCOUNT)
    BY <1>3, <1>11 DEF Whole
  <2>2. after[RESERVE_ACCOUNT] >= 0 /\ SumFunction(after) = SumFunction(b)
    BY <1>7, <2>1 DEF InCredit, b
  <2>3. Balanced(settled, r)
    <3>1. \A d \in Currency : SumFunction(r.cash[d]) = SumFunction(settled.cash[d])
      BY <1>8, <2>2 DEF b
    <3> QED BY <1>8, <1>9, <3>1 DEF Balanced
  <2>4. Solvent(r)
    BY <1>4, <2>1, <2>3, BalancedSolvent
  <2>5. InCredit(r, RESERVE_ACCOUNT)
    BY <1>8, <2>1, <2>2 DEF InCredit
  <2> QED BY <2>4, <2>5
<1> QED BY <1>1, <1>10, <1>11, CommitKeeps DEF Whole

-----------------------------------------------------------------------------
(* Transfers and mints move positions between accounts.                    *)

(* The caller's position falls, the other's does not. *)
LEMMA MovefCashOwnExpense ==
  ASSUME IInv, NEW from \in Trader, NEW to \in Account, NEW m \in Maturity, NEW value \in Nat
  PROVE  OwnExpense(ledger, UpsertfCash(UpsertfCash(ledger, from, m, -value), to, m, value), from)
<1> DEFINE u == UpsertfCash(ledger, from, m, -value)
           s == UpsertfCash(u, to, m, value)
<1>1. ledger \in LedgerType /\ from \in Account /\ RESERVE_ACCOUNT \in Account
  BY NotionalAssumption, LedgerAssumption DEF IInv, Sound
<1>2. -value \in Int /\ value \in Int /\ value >= 0
  OBVIOUS
<1>3. Balanced(ledger, s)
  BY <1>1, <1>2, MovefCashBalanced
<1>4. u \in LedgerType
  BY <1>1, <1>2, UpsertfCashEffect
<1>5. ASSUME from # RESERVE_ACCOUNT PROVE Gains(ledger, u, RESERVE_ACCOUNT)
  BY <1>1, <1>2, <1>5, UpsertfCashGains
<1> HIDE DEF u
<1>6. s \in LedgerType /\ Gains(u, s, RESERVE_ACCOUNT)
  BY <1>1, <1>2, <1>4, UpsertfCashEffect, UpsertfCashGains
<1> HIDE DEF s
<1>7. from # RESERVE_ACCOUNT => Gains(ledger, s, RESERVE_ACCOUNT)
  BY <1>1, <1>4, <1>5, <1>6, GainsTransitive
<1>8. OwnExpense(ledger, s, from)
  BY <1>3, <1>7 DEF OwnExpense
<1> QED BY <1>8 DEF s, u

LEMMA TransferfCashKeeps ==
  ASSUME IInv, NEW from \in Trader, NEW to \in Account, NEW m \in Maturity, NEW value \in Nat,
         TransferfCash(from, to, m, value)
  PROVE  IInv'
<1> DEFINE s == UpsertfCash(UpsertfCash(ledger, from, m, -value), to, m, value)
<1>1. OwnExpense(ledger, s, from)
  BY MovefCashOwnExpense
<1>2. CommitIfCollateralized(s, from)
  BY DEF TransferfCash
<1> HIDE DEF s
<1> QED BY <1>1, <1>2, CommitIfCollateralizedKeeps

LEMMA MintfCashPairKeeps ==
  ASSUME IInv, NEW payer \in Trader, NEW receiver \in Account, NEW m \in Maturity, NEW notional \in Nat,
         MintfCashPair(payer, receiver, m, notional)
  PROVE  IInv'
<1> DEFINE s == UpsertfCash(UpsertfCash(ledger, payer, m, -notional), receiver, m, notional)
<1>1. OwnExpense(ledger, s, payer)
  BY MovefCashOwnExpense
<1>2. CommitIfCollateralized(s, payer)
  BY DEF MintfCashPair
<1> HIDE DEF s
<1> QED BY <1>1, <1>2, CommitIfCollateralizedKeeps

LEMMA TransferTokenKeeps ==
  ASSUME IInv, NEW from \in Trader, NEW to \in Account, NEW m \in Maturity, NEW value \in Nat,
         TransferToken(from, to, m, value)
  PROVE  IInv'
<1> DEFINE u == ReduceToken(ledger, from, m, value)
           s == UpsertToken(u, to, m, value)
<1>1. ledger \in LedgerType /\ from \in Account /\ RESERVE_ACCOUNT \in Account
  BY NotionalAssumption, LedgerAssumption DEF IInv, Sound
<1>2. CanReduceToken(ledger, from, m, value) /\ CommitIfCollateralized(s, from)
  BY DEF TransferToken
<1>3. Balanced(ledger, s)
  BY <1>1, <1>2, MoveTokenBalanced
<1>4. u \in LedgerType /\ Gains(ledger, u, RESERVE_ACCOUNT)
  BY <1>1, <1>2, ReduceTokenEffect, TokenGains
<1> HIDE DEF u
<1>5. s \in LedgerType /\ Gains(u, s, RESERVE_ACCOUNT)
  BY <1>1, <1>4, UpsertTokenEffect, TokenGains
<1> HIDE DEF s
<1>6. Gains(ledger, s, RESERVE_ACCOUNT)
  BY <1>1, <1>4, <1>5, GainsTransitive
<1> QED BY <1>2, <1>3, <1>6, CommitIfCollateralizedKeeps DEF OwnExpense

-----------------------------------------------------------------------------
(* Settlement and the environment.                                         *)

LEMMA SettleMaturedAssetsKeeps ==
  ASSUME IInv, NEW a \in Account, SettleMaturedAssets(a)
  PROVE  IInv'
<1>1. Sound(ledger, now) /\ Whole(ledger) /\ now \in Int
  BY DEF IInv
<1>2. CanSettle(ledger, a, now) /\ Commit(Settle(ledger, a, now))
  BY DEF SettleMaturedAssets
<1>3. Sound(Settle(ledger, a, now), now) /\ Whole(Settle(ledger, a, now))
  BY <1>1, <1>2, SettleKeeps
<1> QED BY <1>2, <1>3, CommitKeeps

(* Time only lets go of the balance of a maturity. *)
LEMMA EnvironmentKeeps ==
  ASSUME IInv, Tick \/ MoveRate
  PROVE  IInv'
<1>1. ledger' = ledger
  BY DEF Tick, MoveRate, ledgerVars, ledger
<1>2. /\ now \in 0 .. MaxTime /\ MaxTime \in Nat
      /\ now' \in 0 .. MaxTime /\ now <= now' /\ rate' \in Rate
  BY NotionalAssumption DEF Tick, MoveRate, ledgerVars, IInv
<1>3. \A m \in Maturity : now' < m => now < m
  <2>1. Maturity \subseteq Int
    BY RiskAssumption
  <2> QED BY <1>2, <2>1
<1>4. Sound(ledger, now')
  BY <1>3 DEF IInv, Sound
<1> QED BY <1>1, <1>2, <1>4 DEF IInv

-----------------------------------------------------------------------------
(* CashMarket.sol.  In each: the pool that results is a pool, it has        *)
(* suppliers exactly when it has cash and fCash, and the caller's position  *)
(* changes by what the pool's did.                                          *)

LEMMA AddLiquidityKeeps ==
  ASSUME IInv, NEW a \in Trader, NEW m \in Maturity, NEW amount \in Nat, NEW maxfCash \in Nat,
         AddLiquidity(a, m, amount, maxfCash)
  PROVE  IInv'
<1> DEFINE mk == markets[m]
           first == mk.totalLiquidity = 0
           tokens == IF first THEN amount ELSE Share(mk.totalLiquidity, amount, mk.totalCurrentCash)
           fCash == IF first THEN maxfCash ELSE Share(mk.totalfCash, amount, mk.totalCurrentCash)
           grown == [totalfCash       |-> IF first THEN maxfCash ELSE mk.totalfCash + fCash,
                     totalLiquidity   |-> IF first THEN amount ELSE mk.totalLiquidity + tokens,
                     totalCurrentCash |-> IF first THEN amount ELSE mk.totalCurrentCash + amount]
           pooled == DepositIntoMarket([ledger EXCEPT !.markets[m] = grown], a, amount, 0)
           s == UpsertfCash(UpsertToken(pooled, a, m, tokens), a, m, -fCash)
<1>1. /\ IF first THEN amount > 0 /\ maxfCash > 0
                   ELSE mk.totalCurrentCash > 0 /\ fCash <= maxfCash
      /\ CommitIfCollateralized(s, a)
  BY DEF AddLiquidity
<1>2. /\ ledger \in LedgerType /\ mk = ledger.markets[m] /\ mk \in Market
      /\ mk.totalfCash \in Nat /\ mk.totalLiquidity \in Nat /\ mk.totalCurrentCash \in Nat
      /\ Alive(mk) /\ a \in Account /\ RESERVE_ACCOUNT \in Account
  BY PoolsAlive, NotionalAssumption, LedgerAssumption
<1> HIDE DEF mk
<1>3. tokens \in Nat /\ fCash \in Nat
  <2>1. CASE first
    BY <2>1
  <2>2. CASE ~first
    BY <1>1, <1>2, <2>2, ShareNat
  <2> QED BY <2>1, <2>2
<1>4. /\ grown.totalfCash = mk.totalfCash + fCash
      /\ grown.totalLiquidity = mk.totalLiquidity + tokens
      /\ grown.totalCurrentCash = mk.totalCurrentCash + amount
      /\ Alive(grown)
  <2>1. CASE first
    BY <1>1, <1>2, <2>1 DEF Alive
  <2>2. CASE ~first
    <3> HIDE DEF tokens, fCash
    <3> QED BY <1>1, <1>2, <1>3, <2>2 DEF Alive
  <2> QED BY <2>1, <2>2
<1>5. grown \in Market
  <2> HIDE DEF tokens, fCash
  <2> QED BY <1>2, <1>3 DEF Market
<1> HIDE DEF grown, tokens, fCash
<1>6. Pooled(ledger, pooled, m, grown)
  <2>1. grown.totalCurrentCash = ledger.markets[m].totalCurrentCash + amount
    BY <1>2, <1>4
  <2>2. amount \in Int /\ 0 \in Int /\ ledger \in LedgerType /\ a \in Account
    BY <1>2
  <2> QED BY <1>5, <2>1, <2>2, DepositPooled, ZenonT(30)
<1>pooledGains. a # RESERVE_ACCOUNT => Gains(ledger, pooled, RESERVE_ACCOUNT)
  <2>1. amount \in Int /\ 0 \in Nat /\ grown \in Market
    BY <1>2, <1>3, <1>5
  <2> QED BY <1>2, <2>1, MarketGains, ZenonT(30)
<1> HIDE DEF pooled
<1>pooledTyped. pooled \in LedgerType /\ pooled.portfolio = ledger.portfolio
  BY <1>6 DEF Pooled
<1>7. /\ -fCash \in Int
      /\ grown.totalfCash = ledger.markets[m].totalfCash - (-fCash)
      /\ grown.totalLiquidity = ledger.markets[m].totalLiquidity + tokens
      /\ Alive(ledger.markets[m]) => Alive(grown)
  BY <1>2, <1>3, <1>4
<1>8. Balanced(ledger, s)
  BY <1>2, <1>3, <1>5, <1>6, <1>7, ProvideBalanced
<1>gains. a # RESERVE_ACCOUNT => Gains(ledger, s, RESERVE_ACCOUNT)
  <2>1. -fCash \in Int /\ tokens \in Nat
    BY <1>3
  <2> QED BY <1>2, <1>pooledGains, <1>pooledTyped, <2>1, EntriesGain
<1> HIDE DEF s
<1> QED BY <1>1, <1>8, <1>gains, CommitIfCollateralizedKeeps DEF OwnExpense

LEMMA RemoveLiquidityKeeps ==
  ASSUME IInv, NEW a \in Trader, NEW m \in Maturity, NEW tokens \in Nat,
         RemoveLiquidity(a, m, tokens)
  PROVE  IInv'
<1> DEFINE mk == markets[m]
           left == Redeem(mk, tokens)
           value == CashShare(mk, tokens)
           fCash == fCashShare(mk, tokens)
           pooled == WithdrawFromMarket([ledger EXCEPT !.markets[m] = left], a, value, 0)
           s == UpsertfCash(ReduceToken(pooled, a, m, tokens), a, m, fCash)
<1>1. /\ CanRedeem(mk, tokens) /\ CanReduceToken(ledger, a, m, tokens)
      /\ CommitIfCollateralized(s, a)
  BY DEF RemoveLiquidity
<1>2. /\ ledger \in LedgerType /\ mk = ledger.markets[m] /\ mk \in Market
      /\ mk.totalfCash \in Nat /\ mk.totalLiquidity \in Nat /\ mk.totalCurrentCash \in Nat
      /\ Alive(mk) /\ a \in Account /\ RESERVE_ACCOUNT \in Account
  BY PoolsAlive, NotionalAssumption, LedgerAssumption
<1> HIDE DEF mk
<1>3. left \in Market /\ Alive(left)
      /\ value \in 0 .. mk.totalCurrentCash /\ fCash \in 0 .. mk.totalfCash
  BY <1>1, <1>2, RedeemEffect
<1>4. /\ left.totalfCash = mk.totalfCash - fCash
      /\ left.totalLiquidity = mk.totalLiquidity - tokens
      /\ left.totalCurrentCash = mk.totalCurrentCash - value
  BY DEF Redeem
<1>5. value \in Int /\ fCash \in Int
  BY <1>2, <1>3
<1> HIDE DEF left, value, fCash
<1>6. Pooled(ledger, pooled, m, left)
  <2>1. left.totalCurrentCash = ledger.markets[m].totalCurrentCash - value
    BY <1>2, <1>4
  <2>2. value \in Int /\ 0 \in Int /\ ledger \in LedgerType /\ a \in Account /\ left \in Market
    BY <1>2, <1>3, <1>5
  <2> QED BY <2>1, <2>2, WithdrawPooled, ZenonT(30)
<1>pooledGains. a # RESERVE_ACCOUNT => Gains(ledger, pooled, RESERVE_ACCOUNT)
  <2>1. value \in Int /\ 0 \in Nat /\ left \in Market
    BY <1>2, <1>3, <1>5
  <2> QED BY <1>2, <2>1, MarketGains, ZenonT(30)
<1> HIDE DEF pooled
<1>pooledTyped. pooled \in LedgerType /\ pooled.portfolio = ledger.portfolio
  BY <1>6 DEF Pooled
<1>7. Balanced(ledger, s)
  BY <1>1, <1>2, <1>3, <1>4, <1>5, <1>6, LeaveBalanced
<1>gains. a # RESERVE_ACCOUNT => Gains(ledger, s, RESERVE_ACCOUNT)
  <2>1. fCash \in Int /\ tokens \in Nat
    BY <1>5
  <2>2. CanReduceToken(pooled, a, m, tokens)
    BY <1>1, <1>pooledTyped DEF CanReduceToken
  <2> QED BY <1>2, <1>pooledGains, <1>pooledTyped, <2>1, <2>2, EntriesGain
<1> HIDE DEF s
<1> QED BY <1>1, <1>7, <1>gains, CommitIfCollateralizedKeeps DEF OwnExpense

LEMMA TakeCurrentCashKeeps ==
  ASSUME IInv, NEW a \in Trader, NEW m \in Maturity, NEW fCash \in Nat, NEW amount \in Nat,
         TakeCurrentCash(a, m, fCash, amount)
  PROVE  IInv'
<1> DEFINE mk == markets[m]
           fee == TransactionFee(amount, m)
           traded == [totalfCash       |-> mk.totalfCash + fCash,
                      totalLiquidity   |-> mk.totalLiquidity,
                      totalCurrentCash |-> mk.totalCurrentCash - amount]
           pooled == WithdrawFromMarket([ledger EXCEPT !.markets[m] = traded], a, amount, fee)
           s == UpsertfCash(pooled, a, m, -fCash)
<1>1. /\ 0 < fCash /\ fCash < mk.totalCurrentCash /\ 0 < amount /\ amount <= fCash
      /\ now < m
      /\ CommitIfCollateralized(s, a)
  BY DEF TakeCurrentCash, IsActive
<1>2. /\ ledger \in LedgerType /\ mk = ledger.markets[m] /\ mk \in Market
      /\ mk.totalfCash \in Nat /\ mk.totalLiquidity \in Nat /\ mk.totalCurrentCash \in Nat
      /\ Alive(mk) /\ a \in Account /\ RESERVE_ACCOUNT \in Account
  BY PoolsAlive, NotionalAssumption, LedgerAssumption
<1> HIDE DEF mk
<1>3. /\ traded \in Market
      /\ traded.totalfCash = mk.totalfCash + fCash
      /\ traded.totalLiquidity = mk.totalLiquidity
      /\ traded.totalCurrentCash = mk.totalCurrentCash - amount
  BY <1>1, <1>2 DEF Market
<1>4. Alive(traded)
  <2> HIDE DEF traded
  <2> QED BY <1>1, <1>2, <1>3 DEF Alive
<1>5. fee \in Nat
  BY <1>1, FeeNat
<1> HIDE DEF traded, fee
<1>6. Pooled(ledger, pooled, m, traded)
  <2>1. traded.totalCurrentCash = ledger.markets[m].totalCurrentCash - amount
    BY <1>2, <1>3
  <2>2. amount \in Int /\ fee \in Int /\ ledger \in LedgerType /\ a \in Account /\ traded \in Market
    BY <1>2, <1>3, <1>5
  <2> QED BY <2>1, <2>2, WithdrawPooled, ZenonT(30)
<1>pooledGains. a # RESERVE_ACCOUNT => Gains(ledger, pooled, RESERVE_ACCOUNT)
  <2>1. amount \in Int /\ fee \in Nat /\ traded \in Market
    BY <1>2, <1>3, <1>5
  <2> QED BY <1>2, <2>1, MarketGains, ZenonT(30)
<1> HIDE DEF pooled
<1>pooledTyped. pooled \in LedgerType /\ pooled.portfolio = ledger.portfolio
  BY <1>6 DEF Pooled
<1>7. /\ -fCash \in Int
      /\ traded.totalfCash = ledger.markets[m].totalfCash - (-fCash)
      /\ traded.totalLiquidity = ledger.markets[m].totalLiquidity
      /\ Alive(ledger.markets[m]) => Alive(traded)
  BY <1>2, <1>3, <1>4
<1>8. Balanced(ledger, s)
  BY <1>2, <1>3, <1>6, <1>7, TradeBalanced
<1>gains. a # RESERVE_ACCOUNT => Gains(ledger, s, RESERVE_ACCOUNT)
  <2>1. -fCash \in Int /\ 0 \in Nat
    BY <1>3
  <2> QED BY <1>2, <1>pooledGains, <1>pooledTyped, <2>1, EntriesGain
<1> HIDE DEF s
<1> QED BY <1>1, <1>8, <1>gains, CommitIfCollateralizedKeeps DEF OwnExpense

LEMMA TakefCashKeeps ==
  ASSUME IInv, NEW a \in Trader, NEW m \in Maturity, NEW fCash \in Nat, NEW amount \in Nat,
         TakefCash(a, m, fCash, amount)
  PROVE  IInv'
<1> DEFINE mk == markets[m]
           fee == TransactionFee(amount, m)
           traded == [totalfCash       |-> mk.totalfCash - fCash,
                      totalLiquidity   |-> mk.totalLiquidity,
                      totalCurrentCash |-> mk.totalCurrentCash + amount]
           pooled == DepositIntoMarket([ledger EXCEPT !.markets[m] = traded], a, amount, fee)
           s == UpsertfCash(pooled, a, m, fCash)
<1>1. /\ 0 < fCash /\ fCash < mk.totalfCash /\ 0 < amount
      /\ now < m
      /\ CommitIfCollateralized(s, a)
  BY DEF TakefCash, IsActive
<1>2. /\ ledger \in LedgerType /\ mk = ledger.markets[m] /\ mk \in Market
      /\ mk.totalfCash \in Nat /\ mk.totalLiquidity \in Nat /\ mk.totalCurrentCash \in Nat
      /\ Alive(mk) /\ a \in Account /\ RESERVE_ACCOUNT \in Account
  BY PoolsAlive, NotionalAssumption, LedgerAssumption
<1> HIDE DEF mk
<1>3. /\ traded \in Market
      /\ traded.totalfCash = mk.totalfCash - fCash
      /\ traded.totalLiquidity = mk.totalLiquidity
      /\ traded.totalCurrentCash = mk.totalCurrentCash + amount
  BY <1>1, <1>2 DEF Market
<1>4. Alive(traded)
  <2> HIDE DEF traded
  <2> QED BY <1>1, <1>2, <1>3 DEF Alive
<1>5. fee \in Nat
  BY <1>1, FeeNat
<1> HIDE DEF traded, fee
<1>6. Pooled(ledger, pooled, m, traded)
  <2>1. traded.totalCurrentCash = ledger.markets[m].totalCurrentCash + amount
    BY <1>2, <1>3
  <2>2. amount \in Int /\ fee \in Int /\ ledger \in LedgerType /\ a \in Account /\ traded \in Market
    BY <1>2, <1>3, <1>5
  <2> QED BY <2>1, <2>2, DepositPooled, ZenonT(30)
<1>pooledGains. a # RESERVE_ACCOUNT => Gains(ledger, pooled, RESERVE_ACCOUNT)
  <2>1. amount \in Int /\ fee \in Nat /\ traded \in Market
    BY <1>2, <1>3, <1>5
  <2> QED BY <1>2, <2>1, MarketGains, ZenonT(30)
<1> HIDE DEF pooled
<1>pooledTyped. pooled \in LedgerType /\ pooled.portfolio = ledger.portfolio
  BY <1>6 DEF Pooled
<1>7. /\ traded.totalfCash = ledger.markets[m].totalfCash - fCash
      /\ traded.totalLiquidity = ledger.markets[m].totalLiquidity
      /\ Alive(ledger.markets[m]) => Alive(traded)
  BY <1>2, <1>3, <1>4
<1>8. Balanced(ledger, s)
  <2>1. fCash \in Int
    OBVIOUS
  <2> QED BY <1>2, <1>3, <1>6, <1>7, <2>1, TradeBalanced
<1>gains. a # RESERVE_ACCOUNT => Gains(ledger, s, RESERVE_ACCOUNT)
  <2>1. fCash \in Int /\ 0 \in Nat
    BY <1>3
  <2> QED BY <1>2, <1>pooledGains, <1>pooledTyped, <2>1, EntriesGain
<1> HIDE DEF s
<1> QED BY <1>1, <1>8, <1>gains, CommitIfCollateralizedKeeps DEF OwnExpense

-----------------------------------------------------------------------------
(* The invariant.                                                          *)

LEMMA InitSound ==
  ASSUME Init
  PROVE  IInv
<1>1. /\ 0 \in Int /\ CASH_MARKET \in Holder /\ LocalCurrency \in Currency
  BY DEF Holder, Currency
<1>2. /\ cash \in [Currency -> [Holder -> Int]]
      /\ held \in [Currency -> Nat]
      /\ cash[LocalCurrency][CASH_MARKET] = 0
  BY <1>1 DEF Init
<1>3. EmptyPortfolio \in Portfolio /\ Listed(EmptyPortfolio)
      /\ \A m \in Maturity : EmptyPortfolio.fCash[m] = 0 /\ EmptyPortfolio.token[m] = 0
  BY DEF EmptyPortfolio, Portfolio, Listed
<1>4. EmptyMarket \in Market /\ Alive(EmptyMarket)
      /\ EmptyMarket.totalCurrentCash = 0 /\ EmptyMarket.totalLiquidity = 0 /\ EmptyMarket.totalfCash = 0
  BY DEF EmptyMarket, Market, Alive
<1>5. portfolio \in [Account -> Portfolio] /\ markets \in [Maturity -> Market]
  BY <1>3, <1>4 DEF Init
<1>6. \A a \in Account : portfolio[a] = EmptyPortfolio
  BY DEF Init
<1>7. \A m \in Maturity : markets[m] = EmptyMarket
  BY DEF Init
<1>8. ledger \in LedgerType
  BY <1>2, <1>5 DEF ledger, LedgerType
<1>9. PoolCash(ledger) = 0
  <2>1. [m \in Maturity |-> ledger.markets[m].totalCurrentCash] = [m \in Maturity |-> 0]
    BY <1>4, <1>7 DEF ledger
  <2> QED BY <2>1, SumZero, RiskAssumption DEF PoolCash
<1>10. ASSUME NEW m \in Maturity
       PROVE  TokensOf(ledger, m) = 0 /\ fCashOf(ledger, m) = 0
  <2>1. /\ [a \in Account |-> ledger.portfolio[a].token[m]] = [a \in Account |-> 0]
        /\ [a \in Account |-> ledger.portfolio[a].fCash[m]] = [a \in Account |-> 0]
    BY <1>3, <1>6 DEF ledger
  <2> QED BY <2>1, SumZero, LedgerAssumption DEF TokensOf, fCashOf
<1>11. TokensListed(ledger)
  BY <1>3, <1>6 DEF TokensListed, ledger
<1>12. ledger.cash = cash /\ ledger.markets = markets
  BY DEF ledger
<1>13. Sound(ledger, now)
  BY <1>2, <1>4, <1>7, <1>8, <1>9, <1>10, <1>11, <1>12 DEF Sound
<1>14. now \in 0 .. MaxTime /\ rate \in Rate
  BY NotionalAssumption DEF Init
<1>15. Solvent(ledger)
  <2>1. Unset(ledger) = 0
    <3>1. [m \in Maturity |-> fCashOf(ledger, m) + ledger.markets[m].totalfCash] = [m \in Maturity |-> 0]
      BY <1>4, <1>7, <1>10, <1>12
    <3> QED BY <3>1, SumZero, RiskAssumption DEF Unset
  <2>2. ASSUME NEW c \in Currency PROVE ledger.held[c] = 0 /\ SumFunction(ledger.cash[c]) = 0
    <3>1. ledger.held[c] = 0 /\ ledger.cash[c] = [h \in Holder |-> 0]
      BY DEF Init, ledger
    <3>2. IsFiniteSet(Holder)
      BY LedgerAssumption, FS_AddElement DEF Holder
    <3> QED BY <3>1, <3>2, SumZero
  <2> QED BY <2>1, <2>2 DEF Solvent
<1>16. InCredit(ledger, RESERVE_ACCOUNT)
  <2>1. \A c \in Currency : cash[c][RESERVE_ACCOUNT] = 0
    BY LedgerAssumption DEF Init, Holder
  <2>2. \A m \in Maturity : portfolio[RESERVE_ACCOUNT].fCash[m] = 0
    BY <1>3, <1>6, LedgerAssumption
  <2> QED BY <2>1, <2>2 DEF InCredit, ledger
<1> QED BY <1>13, <1>14, <1>15, <1>16 DEF IInv, Whole

LEMMA NextKeeps ==
  ASSUME IInv, [Next]_vars
  PROVE  IInv'
<1>1. Trader \subseteq Account /\ Amount \subseteq Nat /\ \A c \in Currency : Deposits[c] \subseteq Nat
  BY NotionalAssumption
<1>2. ASSUME NEW x \in Nat, NEW y \in 1 .. x PROVE y \in Nat
  BY <1>2
<1>3. CASE EscrowNext
  <2>1. PICK a \in Trader :
          \/ \E c \in Currency : \E amount \in Deposits[c] : Deposit(a, c, amount)
          \/ \E c \in Currency, amount \in Amount : Withdraw(a, c, amount)
          \/ \E amount \in Amount : WithdrawEth(a, amount)
    BY <1>3 DEF EscrowNext
  <2>2. CASE \E c \in Currency : \E amount \in Deposits[c] : Deposit(a, c, amount)
    <3>1. PICK c \in Currency : \E amount \in Deposits[c] : Deposit(a, c, amount)
      BY <2>2
    <3>2. PICK amount \in Deposits[c] : Deposit(a, c, amount)
      BY <3>1
    <3>3. a \in Account /\ amount \in Nat
      BY <1>1
    <3> QED BY <3>2, <3>3, DepositKeeps
  <2>3. CASE \E c \in Currency, amount \in Amount : Withdraw(a, c, amount)
    BY <1>1, <2>3, WithdrawKeeps
  <2>4. CASE \E amount \in Amount : WithdrawEth(a, amount)
    BY <1>1, <2>4, WithdrawEthKeeps
  <2> QED BY <2>1, <2>2, <2>3, <2>4
<1>4. CASE MarketNext
  <2>1. PICK a \in Trader, m \in Maturity, x \in Amount :
          \/ \E y \in Amount : AddLiquidity(a, m, x, y)
          \/ RemoveLiquidity(a, m, x)
          \/ \E y \in 1 .. x : TakeCurrentCash(a, m, x, y)
          \/ \E y \in 1 .. x : TakefCash(a, m, x, y)
    BY <1>4 DEF MarketNext
  <2>2. a \in Account /\ x \in Nat
    BY <1>1
  <2>3. CASE \E y \in Amount : AddLiquidity(a, m, x, y)
    BY <1>1, <2>2, <2>3, AddLiquidityKeeps
  <2>4. CASE RemoveLiquidity(a, m, x)
    BY <2>2, <2>4, RemoveLiquidityKeeps
  <2>5. CASE \E y \in 1 .. x : TakeCurrentCash(a, m, x, y)
    BY <1>2, <2>2, <2>5, TakeCurrentCashKeeps
  <2>6. CASE \E y \in 1 .. x : TakefCash(a, m, x, y)
    BY <1>2, <2>2, <2>6, TakefCashKeeps
  <2> QED BY <2>1, <2>3, <2>4, <2>5, <2>6
<1>5. CASE TransferNext
  BY <1>1, <1>5, TransferfCashKeeps, TransferTokenKeeps, MintfCashPairKeeps DEF TransferNext
<1>6. CASE SettleNext
  BY <1>6, SettleMaturedAssetsKeeps, SettleReserveKeeps DEF SettleNext
<1>7. CASE Tick \/ MoveRate
  BY <1>7, EnvironmentKeeps
<1>8. CASE UNCHANGED vars
  BY <1>8 DEF vars, IInv, ledger
<1> QED BY <1>3, <1>4, <1>5, <1>6, <1>7, <1>8 DEF Next

(* The inductive invariant holds throughout: the contracts' books agree. *)
THEOREM Invariance == Spec => []IInv
<1>1. Init => IInv
  BY InitSound
<1>2. IInv /\ [Next]_vars => IInv'
  BY NextKeeps
<1> QED BY <1>1, <1>2, PTL DEF Spec

-----------------------------------------------------------------------------
(* Its consequences.                                                       *)

(* No transaction makes a pool, a token balance of the Escrow or a liquidity
   token entry negative: the checks of the code suffice for its uint fields. *)
THEOREM TypeCorrect == Spec => []TypeOK
<1>1. IInv => TypeOK
  BY DEF IInv, Sound, TypeOK
<1> QED BY <1>1, Invariance, PTL

(* The market's Escrow balance is the sum of its pools' cash. *)
THEOREM PoolsBacked == Spec => []PoolCashBacked
<1>1. IInv => PoolCashBacked
  BY DEF IInv, Sound, PoolCashBacked, PoolCash, ledger
<1> QED BY <1>1, Invariance, PTL

(* Liquidity tokens in portfolios add up to the supply of their pool. *)
THEOREM TokensConserved == Spec => []TokensMatchSupply
<1>1. IInv => TokensMatchSupply
  BY DEF IInv, Sound, TokensMatchSupply, TokensOf, TokensListed, Listed, ledger
<1> QED BY <1>1, Invariance, PTL

(* A pool has cash and fCash exactly as long as it has suppliers. *)
THEOREM PoolsAliveAlways == Spec => []PoolAlive
<1>1. IInv => PoolAlive
  BY DEF IInv, Sound, PoolAlive, Alive, ledger
<1> QED BY <1>1, Invariance, PTL

(* Until it matures, all fCash of a maturity nets to zero. *)
THEOREM fCashConserved == Spec => []fCashNetsToZero
<1>1. IInv => fCashNetsToZero
  BY DEF IInv, Sound, fCashNetsToZero, Unsettled, fCashOf, ledger
<1> QED BY <1>1, Invariance, PTL

(* The Escrow's tokens are exactly what balances and unsettled assets add up
   to, when the reserve does not act itself. *)
THEOREM EscrowSolventAlways ==
  ASSUME RESERVE_ACCOUNT \notin Trader
  PROVE  Spec => []EscrowSolvent
<1>1. IInv => EscrowSolvent
  <2>1. \A m \in Maturity : fCashOf(ledger, m) + ledger.markets[m].totalfCash = Unsettled(m)
    BY DEF fCashOf, Unsettled, ledger
  <2>2. Unset(ledger) = SumFunction([m \in Maturity |-> Unsettled(m)])
    BY <2>1 DEF Unset
  <2> QED BY <2>2 DEF IInv, Whole, Solvent, EscrowSolvent, ledger
<1> QED BY <1>1, Invariance, PTL

(* Whoever holds a liquidity token can be settled after anyone else: the pool
   still has the tokens, and the market the cash behind them. *)
THEOREM HoldersCanSettleAlways == Spec => []HoldersCanSettle
<1>1. ASSUME IInv, NEW a \in Account, \A m \in portfolio[a].listed : portfolio[a].token[m] > 0
      PROVE  CanSettle(ledger, a, now)
  <2>1. /\ ledger \in LedgerType /\ now \in Int
        /\ ledger.portfolio = portfolio /\ ledger.markets = markets
        /\ ledger.cash[LocalCurrency][CASH_MARKET] = PoolCash(ledger)
        /\ \A m \in Maturity : TokensOf(ledger, m) = markets[m].totalLiquidity
    BY <1>1 DEF IInv, Sound, ledger
  <2>2. ASSUME NEW m \in MaturedTokens(ledger, a, now)
        PROVE  CanRedeem(markets[m], portfolio[a].token[m])
    <3> DEFINE f == [b \in Account |-> portfolio[b].token[m]]
    <3>1. m \in Maturity /\ portfolio[a].token[m] > 0
      BY <1>1, <2>1, AccountTypes DEF MaturedTokens, Portfolio
    <3>2. \A b \in Account : portfolio[b].token[m] \in Nat
      BY <2>1, <3>1, AccountTypes
    <3>3. f \in [Account -> Nat] /\ f[a] = portfolio[a].token[m]
      BY <3>2
    <3> HIDE DEF f
    <3>4. f[a] <= SumFunction(f)
      BY <3>3, SumAtLeastTerm, LedgerAssumption
    <3>5. SumFunction(f) = markets[m].totalLiquidity
      BY <2>1, <3>1 DEF TokensOf, f
    <3>6. markets[m].totalLiquidity \in Nat
      BY <2>1, <3>1, PoolTotals
    <3> QED BY <3>1, <3>2, <3>3, <3>4, <3>5, <3>6 DEF CanRedeem
  <2>3. ASSUME NEW m \in Maturity
        PROVE  /\ RedeemedAt(ledger, a, now, m) \in Int /\ markets[m].totalCurrentCash \in Int
               /\ RedeemedAt(ledger, a, now, m) <= markets[m].totalCurrentCash
    <3> DEFINE mk == markets[m]
               tokens == portfolio[a].token[m]
    <3>1. mk \in Market /\ tokens \in Nat /\ mk.totalCurrentCash \in Nat
      BY <2>1, PoolTotals, AccountTypes
    <3>2. CASE m \in MaturedTokens(ledger, a, now)
      <4>1. CanRedeem(mk, tokens) /\ RedeemedAt(ledger, a, now, m) = CashShare(mk, tokens)
        BY <2>1, <2>2, <3>2 DEF RedeemedAt
      <4> HIDE DEF mk, tokens
      <4>2. CashShare(mk, tokens) \in 0 .. mk.totalCurrentCash
        BY <3>1, <4>1, RedeemEffect
      <4> QED BY <3>1, <4>1, <4>2 DEF mk
    <3>3. CASE m \notin MaturedTokens(ledger, a, now)
      BY <3>1, <3>3 DEF RedeemedAt
    <3> QED BY <3>2, <3>3
  <2>4. RedeemedCash(ledger, a, now) <= PoolCash(ledger)
    <3> DEFINE f == [m \in Maturity |-> RedeemedAt(ledger, a, now, m)]
               g == [m \in Maturity |-> markets[m].totalCurrentCash]
    <3>1. f \in [Maturity -> Int] /\ g \in [Maturity -> Int] /\ \A m \in Maturity : f[m] <= g[m]
      BY <2>3
    <3>2. RedeemedCash(ledger, a, now) = SumFunction(f) /\ PoolCash(ledger) = SumFunction(g)
      BY <2>1 DEF RedeemedCash, PoolCash
    <3> HIDE DEF f, g
    <3> QED BY <3>1, <3>2, SumMonotone, RiskAssumption
  <2> QED BY <2>1, <2>2, <2>4 DEF CanSettle
<1>2. IInv => HoldersCanSettle
  BY <1>1 DEF HoldersCanSettle
<1> QED BY <1>2, Invariance, PTL

-----------------------------------------------------------------------------
(* Dilution.  A call before its settlement changes at most one pool, one    *)
(* that has not matured; the settlement it ends with burns tokens of pools  *)
(* that have.  So each pool is changed by one rounding at most.             *)

(* The cash behind a token does not fall when tokens are burnt or minted. *)
Undiluted(old, new) ==
  old.totalLiquidity > 0 /\ new.totalLiquidity > 0 /\ old.totalLiquidity # new.totalLiquidity
    => new.totalCurrentCash * old.totalLiquidity >= old.totalCurrentCash * new.totalLiquidity

(* Burning: the share that leaves is rounded down. *)
LEMMA RedeemUndiluted ==
  ASSUME NEW mk \in Market, NEW tokens \in Nat, CanRedeem(mk, tokens)
  PROVE  Undiluted(mk, Redeem(mk, tokens))
<1> DEFINE C == mk.totalCurrentCash
           L == mk.totalLiquidity
           c == (C * tokens) \div L
<1>1. C \in Nat /\ L \in Nat \ {0} /\ tokens \in Nat
  BY DEF Market, CanRedeem
<1>2. /\ Redeem(mk, tokens).totalLiquidity = L - tokens
      /\ Redeem(mk, tokens).totalCurrentCash = C - c
  BY DEF Redeem, CashShare, Share
<1> HIDE DEF C, L
<1>3. C * tokens \in Nat
  BY <1>1
<1>4. c \in Nat /\ L * c <= C * tokens
  BY <1>1, <1>3
<1> HIDE DEF c
<1>5. (C - c) * L = C * L - L * c /\ C * (L - tokens) = C * L - C * tokens
  BY <1>1, <1>4
<1>6. (C - c) * L >= C * (L - tokens)
  <2>1. C * L \in Int /\ L * c \in Int
    BY <1>1, <1>4
  <2> QED BY <1>3, <1>4, <1>5, <2>1
<1> QED BY <1>2, <1>6 DEF Undiluted, C, L

(* Minting: so are the tokens. *)
LEMMA ProvideUndiluted ==
  ASSUME NEW mk \in Market, NEW amount \in Nat, mk.totalCurrentCash > 0, NEW new,
         new.totalLiquidity = mk.totalLiquidity + Share(mk.totalLiquidity, amount, mk.totalCurrentCash),
         new.totalCurrentCash = mk.totalCurrentCash + amount
  PROVE  Undiluted(mk, new)
<1> DEFINE C == mk.totalCurrentCash
           L == mk.totalLiquidity
           n == (L * amount) \div C
<1>1. C \in Nat \ {0} /\ L \in Nat /\ amount \in Nat
  BY DEF Market
<1>2. new.totalLiquidity = L + n /\ new.totalCurrentCash = C + amount
  BY DEF Share
<1> HIDE DEF C, L
<1>3. L * amount \in Nat
  BY <1>1
<1>4. n \in Nat /\ C * n <= L * amount
  BY <1>1, <1>3
<1> HIDE DEF n
<1>5. (C + amount) * L = C * L + L * amount /\ C * (L + n) = C * L + C * n
  BY <1>1, <1>4
<1>6. (C + amount) * L >= C * (L + n)
  <2>1. C * L \in Int /\ C * n \in Int
    BY <1>1, <1>4
  <2> QED BY <1>3, <1>4, <1>5, <2>1
<1> QED BY <1>2, <1>6 DEF Undiluted, C, L

(* What a call leaves of the pools of one step: none is diluted. *)
PoolsUndiluted == \A m \in Maturity : Undiluted(markets[m], markets'[m])

LEMMA UntouchedUndiluted ==
  ASSUME IInv, markets' = markets
  PROVE  PoolsUndiluted
BY DEF PoolsUndiluted, Undiluted

(* A call changes pools that have not matured, and settling pools that have. *)
LEMMA SettleUndiluted ==
  ASSUME IInv, NEW a \in Account, NEW s, CanSettle(s, a, now), markets' = Settle(s, a, now).markets,
         \A m \in Maturity :
           IF now < m THEN Undiluted(markets[m], s.markets[m])
                      ELSE /\ s.markets[m] = markets[m]
                           /\ s.portfolio[a].token[m] = portfolio[a].token[m]
  PROVE  PoolsUndiluted
<1> SUFFICES ASSUME NEW m \in Maturity PROVE Undiluted(markets[m], markets'[m])
  BY DEF PoolsUndiluted
<1>1. now \in Int /\ m \in Int /\ markets[m] \in Market /\ portfolio[a].token[m] \in Nat
  <2>1. now \in Int /\ m \in Int /\ ledger \in LedgerType
    BY RiskAssumption DEF IInv, Sound
  <2> QED BY <2>1 DEF LedgerType, ledger, Portfolio
<1>2. markets'[m] = IF m \in MaturedTokens(s, a, now) THEN Redeem(s.markets[m], s.portfolio[a].token[m])
                                                      ELSE s.markets[m]
  BY DEF Settle
<1>3. m \in MaturedTokens(s, a, now) => ~(now < m) /\ CanRedeem(s.markets[m], s.portfolio[a].token[m])
  BY <1>1 DEF MaturedTokens, CanSettle
<1>4. CASE m \in MaturedTokens(s, a, now)
  <2>1. CanRedeem(markets[m], portfolio[a].token[m]) /\ markets'[m] = Redeem(markets[m], portfolio[a].token[m])
    BY <1>2, <1>3, <1>4
  <2> QED BY <1>1, <2>1, RedeemUndiluted
<1>5. CASE m \notin MaturedTokens(s, a, now)
  BY <1>2, <1>5 DEF Undiluted
<1> QED BY <1>4, <1>5

LEMMA CallUndiluted ==
  ASSUME IInv, NEW a \in Trader, NEW s, NEW m \in Maturity, now < m, CommitIfCollateralized(s, a),
         Undiluted(markets[m], s.markets[m]),
         \A k \in Maturity \ {m} : /\ s.markets[k] = markets[k]
                                   /\ s.portfolio[a].token[k] = portfolio[a].token[k]
  PROVE  PoolsUndiluted
<1>1. a \in Account /\ CanSettle(s, a, now) /\ markets' = Settle(s, a, now).markets
  BY NotionalAssumption DEF CommitIfCollateralized, Commit
<1>2. \A k \in Maturity :
        IF now < k THEN Undiluted(markets[k], s.markets[k])
                   ELSE /\ s.markets[k] = markets[k]
                        /\ s.portfolio[a].token[k] = portfolio[a].token[k]
  <2> TAKE k \in Maturity
  <2>1. CASE k = m
    BY <2>1
  <2>2. CASE k # m
    BY <2>2 DEF Undiluted
  <2> QED BY <2>1, <2>2
<1> QED BY <1>1, <1>2, SettleUndiluted

(* Entries at one maturity leave the tokens at the others alone. *)
TokensKept(s, r, m) ==
  \A b \in Account, k \in Maturity \ {m} : r.portfolio[b].token[k] = s.portfolio[b].token[k]

LEMMA fCashEntryKeepsTokens ==
  ASSUME NEW s \in LedgerType, NEW a \in Account, NEW m \in Maturity, NEW n \in Int
  PROVE  TokensKept(s, UpsertfCash(s, a, m, n), m)
<1> DEFINE r == UpsertfCash(s, a, m, n)
<1>1. /\ s.portfolio \in [Account -> Portfolio]
      /\ r.portfolio = [s.portfolio EXCEPT ![a] = AddfCash(s.portfolio[a], m, n)]
  BY DEF UpsertfCash, LedgerType
<1>2. AddfCash(s.portfolio[a], m, n).token = s.portfolio[a].token
  BY <1>1, AddfCashEffect, ZenonT(60)
<1> HIDE DEF r
<1> QED BY <1>1, <1>2 DEF TokensKept, r

LEMMA TokenEntryKeepsTokens ==
  ASSUME NEW s \in LedgerType, NEW a \in Account, NEW m \in Maturity, NEW n \in Nat
  PROVE  TokensKept(s, UpsertToken(s, a, m, n), m)
<1> DEFINE r == UpsertToken(s, a, m, n)
           q == AddToken(s.portfolio[a], m, n)
<1>1. /\ s.portfolio \in [Account -> Portfolio]
      /\ r.portfolio = [s.portfolio EXCEPT ![a] = q]
  BY DEF UpsertToken, LedgerType
<1>2. \A k \in Maturity \ {m} : q.token[k] = s.portfolio[a].token[k]
  <2> DEFINE p == s.portfolio[a]
  <2>1. p \in Portfolio
    BY <1>1
  <2> HIDE DEF p
  <2>2. \A k \in Maturity \ {m} : AddToken(p, m, n).token[k] = p.token[k]
    BY <2>1 DEF AddToken, Portfolio
  <2> QED BY <2>2 DEF p
<1> HIDE DEF r, q
<1>3. ASSUME NEW b \in Account, NEW k \in Maturity \ {m}
      PROVE  r.portfolio[b].token[k] = s.portfolio[b].token[k]
  <2>1. r.portfolio[b] = IF b = a THEN q ELSE s.portfolio[b]
    BY <1>1
  <2> QED BY <1>2, <2>1
<1>4. TokensKept(s, r, m)
  BY <1>3 DEF TokensKept
<1> QED BY <1>4 DEF r

LEMMA TokenTakenKeepsTokens ==
  ASSUME NEW s \in LedgerType, NEW a \in Account, NEW m \in Maturity, NEW n \in Nat,
         CanReduceToken(s, a, m, n)
  PROVE  TokensKept(s, ReduceToken(s, a, m, n), m)
<1> DEFINE r == ReduceToken(s, a, m, n)
           q == TakeToken(s.portfolio[a], m, n)
<1>1. /\ s.portfolio \in [Account -> Portfolio]
      /\ r.portfolio = [s.portfolio EXCEPT ![a] = q]
  BY DEF ReduceToken, LedgerType
<1>2. \A k \in Maturity \ {m} : q.token[k] = s.portfolio[a].token[k]
  <2> DEFINE p == s.portfolio[a]
  <2>1. p \in Portfolio
    BY <1>1
  <2> HIDE DEF p
  <2>2. \A k \in Maturity \ {m} : TakeToken(p, m, n).token[k] = p.token[k]
    BY <2>1 DEF TakeToken, Portfolio
  <2> QED BY <2>2 DEF p
<1> HIDE DEF r, q
<1>3. ASSUME NEW b \in Account, NEW k \in Maturity \ {m}
      PROVE  r.portfolio[b].token[k] = s.portfolio[b].token[k]
  <2>1. r.portfolio[b] = IF b = a THEN q ELSE s.portfolio[b]
    BY <1>1
  <2> QED BY <1>2, <2>1
<1>4. TokensKept(s, r, m)
  BY <1>3 DEF TokensKept
<1> QED BY <1>4 DEF r

LEMMA TokensKeptTransitive ==
  ASSUME NEW s, NEW r, NEW q, NEW m \in Maturity, TokensKept(s, r, m), TokensKept(r, q, m)
  PROVE  TokensKept(s, q, m)
BY DEF TokensKept

(* A call that changes the pool of m and entries at m. *)
LEMMA PooledUndiluted ==
  ASSUME IInv, NEW a \in Trader, NEW s, NEW pooled, NEW m \in Maturity, NEW mk, now < m,
         CommitIfCollateralized(s, a),
         Undiluted(markets[m], mk), Pooled(ledger, pooled, m, mk), s.markets = pooled.markets,
         TokensKept(pooled, s, m)
  PROVE  PoolsUndiluted
<1>1. ledger \in LedgerType /\ ledger.markets = markets /\ ledger.portfolio = portfolio
  BY DEF IInv, Sound, ledger
<1>2. markets \in [Maturity -> Market] /\ s.markets = [markets EXCEPT ![m] = mk] /\ pooled.portfolio = portfolio
  BY <1>1 DEF LedgerType, Pooled
<1>3. a \in Account
  BY NotionalAssumption
<1>4. Undiluted(markets[m], s.markets[m])
  BY <1>2
<1>5. \A k \in Maturity \ {m} : /\ s.markets[k] = markets[k]
                                /\ s.portfolio[a].token[k] = portfolio[a].token[k]
  BY <1>2, <1>3 DEF TokensKept
<1> QED BY <1>4, <1>5, CallUndiluted

(* A call that changes entries at m. *)
LEMMA EntriesUndiluted ==
  ASSUME IInv, NEW a \in Trader, NEW s, NEW m \in Maturity, now < m, CommitIfCollateralized(s, a),
         s.markets = ledger.markets, TokensKept(ledger, s, m)
  PROVE  PoolsUndiluted
<1>1. ledger.markets = markets /\ ledger.portfolio = portfolio /\ a \in Account
  BY NotionalAssumption DEF ledger
<1>2. Undiluted(markets[m], s.markets[m])
  BY <1>1 DEF Undiluted
<1>3. \A k \in Maturity \ {m} : /\ s.markets[k] = markets[k]
                                /\ s.portfolio[a].token[k] = portfolio[a].token[k]
  BY <1>1 DEF TokensKept
<1> QED BY <1>2, <1>3, CallUndiluted

(* A settlement of the state as it is. *)
LEMMA LedgerSettledUndiluted ==
  ASSUME IInv, NEW a \in Account, NEW s, CanSettle(s, a, now), markets' = Settle(s, a, now).markets,
         s.markets = markets, s.portfolio = portfolio
  PROVE  PoolsUndiluted
<1>1. \A m \in Maturity :
        IF now < m THEN Undiluted(markets[m], s.markets[m])
                   ELSE /\ s.markets[m] = markets[m]
                        /\ s.portfolio[a].token[m] = portfolio[a].token[m]
  BY DEF Undiluted
<1> QED BY <1>1, SettleUndiluted

-----------------------------------------------------------------------------
LEMMA DepositUndiluted ==
  ASSUME IInv, NEW a \in Trader, NEW c \in Currency, NEW amount \in Nat, Deposit(a, c, amount)
  PROVE  PoolsUndiluted
<1>1. markets' = markets
  BY DEF Deposit, Commit, MoveIn, ledger
<1> QED BY <1>1, UntouchedUndiluted

LEMMA WithdrawUndiluted ==
  ASSUME IInv, NEW a \in Trader, NEW c \in Currency, NEW amount \in Nat, Withdraw(a, c, amount)
  PROVE  PoolsUndiluted
<1>1. CanSettle(ledger, a, now) /\ markets' = Settle(ledger, a, now).markets
  BY DEF Withdraw, Commit, MoveIn
<1>2. a \in Account /\ ledger.markets = markets /\ ledger.portfolio = portfolio
  BY NotionalAssumption DEF ledger
<1> QED BY <1>1, <1>2, LedgerSettledUndiluted

LEMMA WithdrawEthUndiluted ==
  ASSUME IInv, NEW a \in Trader, NEW amount \in Nat, WithdrawEth(a, amount)
  PROVE  PoolsUndiluted
<1> DEFINE s == MoveIn(ledger, a, ETH, -amount)
<1>1. CanSettle(s, a, now) /\ markets' = Settle(s, a, now).markets
  BY DEF WithdrawEth, CommitIfCollateralized, Commit
<1>2. a \in Account /\ s.markets = markets /\ s.portfolio = portfolio
  BY NotionalAssumption DEF MoveIn, ledger
<1> HIDE DEF s
<1> QED BY <1>1, <1>2, LedgerSettledUndiluted

LEMMA SettleNextUndiluted ==
  ASSUME IInv, NEW a \in Account, SettleMaturedAssets(a) \/ \E c \in Currency : SettleReserve(a, c)
  PROVE  PoolsUndiluted
<1>1. CanSettle(ledger, a, now) /\ markets' = Settle(ledger, a, now).markets
  BY DEF SettleMaturedAssets, SettleReserve, Commit, Settle
<1>2. ledger.markets = markets /\ ledger.portfolio = portfolio
  BY DEF ledger
<1> QED BY <1>1, <1>2, LedgerSettledUndiluted

LEMMA MovefCashUndiluted ==
  ASSUME IInv, NEW from \in Trader, NEW to \in Account, NEW m \in Maturity, NEW value \in Nat, now < m,
         CommitIfCollateralized(UpsertfCash(UpsertfCash(ledger, from, m, -value), to, m, value), from)
  PROVE  PoolsUndiluted
<1> DEFINE u == UpsertfCash(ledger, from, m, -value)
           s == UpsertfCash(u, to, m, value)
<1>1. ledger \in LedgerType /\ from \in Account /\ -value \in Int /\ value \in Int
  BY NotionalAssumption DEF IInv, Sound
<1>2. u \in LedgerType /\ u.markets = ledger.markets /\ TokensKept(ledger, u, m)
  BY <1>1, UpsertfCashEffect, fCashEntryKeepsTokens
<1>3. CommitIfCollateralized(s, from)
  OBVIOUS
<1> HIDE DEF u
<1>4. s.markets = u.markets /\ TokensKept(u, s, m)
  BY <1>1, <1>2, UpsertfCashEffect, fCashEntryKeepsTokens
<1> HIDE DEF s
<1> QED BY <1>2, <1>3, <1>4, TokensKeptTransitive, EntriesUndiluted

LEMMA TransferTokenUndiluted ==
  ASSUME IInv, NEW from \in Trader, NEW to \in Account, NEW m \in Maturity, NEW value \in Nat,
         TransferToken(from, to, m, value)
  PROVE  PoolsUndiluted
<1> DEFINE u == ReduceToken(ledger, from, m, value)
           s == UpsertToken(u, to, m, value)
<1>1. ledger \in LedgerType /\ from \in Account
  BY NotionalAssumption DEF IInv, Sound
<1>2. now < m /\ CanReduceToken(ledger, from, m, value) /\ CommitIfCollateralized(s, from)
  BY DEF TransferToken
<1>3. u \in LedgerType /\ u.markets = ledger.markets /\ TokensKept(ledger, u, m)
  BY <1>1, <1>2, ReduceTokenEffect, TokenTakenKeepsTokens
<1> HIDE DEF u
<1>4. s.markets = u.markets /\ TokensKept(u, s, m)
  BY <1>3, UpsertTokenEffect, TokenEntryKeepsTokens
<1> HIDE DEF s
<1> QED BY <1>2, <1>3, <1>4, TokensKeptTransitive, EntriesUndiluted

-----------------------------------------------------------------------------
LEMMA AddLiquidityUndiluted ==
  ASSUME IInv, NEW a \in Trader, NEW m \in Maturity, NEW amount \in Nat, NEW maxfCash \in Nat,
         AddLiquidity(a, m, amount, maxfCash)
  PROVE  PoolsUndiluted
<1> DEFINE mk == markets[m]
           first == mk.totalLiquidity = 0
           tokens == IF first THEN amount ELSE Share(mk.totalLiquidity, amount, mk.totalCurrentCash)
           fCash == IF first THEN maxfCash ELSE Share(mk.totalfCash, amount, mk.totalCurrentCash)
           grown == [totalfCash       |-> IF first THEN maxfCash ELSE mk.totalfCash + fCash,
                     totalLiquidity   |-> IF first THEN amount ELSE mk.totalLiquidity + tokens,
                     totalCurrentCash |-> IF first THEN amount ELSE mk.totalCurrentCash + amount]
           pooled == DepositIntoMarket([ledger EXCEPT !.markets[m] = grown], a, amount, 0)
           u == UpsertToken(pooled, a, m, tokens)
           s == UpsertfCash(u, a, m, -fCash)
<1>1. /\ ~first => mk.totalCurrentCash > 0
      /\ now < m
      /\ CommitIfCollateralized(s, a)
  BY DEF AddLiquidity, IsActive
<1>2. /\ ledger \in LedgerType /\ mk = ledger.markets[m] /\ mk \in Market
      /\ mk.totalfCash \in Nat /\ mk.totalLiquidity \in Nat /\ mk.totalCurrentCash \in Nat
      /\ Alive(mk) /\ a \in Account
  BY PoolsAlive, NotionalAssumption
<1> HIDE DEF mk
<1>3. tokens \in Nat /\ fCash \in Nat
  <2>1. CASE first
    BY <2>1
  <2>2. CASE ~first
    BY <1>1, <1>2, <2>2, ShareNat
  <2> QED BY <2>1, <2>2
<1>4. /\ ~first => grown.totalLiquidity = mk.totalLiquidity + Share(mk.totalLiquidity, amount, mk.totalCurrentCash)
      /\ ~first => grown.totalCurrentCash = mk.totalCurrentCash + amount
      /\ grown.totalCurrentCash = mk.totalCurrentCash + amount
  <2>1. CASE first
    BY <1>1, <1>2, <2>1 DEF Alive
  <2>2. CASE ~first
    BY <2>2
  <2> QED BY <2>1, <2>2
<1>5. grown \in Market
  <2> HIDE DEF tokens, fCash
  <2> QED BY <1>2, <1>3 DEF Market
<1> HIDE DEF grown, tokens, fCash
<1>6. Undiluted(mk, grown)
  <2>1. CASE first
    BY <2>1, <1>2 DEF Undiluted
  <2>2. CASE ~first
    BY <1>1, <1>2, <1>4, <2>2, ProvideUndiluted
  <2> QED BY <2>1, <2>2
<1>7. Pooled(ledger, pooled, m, grown)
  <2>1. grown.totalCurrentCash = ledger.markets[m].totalCurrentCash + amount
    BY <1>2, <1>4
  <2>2. amount \in Int /\ 0 \in Int /\ ledger \in LedgerType /\ a \in Account
    BY <1>2
  <2> QED BY <1>5, <2>1, <2>2, DepositPooled, ZenonT(30)
<1> HIDE DEF pooled
<1>8. u \in LedgerType /\ u.markets = pooled.markets /\ TokensKept(pooled, u, m)
  BY <1>2, <1>3, <1>7, UpsertTokenEffect, TokenEntryKeepsTokens DEF Pooled
<1> HIDE DEF u
<1>9. s.markets = u.markets /\ TokensKept(u, s, m)
  <2>1. -fCash \in Int
    BY <1>3
  <2> QED BY <1>2, <1>8, <2>1, UpsertfCashEffect, fCashEntryKeepsTokens
<1> HIDE DEF s
<1>10. s.markets = pooled.markets /\ TokensKept(pooled, s, m)
  BY <1>8, <1>9, TokensKeptTransitive
<1> QED BY <1>1, <1>6, <1>7, <1>10, PooledUndiluted DEF mk

LEMMA RemoveLiquidityUndiluted ==
  ASSUME IInv, NEW a \in Trader, NEW m \in Maturity, NEW tokens \in Nat,
         RemoveLiquidity(a, m, tokens)
  PROVE  PoolsUndiluted
<1> DEFINE mk == markets[m]
           left == Redeem(mk, tokens)
           value == CashShare(mk, tokens)
           fCash == fCashShare(mk, tokens)
           pooled == WithdrawFromMarket([ledger EXCEPT !.markets[m] = left], a, value, 0)
           u == ReduceToken(pooled, a, m, tokens)
           s == UpsertfCash(u, a, m, fCash)
<1>1. /\ now < m /\ CanRedeem(mk, tokens) /\ CanReduceToken(ledger, a, m, tokens)
      /\ CommitIfCollateralized(s, a)
  BY DEF RemoveLiquidity
<1>2. /\ ledger \in LedgerType /\ mk = ledger.markets[m] /\ mk \in Market
      /\ mk.totalfCash \in Nat /\ mk.totalLiquidity \in Nat /\ mk.totalCurrentCash \in Nat
      /\ Alive(mk) /\ a \in Account
  BY PoolsAlive, NotionalAssumption
<1> HIDE DEF mk
<1>3. left \in Market /\ value \in Int /\ fCash \in Int
  <2>1. left \in Market /\ value \in 0 .. mk.totalCurrentCash /\ fCash \in 0 .. mk.totalfCash
    BY <1>1, <1>2, RedeemEffect
  <2> HIDE DEF left, value, fCash
  <2> QED BY <1>2, <2>1
<1>4. left.totalCurrentCash = mk.totalCurrentCash - value
  BY DEF Redeem
<1>5. Undiluted(mk, left)
  BY <1>1, <1>2, RedeemUndiluted
<1> HIDE DEF left, value, fCash
<1>6. Pooled(ledger, pooled, m, left)
  <2>1. left.totalCurrentCash = ledger.markets[m].totalCurrentCash - value
    BY <1>2, <1>4
  <2>2. value \in Int /\ 0 \in Int /\ ledger \in LedgerType /\ a \in Account /\ left \in Market
    BY <1>2, <1>3
  <2> QED BY <2>1, <2>2, WithdrawPooled, ZenonT(30)
<1> HIDE DEF pooled
<1>7. pooled \in LedgerType /\ CanReduceToken(pooled, a, m, tokens)
  BY <1>1, <1>6 DEF Pooled, CanReduceToken
<1>8. u \in LedgerType /\ u.markets = pooled.markets /\ TokensKept(pooled, u, m)
  BY <1>2, <1>7, ReduceTokenEffect, TokenTakenKeepsTokens
<1> HIDE DEF u
<1>9. s.markets = u.markets /\ TokensKept(u, s, m)
  BY <1>2, <1>3, <1>8, UpsertfCashEffect, fCashEntryKeepsTokens
<1> HIDE DEF s
<1>10. s.markets = pooled.markets /\ TokensKept(pooled, s, m)
  BY <1>8, <1>9, TokensKeptTransitive
<1> QED BY <1>1, <1>5, <1>6, <1>10, PooledUndiluted DEF mk

(* A trade leaves the tokens of the pool as they are. *)
LEMMA TradeUndiluted ==
  ASSUME IInv, NEW a \in Trader, NEW m \in Maturity, NEW traded \in Market, NEW pooled, NEW n \in Int,
         now < m, traded.totalLiquidity = markets[m].totalLiquidity,
         Pooled(ledger, pooled, m, traded), CommitIfCollateralized(UpsertfCash(pooled, a, m, n), a)
  PROVE  PoolsUndiluted
<1> DEFINE s == UpsertfCash(pooled, a, m, n)
<1>1. CommitIfCollateralized(s, a) /\ a \in Account /\ pooled \in LedgerType
  BY NotionalAssumption DEF Pooled
<1>2. s.markets = pooled.markets /\ TokensKept(pooled, s, m)
  BY <1>1, UpsertfCashEffect, fCashEntryKeepsTokens
<1> HIDE DEF s
<1>3. Undiluted(markets[m], traded)
  BY DEF Undiluted
<1> QED BY <1>1, <1>2, <1>3, PooledUndiluted

LEMMA TakeCurrentCashUndiluted ==
  ASSUME IInv, NEW a \in Trader, NEW m \in Maturity, NEW fCash \in Nat, NEW amount \in Nat,
         TakeCurrentCash(a, m, fCash, amount)
  PROVE  PoolsUndiluted
<1> DEFINE mk == markets[m]
           fee == TransactionFee(amount, m)
           traded == [totalfCash       |-> mk.totalfCash + fCash,
                      totalLiquidity   |-> mk.totalLiquidity,
                      totalCurrentCash |-> mk.totalCurrentCash - amount]
           pooled == WithdrawFromMarket([ledger EXCEPT !.markets[m] = traded], a, amount, fee)
<1>1. /\ fCash < mk.totalCurrentCash /\ amount <= fCash /\ now < m
      /\ CommitIfCollateralized(UpsertfCash(pooled, a, m, -fCash), a)
  BY DEF TakeCurrentCash, IsActive
<1>2. /\ ledger \in LedgerType /\ mk = ledger.markets[m] /\ a \in Account
      /\ mk.totalfCash \in Nat /\ mk.totalLiquidity \in Nat /\ mk.totalCurrentCash \in Nat
  BY PoolsAlive, NotionalAssumption
<1>3. traded.totalLiquidity = markets[m].totalLiquidity
  OBVIOUS
<1> HIDE DEF mk
<1>4. traded \in Market /\ traded.totalCurrentCash = mk.totalCurrentCash - amount
  BY <1>1, <1>2 DEF Market
<1>5. fee \in Nat
  BY <1>1, FeeNat
<1> HIDE DEF traded, fee
<1>6. Pooled(ledger, pooled, m, traded)
  <2>1. traded.totalCurrentCash = ledger.markets[m].totalCurrentCash - amount
    BY <1>2, <1>4
  <2>2. amount \in Int /\ fee \in Int /\ ledger \in LedgerType /\ a \in Account /\ traded \in Market
    BY <1>2, <1>4, <1>5
  <2> QED BY <2>1, <2>2, WithdrawPooled, ZenonT(30)
<1> HIDE DEF pooled
<1>7. -fCash \in Int
  OBVIOUS
<1> QED BY <1>1, <1>3, <1>4, <1>6, <1>7, TradeUndiluted

LEMMA TakefCashUndiluted ==
  ASSUME IInv, NEW a \in Trader, NEW m \in Maturity, NEW fCash \in Nat, NEW amount \in Nat,
         TakefCash(a, m, fCash, amount)
  PROVE  PoolsUndiluted
<1> DEFINE mk == markets[m]
           fee == TransactionFee(amount, m)
           traded == [totalfCash       |-> mk.totalfCash - fCash,
                      totalLiquidity   |-> mk.totalLiquidity,
                      totalCurrentCash |-> mk.totalCurrentCash + amount]
           pooled == DepositIntoMarket([ledger EXCEPT !.markets[m] = traded], a, amount, fee)
<1>1. /\ fCash < mk.totalfCash /\ now < m
      /\ CommitIfCollateralized(UpsertfCash(pooled, a, m, fCash), a)
  BY DEF TakefCash, IsActive
<1>2. /\ ledger \in LedgerType /\ mk = ledger.markets[m] /\ a \in Account
      /\ mk.totalfCash \in Nat /\ mk.totalLiquidity \in Nat /\ mk.totalCurrentCash \in Nat
  BY PoolsAlive, NotionalAssumption
<1>3. traded.totalLiquidity = markets[m].totalLiquidity
  OBVIOUS
<1> HIDE DEF mk
<1>4. traded \in Market /\ traded.totalCurrentCash = mk.totalCurrentCash + amount
  BY <1>1, <1>2 DEF Market
<1>5. fee \in Nat
  BY <1>1, FeeNat
<1> HIDE DEF traded, fee
<1>6. Pooled(ledger, pooled, m, traded)
  <2>1. traded.totalCurrentCash = ledger.markets[m].totalCurrentCash + amount
    BY <1>2, <1>4
  <2>2. amount \in Int /\ fee \in Int /\ ledger \in LedgerType /\ a \in Account /\ traded \in Market
    BY <1>2, <1>4, <1>5
  <2> QED BY <2>1, <2>2, DepositPooled, ZenonT(30)
<1> HIDE DEF pooled
<1>7. fCash \in Int
  OBVIOUS
<1> QED BY <1>1, <1>3, <1>4, <1>6, <1>7, TradeUndiluted

LEMMA NextUndiluted ==
  ASSUME IInv, [Next]_vars
  PROVE  PoolsUndiluted
<1>1. Trader \subseteq Account /\ Amount \subseteq Nat /\ \A c \in Currency : Deposits[c] \subseteq Nat
  BY NotionalAssumption
<1>2. ASSUME NEW x \in Nat, NEW y \in 1 .. x PROVE y \in Nat
  BY <1>2
<1>3. CASE EscrowNext
  <2>1. PICK a \in Trader :
          \/ \E c \in Currency : \E amount \in Deposits[c] : Deposit(a, c, amount)
          \/ \E c \in Currency, amount \in Amount : Withdraw(a, c, amount)
          \/ \E amount \in Amount : WithdrawEth(a, amount)
    BY <1>3 DEF EscrowNext
  <2>2. CASE \E c \in Currency : \E amount \in Deposits[c] : Deposit(a, c, amount)
    <3>1. PICK c \in Currency : \E amount \in Deposits[c] : Deposit(a, c, amount)
      BY <2>2
    <3>2. PICK amount \in Deposits[c] : Deposit(a, c, amount)
      BY <3>1
    <3>3. amount \in Nat
      BY <1>1
    <3> QED BY <3>2, <3>3, DepositUndiluted
  <2>3. CASE \E c \in Currency, amount \in Amount : Withdraw(a, c, amount)
    BY <1>1, <2>3, WithdrawUndiluted
  <2>4. CASE \E amount \in Amount : WithdrawEth(a, amount)
    BY <1>1, <2>4, WithdrawEthUndiluted
  <2> QED BY <2>1, <2>2, <2>3, <2>4
<1>4. CASE MarketNext
  <2>1. PICK a \in Trader, m \in Maturity, x \in Amount :
          \/ \E y \in Amount : AddLiquidity(a, m, x, y)
          \/ RemoveLiquidity(a, m, x)
          \/ \E y \in 1 .. x : TakeCurrentCash(a, m, x, y)
          \/ \E y \in 1 .. x : TakefCash(a, m, x, y)
    BY <1>4 DEF MarketNext
  <2>2. x \in Nat
    BY <1>1
  <2>3. CASE \E y \in Amount : AddLiquidity(a, m, x, y)
    BY <1>1, <2>2, <2>3, AddLiquidityUndiluted
  <2>4. CASE RemoveLiquidity(a, m, x)
    BY <2>2, <2>4, RemoveLiquidityUndiluted
  <2>5. CASE \E y \in 1 .. x : TakeCurrentCash(a, m, x, y)
    BY <1>2, <2>2, <2>5, TakeCurrentCashUndiluted
  <2>6. CASE \E y \in 1 .. x : TakefCash(a, m, x, y)
    BY <1>2, <2>2, <2>6, TakefCashUndiluted
  <2> QED BY <2>1, <2>3, <2>4, <2>5, <2>6
<1>5. CASE TransferNext
  <2>1. PICK a \in Trader, b \in Account, m \in Maturity, x \in Amount :
          \/ TransferfCash(a, b, m, x)
          \/ TransferToken(a, b, m, x)
          \/ MintfCashPair(a, b, m, x)
    BY <1>5 DEF TransferNext
  <2>2. x \in Nat
    BY <1>1
  <2>3. CASE TransferfCash(a, b, m, x) \/ MintfCashPair(a, b, m, x)
    <3>1. now < m /\ CommitIfCollateralized(UpsertfCash(UpsertfCash(ledger, a, m, -x), b, m, x), a)
      BY <2>3 DEF TransferfCash, MintfCashPair
    <3> QED BY <2>2, <3>1, MovefCashUndiluted
  <2>4. CASE TransferToken(a, b, m, x)
    BY <2>2, <2>4, TransferTokenUndiluted
  <2> QED BY <2>1, <2>3, <2>4
<1>6. CASE SettleNext
  BY <1>6, SettleNextUndiluted DEF SettleNext
<1>7. CASE Tick \/ MoveRate \/ UNCHANGED vars
  <2>1. markets' = markets
    BY <1>7 DEF Tick, MoveRate, ledgerVars, vars
  <2> QED BY <2>1, UntouchedUndiluted
<1> QED BY <1>3, <1>4, <1>5, <1>6, <1>7 DEF Next

(* addLiquidity, removeLiquidity and the settlement of liquidity tokens round
   against whoever calls them: the cash behind one token of a pool falls by
   trading only, over any number of calls that each lose a remainder. *)
THEOREM TokensNeverDiluted == Spec => TokenCashNeverDiluted
<1>1. IInv /\ [Next]_vars =>
        [\A m \in Maturity :
           LET old == markets[m]
               new == markets'[m]
           IN  old.totalLiquidity > 0 /\ new.totalLiquidity > 0 /\ old.totalLiquidity # new.totalLiquidity
                 => new.totalCurrentCash * old.totalLiquidity >= old.totalCurrentCash * new.totalLiquidity]_vars
  BY NextUndiluted DEF PoolsUndiluted, Undiluted
<1> QED BY <1>1, Invariance, PTL DEF Spec, TokenCashNeverDiluted

-----------------------------------------------------------------------------
(* Collateral.                                                             *)

(* The state a call leaves, as a ledger. *)
LEMMA CommittedLedger ==
  ASSUME NEW s \in LedgerType, Commit(s)
  PROVE  ledger' = s /\ now' = now /\ rate' = rate
<1>1. s = [cash |-> s.cash, held |-> s.held, portfolio |-> s.portfolio, markets |-> s.markets]
  BY DEF LedgerType
<1> QED BY <1>1 DEF Commit, ledger

LEMMA ValuedAfter ==
  ASSUME NEW s, ledger' = s, now' = now, rate' = rate, NEW a \in Account
  PROVE  /\ Valued(a)' <=> CanValueAccount(s, a, now)
         /\ FC(a)' = AccountFC(s, a, now, rate)
BY DEF Valued, FC

LEMMA LedgerParts ==
  ASSUME IInv
  PROVE  /\ ledger \in LedgerType /\ TokensListed(ledger) /\ now \in Int /\ rate \in Nat
         /\ ledger.portfolio = portfolio /\ ledger.markets = markets /\ ledger.cash = cash
<1>1. rate \in Nat
  BY NotionalAssumption DEF IInv
<1> QED BY <1>1 DEF IInv, Sound, ledger

LEMMA SettlementCollateral ==
  ASSUME IInv, NEW a \in Account, SettleMaturedAssets(a)
  PROVE  /\ Valued(a) => Valued(a)' /\ FC(a)' = FC(a)
         /\ \A b \in Account : Valued(b) /\ Valued(b)' => FC(b)' >= FC(b)
<1> DEFINE r == Settle(ledger, a, now)
<1>1. /\ ledger \in LedgerType /\ TokensListed(ledger) /\ now \in Int /\ rate \in Nat
  BY LedgerParts
<1>2. CanSettle(ledger, a, now) /\ Commit(r)
  BY DEF SettleMaturedAssets
<1>3. r \in LedgerType
  BY <1>1, <1>2, SettleEffect
<1>4. ledger' = r /\ now' = now /\ rate' = rate
  BY <1>2, <1>3, CommittedLedger
<1>5. \A b \in Account : /\ Valued(b)' <=> CanValueAccount(r, b, now)
                         /\ FC(b)' = AccountFC(r, b, now, rate)
  <2> HIDE DEF r
  <2> QED BY <1>4, ValuedAfter
<1>6. ASSUME Valued(a) PROVE Valued(a)' /\ FC(a)' = FC(a)
  <2>1. CanValueAccount(r, a, now) /\ AccountFC(r, a, now, rate) = AccountFC(ledger, a, now, rate)
    BY <1>1, <1>2, <1>6, SettleSelf DEF Valued
  <2> HIDE DEF r
  <2> QED BY <1>5, <2>1 DEF FC
<1>7. ASSUME NEW b \in Account, Valued(b), Valued(b)' PROVE FC(b)' >= FC(b)
  <2>1. CanValueAccount(ledger, b, now) /\ CanValueAccount(r, b, now)
    BY <1>5, <1>7 DEF Valued
  <2>2. AccountFC(ledger, b, now, rate) \in Int /\ AccountFC(r, b, now, rate) \in Int
    <3> HIDE DEF r
    <3> QED BY <1>1, <1>3, <2>1, AccountFCParts
  <2>3. CASE b = a
    BY <1>6, <1>7, <2>2, <2>3 DEF FC
  <2>4. CASE b # a
    <3>1. NoWorse(ledger, now, r, now, b)
      BY <1>1, <1>2, <2>1, <2>4, SettleOthers
    <3> HIDE DEF r
    <3>2. AccountFC(ledger, b, now, rate) <= AccountFC(r, b, now, rate)
      BY <1>1, <1>3, <2>1, <3>1, NoWorseFC
    <3> QED BY <1>5, <2>2, <3>2 DEF FC
  <2> QED BY <2>3, <2>4
<1> QED BY <1>6, <1>7

(* settleMaturedAssets, which anyone may call for anyone, changes nobody's
   collateral to their disadvantage: what settling pays an account is what its
   matured assets counted for, and those who stay in the pool lose nothing to
   the rounding. *)
THEOREM SettlementNeverCosts == Spec => SettlementKeepsCollateral
<1>1. IInv /\ [Next]_vars =>
        [\A a \in Account :
           SettleMaturedAssets(a) =>
             /\ Valued(a) => Valued(a)' /\ FC(a)' = FC(a)
             /\ \A b \in Account : Valued(b) /\ Valued(b)' => FC(b)' >= FC(b)]_vars
  BY SettlementCollateral
<1> QED BY <1>1, Invariance, PTL DEF Spec, SettlementKeepsCollateral

-----------------------------------------------------------------------------
(* A change of the ledger in favour of h, followed by a settlement of the
   account that made it. *)
LEMMA GiftKeepsCollateral ==
  ASSUME IInv, HaircutBounded, NEW a \in Trader, NEW h \in Account \ {a}, NEW s \in LedgerType,
         TokensListed(s), s.markets = markets, Better(ledger, s, h), CommitIfCollateralized(s, a),
         Valued(h), Valued(h)'
  PROVE  FC(h)' >= FC(h)
<1> DEFINE r == Settle(s, a, now)
<1>1. /\ ledger \in LedgerType /\ now \in Int /\ rate \in Nat /\ ledger.markets = markets
      /\ a \in Account /\ h \in Account
  BY LedgerParts, NotionalAssumption
<1>2. CanSettle(s, a, now) /\ Commit(r)
  BY DEF CommitIfCollateralized
<1>3. r \in LedgerType
  BY <1>1, <1>2, SettleEffect
<1>4. ledger' = r /\ now' = now /\ rate' = rate
  BY <1>2, <1>3, CommittedLedger
<1>5. CanValueAccount(r, h, now) /\ FC(h)' = AccountFC(r, h, now, rate)
  <2> HIDE DEF r
  <2> QED BY <1>1, <1>4, ValuedAfter
<1>6. CanValueAccount(ledger, h, now)
  BY DEF Valued
<1>7. CanValueAccount(s, h, now)
  BY <1>1, <1>2, <1>5, SettleValued
<1>8. NoWorse(ledger, now, s, now, h)
  BY <1>1, <1>6, <1>7, BetterNoWorse
<1>9. NoWorse(s, now, r, now, h)
  BY <1>1, <1>2, <1>5, <1>7, SettleOthers
<1> HIDE DEF r
<1>10. AccountFC(ledger, h, now, rate) <= AccountFC(s, h, now, rate)
  BY <1>1, <1>6, <1>7, <1>8, NoWorseFC
<1>11. AccountFC(s, h, now, rate) <= AccountFC(r, h, now, rate)
  BY <1>1, <1>3, <1>5, <1>7, <1>9, NoWorseFC
<1>12. /\ AccountFC(ledger, h, now, rate) \in Int /\ AccountFC(s, h, now, rate) \in Int
       /\ AccountFC(r, h, now, rate) \in Int
  BY <1>1, <1>3, <1>5, <1>6, <1>7, AccountFCParts
<1> QED BY <1>5, <1>10, <1>11, <1>12 DEF FC

(* The ledger between the parts of a transfer or a mint. *)
LEMMA MovefCashBetter ==
  ASSUME IInv, NEW from \in Trader, NEW to \in Account, NEW h \in Account \ {from}, NEW m \in Maturity,
         NEW value \in Nat
  PROVE  LET s == UpsertfCash(UpsertfCash(ledger, from, m, -value), to, m, value)
         IN  s \in LedgerType /\ TokensListed(s) /\ s.markets = markets /\ Better(ledger, s, h)
<1> DEFINE n == -value
           u == UpsertfCash(ledger, from, m, n)
           s == UpsertfCash(u, to, m, value)
<1>1. /\ ledger \in LedgerType /\ TokensListed(ledger) /\ ledger.markets = markets
      /\ from \in Account /\ from # h /\ n \in Int /\ value \in Int /\ value >= 0
  BY LedgerParts, NotionalAssumption
<1> HIDE DEF n
<1>2. u \in LedgerType /\ TokensListed(u) /\ u.markets = markets
  BY <1>1, UpsertfCashEffect, ZenonT(30)
<1>3. Better(ledger, u, h)
  BY <1>1, EntriesBetter
<1> HIDE DEF u
<1>4. s \in LedgerType /\ TokensListed(s) /\ s.markets = markets
  BY <1>1, <1>2, UpsertfCashEffect, ZenonT(30)
<1>5. Better(u, s, h)
  BY <1>1, <1>2, EntriesBetter
<1> HIDE DEF s
<1>6. Better(ledger, s, h)
  BY <1>1, <1>2, <1>3, <1>4, <1>5, BetterTransitive
<1> QED BY <1>4, <1>6 DEF s, u, n

LEMMA MoveTokenBetter ==
  ASSUME IInv, NEW from \in Trader, NEW to \in Account, NEW h \in Account \ {from}, NEW m \in Maturity,
         NEW value \in Nat, CanReduceToken(ledger, from, m, value)
  PROVE  LET s == UpsertToken(ReduceToken(ledger, from, m, value), to, m, value)
         IN  s \in LedgerType /\ TokensListed(s) /\ s.markets = markets /\ Better(ledger, s, h)
<1> DEFINE u == ReduceToken(ledger, from, m, value)
           s == UpsertToken(u, to, m, value)
<1>1. /\ ledger \in LedgerType /\ TokensListed(ledger) /\ ledger.markets = markets
      /\ from \in Account /\ from # h
  BY LedgerParts, NotionalAssumption
<1>2. u \in LedgerType /\ TokensListed(u) /\ u.markets = markets
  BY <1>1, ReduceTokenEffect, ZenonT(30)
<1>3. Better(ledger, u, h)
  <2>1. 0 \in Int
    OBVIOUS
  <2> QED BY <1>1, <2>1, EntriesBetter
<1> HIDE DEF u
<1>4. s \in LedgerType /\ TokensListed(s) /\ s.markets = markets
  BY <1>2, UpsertTokenEffect, ZenonT(30)
<1>5. Better(u, s, h)
  <2>1. 0 \in Int
    OBVIOUS
  <2> QED BY <1>2, <2>1, EntriesBetter
<1> HIDE DEF s
<1>6. Better(ledger, s, h)
  BY <1>1, <1>2, <1>3, <1>4, <1>5, BetterTransitive
<1> QED BY <1>4, <1>6 DEF s, u

LEMMA TransferKeepsCollateral ==
  ASSUME IInv, HaircutBounded, NEW a \in Trader, NEW to \in Account, NEW h \in Account \ {a},
         NEW m \in Maturity, NEW x \in Amount,
         TransferfCash(a, to, m, x) \/ TransferToken(a, to, m, x) \/ MintfCashPair(a, to, m, x),
         Valued(h), Valued(h)'
  PROVE  FC(h)' >= FC(h)
<1>1. x \in Nat
  BY NotionalAssumption
<1>2. CASE TransferfCash(a, to, m, x) \/ MintfCashPair(a, to, m, x)
  <2> DEFINE s == UpsertfCash(UpsertfCash(ledger, a, m, -x), to, m, x)
  <2>1. CommitIfCollateralized(s, a)
    BY <1>2 DEF TransferfCash, MintfCashPair
  <2>2. s \in LedgerType /\ TokensListed(s) /\ s.markets = markets /\ Better(ledger, s, h)
    BY <1>1, MovefCashBetter
  <2> HIDE DEF s
  <2> QED BY <2>1, <2>2, GiftKeepsCollateral
<1>3. CASE TransferToken(a, to, m, x)
  <2> DEFINE s == UpsertToken(ReduceToken(ledger, a, m, x), to, m, x)
  <2>1. CommitIfCollateralized(s, a) /\ CanReduceToken(ledger, a, m, x)
    BY <1>3 DEF TransferToken
  <2>2. s \in LedgerType /\ TokensListed(s) /\ s.markets = markets /\ Better(ledger, s, h)
    BY <1>1, <2>1, MoveTokenBetter
  <2> HIDE DEF s
  <2> QED BY <2>1, <2>2, GiftKeepsCollateral
<1> QED BY <1>2, <1>3

LEMMA FCInt ==
  ASSUME IInv, NEW h \in Account, Valued(h)
  PROVE  FC(h) \in Int
BY LedgerParts, AccountFCParts DEF FC, Valued

(* safeTransferFrom and mintfCashPair check only who sends: whoever receives,
   also into a debt of the same maturity, is never worse off for it, as long
   as the haircut of a claim is at most the claim. *)
THEOREM ReceiversNeverWorseOff ==
  ASSUME HaircutBounded
  PROVE  Spec => ReceiverNeverWorseOff
<1>1. ASSUME IInv, IInv', NEW b \in Account, Valued(b), Valued(b)', FC(b)' < FC(b) PROVE ~Receives(b)
  <2> SUFFICES ASSUME Receives(b) PROVE FALSE
    OBVIOUS
  <2>1. PICK a \in Trader \ {b}, m \in Maturity, x \in Amount :
          TransferfCash(a, b, m, x) \/ TransferToken(a, b, m, x) \/ MintfCashPair(a, b, m, x)
    BY DEF Receives
  <2>2. FC(b)' >= FC(b)
    BY <1>1, <2>1, TransferKeepsCollateral
  <2>3. FC(b) \in Int
    BY <1>1, FCInt
  <2>4. FC(b)' \in Int
    <3>1. ledger' \in LedgerType /\ now' \in Int /\ rate' \in Nat
      BY <1>1, NotionalAssumption DEF IInv, Sound
    <3>2. CanValueAccount(ledger', b, now')
      BY <1>1 DEF Valued
    <3>3. AccountFC(ledger', b, now', rate') \in Int
      BY <3>1, <3>2, AccountFCParts
    <3> QED BY <3>3 DEF FC
  <2> QED BY <1>1, <2>2, <2>3, <2>4
<1>2. IInv /\ IInv' /\ [Next]_vars =>
        [\A b \in Account :
           TouchedWithoutTrade(b) /\ Valued(b) /\ Valued(b)' /\ FC(b)' < FC(b) => ~Receives(b)]_vars
  BY <1>1
<1> QED BY <1>2, Invariance, PTL DEF Spec, ReceiverNeverWorseOff

-----------------------------------------------------------------------------
(* h is in credit and stays valued, in a step that leaves its pools alone. *)
Untouched(h) == /\ \A m \in portfolio[h].listed : markets'[m] = markets[m]
                /\ Valued(h) /\ Valued(h)' /\ FC(h) >= 0

(* Entries after a change that took nothing from h. *)
LEMMA EntriesStayBetter ==
  ASSUME NEW s \in LedgerType, NEW u \in LedgerType, TokensListed(u), NEW a \in Account, NEW h \in Account,
         a # h => Better(s, u, h), NEW m \in Maturity, NEW n \in Int, NEW tokens \in Nat
  PROVE  /\ /\ UpsertfCash(u, a, m, n) \in LedgerType
            /\ TokensListed(UpsertfCash(u, a, m, n))
            /\ a # h => Better(s, UpsertfCash(u, a, m, n), h)
         /\ /\ UpsertToken(u, a, m, tokens) \in LedgerType
            /\ TokensListed(UpsertToken(u, a, m, tokens))
            /\ a # h => Better(s, UpsertToken(u, a, m, tokens), h)
         /\ CanReduceToken(u, a, m, tokens) =>
              /\ ReduceToken(u, a, m, tokens) \in LedgerType
              /\ TokensListed(ReduceToken(u, a, m, tokens))
              /\ a # h => Better(s, ReduceToken(u, a, m, tokens), h)
<1>1. /\ UpsertfCash(u, a, m, n) \in LedgerType
      /\ TokensListed(UpsertfCash(u, a, m, n))
      /\ a # h => Better(s, UpsertfCash(u, a, m, n), h)
  <2> DEFINE v == UpsertfCash(u, a, m, n)
  <2>1. v \in LedgerType /\ TokensListed(v)
    BY UpsertfCashEffect, ZenonT(30)
  <2>2. a # h => Better(u, v, h)
    BY EntriesBetter
  <2> HIDE DEF v
  <2>3. a # h => Better(s, v, h)
    BY <2>1, <2>2, BetterTransitive
  <2> QED BY <2>1, <2>3 DEF v
<1>2. /\ UpsertToken(u, a, m, tokens) \in LedgerType
      /\ TokensListed(UpsertToken(u, a, m, tokens))
      /\ a # h => Better(s, UpsertToken(u, a, m, tokens), h)
  <2> DEFINE v == UpsertToken(u, a, m, tokens)
  <2>1. v \in LedgerType /\ TokensListed(v)
    BY UpsertTokenEffect, ZenonT(30)
  <2>2. Better(u, v, h)
    BY EntriesBetter
  <2> HIDE DEF v
  <2>3. a # h => Better(s, v, h)
    BY <2>1, <2>2, BetterTransitive
  <2> QED BY <2>1, <2>3 DEF v
<1>3. ASSUME CanReduceToken(u, a, m, tokens)
      PROVE  /\ ReduceToken(u, a, m, tokens) \in LedgerType
             /\ TokensListed(ReduceToken(u, a, m, tokens))
             /\ a # h => Better(s, ReduceToken(u, a, m, tokens), h)
  <2> DEFINE v == ReduceToken(u, a, m, tokens)
  <2>1. v \in LedgerType /\ TokensListed(v)
    BY <1>3, ReduceTokenEffect, ZenonT(30)
  <2>2. a # h => Better(u, v, h)
    BY <1>3, EntriesBetter
  <2> HIDE DEF v
  <2>3. a # h => Better(s, v, h)
    BY <2>1, <2>2, BetterTransitive
  <2> QED BY <2>1, <2>3 DEF v
<1> QED BY <1>1, <1>2, <1>3

(* The market's cash transfers cost the caller and the market only. *)
LEMMA MarketBetter ==
  ASSUME NEW s \in LedgerType, TokensListed(s), NEW a \in Account, NEW h \in Account, NEW m \in Maturity,
         NEW mk \in Market, NEW value \in Int, NEW fee \in Nat
  PROVE  LET d == DepositIntoMarket([s EXCEPT !.markets[m] = mk], a, value, fee)
             w == WithdrawFromMarket([s EXCEPT !.markets[m] = mk], a, value, fee)
         IN  /\ d \in LedgerType /\ TokensListed(d) /\ d.portfolio = s.portfolio
             /\ a # h => Better(s, d, h)
             /\ w \in LedgerType /\ TokensListed(w) /\ w.portfolio = s.portfolio
             /\ a # h => Better(s, w, h)
<1> DEFINE q == [s EXCEPT !.markets[m] = mk]
           d == DepositIntoMarket(q, a, value, fee)
           w == WithdrawFromMarket(q, a, value, fee)
<1>1. q \in LedgerType /\ q.portfolio = s.portfolio
  BY MarketReplaced, Zenon
<1>2. a # h => Gains(s, d, h) /\ Gains(s, w, h)
  BY MarketGains
<1> HIDE DEF q
<1>3. /\ d \in LedgerType /\ d.portfolio = s.portfolio
      /\ w \in LedgerType /\ w.portfolio = s.portfolio
  <2>1. fee \in Int
    OBVIOUS
  <2> QED BY <1>1, <2>1, MarketTransfer
<1> HIDE DEF d, w
<1>4. TokensListed(d) /\ TokensListed(w)
  BY <1>3 DEF TokensListed
<1>5. a # h => Better(s, d, h) /\ Better(s, w, h)
  BY <1>2, <1>3, SamePortfolioBetter
<1> QED BY <1>3, <1>4, <1>5 DEF d, w, q

-----------------------------------------------------------------------------
(* A step that took nothing from h and left its pools alone. *)
LEMMA BetterKeepsCollateral ==
  ASSUME IInv, HaircutBounded, NEW h \in Account, NEW r \in LedgerType, Commit(r), Better(ledger, r, h),
         Untouched(h)
  PROVE  FC(h)' >= 0
<1>1. /\ ledger \in LedgerType /\ now \in Int /\ rate \in Nat
      /\ ledger.markets = markets /\ ledger.portfolio = portfolio
  BY LedgerParts
<1>2. ledger' = r /\ now' = now /\ rate' = rate /\ r.markets = markets'
  <2>1. r.markets = markets'
    BY DEF Commit
  <2> QED BY <2>1, CommittedLedger
<1>3. CanValueAccount(ledger, h, now) /\ CanValueAccount(r, h, now)
      /\ FC(h)' = AccountFC(r, h, now, rate)
  BY <1>2, ValuedAfter DEF Untouched, Valued
<1>4. NoWorse(ledger, now, r, now, h)
  <2>1. \A m \in ledger.portfolio[h].listed : r.markets[m] = ledger.markets[m]
    BY <1>1, <1>2 DEF Untouched
  <2> QED BY <1>1, <1>3, <2>1, BetterNoWorse
<1>5. AccountFC(ledger, h, now, rate) <= AccountFC(r, h, now, rate)
  BY <1>1, <1>3, <1>4, NoWorseFC
<1>6. AccountFC(ledger, h, now, rate) \in Int /\ AccountFC(r, h, now, rate) \in Int
  BY <1>1, <1>3, AccountFCParts
<1>7. AccountFC(ledger, h, now, rate) >= 0
  BY DEF Untouched, FC
<1> QED BY <1>3, <1>5, <1>6, <1>7

(* Calls that end with a check of their caller. *)
LEMMA CheckedCall ==
  ASSUME IInv, HaircutBounded, NEW a \in Trader, NEW s \in LedgerType, TokensListed(s),
         CommitIfCollateralized(s, a), NEW h \in Account, a # h => Better(ledger, s, h), Untouched(h)
  PROVE  FC(h)' >= 0
<1> DEFINE r == Settle(s, a, now)
<1>1. a \in Account /\ now \in Int /\ ledger \in LedgerType
  BY LedgerParts, NotionalAssumption
<1>2. CanSettle(s, a, now) /\ Collateralized(r, a) /\ Commit(r)
  BY DEF CommitIfCollateralized
<1>3. r \in LedgerType
  BY <1>1, <1>2, SettleEffect
<1>4. a # h => Better(s, r, h)
  BY <1>1, <1>2, SettleBetter
<1> HIDE DEF r
<1>5. CASE a = h
  <2>1. ledger' = r /\ now' = now /\ rate' = rate
    BY <1>2, <1>3, CommittedLedger
  <2>2. FC(h)' = AccountFC(r, h, now, rate)
    BY <2>1, ValuedAfter
  <2> QED BY <1>2, <1>5, <2>2 DEF Collateralized
<1>6. CASE a # h
  <2>1. Better(ledger, r, h)
    BY <1>1, <1>3, <1>4, <1>6, BetterTransitive
  <2> QED BY <1>2, <1>3, <2>1, BetterKeepsCollateral
<1> QED BY <1>5, <1>6

LEMMA DepositCollateral ==
  ASSUME IInv, HaircutBounded, NEW a \in Trader, NEW c \in Currency, NEW amount \in Nat,
         Deposit(a, c, amount), NEW h \in Account, Untouched(h)
  PROVE  FC(h)' >= 0
<1> DEFINE r == MoveIn(ledger, a, c, amount)
<1>1. /\ ledger \in LedgerType /\ a \in Account /\ amount \in Int /\ amount >= 0
  BY LedgerParts, NotionalAssumption
<1>2. Commit(r)
  BY DEF Deposit
<1>3. Better(ledger, r, h)
  BY <1>1, MoveInBetter
<1>4. r \in LedgerType
  <2>1. ledger.held[c] + amount \in Nat
    BY <1>1 DEF LedgerType
  <2> QED BY <1>1, <2>1, MoveInBalanced DEF Balanced, Kept
<1> HIDE DEF r
<1> QED BY <1>2, <1>3, <1>4, BetterKeepsCollateral

LEMMA WithdrawCollateral ==
  ASSUME IInv, HaircutBounded, NEW a \in Trader, NEW c \in Currency, NEW amount \in Nat,
         Withdraw(a, c, amount), NEW h \in Account, Untouched(h)
  PROVE  FC(h)' >= 0
<1> DEFINE settled == Settle(ledger, a, now)
           balance == settled.cash[c][a]
           taken == IF balance < amount THEN balance ELSE amount
           after == MoveIn(settled, a, c, -taken)
<1>1. /\ CanSettle(ledger, a, now) /\ balance > 0 /\ taken <= held[c]
      /\ Collateralized(after, a) /\ Commit(after)
  BY DEF Withdraw
<1>2. /\ ledger \in LedgerType /\ TokensListed(ledger) /\ now \in Int /\ a \in Account
  BY LedgerParts, NotionalAssumption
<1>3. /\ settled \in LedgerType /\ settled.held[c] = held[c]
  <2>1. settled.held = held
    BY DEF Settle, ledger
  <2>2. settled \in LedgerType
    BY <1>1, <1>2, SettleEffect
  <2> QED BY <2>1, <2>2
<1>4. a # h => Better(ledger, settled, h)
  BY <1>1, <1>2, SettleBetter
<1> HIDE DEF settled
<1>5. balance \in Int /\ settled.held[c] \in Nat
  BY <1>2, <1>3 DEF LedgerType, Holder
<1> HIDE DEF balance
<1>6. -taken \in Int /\ settled.held[c] + (-taken) \in Nat
  BY <1>1, <1>3, <1>5
<1> DEFINE n == -taken
<1> HIDE DEF taken
<1>7. after \in LedgerType
  BY <1>2, <1>3, <1>6, MoveInBalanced DEF Balanced, Kept
<1>8. a # h => Better(settled, after, h)
  BY <1>2, <1>3, <1>6, MoveInBetter
<1> HIDE DEF after
<1>9. CASE a = h
  <2>1. ledger' = after /\ now' = now /\ rate' = rate
    BY <1>1, <1>7, CommittedLedger
  <2>2. FC(h)' = AccountFC(after, h, now, rate)
    BY <2>1, ValuedAfter
  <2> QED BY <1>1, <1>9, <2>2 DEF Collateralized
<1>10. CASE a # h
  <2>1. Better(ledger, after, h)
    BY <1>2, <1>3, <1>4, <1>7, <1>8, <1>10, BetterTransitive
  <2> QED BY <1>1, <1>7, <2>1, BetterKeepsCollateral
<1> QED BY <1>9, <1>10

LEMMA WithdrawEthCollateral ==
  ASSUME IInv, HaircutBounded, NEW a \in Trader, NEW amount \in Nat, WithdrawEth(a, amount),
         NEW h \in Account, Untouched(h)
  PROVE  FC(h)' >= 0
<1> DEFINE n == -amount
           s == MoveIn(ledger, a, ETH, n)
<1>1. /\ ledger \in LedgerType /\ TokensListed(ledger) /\ a \in Account
      /\ ETH \in Currency /\ ledger.held[ETH] = held[ETH]
  BY LedgerParts, NotionalAssumption DEF Currency, ledger
<1>2. amount <= held[ETH] /\ CommitIfCollateralized(s, a)
  BY DEF WithdrawEth
<1>3. n \in Int /\ ledger.held[ETH] + n \in Nat
  BY <1>1, <1>2 DEF LedgerType
<1> HIDE DEF n
<1>4. s \in LedgerType /\ TokensListed(s)
  BY <1>1, <1>3, MoveInBalanced DEF Balanced, Kept
<1>5. a # h => Better(ledger, s, h)
  BY <1>1, <1>3, MoveInBetter
<1> HIDE DEF s
<1> QED BY <1>2, <1>4, <1>5, CheckedCall

-----------------------------------------------------------------------------
LEMMA AddLiquidityCollateral ==
  ASSUME IInv, HaircutBounded, NEW a \in Trader, NEW m \in Maturity, NEW amount \in Nat,
         NEW maxfCash \in Nat, AddLiquidity(a, m, amount, maxfCash), NEW h \in Account, Untouched(h)
  PROVE  FC(h)' >= 0
<1> DEFINE mk == markets[m]
           first == mk.totalLiquidity = 0
           tokens == IF first THEN amount ELSE Share(mk.totalLiquidity, amount, mk.totalCurrentCash)
           fCash == IF first THEN maxfCash ELSE Share(mk.totalfCash, amount, mk.totalCurrentCash)
           grown == [totalfCash       |-> IF first THEN maxfCash ELSE mk.totalfCash + fCash,
                     totalLiquidity   |-> IF first THEN amount ELSE mk.totalLiquidity + tokens,
                     totalCurrentCash |-> IF first THEN amount ELSE mk.totalCurrentCash + amount]
           pooled == DepositIntoMarket([ledger EXCEPT !.markets[m] = grown], a, amount, 0)
           n == -fCash
           u == UpsertToken(pooled, a, m, tokens)
           s == UpsertfCash(u, a, m, n)
<1>1. /\ ~first => mk.totalCurrentCash > 0
      /\ CommitIfCollateralized(s, a)
  BY DEF AddLiquidity
<1>2. /\ ledger \in LedgerType /\ TokensListed(ledger) /\ a \in Account
      /\ mk.totalfCash \in Nat /\ mk.totalLiquidity \in Nat /\ mk.totalCurrentCash \in Nat
  BY LedgerParts, PoolsAlive, NotionalAssumption
<1> HIDE DEF mk
<1>3. tokens \in Nat /\ fCash \in Nat
  <2>1. CASE first
    BY <2>1
  <2>2. CASE ~first
    BY <1>1, <1>2, <2>2, ShareNat
  <2> QED BY <2>1, <2>2
<1>4. grown \in Market
  <2> HIDE DEF tokens, fCash
  <2> QED BY <1>2, <1>3 DEF Market
<1> HIDE DEF grown, tokens, fCash
<1>5. n \in Int /\ amount \in Int /\ 0 \in Nat
  BY <1>3
<1> HIDE DEF n
<1>6. pooled \in LedgerType /\ TokensListed(pooled) /\ (a # h => Better(ledger, pooled, h))
  BY <1>2, <1>4, <1>5, MarketBetter
<1> HIDE DEF pooled
<1>7. u \in LedgerType /\ TokensListed(u) /\ (a # h => Better(ledger, u, h))
  BY <1>2, <1>3, <1>5, <1>6, EntriesStayBetter
<1> HIDE DEF u
<1>8. s \in LedgerType /\ TokensListed(s) /\ (a # h => Better(ledger, s, h))
  BY <1>2, <1>3, <1>5, <1>7, EntriesStayBetter
<1> HIDE DEF s
<1> QED BY <1>1, <1>8, CheckedCall

LEMMA RemoveLiquidityCollateral ==
  ASSUME IInv, HaircutBounded, NEW a \in Trader, NEW m \in Maturity, NEW tokens \in Nat,
         RemoveLiquidity(a, m, tokens), NEW h \in Account, Untouched(h)
  PROVE  FC(h)' >= 0
<1> DEFINE mk == markets[m]
           left == Redeem(mk, tokens)
           value == CashShare(mk, tokens)
           fCash == fCashShare(mk, tokens)
           pooled == WithdrawFromMarket([ledger EXCEPT !.markets[m] = left], a, value, 0)
           u == ReduceToken(pooled, a, m, tokens)
           s == UpsertfCash(u, a, m, fCash)
<1>1. /\ CanRedeem(mk, tokens) /\ CanReduceToken(ledger, a, m, tokens)
      /\ CommitIfCollateralized(s, a)
  BY DEF RemoveLiquidity
<1>2. /\ ledger \in LedgerType /\ TokensListed(ledger) /\ a \in Account /\ mk \in Market
      /\ mk.totalfCash \in Nat /\ mk.totalLiquidity \in Nat /\ mk.totalCurrentCash \in Nat
  BY LedgerParts, PoolsAlive, NotionalAssumption
<1> HIDE DEF mk
<1>3. left \in Market /\ value \in Int /\ fCash \in Int /\ 0 \in Nat
  <2>1. left \in Market /\ value \in 0 .. mk.totalCurrentCash /\ fCash \in 0 .. mk.totalfCash
    BY <1>1, <1>2, RedeemEffect
  <2> HIDE DEF left, value, fCash
  <2> QED BY <1>2, <2>1
<1> HIDE DEF left, value, fCash
<1>4. pooled \in LedgerType /\ TokensListed(pooled) /\ (a # h => Better(ledger, pooled, h))
  BY <1>2, <1>3, MarketBetter, ZenonT(30)
<1>5. pooled.portfolio = ledger.portfolio
  BY <1>2, <1>3, MarketBetter, SMTT(30)
<1> HIDE DEF pooled
<1>6. CanReduceToken(pooled, a, m, tokens)
  BY <1>1, <1>5 DEF CanReduceToken
<1>7. u \in LedgerType /\ TokensListed(u) /\ (a # h => Better(ledger, u, h))
  BY <1>2, <1>3, <1>4, <1>6, EntriesStayBetter
<1> HIDE DEF u
<1>8. s \in LedgerType /\ TokensListed(s) /\ (a # h => Better(ledger, s, h))
  BY <1>2, <1>3, <1>7, EntriesStayBetter
<1> HIDE DEF s
<1> QED BY <1>1, <1>8, CheckedCall

LEMMA TakeCurrentCashCollateral ==
  ASSUME IInv, HaircutBounded, NEW a \in Trader, NEW m \in Maturity, NEW fCash \in Nat, NEW amount \in Nat,
         TakeCurrentCash(a, m, fCash, amount), NEW h \in Account, Untouched(h)
  PROVE  FC(h)' >= 0
<1> DEFINE mk == markets[m]
           fee == TransactionFee(amount, m)
           traded == [totalfCash       |-> mk.totalfCash + fCash,
                      totalLiquidity   |-> mk.totalLiquidity,
                      totalCurrentCash |-> mk.totalCurrentCash - amount]
           pooled == WithdrawFromMarket([ledger EXCEPT !.markets[m] = traded], a, amount, fee)
           n == -fCash
           s == UpsertfCash(pooled, a, m, n)
<1>1. /\ fCash < mk.totalCurrentCash /\ amount <= fCash /\ now < m
      /\ CommitIfCollateralized(s, a)
  BY DEF TakeCurrentCash, IsActive
<1>2. /\ ledger \in LedgerType /\ TokensListed(ledger) /\ a \in Account
      /\ mk.totalfCash \in Nat /\ mk.totalLiquidity \in Nat /\ mk.totalCurrentCash \in Nat
  BY LedgerParts, PoolsAlive, NotionalAssumption
<1> HIDE DEF mk
<1>3. traded \in Market
  BY <1>1, <1>2 DEF Market
<1>4. fee \in Nat
  BY <1>1, FeeNat
<1> HIDE DEF traded, fee
<1>5. n \in Int /\ amount \in Int /\ 0 \in Nat
  OBVIOUS
<1> HIDE DEF n
<1>6. pooled \in LedgerType /\ TokensListed(pooled) /\ (a # h => Better(ledger, pooled, h))
  BY <1>2, <1>3, <1>4, <1>5, MarketBetter
<1> HIDE DEF pooled
<1>7. s \in LedgerType /\ TokensListed(s) /\ (a # h => Better(ledger, s, h))
  BY <1>2, <1>5, <1>6, EntriesStayBetter
<1> HIDE DEF s
<1> QED BY <1>1, <1>7, CheckedCall

LEMMA TakefCashCollateral ==
  ASSUME IInv, HaircutBounded, NEW a \in Trader, NEW m \in Maturity, NEW fCash \in Nat, NEW amount \in Nat,
         TakefCash(a, m, fCash, amount), NEW h \in Account, Untouched(h)
  PROVE  FC(h)' >= 0
<1> DEFINE mk == markets[m]
           fee == TransactionFee(amount, m)
           traded == [totalfCash       |-> mk.totalfCash - fCash,
                      totalLiquidity   |-> mk.totalLiquidity,
                      totalCurrentCash |-> mk.totalCurrentCash + amount]
           pooled == DepositIntoMarket([ledger EXCEPT !.markets[m] = traded], a, amount, fee)
           s == UpsertfCash(pooled, a, m, fCash)
<1>1. /\ fCash < mk.totalfCash /\ now < m
      /\ CommitIfCollateralized(s, a)
  BY DEF TakefCash, IsActive
<1>2. /\ ledger \in LedgerType /\ TokensListed(ledger) /\ a \in Account
      /\ mk.totalfCash \in Nat /\ mk.totalLiquidity \in Nat /\ mk.totalCurrentCash \in Nat
  BY LedgerParts, PoolsAlive, NotionalAssumption
<1> HIDE DEF mk
<1>3. traded \in Market
  BY <1>1, <1>2 DEF Market
<1>4. fee \in Nat
  BY <1>1, FeeNat
<1> HIDE DEF traded, fee
<1>5. fCash \in Int /\ amount \in Int /\ 0 \in Nat
  OBVIOUS
<1>6. pooled \in LedgerType /\ TokensListed(pooled) /\ (a # h => Better(ledger, pooled, h))
  BY <1>2, <1>3, <1>4, <1>5, MarketBetter
<1> HIDE DEF pooled
<1>7. s \in LedgerType /\ TokensListed(s) /\ (a # h => Better(ledger, s, h))
  BY <1>2, <1>5, <1>6, EntriesStayBetter
<1> HIDE DEF s
<1> QED BY <1>1, <1>7, CheckedCall

(* Those who send are checked, those who receive gain. *)
LEMMA TransferCollateral ==
  ASSUME IInv, HaircutBounded, NEW a \in Trader, NEW to \in Account, NEW m \in Maturity, NEW x \in Nat,
         TransferfCash(a, to, m, x) \/ TransferToken(a, to, m, x) \/ MintfCashPair(a, to, m, x),
         NEW h \in Account, Untouched(h)
  PROVE  FC(h)' >= 0
<1>1. /\ ledger \in LedgerType /\ TokensListed(ledger) /\ a \in Account
  BY LedgerParts, NotionalAssumption
<1>2. CASE TransferfCash(a, to, m, x) \/ MintfCashPair(a, to, m, x)
  <2> DEFINE n == -x
             u == UpsertfCash(ledger, a, m, n)
             s == UpsertfCash(u, to, m, x)
  <2>1. CommitIfCollateralized(s, a)
    BY <1>2 DEF TransferfCash, MintfCashPair
  <2>2. n \in Int /\ x \in Int
    OBVIOUS
  <2>3. a # h => Better(ledger, s, h)
    BY MovefCashBetter
  <2> HIDE DEF n
  <2>4. u \in LedgerType /\ TokensListed(u)
    BY <1>1, <2>2, UpsertfCashEffect, ZenonT(30)
  <2> HIDE DEF u
  <2>5. s \in LedgerType /\ TokensListed(s)
    BY <2>2, <2>4, UpsertfCashEffect, ZenonT(30)
  <2> HIDE DEF s
  <2> QED BY <2>1, <2>3, <2>5, CheckedCall
<1>3. CASE TransferToken(a, to, m, x)
  <2> DEFINE u == ReduceToken(ledger, a, m, x)
             s == UpsertToken(u, to, m, x)
  <2>1. CommitIfCollateralized(s, a) /\ CanReduceToken(ledger, a, m, x)
    BY <1>3 DEF TransferToken
  <2>2. a # h => Better(ledger, s, h)
    BY <2>1, MoveTokenBetter
  <2>3. u \in LedgerType /\ TokensListed(u)
    BY <1>1, <2>1, ReduceTokenEffect, ZenonT(30)
  <2> HIDE DEF u
  <2>4. s \in LedgerType /\ TokensListed(s)
    BY <2>3, UpsertTokenEffect, ZenonT(30)
  <2> HIDE DEF s
  <2> QED BY <2>1, <2>2, <2>4, CheckedCall
<1> QED BY <1>2, <1>3

-----------------------------------------------------------------------------
LEMMA SettleMaturedAssetsCollateral ==
  ASSUME IInv, NEW a \in Account, SettleMaturedAssets(a), NEW h \in Account, Untouched(h)
  PROVE  FC(h)' >= 0
<1>1. Valued(h) /\ Valued(h)' /\ FC(h) >= 0
  BY DEF Untouched
<1>2. FC(h)' >= FC(h)
  BY <1>1, SettlementCollateral
<1>3. FC(h) \in Int /\ FC(h)' \in Int
  <2> DEFINE r == Settle(ledger, a, now)
  <2>1. ledger \in LedgerType /\ TokensListed(ledger) /\ now \in Int /\ rate \in Nat
    BY LedgerParts
  <2>2. CanSettle(ledger, a, now) /\ Commit(r)
    BY DEF SettleMaturedAssets
  <2>3. r \in LedgerType
    BY <2>1, <2>2, SettleEffect
  <2> HIDE DEF r
  <2>4. ledger' = r /\ now' = now /\ rate' = rate
    BY <2>2, <2>3, CommittedLedger
  <2>5. CanValueAccount(r, h, now) /\ FC(h)' = AccountFC(r, h, now, rate)
    BY <1>1, <2>4, ValuedAfter
  <2>6. FC(h)' \in Int
    BY <2>1, <2>3, <2>5, AccountFCParts
  <2> QED BY <1>1, <2>6, FCInt
<1> QED BY <1>1, <1>2, <1>3

(* The reserve pays what it has: the debtor's debt shrinks, nobody else's
   position changes. *)
LEMMA SettleReserveCollateral ==
  ASSUME IInv, HaircutBounded, RESERVE_ACCOUNT \notin Trader,
         NEW a \in Account, NEW c \in Currency, SettleReserve(a, c),
         NEW h \in Account \ {RESERVE_ACCOUNT}, Untouched(h)
  PROVE  FC(h)' >= 0
<1> DEFINE settled == Settle(ledger, a, now)
           b == settled.cash[c]
           debt == -b[a]
           reserve == b[RESERVE_ACCOUNT]
           after == IF debt < reserve
                      THEN [[b EXCEPT ![a] = 0] EXCEPT ![RESERVE_ACCOUNT] = reserve - debt]
                      ELSE [[b EXCEPT ![a] = reserve - debt] EXCEPT ![RESERVE_ACCOUNT] = 0]
           r == [settled EXCEPT !.cash[c] = after]
<1>1. CanSettle(ledger, a, now) /\ debt > 0 /\ Commit(r)
  BY DEF SettleReserve
<1>2. /\ Sound(ledger, now) /\ Whole(ledger) /\ now \in Int /\ rate \in Nat
      /\ ledger \in LedgerType /\ TokensListed(ledger)
      /\ ledger.portfolio = portfolio /\ ledger.markets = markets
  BY LedgerParts DEF IInv
<1>3. Sound(settled, now) /\ Whole(settled)
  BY <1>1, <1>2, SettleKeeps
<1>4. a # h => Better(ledger, settled, h)
  BY <1>1, <1>2, SettleBetter
<1>5. a = h => /\ CanValueAccount(settled, a, now)
               /\ AccountFC(settled, a, now, rate) = AccountFC(ledger, a, now, rate)
  <2> SUFFICES ASSUME a = h PROVE /\ CanValueAccount(settled, a, now)
                                  /\ AccountFC(settled, a, now, rate) = AccountFC(ledger, a, now, rate)
    OBVIOUS
  <2>1. CanValueAccount(ledger, a, now)
    BY DEF Untouched, Valued
  <2> QED BY <1>1, <1>2, <2>1, SettleSelf
<1> HIDE DEF settled
<1>6. settled \in LedgerType /\ reserve >= 0
  BY <1>3 DEF Sound, Whole, InCredit
<1>7. b \in [Holder -> Int] /\ a \in Holder /\ RESERVE_ACCOUNT \in Holder /\ h \in Holder
  BY <1>6, LedgerAssumption DEF LedgerType, Holder
<1> HIDE DEF b
<1>8. after \in [Holder -> Int] /\ after[h] >= b[h]
  <2>1. b[a] \in Int /\ b[h] \in Int /\ reserve \in Int /\ a # RESERVE_ACCOUNT
    BY <1>1, <1>6, <1>7
  <2>2. after \in [Holder -> Int]
    BY <1>7
  <2>3. CASE a = h
    <3>1. after[h] = IF debt < reserve THEN 0 ELSE reserve - debt
      BY <1>7, <2>1, <2>3
    <3> HIDE DEF after
    <3>2. debt > 0 /\ b[h] = -debt /\ debt \in Int
      BY <1>1, <2>1, <2>3
    <3> HIDE DEF debt, reserve
    <3>3. after[h] >= b[h]
      BY <1>6, <2>1, <3>1, <3>2
    <3> QED BY <2>2, <3>3
  <2>4. CASE a # h
    <3>1. after[h] = b[h]
      BY <1>7, <2>4
    <3> QED BY <2>1, <2>2, <3>1
  <2> QED BY <2>3, <2>4
<1> HIDE DEF after
<1>9. /\ r \in LedgerType /\ r.cash[c] = after
      /\ \A d \in Currency : d # c => r.cash[d] = settled.cash[d]
      /\ r.portfolio = settled.portfolio /\ r.markets = settled.markets
  <2>1. after \in [Holder -> Int]
    BY <1>8
  <2> QED BY <1>6, <2>1, BalancesReplaced, SMTT(30)
<1> HIDE DEF r
<1>10. Better(settled, r, h)
  <2>1. ASSUME NEW d \in Currency PROVE r.cash[d][h] >= settled.cash[d][h]
    <3>1. settled.cash[d][h] \in Int
      BY <1>6, AccountTypes
    <3>2. CASE d = c
      BY <1>8, <1>9, <3>2 DEF b
    <3>3. CASE d # c
      BY <1>9, <3>1, <3>3
    <3> QED BY <3>2, <3>3
  <2>2. \A m \in Maturity : r.portfolio[h].fCash[m] >= settled.portfolio[h].fCash[m]
    BY <1>6, <1>9, AccountTypes
  <2>3. Gains(settled, r, h)
    BY <2>1, <2>2 DEF Gains
  <2> QED BY <1>6, <1>9, <2>3, SamePortfolioBetter
<1>11. CASE a # h
  <2>1. Better(ledger, r, h)
    BY <1>2, <1>4, <1>6, <1>9, <1>10, <1>11, BetterTransitive
  <2> QED BY <1>1, <1>9, <2>1, BetterKeepsCollateral
<1>12. CASE a = h
  <2>1. ledger' = r /\ now' = now /\ rate' = rate
    BY <1>1, <1>9, CommittedLedger
  <2>2. CanValueAccount(r, h, now) /\ FC(h)' = AccountFC(r, h, now, rate)
    BY <2>1, ValuedAfter DEF Untouched
  <2>3. CanValueAccount(settled, h, now) /\ AccountFC(settled, h, now, rate) >= 0
    BY <1>5, <1>12 DEF Untouched, FC
  <2>4. NoWorse(settled, now, r, now, h)
    BY <1>2, <1>6, <1>9, <1>10, <2>2, <2>3, BetterNoWorse
  <2>5. AccountFC(settled, h, now, rate) <= AccountFC(r, h, now, rate)
    BY <1>2, <1>6, <1>9, <2>2, <2>3, <2>4, NoWorseFC
  <2>6. AccountFC(settled, h, now, rate) \in Int /\ AccountFC(r, h, now, rate) \in Int
    BY <1>2, <1>6, <1>9, <2>2, <2>3, AccountFCParts
  <2> QED BY <2>2, <2>3, <2>5, <2>6
<1> QED BY <1>11, <1>12

LEMMA TickCollateral ==
  ASSUME IInv, LIQUIDITY_HAIRCUT <= DECIMALS, Tick, NEW h \in Account, Untouched(h)
  PROVE  FC(h)' >= 0
<1>1. /\ ledger' = ledger /\ now' = now + 1 /\ rate' = rate
  BY DEF Tick, ledgerVars, ledger
<1>2. ledger \in LedgerType /\ now \in Int /\ now + 1 \in Int /\ rate \in Nat
  <2>1. ledger \in LedgerType /\ now \in Int /\ rate \in Nat
    BY LedgerParts
  <2> QED BY <2>1
<1>3. /\ CanValueAccount(ledger, h, now) /\ CanValueAccount(ledger, h, now + 1)
      /\ FC(h)' = AccountFC(ledger, h, now + 1, rate)
      /\ AccountFC(ledger, h, now, rate) >= 0
  BY <1>1 DEF Untouched, Valued, FC
<1>4. NoWorse(ledger, now, ledger, now + 1, h)
  BY <1>2, <1>3, TimeNoWorse
<1>5. AccountFC(ledger, h, now, rate) <= AccountFC(ledger, h, now + 1, rate)
  BY <1>2, <1>3, <1>4, NoWorseFC
<1>6. AccountFC(ledger, h, now, rate) \in Int /\ AccountFC(ledger, h, now + 1, rate) \in Int
  BY <1>2, <1>3, AccountFCParts
<1> QED BY <1>3, <1>5, <1>6

(* The reserve owes nothing: every call is at its caller's own expense. *)
LEMMA ReserveCollateral ==
  ASSUME IInv', HaircutBounded, RESERVE_ACCOUNT \notin Trader, Valued(RESERVE_ACCOUNT)'
  PROVE  FC(RESERVE_ACCOUNT)' >= 0
<1>1. /\ ledger' \in LedgerType /\ InCredit(ledger', RESERVE_ACCOUNT) /\ now' \in Int /\ rate' \in Nat
      /\ RESERVE_ACCOUNT \in Account
  BY NotionalAssumption, LedgerAssumption DEF IInv, Sound, Whole
<1>2. CanValueAccount(ledger', RESERVE_ACCOUNT, now')
  BY DEF Valued
<1>3. AccountFC(ledger', RESERVE_ACCOUNT, now', rate') >= 0
  BY <1>1, <1>2, InCreditFC
<1> QED BY <1>3 DEF FC

LEMMA NextCollateral ==
  ASSUME IInv, IInv', [Next]_vars, HaircutBounded, LIQUIDITY_HAIRCUT <= DECIMALS,
         RESERVE_ACCOUNT \notin Trader, NEW h \in Account, Untouched(h), rate' = rate
  PROVE  FC(h)' >= 0
<1>0. CASE h = RESERVE_ACCOUNT
  BY <1>0, ReserveCollateral DEF Untouched
<1> SUFFICES ASSUME h # RESERVE_ACCOUNT PROVE FC(h)' >= 0
  BY <1>0
<1>1. Trader \subseteq Account /\ Amount \subseteq Nat /\ \A c \in Currency : Deposits[c] \subseteq Nat
  BY NotionalAssumption
<1>2. ASSUME NEW x \in Nat, NEW y \in 1 .. x PROVE y \in Nat
  BY <1>2
<1>3. CASE EscrowNext
  <2>1. PICK a \in Trader :
          \/ \E c \in Currency : \E amount \in Deposits[c] : Deposit(a, c, amount)
          \/ \E c \in Currency, amount \in Amount : Withdraw(a, c, amount)
          \/ \E amount \in Amount : WithdrawEth(a, amount)
    BY <1>3 DEF EscrowNext
  <2>2. CASE \E c \in Currency : \E amount \in Deposits[c] : Deposit(a, c, amount)
    <3>1. PICK c \in Currency : \E amount \in Deposits[c] : Deposit(a, c, amount)
      BY <2>2
    <3>2. PICK amount \in Deposits[c] : Deposit(a, c, amount)
      BY <3>1
    <3>3. amount \in Nat
      BY <1>1
    <3> QED BY <3>2, <3>3, DepositCollateral
  <2>3. CASE \E c \in Currency, amount \in Amount : Withdraw(a, c, amount)
    BY <1>1, <2>3, WithdrawCollateral
  <2>4. CASE \E amount \in Amount : WithdrawEth(a, amount)
    BY <1>1, <2>4, WithdrawEthCollateral
  <2> QED BY <2>1, <2>2, <2>3, <2>4
<1>4. CASE MarketNext
  <2>1. PICK a \in Trader, m \in Maturity, x \in Amount :
          \/ \E y \in Amount : AddLiquidity(a, m, x, y)
          \/ RemoveLiquidity(a, m, x)
          \/ \E y \in 1 .. x : TakeCurrentCash(a, m, x, y)
          \/ \E y \in 1 .. x : TakefCash(a, m, x, y)
    BY <1>4 DEF MarketNext
  <2>2. x \in Nat
    BY <1>1
  <2>3. CASE \E y \in Amount : AddLiquidity(a, m, x, y)
    BY <1>1, <2>2, <2>3, AddLiquidityCollateral
  <2>4. CASE RemoveLiquidity(a, m, x)
    BY <2>2, <2>4, RemoveLiquidityCollateral
  <2>5. CASE \E y \in 1 .. x : TakeCurrentCash(a, m, x, y)
    BY <1>2, <2>2, <2>5, TakeCurrentCashCollateral
  <2>6. CASE \E y \in 1 .. x : TakefCash(a, m, x, y)
    BY <1>2, <2>2, <2>6, TakefCashCollateral
  <2> QED BY <2>1, <2>3, <2>4, <2>5, <2>6
<1>5. CASE TransferNext
  BY <1>1, <1>5, TransferCollateral DEF TransferNext
<1>6. CASE SettleNext
  <2>1. PICK a \in Account : SettleMaturedAssets(a) \/ \E c \in Currency : SettleReserve(a, c)
    BY <1>6 DEF SettleNext
  <2> QED BY <2>1, SettleMaturedAssetsCollateral, SettleReserveCollateral
<1>7. CASE Tick
  BY <1>7, TickCollateral
<1>8. CASE MoveRate
  BY <1>8 DEF MoveRate
<1>9. CASE UNCHANGED vars
  <2>1. ledger' = ledger /\ now' = now
    BY <1>9 DEF vars, ledger
  <2> QED BY <2>1 DEF Untouched, FC
<1> QED BY <1>3, <1>4, <1>5, <1>6, <1>7, <1>8, <1>9 DEF Next

(* An account in credit falls below zero only when the rate moves or a pool
   it supplies changes under it: what it does itself is checked, what others
   do takes nothing from it, and time only lets go of haircuts.  Without a
   reserve of its own among the traders: that one may be charged for the debts
   of others. *)
THEOREM CollateralOnlyLostToMarkets ==
  ASSUME HaircutBounded, LIQUIDITY_HAIRCUT <= DECIMALS, RESERVE_ACCOUNT \notin Trader
  PROVE  Spec => CollateralLostOnlyToMarkets
<1>1. ASSUME IInv, IInv', [Next]_vars, NEW a \in Account, rate' = rate,
             \A m \in portfolio[a].listed : markets'[m] = markets[m],
             Valued(a), Valued(a)', FC(a)' < 0
      PROVE  FC(a) < 0
  <2> SUFFICES ASSUME ~(FC(a) < 0) PROVE FALSE
    OBVIOUS
  <2>1. FC(a) \in Int
    BY <1>1, FCInt
  <2>2. Untouched(a)
    BY <1>1, <2>1 DEF Untouched
  <2>3. FC(a)' >= 0
    BY <1>1, <2>2, NextCollateral
  <2>4. FC(a)' \in Int
    <3>1. ledger' \in LedgerType /\ now' \in Int /\ rate' \in Nat
      BY <1>1, NotionalAssumption DEF IInv, Sound
    <3>2. CanValueAccount(ledger', a, now')
      BY <1>1 DEF Valued
    <3>3. AccountFC(ledger', a, now', rate') \in Int
      BY <3>1, <3>2, AccountFCParts
    <3> QED BY <3>3 DEF FC
  <2> QED BY <1>1, <2>3, <2>4
<1>2. IInv /\ IInv' /\ [Next]_vars =>
        [\A a \in Account :
           rate' = rate /\ (\A m \in portfolio[a].listed : markets'[m] = markets[m])
             /\ Valued(a) /\ Valued(a)' /\ FC(a)' < 0 => FC(a) < 0]_vars
  BY <1>1
<1> QED BY <1>2, Invariance, PTL DEF Spec, CollateralLostOnlyToMarkets
=============================================================================
