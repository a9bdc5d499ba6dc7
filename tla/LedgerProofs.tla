---------------------------- MODULE LedgerProofs ----------------------------
(***************************************************************************)
(* What the operators of Ledger.tla return and preserve.                   *)
(***************************************************************************)
EXTENDS Ledger, Sums

(* The totals that the invariants of Notional relate. *)
PoolCash(s) == SumFunction([m \in Maturity |-> s.markets[m].totalCurrentCash])
TokensOf(s, m) == SumFunction([a \in Account |-> s.portfolio[a].token[m]])
fCashOf(s, m) == SumFunction([a \in Account |-> s.portfolio[a].fCash[m]])
Listed(p) == \A m \in Maturity : p.token[m] > 0 => m \in p.listed
TokensListed(s) == \A a \in Account : Listed(s.portfolio[a])

-----------------------------------------------------------------------------
(* Shares of a pool, rounded down.                                         *)

LEMMA ShareNat ==
  ASSUME NEW total \in Nat, NEW tokens \in Nat, NEW supply \in Nat \ {0}
  PROVE  Share(total, tokens, supply) \in Nat
<1>1. total * tokens \in Nat
  OBVIOUS
<1> QED BY <1>1 DEF Share

(* A share is never more than the whole. *)
LEMMA ShareBounded ==
  ASSUME NEW total \in Nat, NEW supply \in Nat \ {0}, NEW tokens \in 0 .. supply
  PROVE  Share(total, tokens, supply) \in 0 .. total
<1> DEFINE q == (total * tokens) \div supply
<1>1. q \in Nat
  BY ShareNat DEF Share
<1>2. supply * q <= total * tokens
  OBVIOUS
<1>3. total * tokens <= total * supply
  OBVIOUS
<1> HIDE DEF q
<1>4. supply * q <= supply * total
  BY <1>1, <1>2, <1>3
<1>5. q <= total
  BY <1>1, <1>4
<1> QED BY <1>1, <1>5 DEF q, Share

(* A part of the tokens never takes all, all of them take all. *)
LEMMA ShareOfPart ==
  ASSUME NEW total \in Nat \ {0}, NEW supply \in Nat \ {0}, NEW tokens \in 0 .. (supply - 1)
  PROVE  Share(total, tokens, supply) < total
<1> DEFINE q == (total * tokens) \div supply
<1>1. q \in Nat
  BY ShareNat DEF Share
<1>2. supply * q <= total * tokens
  OBVIOUS
<1>3. total * tokens < total * supply
  OBVIOUS
<1> HIDE DEF q
<1>4. supply * q < supply * total
  BY <1>1, <1>2, <1>3
<1>5. q < total
  BY <1>1, <1>4
<1> QED BY <1>5 DEF q, Share

LEMMA ShareOfAll ==
  ASSUME NEW total \in Nat, NEW supply \in Nat \ {0}
  PROVE  Share(total, supply, supply) = total
BY DEF Share

-----------------------------------------------------------------------------
(* Balances.                                                               *)

LEMMA CreditEffect ==
  ASSUME NEW b \in [Holder -> Int], NEW h \in Holder, NEW n \in Int
  PROVE  /\ Credit(b, h, n) \in [Holder -> Int]
         /\ Credit(b, h, n)[h] = b[h] + n
         /\ \A g \in Holder : g # h => Credit(b, h, n)[g] = b[g]
         /\ SumFunction(Credit(b, h, n)) = SumFunction(b) + n
<1>1. IsFiniteSet(Holder)
  BY LedgerAssumption, FS_AddElement DEF Holder
<1>2. SumFunction(b) \in Int
  BY <1>1, SumInt
<1>3. SumFunction([b EXCEPT ![h] = b[h] + n]) = SumFunction(b) + (b[h] + n) - b[h]
  <2>1. b[h] + n \in Int
    OBVIOUS
  <2> QED BY <1>1, <2>1, SumUpdate
<1>4. Credit(b, h, n) = [b EXCEPT ![h] = b[h] + n]
  BY DEF Credit
<1> QED BY <1>2, <1>3, <1>4

LEMMA BalancesReplaced ==
  ASSUME NEW s \in LedgerType, NEW c \in Currency, NEW b \in [Holder -> Int]
  PROVE  /\ [s EXCEPT !.cash[c] = b] \in LedgerType
         /\ [s EXCEPT !.cash[c] = b].cash[c] = b
         /\ \A d \in Currency : d # c => [s EXCEPT !.cash[c] = b].cash[d] = s.cash[d]
         /\ [s EXCEPT !.cash[c] = b].held = s.held
         /\ [s EXCEPT !.cash[c] = b].portfolio = s.portfolio
         /\ [s EXCEPT !.cash[c] = b].markets = s.markets
BY DEF LedgerType

(* What the two cash transfers of the market do to the local balances. *)
LEMMA MarketTransfer ==
  ASSUME NEW s \in LedgerType, NEW a \in Account, NEW value \in Int, NEW fee \in Int
  PROVE  /\ DepositIntoMarket(s, a, value, fee) \in LedgerType
         /\ WithdrawFromMarket(s, a, value, fee) \in LedgerType
         /\ DepositIntoMarket(s, a, value, fee).cash[LocalCurrency][CASH_MARKET]
              = s.cash[LocalCurrency][CASH_MARKET] + value
         /\ WithdrawFromMarket(s, a, value, fee).cash[LocalCurrency][CASH_MARKET]
              = s.cash[LocalCurrency][CASH_MARKET] - value
         /\ \A c \in Currency :
              /\ SumFunction(DepositIntoMarket(s, a, value, fee).cash[c]) = SumFunction(s.cash[c])
              /\ SumFunction(WithdrawFromMarket(s, a, value, fee).cash[c]) = SumFunction(s.cash[c])
         /\ DepositIntoMarket(s, a, value, fee).held = s.held
         /\ DepositIntoMarket(s, a, value, fee).portfolio = s.portfolio
         /\ DepositIntoMarket(s, a, value, fee).markets = s.markets
         /\ WithdrawFromMarket(s, a, value, fee).held = s.held
         /\ WithdrawFromMarket(s, a, value, fee).portfolio = s.portfolio
         /\ WithdrawFromMarket(s, a, value, fee).markets = s.markets
<1> DEFINE b == s.cash[LocalCurrency]
           d1 == Credit(b, RESERVE_ACCOUNT, fee)
           d2 == Credit(d1, CASH_MARKET, value)
           d3 == Credit(d2, a, -(value + fee))
           w2 == Credit(d1, a, value - fee)
           w3 == Credit(w2, CASH_MARKET, -value)
<1>1. /\ a \in Holder /\ RESERVE_ACCOUNT \in Holder /\ CASH_MARKET \in Holder
      /\ a # CASH_MARKET /\ RESERVE_ACCOUNT # CASH_MARKET
  BY LedgerAssumption DEF Holder
<1>2. b \in [Holder -> Int] /\ LocalCurrency \in Currency
  BY DEF LedgerType, Currency
<1>3. SumFunction(b) \in Int
  BY <1>2, SumInt, LedgerAssumption, FS_AddElement DEF Holder
<1> HIDE DEF b
<1>4. /\ d1 \in [Holder -> Int] /\ d1[CASH_MARKET] = b[CASH_MARKET]
      /\ SumFunction(d1) = SumFunction(b) + fee
  BY <1>1, <1>2, CreditEffect, ZenonT(30)
<1> HIDE DEF d1
<1>5. /\ d2 \in [Holder -> Int] /\ d2[CASH_MARKET] = b[CASH_MARKET] + value
      /\ SumFunction(d2) = SumFunction(b) + fee + value
  <2>1. SumFunction(d2) = SumFunction(d1) + value
    BY <1>1, <1>4, CreditEffect
  <2>2. d2 \in [Holder -> Int] /\ d2[CASH_MARKET] = d1[CASH_MARKET] + value
    BY <1>1, <1>4, CreditEffect
  <2> QED BY <1>3, <1>4, <2>1, <2>2
<1>6. /\ w2 \in [Holder -> Int] /\ w2[CASH_MARKET] = b[CASH_MARKET]
      /\ SumFunction(w2) = SumFunction(b) + fee + (value - fee)
  <2>1. value - fee \in Int
    OBVIOUS
  <2>2. SumFunction(w2) = SumFunction(d1) + (value - fee)
    BY <1>1, <1>4, <2>1, CreditEffect
  <2>3. w2 \in [Holder -> Int] /\ w2[CASH_MARKET] = d1[CASH_MARKET]
    BY <1>1, <1>4, <2>1, CreditEffect, ZenonT(60)
  <2> QED BY <1>3, <1>4, <2>2, <2>3
<1> HIDE DEF d2, w2
<1>7. /\ d3 \in [Holder -> Int] /\ d3[CASH_MARKET] = b[CASH_MARKET] + value
      /\ SumFunction(d3) = SumFunction(b)
  <2>1. -(value + fee) \in Int
    OBVIOUS
  <2>2. SumFunction(d3) = SumFunction(d2) + (-(value + fee))
    BY <1>1, <1>5, <2>1, CreditEffect
  <2>3. d3 \in [Holder -> Int] /\ d3[CASH_MARKET] = d2[CASH_MARKET]
    BY <1>1, <1>5, <2>1, CreditEffect, ZenonT(30)
  <2> QED BY <1>3, <1>5, <2>2, <2>3
<1>8. /\ w3 \in [Holder -> Int] /\ w3[CASH_MARKET] = b[CASH_MARKET] - value
      /\ SumFunction(w3) = SumFunction(b)
  <2>1. -value \in Int
    OBVIOUS
  <2>2. SumFunction(w3) = SumFunction(w2) + (-value)
    BY <1>1, <1>6, <2>1, CreditEffect
  <2>3. w3 \in [Holder -> Int] /\ w3[CASH_MARKET] = w2[CASH_MARKET] + (-value)
    BY <1>1, <1>6, <2>1, CreditEffect
  <2>4. b[CASH_MARKET] \in Int
    BY <1>1, <1>2
  <2> QED BY <1>3, <1>6, <2>2, <2>3, <2>4
<1> HIDE DEF d3, w3
<1>9. DepositIntoMarket(s, a, value, fee) = [s EXCEPT !.cash[LocalCurrency] = d3]
  BY DEF DepositIntoMarket, d3, d2, d1, b
<1>10. WithdrawFromMarket(s, a, value, fee) = [s EXCEPT !.cash[LocalCurrency] = w3]
  BY DEF WithdrawFromMarket, w3, w2, d1, b
<1>11. /\ DepositIntoMarket(s, a, value, fee) \in LedgerType
       /\ DepositIntoMarket(s, a, value, fee).cash[LocalCurrency] = d3
       /\ \A c \in Currency \ {LocalCurrency} :
            DepositIntoMarket(s, a, value, fee).cash[c] = s.cash[c]
  <2> DEFINE r == [s EXCEPT !.cash[LocalCurrency] = d3]
  <2>0. d3 \in [Holder -> Int]
    BY <1>7
  <2>1. /\ r \in LedgerType
        /\ r.cash[LocalCurrency] = d3
        /\ \A c \in Currency : c # LocalCurrency => r.cash[c] = s.cash[c]
    BY <1>2, <2>0, BalancesReplaced, SMTT(30)
  <2> HIDE DEF r
  <2>2. \A c \in Currency \ {LocalCurrency} : r.cash[c] = s.cash[c]
    BY <2>1
  <2> QED BY <1>9, <2>1, <2>2 DEF r
<1>12. /\ WithdrawFromMarket(s, a, value, fee) \in LedgerType
       /\ WithdrawFromMarket(s, a, value, fee).cash[LocalCurrency] = w3
       /\ \A c \in Currency \ {LocalCurrency} :
            WithdrawFromMarket(s, a, value, fee).cash[c] = s.cash[c]
  <2> DEFINE r == [s EXCEPT !.cash[LocalCurrency] = w3]
  <2>0. w3 \in [Holder -> Int]
    BY <1>8
  <2>1. /\ r \in LedgerType
        /\ r.cash[LocalCurrency] = w3
        /\ \A c \in Currency : c # LocalCurrency => r.cash[c] = s.cash[c]
    BY <1>2, <2>0, BalancesReplaced, SMTT(30)
  <2> HIDE DEF r
  <2>2. \A c \in Currency \ {LocalCurrency} : r.cash[c] = s.cash[c]
    BY <2>1
  <2> QED BY <1>10, <2>1, <2>2 DEF r
<1>13. /\ DepositIntoMarket(s, a, value, fee).held = s.held
       /\ DepositIntoMarket(s, a, value, fee).portfolio = s.portfolio
       /\ DepositIntoMarket(s, a, value, fee).markets = s.markets
  BY DEF DepositIntoMarket, LedgerType
<1>14. /\ WithdrawFromMarket(s, a, value, fee).held = s.held
       /\ WithdrawFromMarket(s, a, value, fee).portfolio = s.portfolio
       /\ WithdrawFromMarket(s, a, value, fee).markets = s.markets
  BY DEF WithdrawFromMarket, LedgerType
<1> QED BY <1>7, <1>8, <1>11, <1>12, <1>13, <1>14 DEF b

-----------------------------------------------------------------------------
(* Pools and portfolios.                                                   *)

LEMMA TotalsInt ==
  ASSUME NEW s \in LedgerType
  PROVE  /\ PoolCash(s) \in Int
         /\ \A m \in Maturity : TokensOf(s, m) \in Int /\ fCashOf(s, m) \in Int
         /\ \A c \in Currency : SumFunction(s.cash[c]) \in Int
<1>1. PoolCash(s) \in Int
  <2>1. [m \in Maturity |-> s.markets[m].totalCurrentCash] \in [Maturity -> Int]
    BY DEF LedgerType, Market
  <2> QED BY <2>1, SumInt, RiskAssumption DEF PoolCash
<1>2. ASSUME NEW m \in Maturity PROVE TokensOf(s, m) \in Int /\ fCashOf(s, m) \in Int
  <2>1. /\ [a \in Account |-> s.portfolio[a].token[m]] \in [Account -> Int]
        /\ [a \in Account |-> s.portfolio[a].fCash[m]] \in [Account -> Int]
    BY DEF LedgerType, Portfolio
  <2> QED BY <2>1, SumInt, LedgerAssumption DEF TokensOf, fCashOf
<1>3. ASSUME NEW c \in Currency PROVE SumFunction(s.cash[c]) \in Int
  <2>1. s.cash[c] \in [Holder -> Int]
    BY DEF LedgerType
  <2>2. IsFiniteSet(Holder)
    BY LedgerAssumption, FS_AddElement DEF Holder
  <2> QED BY <2>1, <2>2, SumInt
<1> QED BY <1>1, <1>2, <1>3

LEMMA MarketReplaced ==
  ASSUME NEW s \in LedgerType, NEW m \in Maturity, NEW mk \in Market
  PROVE  /\ [s EXCEPT !.markets[m] = mk] \in LedgerType
         /\ [s EXCEPT !.markets[m] = mk].markets = [s.markets EXCEPT ![m] = mk]
         /\ [s EXCEPT !.markets[m] = mk].cash = s.cash
         /\ [s EXCEPT !.markets[m] = mk].held = s.held
         /\ [s EXCEPT !.markets[m] = mk].portfolio = s.portfolio
         /\ PoolCash([s EXCEPT !.markets[m] = mk])
              = PoolCash(s) + mk.totalCurrentCash - s.markets[m].totalCurrentCash
<1> DEFINE r == [s EXCEPT !.markets[m] = mk]
           f == [k \in Maturity |-> s.markets[k].totalCurrentCash]
<1>1. /\ r \in LedgerType
      /\ r.markets = [s.markets EXCEPT ![m] = mk]
      /\ r.cash = s.cash /\ r.held = s.held /\ r.portfolio = s.portfolio
  BY DEF LedgerType
<1>2. f \in [Maturity -> Int] /\ mk.totalCurrentCash \in Int /\ f[m] = s.markets[m].totalCurrentCash
  BY DEF LedgerType, Market
<1>3. [k \in Maturity |-> r.markets[k].totalCurrentCash] = [f EXCEPT ![m] = mk.totalCurrentCash]
  <2>1. \A k \in Maturity : r.markets[k] = IF k = m THEN mk ELSE s.markets[k]
    BY <1>1 DEF LedgerType
  <2> HIDE DEF r
  <2> QED BY <2>1
<1> HIDE DEF f
<1>4. SumFunction([f EXCEPT ![m] = mk.totalCurrentCash])
        = SumFunction(f) + mk.totalCurrentCash - f[m]
  BY <1>2, RiskAssumption, SumUpdate
<1>5. PoolCash(r) = PoolCash(s) + mk.totalCurrentCash - s.markets[m].totalCurrentCash
  BY <1>2, <1>3, <1>4 DEF PoolCash, f
<1> QED BY <1>1, <1>5

LEMMA PortfolioReplaced ==
  ASSUME NEW s \in LedgerType, NEW a \in Account, NEW p \in Portfolio
  PROVE  /\ [s EXCEPT !.portfolio[a] = p] \in LedgerType
         /\ [s EXCEPT !.portfolio[a] = p].portfolio = [s.portfolio EXCEPT ![a] = p]
         /\ [s EXCEPT !.portfolio[a] = p].cash = s.cash
         /\ [s EXCEPT !.portfolio[a] = p].held = s.held
         /\ [s EXCEPT !.portfolio[a] = p].markets = s.markets
         /\ \A m \in Maturity :
              /\ TokensOf([s EXCEPT !.portfolio[a] = p], m)
                   = TokensOf(s, m) + p.token[m] - s.portfolio[a].token[m]
              /\ fCashOf([s EXCEPT !.portfolio[a] = p], m)
                   = fCashOf(s, m) + p.fCash[m] - s.portfolio[a].fCash[m]
         /\ TokensListed(s) /\ Listed(p) => TokensListed([s EXCEPT !.portfolio[a] = p])
<1> DEFINE r == [s EXCEPT !.portfolio[a] = p]
<1>1. /\ r \in LedgerType
      /\ r.portfolio = [s.portfolio EXCEPT ![a] = p]
      /\ r.cash = s.cash /\ r.held = s.held /\ r.markets = s.markets
  BY DEF LedgerType
<1>2. \A b \in Account : r.portfolio[b] = IF b = a THEN p ELSE s.portfolio[b]
  BY <1>1 DEF LedgerType
<1> HIDE DEF r
<1>3. ASSUME NEW m \in Maturity
      PROVE  /\ TokensOf(r, m) = TokensOf(s, m) + p.token[m] - s.portfolio[a].token[m]
             /\ fCashOf(r, m) = fCashOf(s, m) + p.fCash[m] - s.portfolio[a].fCash[m]
  <2> DEFINE f == [b \in Account |-> s.portfolio[b].token[m]]
             g == [b \in Account |-> s.portfolio[b].fCash[m]]
  <2>1. /\ f \in [Account -> Int] /\ p.token[m] \in Int /\ f[a] = s.portfolio[a].token[m]
        /\ g \in [Account -> Int] /\ p.fCash[m] \in Int /\ g[a] = s.portfolio[a].fCash[m]
    BY DEF LedgerType, Portfolio
  <2>2. /\ [b \in Account |-> r.portfolio[b].token[m]] = [f EXCEPT ![a] = p.token[m]]
        /\ [b \in Account |-> r.portfolio[b].fCash[m]] = [g EXCEPT ![a] = p.fCash[m]]
    BY <1>2
  <2> HIDE DEF f, g
  <2>3. SumFunction([f EXCEPT ![a] = p.token[m]]) = SumFunction(f) + p.token[m] - f[a]
    BY <2>1, LedgerAssumption, SumUpdate
  <2>4. SumFunction([g EXCEPT ![a] = p.fCash[m]]) = SumFunction(g) + p.fCash[m] - g[a]
    BY <2>1, LedgerAssumption, SumUpdate
  <2> QED BY <2>1, <2>2, <2>3, <2>4 DEF TokensOf, fCashOf, f, g
<1>4. TokensListed(s) /\ Listed(p) => TokensListed(r)
  BY <1>2 DEF TokensListed
<1> QED BY <1>1, <1>3, <1>4 DEF r

LEMMA AddfCashEffect ==
  ASSUME NEW p \in Portfolio, NEW m \in Maturity, NEW n \in Int
  PROVE  /\ AddfCash(p, m, n) \in Portfolio
         /\ AddfCash(p, m, n).fCash = [p.fCash EXCEPT ![m] = @ + n]
         /\ AddfCash(p, m, n).token = p.token
         /\ AddfCash(p, m, n).listed = p.listed
         /\ Listed(p) => Listed(AddfCash(p, m, n))
BY DEF AddfCash, Portfolio, Listed

LEMMA AddTokenEffect ==
  ASSUME NEW p \in Portfolio, NEW m \in Maturity, NEW n \in Nat
  PROVE  /\ AddToken(p, m, n) \in Portfolio
         /\ AddToken(p, m, n).token = [p.token EXCEPT ![m] = @ + n]
         /\ AddToken(p, m, n).fCash = p.fCash
         /\ AddToken(p, m, n).listed = p.listed \cup {m}
         /\ Listed(p) => Listed(AddToken(p, m, n))
<1>1. [p.token EXCEPT ![m] = @ + n] \in [Maturity -> Nat]
  BY DEF Portfolio
<1> QED BY <1>1 DEF AddToken, Portfolio, Listed

LEMMA TakeTokenEffect ==
  ASSUME NEW p \in Portfolio, NEW m \in Maturity, NEW n \in Nat, CanTakeToken(p, m, n)
  PROVE  /\ TakeToken(p, m, n) \in Portfolio
         /\ TakeToken(p, m, n).token = [p.token EXCEPT ![m] = @ - n]
         /\ TakeToken(p, m, n).fCash = p.fCash
         /\ TakeToken(p, m, n).listed = IF p.token[m] = n THEN p.listed \ {m} ELSE p.listed
         /\ Listed(p) => Listed(TakeToken(p, m, n))
<1>1. [p.token EXCEPT ![m] = @ - n] \in [Maturity -> Nat]
  BY DEF Portfolio, CanTakeToken
<1> QED BY <1>1 DEF TakeToken, Portfolio, Listed

(* Entering a position changes the total of its kind and maturity by what is
   entered, and nothing outside the portfolio. *)
LEMMA UpsertfCashEffect ==
  ASSUME NEW s \in LedgerType, NEW a \in Account, NEW m \in Maturity, NEW n \in Int
  PROVE  /\ UpsertfCash(s, a, m, n) \in LedgerType
         /\ UpsertfCash(s, a, m, n).cash = s.cash
         /\ UpsertfCash(s, a, m, n).held = s.held
         /\ UpsertfCash(s, a, m, n).markets = s.markets
         /\ fCashOf(UpsertfCash(s, a, m, n), m) = fCashOf(s, m) + n
         /\ \A k \in Maturity \ {m} : fCashOf(UpsertfCash(s, a, m, n), k) = fCashOf(s, k)
         /\ \A k \in Maturity : TokensOf(UpsertfCash(s, a, m, n), k) = TokensOf(s, k)
         /\ TokensListed(s) => TokensListed(UpsertfCash(s, a, m, n))
<1> DEFINE p == s.portfolio[a]
           q == AddfCash(p, m, n)
           r == UpsertfCash(s, a, m, n)
<1>1. p \in Portfolio
  BY DEF LedgerType
<1>2. r = [s EXCEPT !.portfolio[a] = q]
  BY DEF UpsertfCash
<1>3. /\ q \in Portfolio /\ (Listed(p) => Listed(q)) /\ q.token = p.token /\ q.listed = p.listed
      /\ q.fCash = [p.fCash EXCEPT ![m] = @ + n]
  BY <1>1, AddfCashEffect
<1>4. \A k \in Maturity : /\ p.token[k] \in Int /\ p.fCash[k] \in Int
                          /\ TokensOf(s, k) \in Int /\ fCashOf(s, k) \in Int
  BY <1>1, TotalsInt DEF Portfolio
<1> HIDE DEF q, r
<1>5. /\ r \in LedgerType /\ r.cash = s.cash /\ r.held = s.held /\ r.markets = s.markets
      /\ r.portfolio = [s.portfolio EXCEPT ![a] = q]
      /\ \A k \in Maturity : /\ TokensOf(r, k) = TokensOf(s, k) + q.token[k] - p.token[k]
                             /\ fCashOf(r, k) = fCashOf(s, k) + q.fCash[k] - p.fCash[k]
  <2>1. q \in Portfolio
    BY <1>3
  <2> QED BY <1>2, <2>1, PortfolioReplaced, ZenonT(60)
<1>6. TokensListed(s) => TokensListed(r)
  <2>1. q \in Portfolio
    BY <1>3
  <2>2. TokensListed(s) => Listed(p)
    BY DEF TokensListed
  <2> HIDE DEF p
  <2> QED BY <1>2, <1>3, <2>1, <2>2, PortfolioReplaced
<1> HIDE DEF p
<1>8. ASSUME NEW k \in Maturity
      PROVE  /\ TokensOf(r, k) = TokensOf(s, k)
             /\ k = m => fCashOf(r, k) = fCashOf(s, k) + n
             /\ k # m => fCashOf(r, k) = fCashOf(s, k)
  <2>1. /\ TokensOf(r, k) = TokensOf(s, k) + q.token[k] - p.token[k]
        /\ fCashOf(r, k) = fCashOf(s, k) + q.fCash[k] - p.fCash[k]
    BY <1>5
  <2>2. p.token \in [Maturity -> Nat] /\ p.fCash \in [Maturity -> Int]
    BY <1>1 DEF Portfolio
  <2>3. CASE k = m
    BY <1>3, <1>4, <2>1, <2>2, <2>3
  <2>4. CASE k # m
    BY <1>3, <1>4, <2>1, <2>2, <2>4
  <2> QED BY <2>3, <2>4
<1> QED BY <1>5, <1>6, <1>8 DEF r

LEMMA UpsertTokenEffect ==
  ASSUME NEW s \in LedgerType, NEW a \in Account, NEW m \in Maturity, NEW n \in Nat
  PROVE  /\ UpsertToken(s, a, m, n) \in LedgerType
         /\ UpsertToken(s, a, m, n).cash = s.cash
         /\ UpsertToken(s, a, m, n).held = s.held
         /\ UpsertToken(s, a, m, n).markets = s.markets
         /\ TokensOf(UpsertToken(s, a, m, n), m) = TokensOf(s, m) + n
         /\ \A k \in Maturity \ {m} : TokensOf(UpsertToken(s, a, m, n), k) = TokensOf(s, k)
         /\ \A k \in Maturity : fCashOf(UpsertToken(s, a, m, n), k) = fCashOf(s, k)
         /\ TokensListed(s) => TokensListed(UpsertToken(s, a, m, n))
<1> DEFINE p == s.portfolio[a]
           q == AddToken(p, m, n)
           r == UpsertToken(s, a, m, n)
<1>1. p \in Portfolio
  BY DEF LedgerType
<1>2. r = [s EXCEPT !.portfolio[a] = q]
  BY DEF UpsertToken
<1>3. /\ q \in Portfolio /\ (Listed(p) => Listed(q)) /\ q.fCash = p.fCash /\ q.listed = p.listed \cup {m}
      /\ q.token = [p.token EXCEPT ![m] = @ + n]
  BY <1>1, AddTokenEffect
<1>4. \A k \in Maturity : /\ p.token[k] \in Int /\ p.fCash[k] \in Int
                          /\ TokensOf(s, k) \in Int /\ fCashOf(s, k) \in Int
  BY <1>1, TotalsInt DEF Portfolio
<1> HIDE DEF q, r
<1>5. /\ r \in LedgerType /\ r.cash = s.cash /\ r.held = s.held /\ r.markets = s.markets
      /\ r.portfolio = [s.portfolio EXCEPT ![a] = q]
      /\ \A k \in Maturity : /\ TokensOf(r, k) = TokensOf(s, k) + q.token[k] - p.token[k]
                             /\ fCashOf(r, k) = fCashOf(s, k) + q.fCash[k] - p.fCash[k]
  <2>1. q \in Portfolio
    BY <1>3
  <2> QED BY <1>2, <2>1, PortfolioReplaced, ZenonT(60)
<1>6. TokensListed(s) => TokensListed(r)
  <2>1. q \in Portfolio
    BY <1>3
  <2>2. TokensListed(s) => Listed(p)
    BY DEF TokensListed
  <2> HIDE DEF p
  <2> QED BY <1>2, <1>3, <2>1, <2>2, PortfolioReplaced
<1> HIDE DEF p
<1>8. ASSUME NEW k \in Maturity
      PROVE  /\ fCashOf(r, k) = fCashOf(s, k)
             /\ k = m => TokensOf(r, k) = TokensOf(s, k) + n
             /\ k # m => TokensOf(r, k) = TokensOf(s, k)
  <2>1. /\ TokensOf(r, k) = TokensOf(s, k) + q.token[k] - p.token[k]
        /\ fCashOf(r, k) = fCashOf(s, k) + q.fCash[k] - p.fCash[k]
    BY <1>5
  <2>2. p.token \in [Maturity -> Nat] /\ p.fCash \in [Maturity -> Int]
    BY <1>1 DEF Portfolio
  <2>3. CASE k = m
    BY <1>3, <1>4, <2>1, <2>2, <2>3
  <2>4. CASE k # m
    BY <1>3, <1>4, <2>1, <2>2, <2>4
  <2> QED BY <2>3, <2>4
<1> QED BY <1>5, <1>6, <1>8 DEF r

LEMMA ReduceTokenEffect ==
  ASSUME NEW s \in LedgerType, NEW a \in Account, NEW m \in Maturity, NEW n \in Nat,
         CanReduceToken(s, a, m, n)
  PROVE  /\ ReduceToken(s, a, m, n) \in LedgerType
         /\ ReduceToken(s, a, m, n).cash = s.cash
         /\ ReduceToken(s, a, m, n).held = s.held
         /\ ReduceToken(s, a, m, n).markets = s.markets
         /\ TokensOf(ReduceToken(s, a, m, n), m) = TokensOf(s, m) - n
         /\ \A k \in Maturity \ {m} : TokensOf(ReduceToken(s, a, m, n), k) = TokensOf(s, k)
         /\ \A k \in Maturity : fCashOf(ReduceToken(s, a, m, n), k) = fCashOf(s, k)
         /\ TokensListed(s) => TokensListed(ReduceToken(s, a, m, n))
<1> DEFINE p == s.portfolio[a]
           q == TakeToken(p, m, n)
           r == ReduceToken(s, a, m, n)
<1>1. p \in Portfolio /\ CanTakeToken(p, m, n)
  BY DEF LedgerType, CanReduceToken
<1>2. r = [s EXCEPT !.portfolio[a] = q]
  BY DEF ReduceToken
<1>3. /\ q \in Portfolio /\ (Listed(p) => Listed(q)) /\ q.fCash = p.fCash
      /\ q.listed = IF p.token[m] = n THEN p.listed \ {m} ELSE p.listed
      /\ q.token = [p.token EXCEPT ![m] = @ - n]
  <2> HIDE DEF p
  <2>1. q \in Portfolio /\ (Listed(p) => Listed(q))
    BY <1>1, TakeTokenEffect, Zenon DEF q
  <2>2. /\ q.fCash = p.fCash
        /\ q.token = [p.token EXCEPT ![m] = @ - n]
        /\ q.listed = IF p.token[m] = n THEN p.listed \ {m} ELSE p.listed
    BY DEF TakeToken
  <2> QED BY <2>1, <2>2
<1>4. \A k \in Maturity : /\ p.token[k] \in Int /\ p.fCash[k] \in Int
                          /\ TokensOf(s, k) \in Int /\ fCashOf(s, k) \in Int
  BY <1>1, TotalsInt DEF Portfolio
<1> HIDE DEF q, r
<1>5. /\ r \in LedgerType /\ r.cash = s.cash /\ r.held = s.held /\ r.markets = s.markets
      /\ r.portfolio = [s.portfolio EXCEPT ![a] = q]
      /\ \A k \in Maturity : /\ TokensOf(r, k) = TokensOf(s, k) + q.token[k] - p.token[k]
                             /\ fCashOf(r, k) = fCashOf(s, k) + q.fCash[k] - p.fCash[k]
  <2>1. q \in Portfolio
    BY <1>3
  <2> QED BY <1>2, <2>1, PortfolioReplaced, SMTT(30)
<1>6. TokensListed(s) => TokensListed(r)
  <2>1. q \in Portfolio
    BY <1>3
  <2>2. TokensListed(s) => Listed(p)
    BY DEF TokensListed
  <2> HIDE DEF p
  <2> QED BY <1>2, <1>3, <2>1, <2>2, PortfolioReplaced
<1> HIDE DEF p
<1>8. ASSUME NEW k \in Maturity
      PROVE  /\ fCashOf(r, k) = fCashOf(s, k)
             /\ k = m => TokensOf(r, k) = TokensOf(s, k) - n
             /\ k # m => TokensOf(r, k) = TokensOf(s, k)
  <2>1. /\ TokensOf(r, k) = TokensOf(s, k) + q.token[k] - p.token[k]
        /\ fCashOf(r, k) = fCashOf(s, k) + q.fCash[k] - p.fCash[k]
    BY <1>5
  <2>2. p.token \in [Maturity -> Nat] /\ p.fCash \in [Maturity -> Int]
    BY <1>1 DEF Portfolio
  <2>3. CASE k = m
    BY <1>3, <1>4, <2>1, <2>2, <2>3
  <2>4. CASE k # m
    BY <1>3, <1>4, <2>1, <2>2, <2>4
  <2> QED BY <2>3, <2>4
<1> QED BY <1>5, <1>6, <1>8 DEF r

-----------------------------------------------------------------------------
(* Redeeming and settling.                                                 *)

(* A pool has cash and fCash exactly when it has suppliers. *)
Alive(mk) == /\ (mk.totalLiquidity = 0) <=> (mk.totalCurrentCash = 0)
             /\ (mk.totalLiquidity = 0) <=> (mk.totalfCash = 0)

LEMMA RedeemEffect ==
  ASSUME NEW mk \in Market, NEW tokens \in Nat, CanRedeem(mk, tokens)
  PROVE  /\ Redeem(mk, tokens) \in Market
         /\ CashShare(mk, tokens) \in 0 .. mk.totalCurrentCash
         /\ fCashShare(mk, tokens) \in 0 .. mk.totalfCash
         /\ Alive(mk) => Alive(Redeem(mk, tokens))
<1> DEFINE C == mk.totalCurrentCash
           F == mk.totalfCash
           L == mk.totalLiquidity
           c == CashShare(mk, tokens)
           f == fCashShare(mk, tokens)
<1>1. C \in Nat /\ F \in Nat /\ L \in Nat \ {0} /\ tokens \in 0 .. L
  BY DEF Market, CanRedeem
<1>2. c = Share(C, tokens, L) /\ f = Share(F, tokens, L)
  BY DEF CashShare, fCashShare
<1>3. Redeem(mk, tokens) = [totalfCash |-> F - f, totalLiquidity |-> L - tokens, totalCurrentCash |-> C - c]
  BY DEF Redeem
<1> HIDE DEF C, F, L, c, f
<1>4. c \in 0 .. C /\ f \in 0 .. F
  BY <1>1, <1>2, ShareBounded
<1>5. Redeem(mk, tokens) \in Market
  BY <1>1, <1>3, <1>4 DEF Market
<1>6. CASE tokens = L
  <2>1. c = C /\ f = F
    BY <1>1, <1>2, <1>6, ShareOfAll
  <2>2. Alive(Redeem(mk, tokens))
    BY <1>1, <1>3, <1>6, <2>1 DEF Alive
  <2> QED BY <1>4, <1>5, <2>2 DEF c, f, C, F
<1>7. CASE tokens # L
  <2>1. tokens \in 0 .. (L - 1)
    BY <1>1, <1>7
  <2>2. ASSUME Alive(mk) PROVE Alive(Redeem(mk, tokens))
    <3>1. C \in Nat \ {0} /\ F \in Nat \ {0}
      BY <1>1, <2>2 DEF Alive, C, F, L
    <3>2. c < C /\ f < F
      BY <1>1, <1>2, <2>1, <3>1, ShareOfPart
    <3> QED BY <1>1, <1>3, <1>4, <1>7, <3>2 DEF Alive
  <2> QED BY <1>4, <1>5, <2>2 DEF c, f, C, F
<1> QED BY <1>6, <1>7

LEMMA UnmaturedEffect ==
  ASSUME NEW p \in Portfolio, NEW t \in Int
  PROVE  /\ Unmatured(p, t) \in Portfolio
         /\ Listed(p) => Listed(Unmatured(p, t))
         /\ \A m \in Maturity :
              /\ Unmatured(p, t).fCash[m] = IF m <= t THEN 0 ELSE p.fCash[m]
              /\ Unmatured(p, t).token[m] = IF m <= t THEN 0 ELSE p.token[m]
<1>1. Maturity \subseteq Int
  BY RiskAssumption
<1> QED BY <1>1 DEF Unmatured, Portfolio, Listed

(* Per maturity, what settling takes out of a pool and what it pays. *)
LEMMA SettledAmounts ==
  ASSUME NEW s \in LedgerType, NEW a \in Account, NEW t \in Int, CanSettle(s, a, t)
  PROVE  /\ \A m \in Maturity :
              /\ RedeemedAt(s, a, t, m) \in 0 .. s.markets[m].totalCurrentCash
              /\ SettledAt(s, a, t, m) \in Int
         /\ RedeemedCash(s, a, t) \in Int
         /\ SettledCash(s, a, t) \in Int
<1>1. ASSUME NEW m \in Maturity
      PROVE  /\ RedeemedAt(s, a, t, m) \in 0 .. s.markets[m].totalCurrentCash
             /\ SettledAt(s, a, t, m) \in Int
  <2>1. /\ s.markets[m] \in Market
        /\ s.portfolio[a].token[m] \in Nat
        /\ s.portfolio[a].fCash[m] \in Int
        /\ s.markets[m].totalCurrentCash \in Nat
        /\ s.markets[m].totalfCash \in Nat
    BY DEF LedgerType, Portfolio, Market
  <2>2. CASE m \in MaturedTokens(s, a, t)
    <3>1. CanRedeem(s.markets[m], s.portfolio[a].token[m])
      BY <2>2 DEF CanSettle
    <3>2. /\ CashShare(s.markets[m], s.portfolio[a].token[m]) \in 0 .. s.markets[m].totalCurrentCash
          /\ fCashShare(s.markets[m], s.portfolio[a].token[m]) \in 0 .. s.markets[m].totalfCash
      BY <2>1, <3>1, RedeemEffect
    <3> QED BY <2>1, <2>2, <3>2 DEF RedeemedAt, SettledAt
  <2>3. CASE m \notin MaturedTokens(s, a, t)
    <3>1. m <= t => m \notin s.portfolio[a].listed
      BY <2>3 DEF MaturedTokens
    <3>2. m \in Int
      BY RiskAssumption
    <3> QED BY <2>1, <2>3, <3>1, <3>2 DEF RedeemedAt, SettledAt
  <2> QED BY <2>2, <2>3
<1>2. RedeemedCash(s, a, t) \in Int
  <2>1. [m \in Maturity |-> RedeemedAt(s, a, t, m)] \in [Maturity -> Int]
    BY <1>1
  <2> QED BY <2>1, SumInt, RiskAssumption DEF RedeemedCash
<1>3. SettledCash(s, a, t) \in Int
  <2>1. [m \in Maturity |-> SettledAt(s, a, t, m)] \in [Maturity -> Int]
    BY <1>1
  <2> QED BY <2>1, SumInt, RiskAssumption DEF SettledCash
<1> QED BY <1>1, <1>2, <1>3

(* Settling an account pays its redeemed cash out of the market's balance and
   its fCash out of nothing: that is what the unsettled total is for. *)
LEMMA SettleEffect ==
  ASSUME NEW s \in LedgerType, NEW a \in Account, NEW t \in Int, CanSettle(s, a, t), TokensListed(s)
  PROVE  /\ Settle(s, a, t) \in LedgerType
         /\ Settle(s, a, t).held = s.held
         /\ Settle(s, a, t).cash[LocalCurrency][CASH_MARKET]
              = s.cash[LocalCurrency][CASH_MARKET] - RedeemedCash(s, a, t)
         /\ PoolCash(Settle(s, a, t)) = PoolCash(s) - RedeemedCash(s, a, t)
         /\ \A c \in Currency :
              SumFunction(Settle(s, a, t).cash[c])
                = SumFunction(s.cash[c]) + IF c = LocalCurrency THEN SettledCash(s, a, t) ELSE 0
         /\ TokensListed(Settle(s, a, t))
         /\ \A m \in Maturity :
              /\ TokensOf(Settle(s, a, t), m) - Settle(s, a, t).markets[m].totalLiquidity
                   = TokensOf(s, m) - s.markets[m].totalLiquidity
              /\ fCashOf(Settle(s, a, t), m) + Settle(s, a, t).markets[m].totalfCash
                   = fCashOf(s, m) + s.markets[m].totalfCash - SettledAt(s, a, t, m)
              /\ Alive(s.markets[m]) => Alive(Settle(s, a, t).markets[m])
<1> DEFINE r == Settle(s, a, t)
           R == RedeemedCash(s, a, t)
           S == SettledCash(s, a, t)
           b == s.cash[LocalCurrency]
           b1 == Credit(b, CASH_MARKET, -R)
           b2 == Credit(b1, a, R + S)
           p == s.portfolio[a]
           q == Unmatured(p, t)
           u == [s EXCEPT !.portfolio[a] = q]
           mks == r.markets
<1>1. /\ R \in Int /\ S \in Int
      /\ \A m \in Maturity : /\ RedeemedAt(s, a, t, m) \in 0 .. s.markets[m].totalCurrentCash
                             /\ SettledAt(s, a, t, m) \in Int
  BY SettledAmounts
<1>2. /\ p \in Portfolio /\ b \in [Holder -> Int]
      /\ a \in Holder /\ CASH_MARKET \in Holder /\ a # CASH_MARKET
      /\ LocalCurrency \in Currency
  BY LedgerAssumption DEF LedgerType, Holder, Currency
<1>3. r = [cash |-> [s.cash EXCEPT ![LocalCurrency] = b2],
           held |-> s.held,
           portfolio |-> [s.portfolio EXCEPT ![a] = q],
           markets |-> mks]
  BY DEF Settle
<1>4. /\ Maturity \subseteq Int
      /\ p.fCash \in [Maturity -> Int] /\ p.token \in [Maturity -> Nat] /\ p.listed \subseteq Maturity
      /\ Listed(p)
  BY <1>2, RiskAssumption DEF Portfolio, TokensListed
<1>5. \A m \in Maturity :
        mks[m] = IF m \in MaturedTokens(s, a, t) THEN Redeem(s.markets[m], p.token[m]) ELSE s.markets[m]
  BY DEF Settle
<1>6. mks = [m \in Maturity |-> mks[m]]
  BY DEF Settle
<1> HIDE DEF r, R, S, b, mks, q
<1>7. /\ b2 \in [Holder -> Int] /\ b2[CASH_MARKET] = b[CASH_MARKET] - R
      /\ SumFunction(b2) = SumFunction(b) + S
  <2>1. -R \in Int /\ R + S \in Int /\ SumFunction(b) \in Int /\ b[CASH_MARKET] \in Int
    BY <1>1, <1>2, TotalsInt DEF b
  <2>2. /\ b1 \in [Holder -> Int] /\ b1[CASH_MARKET] = b[CASH_MARKET] + (-R)
        /\ SumFunction(b1) = SumFunction(b) + (-R)
    BY <1>2, <2>1, CreditEffect
  <2> HIDE DEF b1
  <2>3. b2 \in [Holder -> Int] /\ b2[CASH_MARKET] = b1[CASH_MARKET]
    BY <1>2, <2>1, <2>2, CreditEffect, ZenonT(60)
  <2>4. SumFunction(b2) = SumFunction(b1) + (R + S)
    BY <1>2, <2>1, <2>2, CreditEffect
  <2> HIDE DEF b2
  <2> QED BY <1>1, <2>1, <2>2, <2>3, <2>4
<1> HIDE DEF b1, b2
<1>8. ASSUME NEW m \in Maturity
      PROVE  /\ mks[m] \in Market
             /\ mks[m].totalCurrentCash = s.markets[m].totalCurrentCash - RedeemedAt(s, a, t, m)
             /\ mks[m].totalLiquidity = s.markets[m].totalLiquidity - IF m <= t THEN p.token[m] ELSE 0
             /\ mks[m].totalfCash = s.markets[m].totalfCash
                  - (SettledAt(s, a, t, m) - IF m <= t THEN p.fCash[m] ELSE 0)
             /\ Alive(s.markets[m]) => Alive(mks[m])
  <2>1. /\ s.markets[m] \in Market /\ m \in Int
        /\ s.markets[m].totalLiquidity \in Nat /\ s.markets[m].totalCurrentCash \in Nat
        /\ s.markets[m].totalfCash \in Nat
        /\ p.token[m] \in Nat /\ p.fCash[m] \in Int
    BY <1>4 DEF LedgerType, Market
  <2>2. CASE m \in MaturedTokens(s, a, t)
    <3>1. CanRedeem(s.markets[m], p.token[m]) /\ m <= t /\ m \in p.listed
      BY <2>2 DEF CanSettle, MaturedTokens
    <3>2. /\ Redeem(s.markets[m], p.token[m]) \in Market
          /\ fCashShare(s.markets[m], p.token[m]) \in 0 .. s.markets[m].totalfCash
          /\ Alive(s.markets[m]) => Alive(Redeem(s.markets[m], p.token[m]))
      BY <2>1, <3>1, RedeemEffect
    <3>3. mks[m] = Redeem(s.markets[m], p.token[m])
      BY <1>5, <2>2
    <3>4. RedeemedAt(s, a, t, m) = CashShare(s.markets[m], p.token[m])
      BY <2>2 DEF RedeemedAt
    <3>5. SettledAt(s, a, t, m) = p.fCash[m] + fCashShare(s.markets[m], p.token[m])
      BY <2>1, <3>1 DEF SettledAt
    <3>6. /\ mks[m].totalfCash = s.markets[m].totalfCash - fCashShare(s.markets[m], p.token[m])
          /\ mks[m].totalLiquidity = s.markets[m].totalLiquidity - p.token[m]
          /\ mks[m].totalCurrentCash = s.markets[m].totalCurrentCash - CashShare(s.markets[m], p.token[m])
      BY <3>3 DEF Redeem
    <3> HIDE DEF p
    <3> QED BY <2>1, <3>1, <3>2, <3>3, <3>4, <3>5, <3>6
  <2>3. CASE m \notin MaturedTokens(s, a, t)
    <3>1. m <= t => m \notin p.listed /\ p.token[m] = 0
      BY <1>4, <2>1, <2>3 DEF MaturedTokens, Listed
    <3>2. mks[m] = s.markets[m]
      BY <1>5, <2>3
    <3>3. RedeemedAt(s, a, t, m) = 0
      BY <2>3 DEF RedeemedAt
    <3>4. SettledAt(s, a, t, m) = IF m <= t THEN p.fCash[m] ELSE 0
      BY <2>1, <3>1 DEF SettledAt
    <3> HIDE DEF p
    <3> QED BY <2>1, <3>1, <3>2, <3>3, <3>4
  <2> QED BY <2>2, <2>3
<1>9. mks \in [Maturity -> Market]
  BY <1>6, <1>8
<1>10. q \in Portfolio /\ Listed(q)
       /\ \A m \in Maturity : /\ q.fCash[m] = IF m <= t THEN 0 ELSE p.fCash[m]
                              /\ q.token[m] = IF m <= t THEN 0 ELSE p.token[m]
  BY <1>2, <1>4, UnmaturedEffect DEF q
<1>11. /\ u \in LedgerType /\ u.portfolio = [s.portfolio EXCEPT ![a] = q]
       /\ TokensListed(u)
       /\ \A m \in Maturity : /\ TokensOf(u, m) = TokensOf(s, m) + q.token[m] - p.token[m]
                              /\ fCashOf(u, m) = fCashOf(s, m) + q.fCash[m] - p.fCash[m]
  <2>1. q \in Portfolio /\ Listed(q)
    BY <1>10
  <2> QED BY <2>1, PortfolioReplaced, ZenonT(30) DEF p
<1> HIDE DEF u
<1>12. /\ r.held = s.held /\ r.portfolio = u.portfolio /\ r.markets = mks
       /\ r.cash = [s.cash EXCEPT ![LocalCurrency] = b2]
  BY <1>3, <1>11
<1>13. r \in LedgerType
  <2>1. /\ s.cash \in [Currency -> [Holder -> Int]] /\ s.held \in [Currency -> Nat]
        /\ u.portfolio \in [Account -> Portfolio]
    BY <1>11 DEF LedgerType
  <2>2. [s.cash EXCEPT ![LocalCurrency] = b2] \in [Currency -> [Holder -> Int]]
    BY <1>7, <2>1
  <2> QED BY <1>3, <1>9, <1>11, <2>1, <2>2 DEF LedgerType
<1>14. /\ r.cash[LocalCurrency] = b2
       /\ \A c \in Currency : c # LocalCurrency => r.cash[c] = s.cash[c]
  BY <1>2, <1>12 DEF LedgerType
<1>15. \A c \in Currency :
         SumFunction(r.cash[c]) = SumFunction(s.cash[c]) + IF c = LocalCurrency THEN S ELSE 0
  BY <1>7, <1>14, TotalsInt DEF b
<1>16. PoolCash(r) = PoolCash(s) - R
  <2> DEFINE f == [m \in Maturity |-> mks[m].totalCurrentCash]
             g == [m \in Maturity |-> RedeemedAt(s, a, t, m)]
             h == [m \in Maturity |-> s.markets[m].totalCurrentCash]
  <2>1. \A m \in Maturity : /\ mks[m].totalCurrentCash \in Int
                            /\ RedeemedAt(s, a, t, m) \in Int
                            /\ s.markets[m].totalCurrentCash \in Int
    <3>1. \A m \in Maturity : s.markets[m].totalCurrentCash \in Int
      BY DEF LedgerType, Market
    <3>2. \A m \in Maturity : mks[m].totalCurrentCash \in Int
      BY <1>9 DEF Market
    <3>3. ASSUME NEW m \in Maturity PROVE RedeemedAt(s, a, t, m) \in Int
      <4>1. RedeemedAt(s, a, t, m) \in 0 .. s.markets[m].totalCurrentCash
        BY <1>1
      <4> QED BY <3>1, <4>1
    <3> QED BY <3>1, <3>2, <3>3
  <2>2. f \in [Maturity -> Int] /\ g \in [Maturity -> Int]
    BY <2>1
  <2>3. h = [m \in Maturity |-> f[m] + g[m]]
    BY <1>8, <2>1
  <2> HIDE DEF f, g, h
  <2>4. SumFunction([m \in Maturity |-> f[m] + g[m]]) = SumFunction(f) + SumFunction(g)
    BY <2>2, SumPlus, RiskAssumption
  <2>5. PoolCash(s) = SumFunction(h) /\ PoolCash(r) = SumFunction(f) /\ R = SumFunction(g)
    BY <1>12 DEF PoolCash, RedeemedCash, R, f, g, h
  <2>6. SumFunction(f) \in Int /\ SumFunction(g) \in Int
    BY <2>2, SumInt, RiskAssumption
  <2> QED BY <2>3, <2>4, <2>5, <2>6
<1>17. TokensListed(r)
  BY <1>11, <1>12 DEF TokensListed
<1>18. ASSUME NEW m \in Maturity
       PROVE  /\ TokensOf(r, m) - mks[m].totalLiquidity = TokensOf(s, m) - s.markets[m].totalLiquidity
              /\ fCashOf(r, m) + mks[m].totalfCash
                   = fCashOf(s, m) + s.markets[m].totalfCash - SettledAt(s, a, t, m)
  <2>1. TokensOf(r, m) = TokensOf(u, m) /\ fCashOf(r, m) = fCashOf(u, m)
    BY <1>12 DEF TokensOf, fCashOf
  <2>2. /\ TokensOf(s, m) \in Int /\ fCashOf(s, m) \in Int /\ SettledAt(s, a, t, m) \in Int
        /\ p.token[m] \in Int /\ p.fCash[m] \in Int
        /\ s.markets[m].totalLiquidity \in Int /\ s.markets[m].totalfCash \in Int
    BY <1>1, <1>4, TotalsInt DEF LedgerType, Market
  <2>3. /\ TokensOf(u, m) = TokensOf(s, m) + q.token[m] - p.token[m]
        /\ fCashOf(u, m) = fCashOf(s, m) + q.fCash[m] - p.fCash[m]
    BY <1>11
  <2>4. CASE m <= t
    BY <1>8, <1>10, <2>1, <2>2, <2>3, <2>4
  <2>5. CASE ~ (m <= t)
    BY <1>8, <1>10, <2>1, <2>2, <2>3, <2>5
  <2> QED BY <2>4, <2>5
<1> QED BY <1>7, <1>8, <1>12, <1>13, <1>14, <1>15, <1>16, <1>17, <1>18 DEF r, R, S, b

-----------------------------------------------------------------------------
(* The books balance.                                                      *)

(* What a ledger must satisfy at time t: every total that two contracts keep
   agrees with the other's. *)
Sound(s, t) ==
  /\ s \in LedgerType
  /\ s.cash[LocalCurrency][CASH_MARKET] = PoolCash(s)
  /\ TokensListed(s)
  /\ \A m \in Maturity : /\ TokensOf(s, m) = s.markets[m].totalLiquidity
                         /\ Alive(s.markets[m])
                         /\ t < m => fCashOf(s, m) + s.markets[m].totalfCash = 0

(* r differs from s only by movements that leave those totals in step. *)
Kept(s, r) ==
  /\ r \in LedgerType
  /\ r.cash[LocalCurrency][CASH_MARKET] - PoolCash(r) = s.cash[LocalCurrency][CASH_MARKET] - PoolCash(s)
  /\ TokensListed(s) => TokensListed(r)
  /\ \A m \in Maturity :
       /\ TokensOf(r, m) - r.markets[m].totalLiquidity = TokensOf(s, m) - s.markets[m].totalLiquidity
       /\ Alive(s.markets[m]) => Alive(r.markets[m])
       /\ fCashOf(r, m) + r.markets[m].totalfCash = fCashOf(s, m) + s.markets[m].totalfCash

(* The same, and what the Escrow holds moves with what it owes. *)
Balanced(s, r) ==
  /\ Kept(s, r)
  /\ \A c \in Currency : r.held[c] - SumFunction(r.cash[c]) = s.held[c] - SumFunction(s.cash[c])

LEMMA KeptSound ==
  ASSUME NEW s, NEW r, NEW t, Sound(s, t), Kept(s, r)
  PROVE  Sound(r, t)
<1>1. s \in LedgerType /\ r \in LedgerType
  BY DEF Sound, Kept
<1>2. /\ PoolCash(s) \in Int /\ PoolCash(r) \in Int
      /\ \A m \in Maturity : TokensOf(s, m) \in Int /\ TokensOf(r, m) \in Int
  BY <1>1, TotalsInt
<1>3. /\ s.cash[LocalCurrency][CASH_MARKET] \in Int /\ r.cash[LocalCurrency][CASH_MARKET] \in Int
      /\ \A m \in Maturity : s.markets[m].totalLiquidity \in Int /\ r.markets[m].totalLiquidity \in Int
  BY <1>1 DEF LedgerType, Holder, Currency, Market
<1>4. r.cash[LocalCurrency][CASH_MARKET] = PoolCash(r)
  BY <1>2, <1>3 DEF Sound, Kept
<1>5. ASSUME NEW m \in Maturity
      PROVE  /\ TokensOf(r, m) = r.markets[m].totalLiquidity
             /\ Alive(r.markets[m])
             /\ t < m => fCashOf(r, m) + r.markets[m].totalfCash = 0
  <2>1. /\ TokensOf(s, m) = s.markets[m].totalLiquidity
        /\ Alive(s.markets[m])
        /\ t < m => fCashOf(s, m) + s.markets[m].totalfCash = 0
    BY DEF Sound
  <2>2. /\ TokensOf(r, m) - r.markets[m].totalLiquidity = TokensOf(s, m) - s.markets[m].totalLiquidity
        /\ Alive(s.markets[m]) => Alive(r.markets[m])
        /\ fCashOf(r, m) + r.markets[m].totalfCash = fCashOf(s, m) + s.markets[m].totalfCash
    BY DEF Kept
  <2>3. /\ TokensOf(s, m) \in Int /\ TokensOf(r, m) \in Int
        /\ s.markets[m].totalLiquidity \in Int /\ r.markets[m].totalLiquidity \in Int
    BY <1>2, <1>3
  <2> QED BY <2>1, <2>2, <2>3
<1> QED BY <1>1, <1>4, <1>5 DEF Sound, Kept

LEMMA SettleSound ==
  ASSUME NEW s, NEW a \in Account, NEW t \in Int, Sound(s, t), CanSettle(s, a, t)
  PROVE  Sound(Settle(s, a, t), t)
<1> DEFINE r == Settle(s, a, t)
<1>1. s \in LedgerType /\ TokensListed(s)
  BY DEF Sound
<1>2. /\ r \in LedgerType
      /\ r.cash[LocalCurrency][CASH_MARKET] = s.cash[LocalCurrency][CASH_MARKET] - RedeemedCash(s, a, t)
      /\ PoolCash(r) = PoolCash(s) - RedeemedCash(s, a, t)
      /\ TokensListed(r)
      /\ \A m \in Maturity :
           /\ TokensOf(r, m) - r.markets[m].totalLiquidity = TokensOf(s, m) - s.markets[m].totalLiquidity
           /\ fCashOf(r, m) + r.markets[m].totalfCash
                = fCashOf(s, m) + s.markets[m].totalfCash - SettledAt(s, a, t, m)
           /\ Alive(s.markets[m]) => Alive(r.markets[m])
  BY <1>1, SettleEffect
<1> HIDE DEF r
<1>3. r.cash[LocalCurrency][CASH_MARKET] = PoolCash(r)
  BY <1>2 DEF Sound
<1>4. ASSUME NEW m \in Maturity
      PROVE  /\ TokensOf(r, m) = r.markets[m].totalLiquidity
             /\ Alive(r.markets[m])
             /\ t < m => fCashOf(r, m) + r.markets[m].totalfCash = 0
  <2>1. /\ TokensOf(s, m) \in Int /\ TokensOf(r, m) \in Int /\ fCashOf(s, m) \in Int
        /\ s.markets[m].totalLiquidity \in Int /\ r.markets[m].totalLiquidity \in Int
        /\ s.markets[m].totalfCash \in Int
    BY <1>1, <1>2, TotalsInt, SMTT(30) DEF LedgerType, Market
  <2>2. t < m => SettledAt(s, a, t, m) = 0
    BY RiskAssumption DEF SettledAt
  <2>3. /\ TokensOf(s, m) = s.markets[m].totalLiquidity
        /\ Alive(s.markets[m])
        /\ t < m => fCashOf(s, m) + s.markets[m].totalfCash = 0
    BY DEF Sound
  <2>4. /\ TokensOf(r, m) - r.markets[m].totalLiquidity = TokensOf(s, m) - s.markets[m].totalLiquidity
        /\ fCashOf(r, m) + r.markets[m].totalfCash
             = fCashOf(s, m) + s.markets[m].totalfCash - SettledAt(s, a, t, m)
        /\ Alive(s.markets[m]) => Alive(r.markets[m])
    BY <1>2
  <2> QED BY <2>1, <2>2, <2>3, <2>4
<1> QED BY <1>2, <1>3, <1>4 DEF Sound, r

-----------------------------------------------------------------------------
(* Transfers between two accounts.                                         *)

LEMMA MovefCashBalanced ==
  ASSUME NEW s \in LedgerType, NEW a \in Account, NEW b \in Account, NEW m \in Maturity, NEW n \in Int
  PROVE  Balanced(s, UpsertfCash(UpsertfCash(s, a, m, -n), b, m, n))
<1> DEFINE u == UpsertfCash(s, a, m, -n)
           r == UpsertfCash(u, b, m, n)
<1>1. -n \in Int
  OBVIOUS
<1>2. /\ u \in LedgerType /\ u.cash = s.cash /\ u.held = s.held /\ u.markets = s.markets
      /\ fCashOf(u, m) = fCashOf(s, m) + (-n)
      /\ \A k \in Maturity \ {m} : fCashOf(u, k) = fCashOf(s, k)
      /\ \A k \in Maturity : TokensOf(u, k) = TokensOf(s, k)
      /\ TokensListed(s) => TokensListed(u)
  BY <1>1, UpsertfCashEffect
<1> HIDE DEF u
<1>3. /\ r \in LedgerType /\ r.cash = u.cash /\ r.held = u.held /\ r.markets = u.markets
      /\ fCashOf(r, m) = fCashOf(u, m) + n
      /\ \A k \in Maturity \ {m} : fCashOf(r, k) = fCashOf(u, k)
      /\ \A k \in Maturity : TokensOf(r, k) = TokensOf(u, k)
      /\ TokensListed(u) => TokensListed(r)
  BY <1>2, UpsertfCashEffect
<1> HIDE DEF r
<1>4. PoolCash(r) = PoolCash(s)
  BY <1>2, <1>3 DEF PoolCash
<1>5. ASSUME NEW k \in Maturity PROVE fCashOf(r, k) = fCashOf(s, k) /\ TokensOf(r, k) = TokensOf(s, k)
  <2>1. fCashOf(s, k) \in Int
    BY TotalsInt
  <2>2. CASE k = m
    BY <1>2, <1>3, <2>1, <2>2
  <2>3. CASE k # m
    BY <1>2, <1>3, <2>3
  <2> QED BY <2>2, <2>3
<1>6. Kept(s, r)
  BY <1>2, <1>3, <1>4, <1>5 DEF Kept
<1> QED BY <1>2, <1>3, <1>6 DEF Balanced, r, u

LEMMA MoveTokenBalanced ==
  ASSUME NEW s \in LedgerType, NEW a \in Account, NEW b \in Account, NEW m \in Maturity, NEW n \in Nat,
         CanReduceToken(s, a, m, n)
  PROVE  Balanced(s, UpsertToken(ReduceToken(s, a, m, n), b, m, n))
<1> DEFINE u == ReduceToken(s, a, m, n)
           r == UpsertToken(u, b, m, n)
<1>2. /\ u \in LedgerType /\ u.cash = s.cash /\ u.held = s.held /\ u.markets = s.markets
      /\ TokensOf(u, m) = TokensOf(s, m) - n
      /\ \A k \in Maturity \ {m} : TokensOf(u, k) = TokensOf(s, k)
      /\ \A k \in Maturity : fCashOf(u, k) = fCashOf(s, k)
      /\ TokensListed(s) => TokensListed(u)
  BY ReduceTokenEffect
<1> HIDE DEF u
<1>3. /\ r \in LedgerType /\ r.cash = u.cash /\ r.held = u.held /\ r.markets = u.markets
      /\ TokensOf(r, m) = TokensOf(u, m) + n
      /\ \A k \in Maturity \ {m} : TokensOf(r, k) = TokensOf(u, k)
      /\ \A k \in Maturity : fCashOf(r, k) = fCashOf(u, k)
      /\ TokensListed(u) => TokensListed(r)
  BY <1>2, UpsertTokenEffect
<1> HIDE DEF r
<1>4. PoolCash(r) = PoolCash(s)
  BY <1>2, <1>3 DEF PoolCash
<1>5. ASSUME NEW k \in Maturity PROVE fCashOf(r, k) = fCashOf(s, k) /\ TokensOf(r, k) = TokensOf(s, k)
  <2>1. TokensOf(s, k) \in Int
    BY TotalsInt
  <2>2. CASE k = m
    BY <1>2, <1>3, <2>1, <2>2
  <2>3. CASE k # m
    BY <1>2, <1>3, <2>3
  <2> QED BY <2>2, <2>3
<1>6. Kept(s, r)
  BY <1>2, <1>3, <1>4, <1>5 DEF Kept
<1> QED BY <1>2, <1>3, <1>6 DEF Balanced, r, u

-----------------------------------------------------------------------------
(* Calls of the market: cash moves with the pool, then positions are        *)
(* entered.                                                                *)

(* u is s with the pool of m replaced by mk and the cash moved accordingly. *)
Pooled(s, u, m, mk) ==
  /\ u \in LedgerType
  /\ u.markets = [s.markets EXCEPT ![m] = mk]
  /\ u.portfolio = s.portfolio
  /\ u.held = s.held
  /\ \A c \in Currency : SumFunction(u.cash[c]) = SumFunction(s.cash[c])
  /\ u.cash[LocalCurrency][CASH_MARKET] - PoolCash(u) = s.cash[LocalCurrency][CASH_MARKET] - PoolCash(s)

LEMMA DepositPooled ==
  ASSUME NEW s \in LedgerType, NEW a \in Account, NEW m \in Maturity, NEW mk \in Market,
         NEW value \in Int, NEW fee \in Int,
         mk.totalCurrentCash = s.markets[m].totalCurrentCash + value
  PROVE  Pooled(s, DepositIntoMarket([s EXCEPT !.markets[m] = mk], a, value, fee), m, mk)
<1> DEFINE q == [s EXCEPT !.markets[m] = mk]
           u == DepositIntoMarket(q, a, value, fee)
<1>1. /\ q \in LedgerType /\ q.markets = [s.markets EXCEPT ![m] = mk]
      /\ q.cash = s.cash /\ q.held = s.held /\ q.portfolio = s.portfolio
      /\ PoolCash(q) = PoolCash(s) + mk.totalCurrentCash - s.markets[m].totalCurrentCash
  BY MarketReplaced, Zenon
<1> HIDE DEF q
<1>2. /\ u \in LedgerType
      /\ u.cash[LocalCurrency][CASH_MARKET] = q.cash[LocalCurrency][CASH_MARKET] + value
      /\ \A c \in Currency : SumFunction(u.cash[c]) = SumFunction(q.cash[c])
      /\ u.held = q.held /\ u.portfolio = q.portfolio /\ u.markets = q.markets
  BY <1>1, MarketTransfer
<1> HIDE DEF u
<1>3. PoolCash(u) = PoolCash(q)
  BY <1>2 DEF PoolCash
<1>4. /\ PoolCash(s) \in Int /\ s.cash[LocalCurrency][CASH_MARKET] \in Int
      /\ s.markets[m].totalCurrentCash \in Int
  <2>1. PoolCash(s) \in Int
    BY TotalsInt
  <2>2. s.cash[LocalCurrency][CASH_MARKET] \in Int /\ s.markets[m].totalCurrentCash \in Int
    BY DEF LedgerType, Market, Currency, Holder
  <2> QED BY <2>1, <2>2
<1>5. u.cash[LocalCurrency][CASH_MARKET] - PoolCash(u) = s.cash[LocalCurrency][CASH_MARKET] - PoolCash(s)
  BY <1>1, <1>2, <1>3, <1>4
<1> QED BY <1>1, <1>2, <1>5 DEF Pooled, u, q

LEMMA WithdrawPooled ==
  ASSUME NEW s \in LedgerType, NEW a \in Account, NEW m \in Maturity, NEW mk \in Market,
         NEW value \in Int, NEW fee \in Int,
         mk.totalCurrentCash = s.markets[m].totalCurrentCash - value
  PROVE  Pooled(s, WithdrawFromMarket([s EXCEPT !.markets[m] = mk], a, value, fee), m, mk)
<1> DEFINE q == [s EXCEPT !.markets[m] = mk]
           u == WithdrawFromMarket(q, a, value, fee)
<1>1. /\ q \in LedgerType /\ q.markets = [s.markets EXCEPT ![m] = mk]
      /\ q.cash = s.cash /\ q.held = s.held /\ q.portfolio = s.portfolio
      /\ PoolCash(q) = PoolCash(s) + mk.totalCurrentCash - s.markets[m].totalCurrentCash
  BY MarketReplaced, Zenon
<1> HIDE DEF q
<1>2. /\ u \in LedgerType
      /\ u.cash[LocalCurrency][CASH_MARKET] = q.cash[LocalCurrency][CASH_MARKET] - value
      /\ \A c \in Currency : SumFunction(u.cash[c]) = SumFunction(q.cash[c])
      /\ u.held = q.held /\ u.portfolio = q.portfolio /\ u.markets = q.markets
  BY <1>1, MarketTransfer
<1> HIDE DEF u
<1>3. PoolCash(u) = PoolCash(q)
  BY <1>2 DEF PoolCash
<1>4. /\ PoolCash(s) \in Int /\ s.cash[LocalCurrency][CASH_MARKET] \in Int
      /\ s.markets[m].totalCurrentCash \in Int
  <2>1. PoolCash(s) \in Int
    BY TotalsInt
  <2>2. s.cash[LocalCurrency][CASH_MARKET] \in Int /\ s.markets[m].totalCurrentCash \in Int
    BY DEF LedgerType, Market, Currency, Holder
  <2> QED BY <2>1, <2>2
<1>5. u.cash[LocalCurrency][CASH_MARKET] - PoolCash(u) = s.cash[LocalCurrency][CASH_MARKET] - PoolCash(s)
  BY <1>1, <1>2, <1>3, <1>4
<1> QED BY <1>1, <1>2, <1>5 DEF Pooled, u, q

(* The positions entered after the pool has moved make up for what it moved. *)
LEMMA EnteredBalanced ==
  ASSUME NEW s \in LedgerType, NEW m \in Maturity, NEW mk \in Market,
         NEW u, Pooled(s, u, m, mk),
         NEW r \in LedgerType, r.cash = u.cash, r.held = u.held, r.markets = u.markets,
         TokensListed(u) => TokensListed(r),
         TokensOf(r, m) - mk.totalLiquidity = TokensOf(u, m) - s.markets[m].totalLiquidity,
         fCashOf(r, m) + mk.totalfCash = fCashOf(u, m) + s.markets[m].totalfCash,
         \A k \in Maturity \ {m} : TokensOf(r, k) = TokensOf(u, k) /\ fCashOf(r, k) = fCashOf(u, k),
         Alive(s.markets[m]) => Alive(mk)
  PROVE  Balanced(s, r)
<1>1. /\ \A k \in Maturity : TokensOf(u, k) = TokensOf(s, k) /\ fCashOf(u, k) = fCashOf(s, k)
      /\ TokensListed(s) => TokensListed(u)
  BY DEF Pooled, TokensOf, fCashOf, TokensListed
<1>2. PoolCash(r) = PoolCash(u)
  BY DEF PoolCash
<1>3. r.markets[m] = mk /\ \A k \in Maturity \ {m} : r.markets[k] = s.markets[k]
  BY DEF Pooled, LedgerType
<1>4. ASSUME NEW k \in Maturity
      PROVE  /\ TokensOf(r, k) - r.markets[k].totalLiquidity = TokensOf(s, k) - s.markets[k].totalLiquidity
             /\ Alive(s.markets[k]) => Alive(r.markets[k])
             /\ fCashOf(r, k) + r.markets[k].totalfCash = fCashOf(s, k) + s.markets[k].totalfCash
  <2>1. CASE k = m
    BY <1>1, <1>3, <2>1
  <2>2. CASE k # m
    BY <1>1, <1>3, <2>2
  <2> QED BY <2>1, <2>2
<1>5. Kept(s, r)
  BY <1>1, <1>2, <1>4 DEF Kept, Pooled
<1> QED BY <1>5 DEF Balanced, Pooled

LEMMA PoolTotals ==
  ASSUME NEW s \in LedgerType, NEW m \in Maturity
  PROVE  /\ s.markets[m] \in Market
         /\ s.markets[m].totalfCash \in Nat
         /\ s.markets[m].totalLiquidity \in Nat
         /\ s.markets[m].totalCurrentCash \in Nat
BY DEF LedgerType, Market

(* A trade: the trader's position mirrors the pool's. *)
LEMMA TradeBalanced ==
  ASSUME NEW s \in LedgerType, NEW a \in Account, NEW m \in Maturity, NEW mk \in Market,
         NEW u, Pooled(s, u, m, mk), NEW n \in Int,
         mk.totalLiquidity = s.markets[m].totalLiquidity,
         mk.totalfCash = s.markets[m].totalfCash - n,
         Alive(s.markets[m]) => Alive(mk)
  PROVE  Balanced(s, UpsertfCash(u, a, m, n))
<1> DEFINE r == UpsertfCash(u, a, m, n)
<1>1. u \in LedgerType
  BY DEF Pooled
<1>2. /\ r \in LedgerType /\ r.cash = u.cash /\ r.held = u.held /\ r.markets = u.markets
      /\ fCashOf(r, m) = fCashOf(u, m) + n
      /\ \A k \in Maturity \ {m} : fCashOf(r, k) = fCashOf(u, k)
      /\ \A k \in Maturity : TokensOf(r, k) = TokensOf(u, k)
      /\ TokensListed(u) => TokensListed(r)
  BY <1>1, UpsertfCashEffect
<1> HIDE DEF r
<1>3. fCashOf(u, m) \in Int /\ s.markets[m].totalfCash \in Nat
  BY <1>1, TotalsInt, PoolTotals
<1>4. fCashOf(r, m) + mk.totalfCash = fCashOf(u, m) + s.markets[m].totalfCash
  BY <1>2, <1>3
<1>5. TokensOf(r, m) - mk.totalLiquidity = TokensOf(u, m) - s.markets[m].totalLiquidity
  BY <1>2
<1>6. \A k \in Maturity \ {m} : TokensOf(r, k) = TokensOf(u, k) /\ fCashOf(r, k) = fCashOf(u, k)
  BY <1>2
<1>7. Balanced(s, r)
  BY <1>2, <1>4, <1>5, <1>6, EnteredBalanced
<1> QED BY <1>7 DEF r

(* Providing: the provider gets tokens and owes the fCash it adds. *)
LEMMA ProvideBalanced ==
  ASSUME NEW s \in LedgerType, NEW a \in Account, NEW m \in Maturity, NEW mk \in Market,
         NEW u, Pooled(s, u, m, mk), NEW tokens \in Nat, NEW n \in Int,
         mk.totalLiquidity = s.markets[m].totalLiquidity + tokens,
         mk.totalfCash = s.markets[m].totalfCash - n,
         Alive(s.markets[m]) => Alive(mk)
  PROVE  Balanced(s, UpsertfCash(UpsertToken(u, a, m, tokens), a, m, n))
<1> DEFINE v == UpsertToken(u, a, m, tokens)
           r == UpsertfCash(v, a, m, n)
<1>1. u \in LedgerType
  BY DEF Pooled
<1>2. /\ v \in LedgerType /\ v.cash = u.cash /\ v.held = u.held /\ v.markets = u.markets
      /\ TokensOf(v, m) = TokensOf(u, m) + tokens
      /\ \A k \in Maturity \ {m} : TokensOf(v, k) = TokensOf(u, k)
      /\ \A k \in Maturity : fCashOf(v, k) = fCashOf(u, k)
      /\ TokensListed(u) => TokensListed(v)
  BY <1>1, UpsertTokenEffect
<1> HIDE DEF v
<1>3. /\ r \in LedgerType /\ r.cash = v.cash /\ r.held = v.held /\ r.markets = v.markets
      /\ fCashOf(r, m) = fCashOf(v, m) + n
      /\ \A k \in Maturity \ {m} : fCashOf(r, k) = fCashOf(v, k)
      /\ \A k \in Maturity : TokensOf(r, k) = TokensOf(v, k)
      /\ TokensListed(v) => TokensListed(r)
  BY <1>2, UpsertfCashEffect
<1> HIDE DEF r
<1>4. /\ fCashOf(u, m) \in Int /\ TokensOf(u, m) \in Int
      /\ s.markets[m].totalfCash \in Nat /\ s.markets[m].totalLiquidity \in Nat
  BY <1>1, TotalsInt, PoolTotals
<1>5. fCashOf(r, m) + mk.totalfCash = fCashOf(u, m) + s.markets[m].totalfCash
  BY <1>2, <1>3, <1>4
<1>6. TokensOf(r, m) - mk.totalLiquidity = TokensOf(u, m) - s.markets[m].totalLiquidity
  BY <1>2, <1>3, <1>4
<1>7. \A k \in Maturity \ {m} : TokensOf(r, k) = TokensOf(u, k) /\ fCashOf(r, k) = fCashOf(u, k)
  BY <1>2, <1>3
<1>8. /\ r.cash = u.cash /\ r.held = u.held /\ r.markets = u.markets
      /\ TokensListed(u) => TokensListed(r)
  BY <1>2, <1>3
<1>9. Balanced(s, r)
  BY <1>3, <1>5, <1>6, <1>7, <1>8, EnteredBalanced
<1> QED BY <1>9 DEF r, v

(* Leaving: tokens are given up for a claim to the fCash they took. *)
LEMMA LeaveBalanced ==
  ASSUME NEW s \in LedgerType, NEW a \in Account, NEW m \in Maturity, NEW mk \in Market,
         NEW u, Pooled(s, u, m, mk), NEW tokens \in Nat, NEW n \in Int,
         CanReduceToken(s, a, m, tokens),
         mk.totalLiquidity = s.markets[m].totalLiquidity - tokens,
         mk.totalfCash = s.markets[m].totalfCash - n,
         Alive(s.markets[m]) => Alive(mk)
  PROVE  Balanced(s, UpsertfCash(ReduceToken(u, a, m, tokens), a, m, n))
<1> DEFINE v == ReduceToken(u, a, m, tokens)
           r == UpsertfCash(v, a, m, n)
<1>1. u \in LedgerType /\ CanReduceToken(u, a, m, tokens)
  BY DEF Pooled, CanReduceToken
<1>2. /\ v \in LedgerType /\ v.cash = u.cash /\ v.held = u.held /\ v.markets = u.markets
      /\ TokensOf(v, m) = TokensOf(u, m) - tokens
      /\ \A k \in Maturity \ {m} : TokensOf(v, k) = TokensOf(u, k)
      /\ \A k \in Maturity : fCashOf(v, k) = fCashOf(u, k)
      /\ TokensListed(u) => TokensListed(v)
  BY <1>1, ReduceTokenEffect
<1> HIDE DEF v
<1>3. /\ r \in LedgerType /\ r.cash = v.cash /\ r.held = v.held /\ r.markets = v.markets
      /\ fCashOf(r, m) = fCashOf(v, m) + n
      /\ \A k \in Maturity \ {m} : fCashOf(r, k) = fCashOf(v, k)
      /\ \A k \in Maturity : TokensOf(r, k) = TokensOf(v, k)
      /\ TokensListed(v) => TokensListed(r)
  BY <1>2, UpsertfCashEffect
<1> HIDE DEF r
<1>4. /\ fCashOf(u, m) \in Int /\ TokensOf(u, m) \in Int
      /\ s.markets[m].totalfCash \in Nat /\ s.markets[m].totalLiquidity \in Nat
  BY <1>1, TotalsInt, PoolTotals
<1>5. fCashOf(r, m) + mk.totalfCash = fCashOf(u, m) + s.markets[m].totalfCash
  BY <1>2, <1>3, <1>4
<1>6. TokensOf(r, m) - mk.totalLiquidity = TokensOf(u, m) - s.markets[m].totalLiquidity
  BY <1>2, <1>3, <1>4
<1>7. \A k \in Maturity \ {m} : TokensOf(r, k) = TokensOf(u, k) /\ fCashOf(r, k) = fCashOf(u, k)
  BY <1>2, <1>3
<1>8. /\ r.cash = u.cash /\ r.held = u.held /\ r.markets = u.markets
      /\ TokensListed(u) => TokensListed(r)
  BY <1>2, <1>3
<1>9. Balanced(s, r)
  BY <1>3, <1>5, <1>6, <1>7, <1>8, EnteredBalanced
<1> QED BY <1>9 DEF r, v

-----------------------------------------------------------------------------
(* Calls of the Escrow alone.                                              *)

(* Only balances change, and not the market's. *)
LEMMA BalancesKept ==
  ASSUME NEW s \in LedgerType, NEW r \in LedgerType, NEW c \in Currency,
         r.portfolio = s.portfolio, r.markets = s.markets,
         \A d \in Currency \ {c} : r.cash[d] = s.cash[d],
         r.cash[c][CASH_MARKET] = s.cash[c][CASH_MARKET]
  PROVE  Kept(s, r)
<1>1. r.cash[LocalCurrency][CASH_MARKET] = s.cash[LocalCurrency][CASH_MARKET]
  BY DEF Currency
<1>2. PoolCash(r) = PoolCash(s)
  BY DEF PoolCash
<1>3. /\ \A k \in Maturity : TokensOf(r, k) = TokensOf(s, k) /\ fCashOf(r, k) = fCashOf(s, k)
      /\ TokensListed(s) => TokensListed(r)
  BY DEF TokensOf, fCashOf, TokensListed
<1> QED BY <1>1, <1>2, <1>3 DEF Kept

(* Tokens enter or leave the Escrow with the balance they belong to. *)
LEMMA MoveInBalanced ==
  ASSUME NEW s \in LedgerType, NEW a \in Account, NEW c \in Currency, NEW n \in Int,
         s.held[c] + n \in Nat
  PROVE  Balanced(s, MoveIn(s, a, c, n))
<1> DEFINE b == Credit(s.cash[c], a, n)
           h == s.held[c] + n
           r == MoveIn(s, a, c, n)
<1>1. s.cash[c] \in [Holder -> Int] /\ a \in Holder /\ CASH_MARKET \in Holder /\ a # CASH_MARKET
  BY LedgerAssumption DEF LedgerType, Holder
<1>2. /\ b \in [Holder -> Int] /\ b[CASH_MARKET] = s.cash[c][CASH_MARKET]
      /\ SumFunction(b) = SumFunction(s.cash[c]) + n
  BY <1>1, CreditEffect, ZenonT(30)
<1>3. r = [cash |-> [s.cash EXCEPT ![c] = b], held |-> [s.held EXCEPT ![c] = h],
           portfolio |-> s.portfolio, markets |-> s.markets]
  BY DEF MoveIn
<1> HIDE DEF b, r
<1>4. r \in LedgerType
  <2>1. [s.cash EXCEPT ![c] = b] \in [Currency -> [Holder -> Int]]
    BY <1>2 DEF LedgerType
  <2>2. [s.held EXCEPT ![c] = h] \in [Currency -> Nat]
    BY DEF LedgerType
  <2>3. s.portfolio \in [Account -> Portfolio] /\ s.markets \in [Maturity -> Market]
    BY DEF LedgerType
  <2> QED BY <1>3, <2>1, <2>2, <2>3 DEF LedgerType
<1>5. /\ r.portfolio = s.portfolio /\ r.markets = s.markets
      /\ r.cash[c] = b /\ \A d \in Currency \ {c} : r.cash[d] = s.cash[d]
      /\ r.held[c] = h /\ \A d \in Currency \ {c} : r.held[d] = s.held[d]
  BY <1>3 DEF LedgerType
<1>6. Kept(s, r)
  BY <1>2, <1>4, <1>5, BalancesKept
<1>7. SumFunction(s.cash[c]) \in Int /\ s.held[c] \in Nat
  BY TotalsInt DEF LedgerType
<1>8. r.held[c] - SumFunction(r.cash[c]) = s.held[c] - SumFunction(s.cash[c])
  BY <1>2, <1>5, <1>7
<1>9. \A d \in Currency : r.held[d] - SumFunction(r.cash[d]) = s.held[d] - SumFunction(s.cash[d])
  BY <1>5, <1>8
<1> QED BY <1>6, <1>9 DEF Balanced, r

-----------------------------------------------------------------------------
(* What the Escrow holds covers what it owes.                              *)

Unset(s) == SumFunction([m \in Maturity |-> fCashOf(s, m) + s.markets[m].totalfCash])

Solvent(s) ==
  \A c \in Currency :
    s.held[c] = SumFunction(s.cash[c]) + IF c = LocalCurrency THEN Unset(s) ELSE 0

LEMMA UnsetInt ==
  ASSUME NEW s \in LedgerType
  PROVE  /\ [m \in Maturity |-> fCashOf(s, m) + s.markets[m].totalfCash] \in [Maturity -> Int]
         /\ Unset(s) \in Int
<1>1. ASSUME NEW m \in Maturity PROVE fCashOf(s, m) + s.markets[m].totalfCash \in Int
  <2>1. fCashOf(s, m) \in Int
    BY TotalsInt
  <2>2. s.markets[m].totalfCash \in Nat
    BY PoolTotals
  <2> QED BY <2>1, <2>2
<1>2. [m \in Maturity |-> fCashOf(s, m) + s.markets[m].totalfCash] \in [Maturity -> Int]
  BY <1>1
<1> QED BY <1>2, SumInt, RiskAssumption DEF Unset

LEMMA BalancedSolvent ==
  ASSUME NEW s \in LedgerType, NEW r, Solvent(s), Balanced(s, r)
  PROVE  Solvent(r)
<1>1. Unset(r) = Unset(s)
  <2>1. \A m \in Maturity : fCashOf(r, m) + r.markets[m].totalfCash = fCashOf(s, m) + s.markets[m].totalfCash
    BY DEF Balanced, Kept
  <2> QED BY <2>1 DEF Unset
<1>2. r \in LedgerType /\ Unset(s) \in Int
  BY UnsetInt DEF Balanced, Kept
<1>3. ASSUME NEW c \in Currency
      PROVE  r.held[c] = SumFunction(r.cash[c]) + IF c = LocalCurrency THEN Unset(r) ELSE 0
  <2>1. /\ SumFunction(s.cash[c]) \in Int /\ SumFunction(r.cash[c]) \in Int
        /\ s.held[c] \in Int /\ r.held[c] \in Int
    <3>1. SumFunction(s.cash[c]) \in Int /\ SumFunction(r.cash[c]) \in Int
      BY <1>2, TotalsInt
    <3>2. s.held[c] \in Int /\ r.held[c] \in Int
      BY <1>2 DEF LedgerType
    <3> QED BY <3>1, <3>2
  <2>2. /\ r.held[c] - SumFunction(r.cash[c]) = s.held[c] - SumFunction(s.cash[c])
        /\ s.held[c] = SumFunction(s.cash[c]) + IF c = LocalCurrency THEN Unset(s) ELSE 0
    BY DEF Balanced, Solvent
  <2> QED BY <1>1, <1>2, <2>1, <2>2
<1> QED BY <1>3 DEF Solvent

(* Settling turns unsettled claims into balances, one for one. *)
LEMMA SettleUnset ==
  ASSUME NEW s \in LedgerType, NEW a \in Account, NEW t \in Int, CanSettle(s, a, t), TokensListed(s)
  PROVE  Unset(Settle(s, a, t)) = Unset(s) - SettledCash(s, a, t)
<1> DEFINE r == Settle(s, a, t)
           f == [m \in Maturity |-> fCashOf(r, m) + r.markets[m].totalfCash]
           g == [m \in Maturity |-> SettledAt(s, a, t, m)]
           h == [m \in Maturity |-> fCashOf(s, m) + s.markets[m].totalfCash]
<1>1. /\ r \in LedgerType
      /\ \A m \in Maturity : fCashOf(r, m) + r.markets[m].totalfCash
                               = fCashOf(s, m) + s.markets[m].totalfCash - SettledAt(s, a, t, m)
  BY SettleEffect
<1>2. \A m \in Maturity : SettledAt(s, a, t, m) \in Int
  BY SettledAmounts
<1> HIDE DEF r
<1>3. f \in [Maturity -> Int] /\ h \in [Maturity -> Int]
  BY <1>1, UnsetInt
<1>4. g \in [Maturity -> Int]
  BY <1>2
<1>5. h = [m \in Maturity |-> f[m] + g[m]]
  <2>1. ASSUME NEW m \in Maturity PROVE h[m] = f[m] + g[m]
    <3>4. fCashOf(r, m) + r.markets[m].totalfCash
            = fCashOf(s, m) + s.markets[m].totalfCash - SettledAt(s, a, t, m)
      BY <1>1
    <3>1. /\ f[m] = fCashOf(r, m) + r.markets[m].totalfCash
          /\ h[m] = fCashOf(s, m) + s.markets[m].totalfCash
          /\ g[m] = SettledAt(s, a, t, m)
      OBVIOUS
    <3>2. h[m] \in Int /\ g[m] \in Int
      BY <1>3, <1>4
    <3>3. fCashOf(s, m) \in Int /\ s.markets[m].totalfCash \in Nat
      BY TotalsInt, PoolTotals
    <3> HIDE DEF f, g, h
    <3> QED BY <3>1, <3>2, <3>3, <3>4
  <2>2. h = [m \in Maturity |-> h[m]]
    OBVIOUS
  <2> HIDE DEF f, g, h
  <2> QED BY <2>1, <2>2
<1> HIDE DEF f, g, h
<1>6. SumFunction(h) = SumFunction(f) + SumFunction(g)
  <2>1. IsFiniteSet(Maturity)
    BY RiskAssumption
  <2>2. SumFunction([m \in Maturity |-> f[m] + g[m]]) = SumFunction(f) + SumFunction(g)
    BY <1>3, <1>4, <2>1, SumPlus
  <2> QED BY <1>5, <2>2
<1>7. SumFunction(f) \in Int /\ SumFunction(g) \in Int
  BY <1>3, <1>4, SumInt, RiskAssumption
<1> QED BY <1>6, <1>7 DEF Unset, SettledCash, f, g, h, r

LEMMA SettleSolvent ==
  ASSUME NEW s \in LedgerType, NEW a \in Account, NEW t \in Int, CanSettle(s, a, t), TokensListed(s),
         Solvent(s)
  PROVE  Solvent(Settle(s, a, t))
<1> DEFINE r == Settle(s, a, t)
           S == SettledCash(s, a, t)
<1>1. /\ r \in LedgerType /\ r.held = s.held
      /\ \A c \in Currency :
           SumFunction(r.cash[c]) = SumFunction(s.cash[c]) + IF c = LocalCurrency THEN S ELSE 0
  BY SettleEffect
<1>2. Unset(r) = Unset(s) - S
  BY SettleUnset
<1>3. S \in Int /\ Unset(s) \in Int
  BY SettledAmounts, UnsetInt
<1> HIDE DEF r, S
<1>4. ASSUME NEW c \in Currency
      PROVE  r.held[c] = SumFunction(r.cash[c]) + IF c = LocalCurrency THEN Unset(r) ELSE 0
  <2>1. SumFunction(s.cash[c]) \in Int
    BY TotalsInt
  <2>2. s.held[c] = SumFunction(s.cash[c]) + IF c = LocalCurrency THEN Unset(s) ELSE 0
    BY DEF Solvent
  <2>3. r.held[c] = s.held[c]
    BY <1>1
  <2>4. CASE c = LocalCurrency
    <3>1. SumFunction(r.cash[c]) = SumFunction(s.cash[c]) + S
      BY <1>1, <2>4
    <3> QED BY <1>2, <1>3, <2>1, <2>2, <2>3, <2>4, <3>1
  <2>5. CASE c # LocalCurrency
    <3>1. SumFunction(r.cash[c]) = SumFunction(s.cash[c]) + 0
      BY <1>1, <2>5
    <3> QED BY <2>1, <2>2, <2>3, <2>5, <3>1
  <2> QED BY <2>4, <2>5
<1> QED BY <1>4 DEF Solvent, r

-----------------------------------------------------------------------------
(* An account that never acts is never in debt.                            *)

InCredit(s, h) ==
  /\ \A c \in Currency : s.cash[c][h] >= 0
  /\ \A m \in Maturity : s.portfolio[h].fCash[m] >= 0

Gains(s, r, h) ==
  /\ \A c \in Currency : r.cash[c][h] >= s.cash[c][h]
  /\ \A m \in Maturity : r.portfolio[h].fCash[m] >= s.portfolio[h].fCash[m]

LEMMA AccountTypes ==
  ASSUME NEW s \in LedgerType, NEW h \in Account
  PROVE  /\ \A c \in Currency : s.cash[c][h] \in Int
         /\ s.portfolio[h] \in Portfolio
         /\ \A m \in Maturity : s.portfolio[h].fCash[m] \in Int /\ s.portfolio[h].token[m] \in Nat
BY DEF LedgerType, Portfolio, Holder

LEMMA GainsInCredit ==
  ASSUME NEW s \in LedgerType, NEW r \in LedgerType, NEW h \in Account, InCredit(s, h), Gains(s, r, h)
  PROVE  InCredit(r, h)
<1>1. ASSUME NEW c \in Currency PROVE r.cash[c][h] >= 0
  <2>1. s.cash[c][h] \in Int /\ r.cash[c][h] \in Int
    BY AccountTypes
  <2>2. r.cash[c][h] >= s.cash[c][h] /\ s.cash[c][h] >= 0
    BY DEF Gains, InCredit
  <2> QED BY <2>1, <2>2
<1>2. ASSUME NEW m \in Maturity PROVE r.portfolio[h].fCash[m] >= 0
  <2>1. s.portfolio[h].fCash[m] \in Int /\ r.portfolio[h].fCash[m] \in Int
    BY AccountTypes
  <2>2. r.portfolio[h].fCash[m] >= s.portfolio[h].fCash[m] /\ s.portfolio[h].fCash[m] >= 0
    BY DEF Gains, InCredit
  <2> QED BY <2>1, <2>2
<1> QED BY <1>1, <1>2 DEF InCredit

LEMMA GainsTransitive ==
  ASSUME NEW s \in LedgerType, NEW u \in LedgerType, NEW r \in LedgerType, NEW h \in Account,
         Gains(s, u, h), Gains(u, r, h)
  PROVE  Gains(s, r, h)
<1>1. ASSUME NEW c \in Currency PROVE r.cash[c][h] >= s.cash[c][h]
  <2>1. s.cash[c][h] \in Int /\ u.cash[c][h] \in Int /\ r.cash[c][h] \in Int
    BY AccountTypes
  <2>2. r.cash[c][h] >= u.cash[c][h] /\ u.cash[c][h] >= s.cash[c][h]
    BY DEF Gains
  <2> QED BY <2>1, <2>2
<1>2. ASSUME NEW m \in Maturity PROVE r.portfolio[h].fCash[m] >= s.portfolio[h].fCash[m]
  <2>1. /\ s.portfolio[h].fCash[m] \in Int /\ u.portfolio[h].fCash[m] \in Int
        /\ r.portfolio[h].fCash[m] \in Int
    BY AccountTypes
  <2>2. /\ r.portfolio[h].fCash[m] >= u.portfolio[h].fCash[m]
        /\ u.portfolio[h].fCash[m] >= s.portfolio[h].fCash[m]
    BY DEF Gains
  <2> QED BY <2>1, <2>2
<1> QED BY <1>1, <1>2 DEF Gains

LEMMA CreditElsewhere ==
  ASSUME NEW b \in [Holder -> Int], NEW h \in Holder, NEW g \in Holder, g # h, NEW n \in Int
  PROVE  Credit(b, h, n) \in [Holder -> Int] /\ Credit(b, h, n)[g] = b[g]
BY CreditEffect

LEMMA CreditKeepsOthers ==
  ASSUME NEW b \in [Holder -> Int], NEW h \in Holder, NEW g \in Holder, NEW n \in Int, h = g => n >= 0
  PROVE  Credit(b, h, n) \in [Holder -> Int] /\ Credit(b, h, n)[g] >= b[g]
<1>1. /\ Credit(b, h, n) \in [Holder -> Int] /\ Credit(b, h, n)[h] = b[h] + n
      /\ \A k \in Holder : k # h => Credit(b, h, n)[k] = b[k]
  BY CreditEffect
<1>2. b[g] \in Int
  OBVIOUS
<1> QED BY <1>1, <1>2

LEMMA MoveInGains ==
  ASSUME NEW s \in LedgerType, NEW a \in Account, NEW h \in Account, a # h,
         NEW c \in Currency, NEW n \in Int
  PROVE  Gains(s, MoveIn(s, a, c, n), h)
<1> DEFINE r == MoveIn(s, a, c, n)
<1>1. s.cash[c] \in [Holder -> Int] /\ a \in Holder /\ h \in Holder
  BY DEF LedgerType, Holder
<1>2. Credit(s.cash[c], a, n)[h] = s.cash[c][h]
  BY <1>1, CreditEffect
<1>3. /\ r.cash[c] = Credit(s.cash[c], a, n)
      /\ \A d \in Currency \ {c} : r.cash[d] = s.cash[d]
      /\ r.portfolio = s.portfolio
  BY DEF MoveIn, LedgerType
<1> HIDE DEF r
<1>4. ASSUME NEW d \in Currency PROVE r.cash[d][h] >= s.cash[d][h]
  <2>1. s.cash[d][h] \in Int
    BY AccountTypes
  <2>2. r.cash[d][h] = s.cash[d][h]
    BY <1>2, <1>3
  <2> QED BY <2>1, <2>2
<1>5. ASSUME NEW m \in Maturity PROVE r.portfolio[h].fCash[m] >= s.portfolio[h].fCash[m]
  BY <1>3, AccountTypes
<1> QED BY <1>4, <1>5 DEF Gains, r

(* Only a ledger's market and local balances change. *)
LEMMA LocalGains ==
  ASSUME NEW s \in LedgerType, NEW r \in LedgerType, NEW h \in Account,
         \A c \in Currency \ {LocalCurrency} : r.cash[c] = s.cash[c],
         r.cash[LocalCurrency][h] >= s.cash[LocalCurrency][h],
         r.portfolio = s.portfolio
  PROVE  Gains(s, r, h)
<1>1. ASSUME NEW c \in Currency PROVE r.cash[c][h] >= s.cash[c][h]
  <2>1. s.cash[c][h] \in Int
    BY AccountTypes
  <2>2. CASE c = LocalCurrency
    BY <2>2
  <2>3. CASE c # LocalCurrency
    BY <2>1, <2>3
  <2> QED BY <2>2, <2>3
<1>2. ASSUME NEW m \in Maturity PROVE r.portfolio[h].fCash[m] >= s.portfolio[h].fCash[m]
  BY AccountTypes
<1> QED BY <1>1, <1>2 DEF Gains

(* The market's calls take only from the caller and the market. *)
LEMMA MarketGains ==
  ASSUME NEW s \in LedgerType, NEW a \in Account, NEW h \in Account, a # h, NEW m \in Maturity,
         NEW mk \in Market, NEW value \in Int, NEW fee \in Nat
  PROVE  /\ Gains(s, DepositIntoMarket([s EXCEPT !.markets[m] = mk], a, value, fee), h)
         /\ Gains(s, WithdrawFromMarket([s EXCEPT !.markets[m] = mk], a, value, fee), h)
<1> DEFINE q == [s EXCEPT !.markets[m] = mk]
           b == s.cash[LocalCurrency]
           d1 == Credit(b, RESERVE_ACCOUNT, fee)
           d2 == Credit(d1, CASH_MARKET, value)
           d3 == Credit(d2, a, -(value + fee))
           w2 == Credit(d1, a, value - fee)
           w3 == Credit(w2, CASH_MARKET, -value)
           d == DepositIntoMarket(q, a, value, fee)
           w == WithdrawFromMarket(q, a, value, fee)
<1>1. /\ q \in LedgerType /\ q.cash = s.cash /\ q.portfolio = s.portfolio
  BY MarketReplaced, Zenon
<1>2. /\ b \in [Holder -> Int] /\ LocalCurrency \in Currency
      /\ a \in Holder /\ h \in Holder /\ RESERVE_ACCOUNT \in Holder /\ CASH_MARKET \in Holder
      /\ CASH_MARKET # h
  BY LedgerAssumption DEF LedgerType, Holder, Currency
<1> HIDE DEF q, b
<1>3. d1 \in [Holder -> Int] /\ d1[h] >= b[h]
  <2>1. fee \in Int /\ fee >= 0
    OBVIOUS
  <2> QED BY <1>2, <2>1, CreditKeepsOthers
<1> HIDE DEF d1
<1>4. d2 \in [Holder -> Int] /\ d2[h] = d1[h] /\ w2 \in [Holder -> Int] /\ w2[h] = d1[h]
  <2> DEFINE n == value - fee
  <2>1. n \in Int
    OBVIOUS
  <2> HIDE DEF n
  <2>2. d2 \in [Holder -> Int] /\ d2[h] = d1[h]
    BY <1>2, <1>3, CreditElsewhere, ZenonT(30)
  <2>3. Credit(d1, a, n) \in [Holder -> Int] /\ Credit(d1, a, n)[h] = d1[h]
    BY <1>2, <1>3, <2>1, CreditElsewhere, ZenonT(30)
  <2> QED BY <2>2, <2>3 DEF n
<1> HIDE DEF d2, w2
<1>5. d3 \in [Holder -> Int] /\ d3[h] = d2[h] /\ w3 \in [Holder -> Int] /\ w3[h] = w2[h]
  <2> DEFINE n == -(value + fee)
             k == -value
  <2>1. n \in Int /\ k \in Int
    OBVIOUS
  <2> HIDE DEF n, k
  <2>2. d2 \in [Holder -> Int] /\ w2 \in [Holder -> Int]
    BY <1>4
  <2>3. a \in Holder /\ h \in Holder /\ CASH_MARKET \in Holder /\ h # a /\ h # CASH_MARKET
    BY <1>2
  <2>4. Credit(d2, a, n) \in [Holder -> Int] /\ Credit(d2, a, n)[h] = d2[h]
    BY <2>1, <2>2, <2>3, CreditElsewhere, ZenonT(30)
  <2>5. Credit(w2, CASH_MARKET, k) \in [Holder -> Int] /\ Credit(w2, CASH_MARKET, k)[h] = w2[h]
    BY <2>1, <2>2, <2>3, CreditElsewhere, ZenonT(30)
  <2> QED BY <2>4, <2>5 DEF n, k
<1> HIDE DEF d3, w3
<1>6. /\ d \in LedgerType /\ d.portfolio = s.portfolio
      /\ w \in LedgerType /\ w.portfolio = s.portfolio
  BY <1>1, MarketTransfer
<1>7. /\ d = [q EXCEPT !.cash[LocalCurrency] = d3]
      /\ w = [q EXCEPT !.cash[LocalCurrency] = w3]
  BY <1>1 DEF DepositIntoMarket, WithdrawFromMarket, d3, d2, d1, w3, w2, b
<1> HIDE DEF d, w
<1>8. /\ d.cash[LocalCurrency] = d3 /\ \A c \in Currency \ {LocalCurrency} : d.cash[c] = s.cash[c]
      /\ w.cash[LocalCurrency] = w3 /\ \A c \in Currency \ {LocalCurrency} : w.cash[c] = s.cash[c]
  BY <1>1, <1>2, <1>7 DEF LedgerType
<1>9. Gains(s, d, h)
  BY <1>3, <1>4, <1>5, <1>6, <1>8, LocalGains DEF b
<1>10. Gains(s, w, h)
  BY <1>3, <1>4, <1>5, <1>6, <1>8, LocalGains DEF b
<1> QED BY <1>9, <1>10 DEF d, w, q

(* Entering a position touches one portfolio, and no balance. *)
LEMMA PortfolioGains ==
  ASSUME NEW s \in LedgerType, NEW r, NEW a \in Account, NEW h \in Account, NEW p \in Portfolio,
         r = [s EXCEPT !.portfolio[a] = p],
         a # h \/ \A m \in Maturity : p.fCash[m] >= s.portfolio[h].fCash[m]
  PROVE  Gains(s, r, h)
<1>1. r.cash = s.cash /\ r.portfolio[h] = IF h = a THEN p ELSE s.portfolio[h]
  BY DEF LedgerType
<1>2. ASSUME NEW c \in Currency PROVE r.cash[c][h] >= s.cash[c][h]
  BY <1>1, AccountTypes
<1>3. ASSUME NEW m \in Maturity PROVE r.portfolio[h].fCash[m] >= s.portfolio[h].fCash[m]
  BY <1>1, AccountTypes
<1> QED BY <1>2, <1>3 DEF Gains

LEMMA UpsertfCashGains ==
  ASSUME NEW s \in LedgerType, NEW a \in Account, NEW h \in Account, NEW m \in Maturity, NEW n \in Int,
         a # h \/ n >= 0
  PROVE  Gains(s, UpsertfCash(s, a, m, n), h)
<1> DEFINE q == AddfCash(s.portfolio[a], m, n)
<1>1. s.portfolio[a] \in Portfolio /\ s.portfolio[a].fCash \in [Maturity -> Int]
  BY DEF LedgerType, Portfolio
<1>2. q \in Portfolio /\ q.fCash = [s.portfolio[a].fCash EXCEPT ![m] = @ + n]
  BY <1>1, AddfCashEffect
<1>3. UpsertfCash(s, a, m, n) = [s EXCEPT !.portfolio[a] = q]
  BY DEF UpsertfCash
<1> HIDE DEF q
<1>4. a # h \/ \A k \in Maturity : q.fCash[k] >= s.portfolio[h].fCash[k]
  <2>1. CASE a # h
    BY <2>1
  <2>2. CASE a = h /\ n >= 0
    <3>1. ASSUME NEW k \in Maturity PROVE q.fCash[k] >= s.portfolio[h].fCash[k]
      <4>1. s.portfolio[h].fCash[k] \in Int
        BY AccountTypes
      <4>2. q.fCash[k] = IF k = m THEN s.portfolio[h].fCash[k] + n ELSE s.portfolio[h].fCash[k]
        BY <1>1, <1>2, <2>2
      <4> QED BY <2>2, <4>1, <4>2
    <3> QED BY <3>1
  <2> QED BY <2>1, <2>2
<1>5. q \in Portfolio
  BY <1>2
<1> QED BY <1>3, <1>4, <1>5, PortfolioGains

LEMMA TokenGains ==
  ASSUME NEW s \in LedgerType, NEW a \in Account, NEW h \in Account, NEW m \in Maturity, NEW n \in Nat
  PROVE  /\ Gains(s, UpsertToken(s, a, m, n), h)
         /\ CanReduceToken(s, a, m, n) => Gains(s, ReduceToken(s, a, m, n), h)
<1> DEFINE p == s.portfolio[a]
<1>1. p \in Portfolio /\ \A k \in Maturity : s.portfolio[h].fCash[k] \in Int
  BY AccountTypes
<1>2. Gains(s, UpsertToken(s, a, m, n), h)
  <2> DEFINE q == AddToken(p, m, n)
  <2>1. q \in Portfolio /\ q.fCash = p.fCash
    <3>1. q \in Portfolio
      BY <1>1, AddTokenEffect, ZenonT(30)
    <3>2. q.fCash = p.fCash
      BY DEF AddToken
    <3> QED BY <3>1, <3>2
  <2>2. UpsertToken(s, a, m, n) = [s EXCEPT !.portfolio[a] = q]
    BY DEF UpsertToken
  <2> HIDE DEF q
  <2>3. a # h \/ \A k \in Maturity : q.fCash[k] >= s.portfolio[h].fCash[k]
    BY <1>1, <2>1
  <2>4. q \in Portfolio
    BY <2>1
  <2> QED BY <2>2, <2>3, <2>4, PortfolioGains
<1>3. ASSUME CanReduceToken(s, a, m, n) PROVE Gains(s, ReduceToken(s, a, m, n), h)
  <2> DEFINE q == TakeToken(p, m, n)
  <2>1. q \in Portfolio /\ q.fCash = p.fCash
    <3>1. CanTakeToken(p, m, n)
      BY <1>3 DEF CanReduceToken
    <3>2. q \in Portfolio
      BY <1>1, <3>1, TakeTokenEffect, ZenonT(30)
    <3>3. q.fCash = p.fCash
      BY DEF TakeToken
    <3> QED BY <3>2, <3>3
  <2>2. ReduceToken(s, a, m, n) = [s EXCEPT !.portfolio[a] = q]
    BY DEF ReduceToken
  <2> HIDE DEF q
  <2>3. a # h \/ \A k \in Maturity : q.fCash[k] >= s.portfolio[h].fCash[k]
    BY <1>1, <2>1
  <2>4. q \in Portfolio
    BY <2>1
  <2> QED BY <2>2, <2>3, <2>4, PortfolioGains
<1> QED BY <1>2, <1>3

(* Positions entered for another account after a gain leave the gain. *)
LEMMA EntriesGain ==
  ASSUME NEW s \in LedgerType, NEW u \in LedgerType, NEW a \in Account, NEW h \in Account, a # h,
         Gains(s, u, h), NEW m \in Maturity, NEW n \in Int, NEW tokens \in Nat
  PROVE  /\ Gains(s, UpsertfCash(u, a, m, n), h)
         /\ Gains(s, UpsertfCash(UpsertToken(u, a, m, tokens), a, m, n), h)
         /\ CanReduceToken(u, a, m, tokens)
              => Gains(s, UpsertfCash(ReduceToken(u, a, m, tokens), a, m, n), h)
<1>1. ASSUME NEW v \in LedgerType, Gains(u, v, h) PROVE Gains(s, UpsertfCash(v, a, m, n), h)
  <2>1. UpsertfCash(v, a, m, n) \in LedgerType
    BY UpsertfCashEffect
  <2>2. Gains(v, UpsertfCash(v, a, m, n), h)
    BY UpsertfCashGains
  <2>3. Gains(s, v, h)
    BY <1>1, GainsTransitive
  <2> QED BY <2>1, <2>2, <2>3, GainsTransitive
<1>2. Gains(s, UpsertfCash(u, a, m, n), h)
  <2>1. UpsertfCash(u, a, m, n) \in LedgerType
    BY UpsertfCashEffect
  <2>2. Gains(u, UpsertfCash(u, a, m, n), h)
    BY UpsertfCashGains
  <2> QED BY <2>1, <2>2, GainsTransitive
<1>3. Gains(s, UpsertfCash(UpsertToken(u, a, m, tokens), a, m, n), h)
  <2>1. UpsertToken(u, a, m, tokens) \in LedgerType
    BY UpsertTokenEffect
  <2>2. Gains(u, UpsertToken(u, a, m, tokens), h)
    BY TokenGains
  <2> QED BY <1>1, <2>1, <2>2
<1>4. ASSUME CanReduceToken(u, a, m, tokens)
      PROVE  Gains(s, UpsertfCash(ReduceToken(u, a, m, tokens), a, m, n), h)
  <2>1. ReduceToken(u, a, m, tokens) \in LedgerType
    BY <1>4, ReduceTokenEffect
  <2>2. Gains(u, ReduceToken(u, a, m, tokens), h)
    BY <1>4, TokenGains
  <2> QED BY <1>1, <2>1, <2>2
<1> QED BY <1>2, <1>3, <1>4

(* Settling pays an account without debts, and leaves all others alone. *)
LEMMA SettleInCredit ==
  ASSUME NEW s \in LedgerType, NEW a \in Account, NEW h \in Account, NEW t \in Int, CanSettle(s, a, t),
         InCredit(s, h)
  PROVE  InCredit(Settle(s, a, t), h)
<1> DEFINE r == Settle(s, a, t)
           R == RedeemedCash(s, a, t)
           S == SettledCash(s, a, t)
           b == s.cash[LocalCurrency]
           b1 == Credit(b, CASH_MARKET, -R)
           b2 == Credit(b1, a, R + S)
<1>1. /\ b \in [Holder -> Int] /\ LocalCurrency \in Currency
      /\ a \in Holder /\ h \in Holder /\ CASH_MARKET \in Holder /\ h # CASH_MARKET
  BY LedgerAssumption DEF LedgerType, Holder, Currency
<1>2. /\ R \in Int /\ S \in Int
      /\ \A m \in Maturity : /\ RedeemedAt(s, a, t, m) \in 0 .. s.markets[m].totalCurrentCash
                             /\ SettledAt(s, a, t, m) \in Int
  BY SettledAmounts
<1>3. /\ \A m \in Maturity : s.portfolio[a].fCash[m] \in Int /\ s.portfolio[h].fCash[m] \in Int
      /\ s.portfolio[a] \in Portfolio
  BY AccountTypes
<1>4. a = h => R + S >= 0
  <2> SUFFICES ASSUME a = h PROVE R + S >= 0
    OBVIOUS
  <2>1. ASSUME NEW m \in Maturity PROVE RedeemedAt(s, a, t, m) \in Nat /\ SettledAt(s, a, t, m) \in Nat
    <3>1. RedeemedAt(s, a, t, m) \in Nat
      <4>1. s.markets[m].totalCurrentCash \in Nat
        BY PoolTotals
      <4> QED BY <1>2, <4>1
    <3>2. s.portfolio[a].fCash[m] \in Int /\ s.portfolio[a].fCash[m] >= 0
      BY <1>3 DEF InCredit
    <3>3. m \in Int
      BY RiskAssumption
    <3>4. SettledAt(s, a, t, m) \in Nat
      <4>1. CASE m <= t /\ m \in s.portfolio[a].listed
        <5> DEFINE mk == s.markets[m]
                   tokens == s.portfolio[a].token[m]
        <5>1. CanRedeem(mk, tokens)
          BY <4>1 DEF CanSettle, MaturedTokens
        <5>2. mk \in Market /\ tokens \in Nat /\ mk.totalfCash \in Nat
          BY PoolTotals, AccountTypes
        <5> HIDE DEF mk, tokens
        <5>3. fCashShare(mk, tokens) \in 0 .. mk.totalfCash
          BY <5>1, <5>2, RedeemEffect
        <5>4. fCashShare(mk, tokens) \in Nat
          BY <5>2, <5>3
        <5>5. SettledAt(s, a, t, m) = s.portfolio[a].fCash[m] + fCashShare(mk, tokens)
          BY <3>3, <4>1 DEF SettledAt, mk, tokens
        <5> QED BY <3>2, <5>4, <5>5
      <4>2. CASE ~ (m <= t /\ m \in s.portfolio[a].listed)
        BY <3>2, <3>3, <4>2 DEF SettledAt
      <4> QED BY <4>1, <4>2
    <3> QED BY <3>1, <3>4
  <2>2. /\ [m \in Maturity |-> RedeemedAt(s, a, t, m)] \in [Maturity -> Nat]
        /\ [m \in Maturity |-> SettledAt(s, a, t, m)] \in [Maturity -> Nat]
    BY <2>1
  <2>3. R >= 0 /\ S >= 0
    BY <2>2, SumNonnegative, RiskAssumption DEF RedeemedCash, SettledCash
  <2> HIDE DEF R, S
  <2> QED BY <1>2, <2>3
<1>5. /\ r.cash = [s.cash EXCEPT ![LocalCurrency] = b2]
      /\ r.portfolio = [s.portfolio EXCEPT ![a] = Unmatured(@, t)]
  BY DEF Settle
<1> HIDE DEF R, S, b, r
<1>6. b1 \in [Holder -> Int] /\ b1[h] = b[h]
  <2> DEFINE n == -R
  <2>1. n \in Int
    BY <1>2
  <2> HIDE DEF n
  <2>2. Credit(b, CASH_MARKET, n) \in [Holder -> Int] /\ Credit(b, CASH_MARKET, n)[h] = b[h]
    BY <1>1, <2>1, CreditElsewhere
  <2> QED BY <2>2 DEF n
<1> HIDE DEF b1
<1>7. b2 \in [Holder -> Int] /\ b2[h] >= b1[h]
  <2> DEFINE n == R + S
  <2>1. n \in Int /\ (a = h => n >= 0)
    BY <1>2, <1>4
  <2> HIDE DEF n
  <2>2. Credit(b1, a, n) \in [Holder -> Int] /\ Credit(b1, a, n)[h] >= b1[h]
    BY <1>1, <1>6, <2>1, CreditKeepsOthers
  <2> QED BY <2>2 DEF n
<1> HIDE DEF b2
<1>8. ASSUME NEW c \in Currency PROVE r.cash[c][h] >= 0
  <2>1. s.cash[c][h] >= 0 /\ s.cash[c][h] \in Int
    BY AccountTypes DEF InCredit
  <2>2. CASE c = LocalCurrency
    <3>1. r.cash[c] = b2
      BY <1>1, <1>5, <2>2 DEF LedgerType
    <3>2. b2[h] \in Int /\ b[h] \in Int /\ b[h] = s.cash[c][h]
      BY <1>1, <1>7, <2>2 DEF b
    <3> QED BY <1>6, <1>7, <2>1, <3>1, <3>2
  <2>3. CASE c # LocalCurrency
    <3>1. r.cash[c] = s.cash[c]
      BY <1>5, <2>3 DEF LedgerType
    <3> QED BY <2>1, <3>1
  <2> QED BY <2>2, <2>3
<1>9. ASSUME NEW m \in Maturity PROVE r.portfolio[h].fCash[m] >= 0
  <2>1. s.portfolio[h].fCash[m] >= 0 /\ s.portfolio[h].fCash[m] \in Int
    BY AccountTypes DEF InCredit
  <2>2. CASE h = a
    <3>1. r.portfolio[h] = Unmatured(s.portfolio[a], t)
      BY <1>5, <2>2 DEF LedgerType
    <3>2. Unmatured(s.portfolio[a], t).fCash[m] = IF m <= t THEN 0 ELSE s.portfolio[a].fCash[m]
      BY <1>3, UnmaturedEffect
    <3> QED BY <2>1, <2>2, <3>1, <3>2
  <2>3. CASE h # a
    <3>1. r.portfolio[h] = s.portfolio[h]
      BY <1>5, <2>3 DEF LedgerType
    <3> QED BY <2>1, <3>1
  <2> QED BY <2>2, <2>3
<1> QED BY <1>8, <1>9 DEF InCredit, r

-----------------------------------------------------------------------------
(* Arithmetic of quotients and products.                                   *)

LEMMA QuotientNat ==
  ASSUME NEW x \in Int, NEW d \in Nat \ {0}
  PROVE  /\ x \div d \in Int
         /\ x >= 0 => x \div d \in Nat
OBVIOUS

LEMMA ProductNat ==
  ASSUME NEW x \in Nat, NEW y \in Nat
  PROVE  x * y \in Nat
OBVIOUS

LEMMA QuotientMonotone ==
  ASSUME NEW x \in Int, NEW y \in Int, x <= y, NEW d \in Nat \ {0}
  PROVE  x \div d <= y \div d
<1> DEFINE p == x \div d
           q == y \div d
<1>1. p \in Int /\ q \in Int /\ d * p <= x /\ y < d * q + d
  OBVIOUS
<1> HIDE DEF p, q
<1> SUFFICES ASSUME p >= q + 1 PROVE FALSE
  BY <1>1 DEF p, q
<1>2. d * p >= d * (q + 1)
  BY <1>1
<1> QED BY <1>1, <1>2

(* What is at least n times the divisor has a quotient of at least n. *)
LEMMA QuotientAtLeast ==
  ASSUME NEW x \in Int, NEW n \in Int, NEW d \in Nat \ {0}, n * d <= x
  PROVE  n <= x \div d
<1> DEFINE q == x \div d
<1>1. q \in Int /\ x < d * q + d
  OBVIOUS
<1> HIDE DEF q
<1> SUFFICES ASSUME n >= q + 1 PROVE FALSE
  BY <1>1 DEF q
<1>2. d * n >= d * (q + 1)
  BY <1>1
<1> QED BY <1>1, <1>2

LEMMA QuotientShifted ==
  ASSUME NEW x \in Int, NEW n \in Int, NEW d \in Nat \ {0}
  PROVE  (x + n * d) \div d = x \div d + n
<1> DEFINE q == x \div d
           r == x % d
<1>1. q \in Int /\ r \in 0 .. (d - 1) /\ x = d * q + r
  OBVIOUS
<1> HIDE DEF q, r
<1>2. x + n * d = d * (q + n) + r
  BY <1>1
<1>3. (d * (q + n) + r) \div d = q + n
  BY <1>1
<1> QED BY <1>1, <1>2, <1>3 DEF q

LEMMA ProductMonotone ==
  ASSUME NEW x \in Int, NEW y \in Int, x <= y, NEW k \in Nat
  PROVE  x * k <= y * k
OBVIOUS

-----------------------------------------------------------------------------
(* Receivers and their haircuts.                                           *)

LEMMA ReceiverValueInt ==
  ASSUME NEW n \in Int, NEW m \in Int, NEW t \in Int
  PROVE  ReceiverValue(n, m, t) \in Int
<1> DEFINE x == n * FCASH_HAIRCUT * (m - t)
           y == n * FCASH_MAX_HAIRCUT
<1>1. x \in Int /\ y \in Int /\ SECONDS_IN_YEAR \in Nat \ {0} /\ DECIMALS \in Nat \ {0}
  BY RiskAssumption
<1> HIDE DEF x, y
<1>2. x \div SECONDS_IN_YEAR \in Int /\ y \div DECIMALS \in Int
  BY <1>1, QuotientNat
<1>3. (x \div SECONDS_IN_YEAR) \div DECIMALS \in Int
  BY <1>1, <1>2, QuotientNat
<1> QED BY <1>2, <1>3 DEF ReceiverValue, x, y

(* What a receiver of x loses to the haircut k, which is the yearly haircut
   times the time to maturity. *)
Cut(x, k) == ((x * k) \div SECONDS_IN_YEAR) \div DECIMALS

LEMMA CutNat ==
  ASSUME NEW x \in Nat, NEW k \in Nat
  PROVE  Cut(x, k) \in Nat
<1> DEFINE w == x * k
           q == w \div SECONDS_IN_YEAR
<1>1. w \in Nat
  BY ProductNat
<1> HIDE DEF w
<1>2. q \in Nat
  BY <1>1, QuotientNat, RiskAssumption
<1> HIDE DEF q
<1>3. q \div DECIMALS \in Nat
  BY <1>2, QuotientNat, RiskAssumption
<1> QED BY <1>3 DEF Cut, q, w

LEMMA CutMonotone ==
  ASSUME NEW x \in Nat, NEW j \in Nat, NEW k \in Nat, j <= k
  PROVE  Cut(x, j) <= Cut(x, k)
<1> DEFINE v == x * j
           w == x * k
           p == v \div SECONDS_IN_YEAR
           q == w \div SECONDS_IN_YEAR
<1>1. v \in Int /\ w \in Int /\ v <= w
  OBVIOUS
<1> HIDE DEF v, w
<1>2. p \in Int /\ q \in Int /\ p <= q
  BY <1>1, QuotientNat, QuotientMonotone, RiskAssumption
<1> HIDE DEF p, q
<1>3. p \div DECIMALS <= q \div DECIMALS
  BY <1>2, QuotientMonotone, RiskAssumption
<1> QED BY <1>3 DEF Cut, p, q, v, w

(* A haircut of at most all: n more cost at most n. *)
LEMMA CutBounded ==
  ASSUME NEW x \in Nat, NEW n \in Nat, NEW k \in Nat, k <= SECONDS_IN_YEAR * DECIMALS
  PROVE  Cut(x + n, k) <= Cut(x, k) + n
<1> DEFINE w == x * k
           v == (x + n) * k
           q == w \div SECONDS_IN_YEAR
           p == v \div SECONDS_IN_YEAR
           d == n * DECIMALS
<1>1. /\ SECONDS_IN_YEAR \in Nat \ {0} /\ DECIMALS \in Nat \ {0}
      /\ w \in Int /\ v \in Int /\ d \in Int
  BY RiskAssumption
<1>2. v <= w + d * SECONDS_IN_YEAR
  <2>1. v = w + n * k
    OBVIOUS
  <2>2. n * k <= n * (SECONDS_IN_YEAR * DECIMALS)
    BY <1>1
  <2>3. n * (SECONDS_IN_YEAR * DECIMALS) = d * SECONDS_IN_YEAR
    BY <1>1
  <2>4. n * k \in Int /\ d * SECONDS_IN_YEAR \in Int
    BY <1>1
  <2> HIDE DEF v, w, d
  <2> QED BY <1>1, <2>1, <2>2, <2>3, <2>4
<1> HIDE DEF w, v
<1>3. /\ p \in Int /\ q \in Int /\ p <= q + d
  <2>1. p \in Int /\ q \in Int
    BY <1>1, QuotientNat
  <2>2. w + d * SECONDS_IN_YEAR \in Int
    BY <1>1
  <2>3. p <= (w + d * SECONDS_IN_YEAR) \div SECONDS_IN_YEAR
    BY <1>1, <1>2, <2>2, QuotientMonotone
  <2>4. (w + d * SECONDS_IN_YEAR) \div SECONDS_IN_YEAR = q + d
    <3> HIDE DEF d
    <3> QED BY <1>1, QuotientShifted
  <2> QED BY <2>1, <2>3, <2>4
<1> HIDE DEF p, q
<1>4. p \div DECIMALS <= (q + d) \div DECIMALS
  <2>1. q + d \in Int
    BY <1>1, <1>3
  <2> HIDE DEF d
  <2> QED BY <1>1, <1>3, <2>1, QuotientMonotone
<1>5. (q + d) \div DECIMALS = q \div DECIMALS + n
  <2>1. q \in Int /\ n \in Int /\ DECIMALS \in Nat \ {0}
    BY <1>1, <1>3
  <2> QED BY <2>1, QuotientShifted, Zenon
<1> QED BY <1>4, <1>5 DEF Cut, p, q, w, v

LEMMA CutAtMost ==
  ASSUME NEW x \in Nat, NEW k \in Nat, k <= SECONDS_IN_YEAR * DECIMALS
  PROVE  Cut(x, k) <= x
<1>1. Cut(0 + x, k) <= Cut(0, k) + x
  BY CutBounded
<1>2. Cut(0, k) = 0
  <2>1. 0 * k = 0 /\ 0 \div SECONDS_IN_YEAR = 0 /\ 0 \div DECIMALS = 0
    BY RiskAssumption
  <2> QED BY <2>1 DEF Cut
<1>3. 0 + x = x
  OBVIOUS
<1> QED BY <1>1, <1>2, <1>3

(* The haircut of a receiver and the most it may count for. *)
LEMMA ReceiverValueParts ==
  ASSUME NEW x \in Nat, NEW m \in Int, NEW t \in Int, t <= m
  PROVE  LET k == FCASH_HAIRCUT * (m - t)
             most == (x * FCASH_MAX_HAIRCUT) \div DECIMALS
             left == x - Cut(x, k)
         IN  /\ k \in Nat /\ Cut(x, k) \in Nat /\ most \in Nat
             /\ ReceiverValue(x, m, t) = IF left < most THEN left ELSE most
<1> DEFINE k == FCASH_HAIRCUT * (m - t)
           most == (x * FCASH_MAX_HAIRCUT) \div DECIMALS
<1>1. k \in Nat /\ FCASH_HAIRCUT \in Nat /\ FCASH_MAX_HAIRCUT \in Nat
  <2>1. m - t \in Nat
    OBVIOUS
  <2> QED BY <2>1, ProductNat, RiskAssumption
<1>2. most \in Nat
  <2> DEFINE w == x * FCASH_MAX_HAIRCUT
  <2>1. w \in Nat
    BY <1>1, ProductNat
  <2> HIDE DEF w
  <2>2. w \div DECIMALS \in Nat
    BY <2>1, QuotientNat, RiskAssumption
  <2> QED BY <2>2 DEF w
<1>3. x * FCASH_HAIRCUT * (m - t) = x * k
  BY <1>1
<1>4. Cut(x, k) \in Nat
  BY <1>1, CutNat
<1>5. ReceiverValue(x, m, t) = IF x - Cut(x, k) < most THEN x - Cut(x, k) ELSE most
  BY <1>3 DEF ReceiverValue, Cut
<1> QED BY <1>1, <1>2, <1>4, <1>5

(* Receivers of a greater amount are worth no less, and nothing is worth less
   than nothing, if the haircut is at most all. *)
LEMMA ReceiverValueMonotone ==
  ASSUME NEW x \in Nat, NEW y \in Nat, x <= y, NEW m \in Int, NEW t \in Int, t <= m,
         FCASH_HAIRCUT * (m - t) <= SECONDS_IN_YEAR * DECIMALS
  PROVE  /\ 0 <= ReceiverValue(x, m, t)
         /\ ReceiverValue(x, m, t) <= ReceiverValue(y, m, t)
<1> DEFINE k == FCASH_HAIRCUT * (m - t)
           mx == (x * FCASH_MAX_HAIRCUT) \div DECIMALS
           my == (y * FCASH_MAX_HAIRCUT) \div DECIMALS
           cx == Cut(x, k)
           cy == Cut(y, k)
<1>1. k \in Nat /\ cx \in Nat /\ mx \in Nat /\ cy \in Nat /\ my \in Nat
  BY ReceiverValueParts
<1>2. /\ ReceiverValue(x, m, t) = IF x - cx < mx THEN x - cx ELSE mx
      /\ ReceiverValue(y, m, t) = IF y - cy < my THEN y - cy ELSE my
  BY ReceiverValueParts
<1>3. mx <= my
  <2> DEFINE v == x * FCASH_MAX_HAIRCUT
             w == y * FCASH_MAX_HAIRCUT
  <2>1. v \in Int /\ w \in Int /\ v <= w
    BY RiskAssumption, ProductMonotone
  <2> HIDE DEF v, w
  <2>2. v \div DECIMALS <= w \div DECIMALS
    BY <2>1, RiskAssumption, QuotientMonotone
  <2> QED BY <2>2 DEF v, w
<1>4. cx <= x
  <2>1. k \in Nat /\ k <= SECONDS_IN_YEAR * DECIMALS
    BY <1>1
  <2> HIDE DEF k
  <2> QED BY <2>1, CutAtMost
<1>5. cy <= cx + (y - x)
  <2> DEFINE n == y - x
  <2>1. n \in Nat /\ x + n = y
    OBVIOUS
  <2>2. k \in Nat /\ k <= SECONDS_IN_YEAR * DECIMALS
    BY <1>1
  <2> HIDE DEF n, k
  <2>3. Cut(x + n, k) <= Cut(x, k) + n
    BY <2>1, <2>2, CutBounded
  <2> QED BY <2>1, <2>3 DEF n
<1> HIDE DEF k, mx, my, cx, cy
<1> QED BY <1>1, <1>2, <1>3, <1>4, <1>5

(* Time adds to the value of a receiver, up to what it pays. *)
LEMMA ReceiverValueGrows ==
  ASSUME NEW x \in Nat, NEW m \in Int, NEW t \in Int, NEW u \in Int, t <= u, u <= m
  PROVE  /\ ReceiverValue(x, m, t) <= ReceiverValue(x, m, u)
         /\ ReceiverValue(x, m, t) <= x
<1> DEFINE j == FCASH_HAIRCUT * (m - u)
           k == FCASH_HAIRCUT * (m - t)
           most == (x * FCASH_MAX_HAIRCUT) \div DECIMALS
           cj == Cut(x, j)
           ck == Cut(x, k)
<1>1. t <= m
  OBVIOUS
<1>2. j \in Nat /\ k \in Nat /\ most \in Nat /\ cj \in Nat /\ ck \in Nat
  BY <1>1, ReceiverValueParts
<1>3. /\ ReceiverValue(x, m, t) = IF x - ck < most THEN x - ck ELSE most
      /\ ReceiverValue(x, m, u) = IF x - cj < most THEN x - cj ELSE most
  BY <1>1, ReceiverValueParts
<1>4. cj <= ck
  <2>1. j <= k
    <3>1. m - u \in Nat /\ m - t \in Nat /\ m - u <= m - t /\ FCASH_HAIRCUT \in Nat
      BY RiskAssumption
    <3> QED BY <3>1
  <2> HIDE DEF j, k
  <2> QED BY <1>2, <2>1, CutMonotone
<1> HIDE DEF j, k, most, cj, ck
<1> QED BY <1>2, <1>3, <1>4

-----------------------------------------------------------------------------
(* Claims on pools, rungs of the ladder and portfolios.                    *)

LEMMA ClaimInt ==
  ASSUME NEW total \in Nat, NEW tokens \in Nat, NEW supply \in Nat \ {0}, NEW m \in Int, NEW t \in Int
  PROVE  Claim(total, tokens, supply, m, t) \in Nat
<1>1. Share(total, tokens, supply) \in Nat
  BY ShareNat
<1>2. HaircutShare(total, tokens, supply) \in Nat
  <2> DEFINE w == total * tokens * LIQUIDITY_HAIRCUT
             q == w \div DECIMALS
  <2>1. w \in Nat
    BY RiskAssumption, ProductNat
  <2>2. q \in Nat
    <3> HIDE DEF w
    <3> QED BY <2>1, RiskAssumption, QuotientNat
  <2>3. q \div supply \in Nat
    <3> HIDE DEF q
    <3> QED BY <2>2, QuotientNat
  <2> QED BY <2>3 DEF HaircutShare
<1> QED BY <1>1, <1>2 DEF Claim

(* More tokens claim no less. *)
LEMMA ClaimMonotone ==
  ASSUME NEW total \in Nat, NEW tokens \in Nat, NEW more \in Nat, tokens <= more,
         NEW supply \in Nat \ {0}, NEW m \in Int, NEW t \in Int
  PROVE  Claim(total, tokens, supply, m, t) <= Claim(total, more, supply, m, t)
<1> DEFINE v == total * tokens
           w == total * more
           vh == v * LIQUIDITY_HAIRCUT
           wh == w * LIQUIDITY_HAIRCUT
           vd == vh \div DECIMALS
           wd == wh \div DECIMALS
<1>1. v \in Int /\ w \in Int /\ v <= w
  OBVIOUS
<1> HIDE DEF v, w
<1>2. vh \in Int /\ wh \in Int /\ vh <= wh
  BY <1>1, ProductMonotone, RiskAssumption
<1> HIDE DEF vh, wh
<1>3. vd \in Int /\ wd \in Int /\ vd <= wd
  BY <1>2, QuotientNat, QuotientMonotone, RiskAssumption
<1> HIDE DEF vd, wd
<1>4. v \div supply <= w \div supply /\ vd \div supply <= wd \div supply
  BY <1>1, <1>3, QuotientMonotone
<1> QED BY <1>4 DEF Claim, Share, HaircutShare, v, w, vh, wh, vd, wd

(* The haircut of liquidity tokens ends at maturity. *)
LEMMA ClaimGrows ==
  ASSUME LIQUIDITY_HAIRCUT <= DECIMALS,
         NEW total \in Nat, NEW tokens \in Nat, NEW supply \in Nat \ {0},
         NEW m \in Int, NEW t \in Int, NEW u \in Int, t <= u
  PROVE  Claim(total, tokens, supply, m, t) <= Claim(total, tokens, supply, m, u)
<1> DEFINE w == total * tokens
           wh == w * LIQUIDITY_HAIRCUT
           wd == wh \div DECIMALS
<1>1. w \in Nat /\ DECIMALS \in Nat \ {0} /\ LIQUIDITY_HAIRCUT \in Nat
  BY ProductNat, RiskAssumption
<1> HIDE DEF w
<1>2. wh \in Int /\ wh <= 0 + w * DECIMALS /\ w * DECIMALS \in Int
  BY <1>1
<1> HIDE DEF wh
<1>3. wd \in Int /\ wd <= w
  <2>1. wd \in Int
    BY <1>1, <1>2, QuotientNat
  <2>2. wd <= (0 + w * DECIMALS) \div DECIMALS
    <3>1. 0 + w * DECIMALS \in Int
      BY <1>2
    <3> QED BY <1>1, <1>2, <3>1, QuotientMonotone
  <2>3. (0 + w * DECIMALS) \div DECIMALS = 0 \div DECIMALS + w
    <3>1. 0 \in Int /\ w \in Int
      BY <1>1
    <3> QED BY <1>1, <3>1, QuotientShifted, Zenon
  <2>4. 0 \div DECIMALS = 0
    BY <1>1
  <2> QED BY <1>1, <2>1, <2>2, <2>3, <2>4
<1> HIDE DEF wd
<1>4. wd \div supply <= w \div supply /\ wd \div supply \in Int /\ w \div supply \in Int
  BY <1>1, <1>3, QuotientNat, QuotientMonotone
<1>5. HaircutShare(total, tokens, supply) <= Share(total, tokens, supply)
  BY <1>4 DEF Share, HaircutShare, w, wh, wd
<1>6. Share(total, tokens, supply) \in Int /\ HaircutShare(total, tokens, supply) \in Int
  BY <1>4 DEF Share, HaircutShare, w, wh, wd
<1> QED BY <1>5, <1>6 DEF Claim

LEMMA MaturityInt ==
  /\ Maturity \subseteq Nat
  /\ IsFiniteSet(Maturity)
  /\ IsFiniteSet(Currency)
<1>1. IsFiniteSet(Currency)
  <2>1. IsFiniteSet({ETH} \cup {LocalCurrency})
    BY FS_Singleton, FS_AddElement
  <2>2. {ETH} \cup {LocalCurrency} = Currency
    BY DEF Currency
  <2> QED BY <2>1, <2>2
<1> QED BY <1>1, RiskAssumption

(* Per maturity. *)
LEMMA RungInt ==
  ASSUME NEW p \in Portfolio, NEW mk \in [Maturity -> Market], NEW t \in Int, CanValue(p, mk, t),
         NEW m \in Maturity
  PROVE  /\ CashClaim(p, mk, m, t) \in Nat
         /\ NetfCash(p, mk, m, t) \in Int
         /\ RungValue(p, mk, m, t) \in Int
<1>1. /\ m \in Int
      /\ p.fCash[m] \in Int /\ p.token[m] \in Nat
      /\ mk[m].totalfCash \in Nat /\ mk[m].totalLiquidity \in Nat /\ mk[m].totalCurrentCash \in Nat
  BY MaturityInt DEF Portfolio, Market
<1>2. m \in p.listed => mk[m].totalLiquidity \in Nat \ {0}
  BY <1>1 DEF CanValue
<1>3. CashClaim(p, mk, m, t) \in Nat
  <2>1. CASE m \in p.listed
    <3>1. Claim(mk[m].totalCurrentCash, p.token[m], mk[m].totalLiquidity, m, t) \in Nat
      BY <1>1, <1>2, <2>1, ClaimInt
    <3> QED BY <2>1, <3>1 DEF CashClaim
  <2>2. CASE m \notin p.listed
    BY <2>2 DEF CashClaim
  <2> QED BY <2>1, <2>2
<1>4. NetfCash(p, mk, m, t) \in Int
  <2>1. CASE m \in p.listed
    <3>1. Claim(mk[m].totalfCash, p.token[m], mk[m].totalLiquidity, m, t) \in Nat
      BY <1>1, <1>2, <2>1, ClaimInt
    <3> QED BY <1>1, <2>1, <3>1 DEF NetfCash
  <2>2. CASE m \notin p.listed
    BY <1>1, <2>2 DEF NetfCash
  <2> QED BY <2>1, <2>2
<1>5. RungValue(p, mk, m, t) \in Int
  BY <1>1, <1>4, ReceiverValueInt DEF RungValue
<1> QED BY <1>3, <1>4, <1>5

LEMMA PortfolioValueInt ==
  ASSUME NEW p \in Portfolio, NEW mk \in [Maturity -> Market], NEW t \in Int, CanValue(p, mk, t)
  PROVE  /\ [m \in Maturity |-> CashClaim(p, mk, m, t) + RungValue(p, mk, m, t)] \in [Maturity -> Int]
         /\ PortfolioValue(p, mk, t) \in Int
<1> DEFINE f == [m \in Maturity |-> CashClaim(p, mk, m, t) + RungValue(p, mk, m, t)]
<1>1. f \in [Maturity -> Int]
  <2>1. \A m \in Maturity : CashClaim(p, mk, m, t) \in Nat /\ RungValue(p, mk, m, t) \in Int
    BY RungInt
  <2> QED BY <2>1
<1>2. SumFunction(f) \in Int
  <2> HIDE DEF f
  <2> QED BY <1>1, SumInt, MaturityInt
<1> QED BY <1>1, <1>2 DEF PortfolioValue

LEMMA PortfolioValueMonotone ==
  ASSUME NEW p \in Portfolio, NEW mk \in [Maturity -> Market], NEW t \in Int, CanValue(p, mk, t),
         NEW q \in Portfolio, NEW nk \in [Maturity -> Market], NEW u \in Int, CanValue(q, nk, u),
         \A m \in Maturity : /\ CashClaim(p, mk, m, t) <= CashClaim(q, nk, m, u)
                             /\ RungValue(p, mk, m, t) <= RungValue(q, nk, m, u)
  PROVE  PortfolioValue(p, mk, t) <= PortfolioValue(q, nk, u)
<1> DEFINE f == [m \in Maturity |-> CashClaim(p, mk, m, t) + RungValue(p, mk, m, t)]
           g == [m \in Maturity |-> CashClaim(q, nk, m, u) + RungValue(q, nk, m, u)]
<1>1. f \in [Maturity -> Int] /\ g \in [Maturity -> Int]
  BY PortfolioValueInt
<1>2. \A m \in Maturity : f[m] <= g[m]
  <2> TAKE m \in Maturity
  <2>1. CashClaim(p, mk, m, t) \in Int /\ RungValue(p, mk, m, t) \in Int
    BY RungInt
  <2>2. CashClaim(q, nk, m, u) \in Int /\ RungValue(q, nk, m, u) \in Int
    BY RungInt
  <2>3. /\ CashClaim(p, mk, m, t) <= CashClaim(q, nk, m, u)
        /\ RungValue(p, mk, m, t) <= RungValue(q, nk, m, u)
    OBVIOUS
  <2>4. CashClaim(p, mk, m, t) + RungValue(p, mk, m, t) <= CashClaim(q, nk, m, u) + RungValue(q, nk, m, u)
    BY <2>1, <2>2, <2>3
  <2> QED BY <2>4
<1>3. SumFunction(f) <= SumFunction(g)
  <2> HIDE DEF f, g
  <2> QED BY <1>1, <1>2, SumMonotone, MaturityInt
<1> QED BY <1>3 DEF PortfolioValue

-----------------------------------------------------------------------------
(* ETHValue and the rates. *)
EthOf(c, buffered, price) ==
  IF c = ETH THEN buffered \div DECIMALS ELSE ((price * buffered) \div RATE_DECIMALS) \div DECIMALS

LEMMA EthOfMonotone ==
  ASSUME NEW c \in Currency, NEW price \in Nat, NEW x \in Nat, NEW y \in Nat, x <= y
  PROVE  /\ EthOf(c, x, price) \in Nat
         /\ EthOf(c, y, price) \in Nat
         /\ EthOf(c, x, price) <= EthOf(c, y, price)
<1> DEFINE v == price * x
           w == price * y
           p == v \div RATE_DECIMALS
           q == w \div RATE_DECIMALS
<1>1. DECIMALS \in Nat \ {0} /\ RATE_DECIMALS \in Nat \ {0}
  BY RiskAssumption
<1>2. v \in Nat /\ w \in Nat /\ v <= w
  OBVIOUS
<1> HIDE DEF v, w
<1>3. p \in Nat /\ q \in Nat /\ p <= q
  BY <1>1, <1>2, QuotientNat, QuotientMonotone
<1> HIDE DEF p, q
<1>4. p \div DECIMALS \in Nat /\ q \div DECIMALS \in Nat /\ p \div DECIMALS <= q \div DECIMALS
  BY <1>1, <1>3, QuotientNat, QuotientMonotone
<1>5. x \div DECIMALS \in Nat /\ y \div DECIMALS \in Nat /\ x \div DECIMALS <= y \div DECIMALS
  BY <1>1, QuotientNat, QuotientMonotone
<1> QED BY <1>4, <1>5 DEF EthOf, p, q, v, w

LEMMA ETHValueParts ==
  ASSUME NEW c \in Currency, NEW x \in Int, NEW price \in Nat
  PROVE  \E buffer \in Nat :
           /\ \A y \in Int : y <= 0 => ETHValue(c, y, price) = -EthOf(c, (-y) * buffer, price)
           /\ \A y \in Int : y > 0 => ETHValue(c, y, price) = EthOf(c, y * DECIMALS, price)
<1> DEFINE buffer == IF c = ETH THEN ETH_BUFFER ELSE LOCAL_BUFFER
<1>1. buffer \in Nat
  BY RiskAssumption
<1>2. ASSUME NEW y \in Int, y <= 0 PROVE ETHValue(c, y, price) = -EthOf(c, (-y) * buffer, price)
  <2>1. (IF y < 0 THEN -y ELSE y) = -y
    BY <1>2
  <2> QED BY <1>2, <2>1 DEF ETHValue, EthOf
<1>3. ASSUME NEW y \in Int, y > 0 PROVE ETHValue(c, y, price) = EthOf(c, y * DECIMALS, price)
  <2>1. (IF y < 0 THEN -y ELSE y) = y
    BY <1>3
  <2> QED BY <1>3, <2>1 DEF ETHValue, EthOf
<1> QED BY <1>1, <1>2, <1>3

LEMMA ETHValueInt ==
  ASSUME NEW c \in Currency, NEW x \in Int, NEW price \in Nat
  PROVE  /\ ETHValue(c, x, price) \in Int
         /\ x >= 0 => ETHValue(c, x, price) >= 0
<1>1. PICK buffer \in Nat :
           /\ \A y \in Int : y <= 0 => ETHValue(c, y, price) = -EthOf(c, (-y) * buffer, price)
           /\ \A y \in Int : y > 0 => ETHValue(c, y, price) = EthOf(c, y * DECIMALS, price)
  BY ETHValueParts
<1>2. CASE x > 0
  <2> DEFINE w == x * DECIMALS
  <2>1. w \in Nat
    BY <1>2, RiskAssumption
  <2> HIDE DEF w
  <2>2. EthOf(c, w, price) \in Nat
    BY <2>1, EthOfMonotone
  <2> QED BY <1>1, <1>2, <2>2 DEF w
<1>3. CASE x <= 0
  <2> DEFINE w == (-x) * buffer
  <2>1. w \in Nat
    BY <1>3
  <2>2. x = 0 => w = 0
    OBVIOUS
  <2> HIDE DEF w
  <2>3. EthOf(c, w, price) \in Nat
    BY <2>1, EthOfMonotone
  <2>4. EthOf(c, 0, price) = 0
    <3>1. price * 0 = 0 /\ 0 \div RATE_DECIMALS = 0 /\ 0 \div DECIMALS = 0
      BY RiskAssumption
    <3> QED BY <3>1 DEF EthOf
  <2>5. ETHValue(c, x, price) = -EthOf(c, w, price)
    BY <1>1, <1>3 DEF w
  <2> QED BY <1>3, <2>2, <2>3, <2>4, <2>5
<1> QED BY <1>2, <1>3

(* A greater balance is worth no less, across zero too. *)
LEMMA ETHValueMonotone ==
  ASSUME NEW c \in Currency, NEW x \in Int, NEW y \in Int, x <= y, NEW price \in Nat
  PROVE  ETHValue(c, x, price) <= ETHValue(c, y, price)
<1>1. PICK buffer \in Nat :
           /\ \A z \in Int : z <= 0 => ETHValue(c, z, price) = -EthOf(c, (-z) * buffer, price)
           /\ \A z \in Int : z > 0 => ETHValue(c, z, price) = EthOf(c, z * DECIMALS, price)
  BY ETHValueParts
<1>2. CASE x > 0
  <2> DEFINE v == x * DECIMALS
             w == y * DECIMALS
  <2>1. v \in Nat /\ w \in Nat /\ v <= w
    BY <1>2, RiskAssumption
  <2> HIDE DEF v, w
  <2>2. EthOf(c, v, price) <= EthOf(c, w, price)
    BY <2>1, EthOfMonotone
  <2>3. y > 0
    BY <1>2
  <2> QED BY <1>1, <1>2, <2>2, <2>3 DEF v, w
<1>3. CASE y <= 0
  <2> DEFINE v == (-x) * buffer
             w == (-y) * buffer
  <2>1. v \in Nat /\ w \in Nat /\ w <= v
    <3>1. -x \in Nat /\ -y \in Nat /\ -y <= -x
      BY <1>3
    <3> QED BY <3>1, ProductNat, ProductMonotone
  <2>2. x <= 0
    BY <1>3
  <2>3. ETHValue(c, x, price) = -EthOf(c, v, price) /\ ETHValue(c, y, price) = -EthOf(c, w, price)
    BY <1>1, <1>3, <2>2
  <2> HIDE DEF v, w
  <2>4. EthOf(c, w, price) <= EthOf(c, v, price) /\ EthOf(c, v, price) \in Nat /\ EthOf(c, w, price) \in Nat
    BY <2>1, EthOfMonotone
  <2> QED BY <2>3, <2>4
<1>4. CASE x <= 0 /\ y > 0
  <2> DEFINE v == (-x) * buffer
  <2>1. v \in Nat
    BY <1>4
  <2>2. ETHValue(c, x, price) = -EthOf(c, v, price)
    BY <1>1, <1>4
  <2> HIDE DEF v
  <2>3. EthOf(c, v, price) \in Nat
    BY <2>1, EthOfMonotone
  <2>4. ETHValue(c, y, price) \in Int /\ ETHValue(c, y, price) >= 0
    BY <1>4, ETHValueInt
  <2> QED BY <2>2, <2>3, <2>4
<1> QED BY <1>2, <1>3, <1>4

-----------------------------------------------------------------------------
(* The account a is at time u of r no worse off, position by position, than
   at time t of s. *)
NoWorse(s, t, r, u, a) ==
  /\ \A c \in Currency : s.cash[c][a] <= r.cash[c][a]
  /\ \A m \in Maturity :
       /\ CashClaim(s.portfolio[a], s.markets, m, t) <= CashClaim(r.portfolio[a], r.markets, m, u)
       /\ RungValue(s.portfolio[a], s.markets, m, t) <= RungValue(r.portfolio[a], r.markets, m, u)

LEMMA AccountParts ==
  ASSUME NEW s \in LedgerType, NEW a \in Account
  PROVE  /\ s.portfolio[a] \in Portfolio
         /\ s.markets \in [Maturity -> Market]
         /\ s.cash[ETH][a] \in Int /\ s.cash[LocalCurrency][a] \in Int
         /\ ETH \in Currency /\ LocalCurrency \in Currency
BY DEF LedgerType, Holder, Currency

LEMMA AccountFCParts ==
  ASSUME NEW s \in LedgerType, NEW a \in Account, NEW t \in Int, CanValueAccount(s, a, t),
         NEW price \in Nat
  PROVE  /\ AccountFC(s, a, t, price)
              = ETHValue(ETH, s.cash[ETH][a], price)
                + ETHValue(LocalCurrency,
                           s.cash[LocalCurrency][a] + PortfolioValue(s.portfolio[a], s.markets, t), price)
         /\ PortfolioValue(s.portfolio[a], s.markets, t) \in Int
         /\ AccountFC(s, a, t, price) \in Int
<1> DEFINE p == s.portfolio[a]
           v == PortfolioValue(p, s.markets, t)
           x == s.cash[LocalCurrency][a] + v
           y == s.cash[ETH][a]
<1>1. v \in Int
  BY AccountParts, PortfolioValueInt DEF CanValueAccount
<1>2. x \in Int /\ y \in Int /\ ETH \in Currency /\ LocalCurrency \in Currency
  BY <1>1, AccountParts
<1>3. AccountFC(s, a, t, price) = ETHValue(ETH, y, price) + ETHValue(LocalCurrency, x, price)
  BY <1>2 DEF AccountFC, FreeCollateral
<1>4. ETHValue(ETH, y, price) \in Int /\ ETHValue(LocalCurrency, x, price) \in Int
  <2> HIDE DEF x, y
  <2> QED BY <1>2, ETHValueInt
<1> QED BY <1>1, <1>3, <1>4

LEMMA NoWorseFC ==
  ASSUME NEW s \in LedgerType, NEW r \in LedgerType, NEW a \in Account, NEW t \in Int, NEW u \in Int,
         CanValueAccount(s, a, t), CanValueAccount(r, a, u), NoWorse(s, t, r, u, a), NEW price \in Nat
  PROVE  AccountFC(s, a, t, price) <= AccountFC(r, a, u, price)
<1> DEFINE v == PortfolioValue(s.portfolio[a], s.markets, t)
           w == PortfolioValue(r.portfolio[a], r.markets, u)
           xs == s.cash[LocalCurrency][a] + v
           xr == r.cash[LocalCurrency][a] + w
           ys == s.cash[ETH][a]
           yr == r.cash[ETH][a]
<1>1. v \in Int /\ w \in Int
  BY AccountFCParts
<1>2. v <= w
  <2>1. /\ s.portfolio[a] \in Portfolio /\ s.markets \in [Maturity -> Market]
        /\ r.portfolio[a] \in Portfolio /\ r.markets \in [Maturity -> Market]
    BY AccountParts
  <2> QED BY <2>1, PortfolioValueMonotone DEF NoWorse, CanValueAccount
<1>3. /\ xs \in Int /\ xr \in Int /\ ys \in Int /\ yr \in Int /\ xs <= xr /\ ys <= yr
      /\ ETH \in Currency /\ LocalCurrency \in Currency
  <2>1. /\ s.cash[ETH][a] \in Int /\ s.cash[LocalCurrency][a] \in Int
        /\ r.cash[ETH][a] \in Int /\ r.cash[LocalCurrency][a] \in Int
        /\ ETH \in Currency /\ LocalCurrency \in Currency
    BY AccountParts
  <2>2. s.cash[ETH][a] <= r.cash[ETH][a] /\ s.cash[LocalCurrency][a] <= r.cash[LocalCurrency][a]
    BY <2>1 DEF NoWorse
  <2> HIDE DEF v, w
  <2> QED BY <1>1, <1>2, <2>1, <2>2
<1>4. /\ AccountFC(s, a, t, price) = ETHValue(ETH, ys, price) + ETHValue(LocalCurrency, xs, price)
      /\ AccountFC(r, a, u, price) = ETHValue(ETH, yr, price) + ETHValue(LocalCurrency, xr, price)
  BY AccountFCParts
<1> HIDE DEF xs, xr, ys, yr
<1>5. /\ ETHValue(ETH, ys, price) <= ETHValue(ETH, yr, price)
      /\ ETHValue(LocalCurrency, xs, price) <= ETHValue(LocalCurrency, xr, price)
  BY <1>3, ETHValueMonotone
<1>6. /\ ETHValue(ETH, ys, price) \in Int /\ ETHValue(ETH, yr, price) \in Int
      /\ ETHValue(LocalCurrency, xs, price) \in Int /\ ETHValue(LocalCurrency, xr, price) \in Int
  BY <1>3, ETHValueInt
<1> QED BY <1>4, <1>5, <1>6

-----------------------------------------------------------------------------
(* Settlement.                                                             *)

(* Whoever leaves takes a share that is rounded down: what is left is no less
   for those who stay. *)
LEMMA ShareOfRest ==
  ASSUME NEW total \in Nat, NEW supply \in Nat \ {0}, NEW tokens \in Nat, tokens < supply, NEW n \in Nat
  PROVE  Share(total, n, supply) <= Share(total - Share(total, tokens, supply), n, supply - tokens)
<1> DEFINE c == Share(total, tokens, supply)
           rest == total - c
           left == supply - tokens
           v == total * n
           q == v \div supply
           w == rest * n
<1>1. c \in 0 .. total /\ c * supply <= total * tokens
  <2>1. tokens \in 0 .. supply
    OBVIOUS
  <2>2. c \in 0 .. total
    BY <2>1, ShareBounded
  <2> DEFINE z == total * tokens
  <2>3. z \in Nat /\ c = z \div supply
    BY ProductNat DEF Share
  <2> HIDE DEF z, c
  <2>4. c * supply <= z
    BY <2>2, <2>3
  <2> QED BY <2>2, <2>4 DEF z
<1>2. rest \in Nat /\ left \in Nat \ {0} /\ total * left <= rest * supply
  <2>1. c \in Nat /\ rest \in Nat /\ left \in Nat \ {0}
    BY <1>1
  <2> HIDE DEF c
  <2>2. total * left = total * supply - total * tokens /\ rest * supply = total * supply - c * supply
    BY <2>1
  <2>3. total * supply \in Int /\ total * tokens \in Int /\ c * supply \in Int
    BY <2>1
  <2> QED BY <1>1, <2>1, <2>2, <2>3
<1> HIDE DEF c, rest, left
<1>3. v \in Nat /\ w \in Nat
  BY <1>2, ProductNat
<1>4. q \in Nat /\ q * supply <= v
  <2> HIDE DEF v
  <2>1. q \in Nat
    BY <1>3, QuotientNat
  <2> QED BY <1>3, <2>1
<1> HIDE DEF q
<1>5. v * left <= w * supply
  <2>1. v * left = (total * left) * n /\ w * supply = (rest * supply) * n
    BY <1>2
  <2>2. total * left \in Nat /\ rest * supply \in Nat
    BY <1>2
  <2>3. (total * left) * n <= (rest * supply) * n
    BY <1>2, <2>2, ProductMonotone
  <2> QED BY <2>1, <2>3
<1> HIDE DEF v, w
<1>6. q * left <= w
  <2>1. (q * supply) * left <= v * left
    <3>1. q * supply \in Int /\ v \in Int /\ left \in Nat
      BY <1>2, <1>3, <1>4
    <3> QED BY <1>4, <3>1, ProductMonotone
  <2>2. (q * supply) * left = (q * left) * supply
    BY <1>2, <1>4
  <2> DEFINE y == q * left
  <2>3. y \in Int /\ y * supply <= w * supply
    <3>1. q * left \in Int /\ v * left \in Int /\ w * supply \in Int /\ (q * left) * supply \in Int
      BY <1>2, <1>3, <1>4
    <3> QED BY <1>5, <2>1, <2>2, <3>1
  <2> HIDE DEF y
  <2>4. y <= w
    <3> SUFFICES ASSUME y >= w + 1 PROVE FALSE
      BY <1>3, <2>3
    <3>1. y * supply >= (w + 1) * supply
      BY <1>3, <2>3
    <3> QED BY <1>3, <2>3, <3>1
  <2> QED BY <2>4 DEF y
<1>7. q <= w \div left
  BY <1>2, <1>3, <1>4, <1>6, QuotientAtLeast
<1> QED BY <1>7 DEF Share, q, v, w, rest, left, c

(* What settling leaves, by parts. *)
LEMMA SettleParts ==
  ASSUME NEW s \in LedgerType, NEW a \in Account, NEW t \in Int, CanSettle(s, a, t), TokensListed(s)
  PROVE  LET r == Settle(s, a, t)
         IN  /\ r \in LedgerType
             /\ \A b \in Account : r.cash[ETH][b] = s.cash[ETH][b]
             /\ r.cash[LocalCurrency][a]
                  = s.cash[LocalCurrency][a] + (RedeemedCash(s, a, t) + SettledCash(s, a, t))
             /\ \A b \in Account \ {a} : /\ r.cash[LocalCurrency][b] = s.cash[LocalCurrency][b]
                                         /\ r.portfolio[b] = s.portfolio[b]
             /\ r.portfolio[a] = Unmatured(s.portfolio[a], t)
             /\ \A m \in Maturity :
                  r.markets[m] = IF m \in MaturedTokens(s, a, t)
                                   THEN Redeem(s.markets[m], s.portfolio[a].token[m])
                                   ELSE s.markets[m]
<1> DEFINE r == Settle(s, a, t)
           R == RedeemedCash(s, a, t)
           S == SettledCash(s, a, t)
           b0 == s.cash[LocalCurrency]
           b1 == Credit(b0, CASH_MARKET, -R)
           b2 == Credit(b1, a, R + S)
<1>1. r \in LedgerType
  BY SettleEffect
<1>2. R \in Int /\ S \in Int
  BY SettledAmounts
<1>3. /\ b0 \in [Holder -> Int] /\ s.cash \in [Currency -> [Holder -> Int]]
      /\ s.portfolio \in [Account -> Portfolio]
      /\ ETH \in Currency /\ LocalCurrency \in Currency /\ ETH # LocalCurrency
      /\ CASH_MARKET \in Holder /\ CASH_MARKET \notin Account /\ a \in Holder
      /\ Account \subseteq Holder
  BY RiskAssumption, LedgerAssumption DEF LedgerType, Holder, Currency
<1>4. /\ r.cash = [s.cash EXCEPT ![LocalCurrency] = b2]
      /\ r.portfolio = [s.portfolio EXCEPT ![a] = Unmatured(s.portfolio[a], t)]
      /\ \A m \in Maturity :
           r.markets[m] = IF m \in MaturedTokens(s, a, t)
                            THEN Redeem(s.markets[m], s.portfolio[a].token[m])
                            ELSE s.markets[m]
  BY DEF Settle
<1> HIDE DEF r
<1>5. /\ b1 \in [Holder -> Int]
      /\ \A h \in Holder : h # CASH_MARKET => b1[h] = b0[h]
  <2> DEFINE n == -R
  <2>1. n \in Int
    BY <1>2
  <2> HIDE DEF n, b0
  <2>2. /\ Credit(b0, CASH_MARKET, n) \in [Holder -> Int]
        /\ \A h \in Holder : h # CASH_MARKET => Credit(b0, CASH_MARKET, n)[h] = b0[h]
    BY <1>3, <2>1, CreditEffect, ZenonT(60)
  <2> QED BY <2>2 DEF n
<1>6. /\ b2[a] = b1[a] + (R + S)
      /\ \A h \in Holder : h # a => b2[h] = b1[h]
  <2> DEFINE n == R + S
  <2>1. n \in Int
    BY <1>2
  <2> HIDE DEF n, b1
  <2>2. /\ Credit(b1, a, n)[a] = b1[a] + n
        /\ \A h \in Holder : h # a => Credit(b1, a, n)[h] = b1[h]
    <3>1. b1 \in [Holder -> Int] /\ a \in Holder
      BY <1>3, <1>5
    <3> QED BY <2>1, <3>1, CreditEffect, ZenonT(60)
  <2> QED BY <2>2 DEF n
<1> HIDE DEF b1, b2, R, S
<1>7. r.cash[ETH] = s.cash[ETH] /\ r.cash[LocalCurrency] = b2
  BY <1>3, <1>4
<1>8. r.cash[LocalCurrency][a] = s.cash[LocalCurrency][a] + (R + S)
  <2>1. a # CASH_MARKET
    BY <1>3
  <2> QED BY <1>3, <1>5, <1>6, <1>7, <2>1
<1>9. ASSUME NEW b \in Account \ {a}
      PROVE  r.cash[LocalCurrency][b] = s.cash[LocalCurrency][b] /\ r.portfolio[b] = s.portfolio[b]
  <2>1. b \in Holder /\ b # CASH_MARKET /\ b # a
    BY <1>3
  <2>2. r.portfolio[b] = s.portfolio[b]
    BY <1>4, <2>1
  <2> QED BY <1>5, <1>6, <1>7, <2>1, <2>2
<1>10. r.portfolio[a] = Unmatured(s.portfolio[a], t)
  BY <1>3, <1>4
<1> QED BY <1>1, <1>4, <1>7, <1>8, <1>9, <1>10 DEF r, R, S

(* Settling one account takes nothing from another. *)
LEMMA SettleOthers ==
  ASSUME NEW s \in LedgerType, NEW a \in Account, NEW t \in Int, CanSettle(s, a, t), TokensListed(s),
         NEW b \in Account \ {a}, CanValueAccount(s, b, t), CanValueAccount(Settle(s, a, t), b, t)
  PROVE  NoWorse(s, t, Settle(s, a, t), t, b)
<1> DEFINE r == Settle(s, a, t)
           p == s.portfolio[b]
<1>1. /\ r \in LedgerType
      /\ r.cash[ETH][b] = s.cash[ETH][b]
      /\ r.cash[LocalCurrency][b] = s.cash[LocalCurrency][b]
      /\ r.portfolio[b] = p
      /\ \A m \in Maturity :
           r.markets[m] = IF m \in MaturedTokens(s, a, t)
                            THEN Redeem(s.markets[m], s.portfolio[a].token[m])
                            ELSE s.markets[m]
  BY SettleParts
<1>2. /\ CanValue(p, s.markets, t) /\ CanValue(p, r.markets, t)
  BY <1>1 DEF CanValueAccount
<1>3. /\ p \in Portfolio /\ s.markets \in [Maturity -> Market] /\ r.markets \in [Maturity -> Market]
  BY <1>1, AccountParts
<1> HIDE DEF r, p
<1>4. ASSUME NEW m \in Maturity
      PROVE  /\ CashClaim(p, s.markets, m, t) <= CashClaim(p, r.markets, m, t)
             /\ RungValue(p, s.markets, m, t) <= RungValue(p, r.markets, m, t)
  <2>1. /\ CashClaim(p, s.markets, m, t) \in Int /\ RungValue(p, s.markets, m, t) \in Int
        /\ CashClaim(p, r.markets, m, t) \in Int /\ RungValue(p, r.markets, m, t) \in Int
    BY <1>2, <1>3, RungInt
  <2>2. CASE r.markets[m] = s.markets[m]
    <3>1. CashClaim(p, s.markets, m, t) = CashClaim(p, r.markets, m, t)
      BY <2>2 DEF CashClaim
    <3>2. RungValue(p, s.markets, m, t) = RungValue(p, r.markets, m, t)
      BY <2>2 DEF RungValue, NetfCash
    <3> QED BY <2>1, <3>1, <3>2
  <2>3. CASE m \notin p.listed
    <3>1. CashClaim(p, s.markets, m, t) = CashClaim(p, r.markets, m, t)
      BY <2>3 DEF CashClaim
    <3>2. RungValue(p, s.markets, m, t) = RungValue(p, r.markets, m, t)
      BY <2>3 DEF RungValue, NetfCash
    <3> QED BY <2>1, <3>1, <3>2
  <2>4. CASE m \in p.listed /\ r.markets[m] # s.markets[m]
    <3> DEFINE mk == s.markets[m]
               out == s.portfolio[a].token[m]
               n == p.token[m]
    <3>1. /\ m <= t /\ CanRedeem(mk, out) /\ r.markets[m] = Redeem(mk, out)
      BY <1>1, <2>4 DEF MaturedTokens, CanSettle
    <3>2. /\ mk.totalLiquidity \in Nat /\ mk.totalCurrentCash \in Nat /\ mk.totalfCash \in Nat
          /\ out \in Nat /\ n \in Nat /\ p.fCash[m] \in Int /\ m \in Int
      BY <1>3, AccountTypes, MaturityInt DEF Market, Portfolio
    <3> HIDE DEF mk, out, n
    <3>3. /\ r.markets[m].totalLiquidity = mk.totalLiquidity - out
          /\ r.markets[m].totalCurrentCash = mk.totalCurrentCash - Share(mk.totalCurrentCash, out, mk.totalLiquidity)
          /\ r.markets[m].totalfCash = mk.totalfCash - Share(mk.totalfCash, out, mk.totalLiquidity)
      BY <3>1 DEF Redeem, CashShare, fCashShare
    <3>4. mk.totalLiquidity > 0 /\ r.markets[m].totalLiquidity > 0
      BY <1>2, <2>4 DEF CanValue, mk
    <3>5. mk.totalLiquidity \in Nat \ {0} /\ out < mk.totalLiquidity
      BY <3>2, <3>3, <3>4
    <3>6. /\ Share(mk.totalCurrentCash, n, mk.totalLiquidity)
               <= Share(r.markets[m].totalCurrentCash, n, r.markets[m].totalLiquidity)
          /\ Share(mk.totalfCash, n, mk.totalLiquidity)
               <= Share(r.markets[m].totalfCash, n, r.markets[m].totalLiquidity)
      <4>1. Share(mk.totalCurrentCash, n, mk.totalLiquidity)
               <= Share(mk.totalCurrentCash - Share(mk.totalCurrentCash, out, mk.totalLiquidity), n,
                        mk.totalLiquidity - out)
        BY <3>2, <3>5, ShareOfRest
      <4>2. Share(mk.totalfCash, n, mk.totalLiquidity)
               <= Share(mk.totalfCash - Share(mk.totalfCash, out, mk.totalLiquidity), n,
                        mk.totalLiquidity - out)
        BY <3>2, <3>5, ShareOfRest
      <4> QED BY <3>3, <4>1, <4>2
    <3>7. ~(t < m)
      BY <3>1, <3>2
    <3>8. /\ CashClaim(p, s.markets, m, t) = Share(mk.totalCurrentCash, n, mk.totalLiquidity)
          /\ CashClaim(p, r.markets, m, t)
               = Share(r.markets[m].totalCurrentCash, n, r.markets[m].totalLiquidity)
      BY <2>4, <3>7 DEF CashClaim, Claim, mk, n
    <3>9. /\ NetfCash(p, s.markets, m, t) = p.fCash[m] + Share(mk.totalfCash, n, mk.totalLiquidity)
          /\ NetfCash(p, r.markets, m, t)
               = p.fCash[m] + Share(r.markets[m].totalfCash, n, r.markets[m].totalLiquidity)
      BY <2>4, <3>7 DEF NetfCash, Claim, mk, n
    <3>10. /\ RungValue(p, s.markets, m, t) = NetfCash(p, s.markets, m, t)
           /\ RungValue(p, r.markets, m, t) = NetfCash(p, r.markets, m, t)
      BY <3>7 DEF RungValue
    <3>11. /\ Share(mk.totalfCash, n, mk.totalLiquidity) \in Int
           /\ Share(r.markets[m].totalfCash, n, r.markets[m].totalLiquidity) \in Int
      <4>1. r.markets[m].totalfCash \in Nat /\ r.markets[m].totalLiquidity \in Nat \ {0}
        <5>1. r.markets[m] \in Market
          BY <1>3
        <5> QED BY <3>4, <5>1 DEF Market
      <4> QED BY <3>2, <3>5, <4>1, ShareNat
    <3> QED BY <3>2, <3>6, <3>8, <3>9, <3>10, <3>11
  <2> QED BY <2>2, <2>3, <2>4
<1>5. ASSUME NEW c \in Currency PROVE s.cash[c][b] <= r.cash[c][b]
  <2>1. s.cash[ETH][b] \in Int /\ s.cash[LocalCurrency][b] \in Int
    BY AccountParts
  <2> QED BY <1>1, <2>1 DEF Currency, r
<1>6. NoWorse(s, t, r, t, b)
  BY <1>1, <1>4, <1>5 DEF NoWorse, p, r
<1> QED BY <1>6 DEF r

(* What settling pays is what the matured assets counted for. *)
LEMMA SettleSelf ==
  ASSUME NEW s \in LedgerType, NEW a \in Account, NEW t \in Int, CanSettle(s, a, t), TokensListed(s),
         CanValueAccount(s, a, t), NEW price \in Nat
  PROVE  /\ CanValueAccount(Settle(s, a, t), a, t)
         /\ AccountFC(Settle(s, a, t), a, t, price) = AccountFC(s, a, t, price)
<1> DEFINE r == Settle(s, a, t)
           p == s.portfolio[a]
           q == Unmatured(p, t)
           R == RedeemedCash(s, a, t)
           S == SettledCash(s, a, t)
           f == [m \in Maturity |-> CashClaim(p, s.markets, m, t) + RungValue(p, s.markets, m, t)]
           g == [m \in Maturity |-> CashClaim(q, r.markets, m, t) + RungValue(q, r.markets, m, t)]
           red == [m \in Maturity |-> RedeemedAt(s, a, t, m)]
           set == [m \in Maturity |-> SettledAt(s, a, t, m)]
           both == [m \in Maturity |-> red[m] + set[m]]
<1>1. /\ r \in LedgerType
      /\ r.cash[ETH][a] = s.cash[ETH][a]
      /\ r.cash[LocalCurrency][a] = s.cash[LocalCurrency][a] + (R + S)
      /\ r.portfolio[a] = q
      /\ \A m \in Maturity :
           r.markets[m] = IF m \in MaturedTokens(s, a, t)
                            THEN Redeem(s.markets[m], s.portfolio[a].token[m])
                            ELSE s.markets[m]
  BY SettleParts
<1>2. /\ p \in Portfolio /\ s.markets \in [Maturity -> Market] /\ r.markets \in [Maturity -> Market]
      /\ CanValue(p, s.markets, t) /\ Maturity \subseteq Int
  BY <1>1, AccountParts, MaturityInt DEF CanValueAccount
<1>3. /\ q \in Portfolio
      /\ \A m \in Maturity : /\ q.fCash[m] = IF m <= t THEN 0 ELSE p.fCash[m]
                             /\ q.token[m] = IF m <= t THEN 0 ELSE p.token[m]
                             /\ m \in q.listed <=> m \in p.listed /\ m > t
  <2>1. \A m \in Maturity : m \in q.listed <=> m \in p.listed /\ m > t
    BY DEF Unmatured
  <2> QED BY <1>2, <2>1, UnmaturedEffect
<1>4. /\ red \in [Maturity -> Int] /\ set \in [Maturity -> Int] /\ R \in Int /\ S \in Int
  <2>1. \A m \in Maturity : RedeemedAt(s, a, t, m) \in Int /\ SettledAt(s, a, t, m) \in Int
    <3> TAKE m \in Maturity
    <3>1. s.markets[m].totalCurrentCash \in Nat
      BY PoolTotals
    <3> QED BY <3>1, SettledAmounts
  <2> QED BY <2>1, SettledAmounts
<1>5. \A m \in Maturity : m > t => r.markets[m] = s.markets[m]
  <2> SUFFICES ASSUME NEW m \in Maturity, m > t PROVE r.markets[m] = s.markets[m]
    OBVIOUS
  <2>1. m \notin MaturedTokens(s, a, t)
    BY <1>2 DEF MaturedTokens
  <2> HIDE DEF r
  <2> QED BY <1>1, <2>1
<1>6. R + S = SumFunction(both)
  <2>1. R = SumFunction(red) /\ S = SumFunction(set)
    BY DEF RedeemedCash, SettledCash
  <2> HIDE DEF red, set, R, S
  <2>2. SumFunction(both) = SumFunction(red) + SumFunction(set)
    BY <1>4, SumPlus, MaturityInt
  <2> QED BY <2>1, <2>2
<1>7. CanValue(q, r.markets, t)
  <2> HIDE DEF q, r
  <2> QED BY <1>2, <1>3, <1>5 DEF CanValue
<1>8. CanValueAccount(r, a, t)
  BY <1>1, <1>7 DEF CanValueAccount
<1>9. \A m \in Maturity : f[m] = both[m] + g[m]
  <2> TAKE m \in Maturity
  <2>1. /\ CashClaim(p, s.markets, m, t) \in Int /\ RungValue(p, s.markets, m, t) \in Int
        /\ red[m] \in Int /\ set[m] \in Int /\ m \in Int
    <3> HIDE DEF p
    <3> QED BY <1>2, <1>4, RungInt
  <2>2. CASE m <= t
    <3>1. CashClaim(p, s.markets, m, t) = red[m]
      BY <2>1, <2>2 DEF CashClaim, Claim, RedeemedAt, MaturedTokens, CashShare
    <3>2. RungValue(p, s.markets, m, t) = set[m]
      BY <2>1, <2>2 DEF RungValue, NetfCash, Claim, SettledAt, fCashShare
    <3>3. CashClaim(q, r.markets, m, t) = 0 /\ RungValue(q, r.markets, m, t) = 0
      <4> HIDE DEF q, r
      <4>1. m \notin q.listed /\ q.fCash[m] = 0
        BY <1>3, <2>1, <2>2
      <4> QED BY <2>1, <2>2, <4>1 DEF CashClaim, RungValue, NetfCash
    <3> HIDE DEF p, q, r, red, set
    <3> QED BY <2>1, <3>1, <3>2, <3>3
  <2>3. CASE m > t
    <3>1. red[m] = 0 /\ set[m] = 0
      BY <2>1, <2>3 DEF RedeemedAt, MaturedTokens, SettledAt
    <3>2. /\ CashClaim(q, r.markets, m, t) = CashClaim(p, s.markets, m, t)
          /\ RungValue(q, r.markets, m, t) = RungValue(p, s.markets, m, t)
      <4> HIDE DEF q, r, p
      <4>1. /\ q.fCash[m] = p.fCash[m] /\ q.token[m] = p.token[m]
            /\ (m \in q.listed) <=> (m \in p.listed)
            /\ r.markets[m] = s.markets[m]
        BY <1>3, <1>5, <2>1, <2>3
      <4> QED BY <4>1 DEF CashClaim, RungValue, NetfCash
    <3> HIDE DEF p, q, r, red, set
    <3> QED BY <2>1, <3>1, <3>2
  <2> QED BY <2>1, <2>2, <2>3
<1>10. SumFunction(f) = (R + S) + SumFunction(g)
  <2>1. g \in [Maturity -> Int] /\ both \in [Maturity -> Int]
    <3>1. g \in [Maturity -> Int]
      <4> HIDE DEF q, r
      <4> QED BY <1>2, <1>3, <1>7, PortfolioValueInt
    <3> HIDE DEF red, set
    <3> QED BY <1>4, <3>1
  <2>2. f = [m \in Maturity |-> both[m] + g[m]]
    <3>1. f = [m \in Maturity |-> f[m]]
      OBVIOUS
    <3> HIDE DEF f, both, g
    <3> QED BY <1>9, <3>1
  <2> HIDE DEF f, g, both
  <2>3. SumFunction([m \in Maturity |-> both[m] + g[m]]) = SumFunction(both) + SumFunction(g)
    BY <2>1, SumPlus, MaturityInt
  <2> QED BY <1>6, <2>2, <2>3
<1>11. /\ PortfolioValue(p, s.markets, t) = SumFunction(f)
       /\ PortfolioValue(q, r.markets, t) = SumFunction(g)
  BY DEF PortfolioValue
<1>12. /\ AccountFC(s, a, t, price)
            = ETHValue(ETH, s.cash[ETH][a], price)
              + ETHValue(LocalCurrency, s.cash[LocalCurrency][a] + SumFunction(f), price)
       /\ AccountFC(r, a, t, price)
            = ETHValue(ETH, r.cash[ETH][a], price)
              + ETHValue(LocalCurrency, r.cash[LocalCurrency][a] + SumFunction(g), price)
       /\ SumFunction(g) \in Int
  <2> HIDE DEF f, g, r, q, p
  <2> QED BY <1>1, <1>8, <1>11, AccountFCParts DEF p
<1>13. s.cash[LocalCurrency][a] \in Int
  BY AccountParts
<1> HIDE DEF f, g, R, S
<1>14. s.cash[LocalCurrency][a] + SumFunction(f) = r.cash[LocalCurrency][a] + SumFunction(g)
  <2> HIDE DEF r
  <2> QED BY <1>1, <1>4, <1>10, <1>12, <1>13
<1> QED BY <1>1, <1>8, <1>12, <1>14

-----------------------------------------------------------------------------
(* The haircut of a claim never exceeds the claim: it grows with the time to
   maturity, and the ladder has no rungs beyond NUM_MATURITIES lengths. *)
HaircutBounded == FCASH_HAIRCUT * (MATURITY_LENGTH * NUM_MATURITIES) <= SECONDS_IN_YEAR * DECIMALS

LEMMA LadderBounded ==
  ASSUME HaircutBounded,
         NEW p \in Portfolio, NEW mk \in [Maturity -> Market], NEW t \in Int, CanValue(p, mk, t),
         NEW m \in Maturity, t < m, m \in p.listed \/ p.fCash[m] # 0
  PROVE  FCASH_HAIRCUT * (m - t) <= SECONDS_IN_YEAR * DECIMALS
<1> DEFINE d == m - t
           q == d \div MATURITY_LENGTH
           top == MATURITY_LENGTH * NUM_MATURITIES
<1>1. /\ m \in Int /\ d \in Nat /\ MATURITY_LENGTH \in Nat \ {0} /\ NUM_MATURITIES \in Nat
      /\ FCASH_HAIRCUT \in Nat /\ SECONDS_IN_YEAR * DECIMALS \in Int
  BY MaturityInt, RiskAssumption
<1>2. q < NUM_MATURITIES
  BY <1>1 DEF CanValue
<1> HIDE DEF d
<1>3. q \in Nat /\ d < MATURITY_LENGTH * q + MATURITY_LENGTH
  BY <1>1
<1> HIDE DEF q
<1>4. MATURITY_LENGTH * (q + 1) <= MATURITY_LENGTH * NUM_MATURITIES
  BY <1>1, <1>2, <1>3
<1>5. top \in Nat /\ d <= top
  <2>1. MATURITY_LENGTH * (q + 1) = MATURITY_LENGTH * q + MATURITY_LENGTH
    BY <1>1, <1>3
  <2>2. MATURITY_LENGTH * q \in Int /\ MATURITY_LENGTH * NUM_MATURITIES \in Nat
    BY <1>1, <1>3
  <2> QED BY <1>1, <1>3, <1>4, <2>1, <2>2
<1>6. FCASH_HAIRCUT * top <= SECONDS_IN_YEAR * DECIMALS
  BY DEF HaircutBounded
<1> HIDE DEF top
<1>7. FCASH_HAIRCUT * d <= FCASH_HAIRCUT * top
  <2>1. d * FCASH_HAIRCUT <= top * FCASH_HAIRCUT
    BY <1>1, <1>5, ProductMonotone
  <2> QED BY <1>1, <1>5, <2>1
<1>8. FCASH_HAIRCUT * d \in Int /\ FCASH_HAIRCUT * top \in Int
  BY <1>1, <1>5
<1>9. FCASH_HAIRCUT * d <= SECONDS_IN_YEAR * DECIMALS
  BY <1>1, <1>6, <1>7, <1>8
<1> QED BY <1>9 DEF d

(* A positive rung is an asset of the ladder. *)
LEMMA PositiveRung ==
  ASSUME HaircutBounded,
         NEW p \in Portfolio, NEW mk \in [Maturity -> Market], NEW t \in Int, CanValue(p, mk, t),
         NEW m \in Maturity, t < m, NetfCash(p, mk, m, t) > 0
  PROVE  /\ NetfCash(p, mk, m, t) \in Nat /\ m \in Int /\ t <= m
         /\ FCASH_HAIRCUT * (m - t) <= SECONDS_IN_YEAR * DECIMALS
<1>1. NetfCash(p, mk, m, t) \in Int /\ m \in Int
  BY RungInt, MaturityInt
<1>2. m \in p.listed \/ p.fCash[m] # 0
  BY <1>1 DEF NetfCash
<1>3. FCASH_HAIRCUT * (m - t) <= SECONDS_IN_YEAR * DECIMALS
  BY <1>2, LadderBounded
<1> QED BY <1>1, <1>3

LEMMA RungMonotone ==
  ASSUME HaircutBounded, NEW t \in Int, NEW m \in Maturity,
         NEW p \in Portfolio, NEW mk \in [Maturity -> Market], CanValue(p, mk, t),
         NEW q \in Portfolio, NEW nk \in [Maturity -> Market], CanValue(q, nk, t),
         NetfCash(p, mk, m, t) <= NetfCash(q, nk, m, t)
  PROVE  RungValue(p, mk, m, t) <= RungValue(q, nk, m, t)
<1> DEFINE x == NetfCash(p, mk, m, t)
           y == NetfCash(q, nk, m, t)
<1>1. x \in Int /\ y \in Int /\ x <= y
  BY RungInt
<1>2. /\ RungValue(p, mk, m, t) = IF t < m /\ x > 0 THEN ReceiverValue(x, m, t) ELSE x
      /\ RungValue(q, nk, m, t) = IF t < m /\ y > 0 THEN ReceiverValue(y, m, t) ELSE y
  BY DEF RungValue
<1>3. t < m /\ y > 0 => /\ y \in Nat /\ m \in Int /\ t <= m
                        /\ FCASH_HAIRCUT * (m - t) <= SECONDS_IN_YEAR * DECIMALS
  BY PositiveRung
<1> HIDE DEF x, y
<1>4. CASE ~(t < m /\ y > 0)
  <2>1. ~(t < m /\ x > 0)
    BY <1>1, <1>4
  <2> QED BY <1>1, <1>2, <1>4, <2>1
<1>5. CASE t < m /\ y > 0
  <2> DEFINE v == ReceiverValue(y, m, t)
             w == ReceiverValue(x, m, t)
  <2>1. v \in Int /\ 0 <= v
    <3>1. 0 <= v
      <4>1. y \in Nat /\ y <= y
        BY <1>3, <1>5
      <4> QED BY <1>3, <1>5, <4>1, ReceiverValueMonotone
    <3>2. v \in Int
      BY <1>3, <1>5, ReceiverValueInt
    <3> QED BY <3>1, <3>2
  <2>2. CASE x > 0
    <3>1. x \in Nat
      BY <1>1, <2>2
    <3>2. w <= v
      BY <1>1, <1>3, <1>5, <3>1, ReceiverValueMonotone
    <3> QED BY <1>2, <1>5, <2>2, <3>2
  <2>3. CASE ~(x > 0)
    <3>1. RungValue(p, mk, m, t) = x /\ RungValue(q, nk, m, t) = v
      BY <1>2, <1>5, <2>3
    <3> HIDE DEF v
    <3> QED BY <1>1, <2>1, <2>3, <3>1
  <2> QED BY <2>2, <2>3
<1> QED BY <1>4, <1>5

-----------------------------------------------------------------------------
(* Nothing is taken from the account, in any position. *)
Better(s, r, h) ==
  /\ Gains(s, r, h)
  /\ \A m \in Maturity : r.portfolio[h].token[m] >= s.portfolio[h].token[m]
  /\ s.portfolio[h].listed \subseteq r.portfolio[h].listed

LEMMA BetterTransitive ==
  ASSUME NEW s \in LedgerType, NEW u \in LedgerType, NEW r \in LedgerType, NEW h \in Account,
         Better(s, u, h), Better(u, r, h)
  PROVE  Better(s, r, h)
<1>1. Gains(s, r, h)
  BY GainsTransitive DEF Better
<1>2. ASSUME NEW m \in Maturity PROVE r.portfolio[h].token[m] >= s.portfolio[h].token[m]
  <2>1. /\ s.portfolio[h].token[m] \in Nat /\ u.portfolio[h].token[m] \in Nat
        /\ r.portfolio[h].token[m] \in Nat
    BY AccountTypes
  <2>2. /\ r.portfolio[h].token[m] >= u.portfolio[h].token[m]
        /\ u.portfolio[h].token[m] >= s.portfolio[h].token[m]
    BY DEF Better
  <2> QED BY <2>1, <2>2
<1>3. s.portfolio[h].listed \subseteq r.portfolio[h].listed
  BY DEF Better
<1> QED BY <1>1, <1>2, <1>3 DEF Better

LEMMA SamePortfolioBetter ==
  ASSUME NEW s \in LedgerType, NEW r, NEW h \in Account, Gains(s, r, h),
         r.portfolio[h] = s.portfolio[h]
  PROVE  Better(s, r, h)
<1>1. \A m \in Maturity : r.portfolio[h].token[m] >= s.portfolio[h].token[m]
  BY AccountTypes
<1> QED BY <1>1 DEF Better

(* Entries of another account, or in favour of this one. *)
LEMMA EntriesBetter ==
  ASSUME NEW s \in LedgerType, NEW a \in Account, NEW h \in Account, NEW m \in Maturity,
         NEW n \in Int, NEW tokens \in Nat
  PROVE  /\ a # h \/ n >= 0 => Better(s, UpsertfCash(s, a, m, n), h)
         /\ Better(s, UpsertToken(s, a, m, tokens), h)
         /\ a # h /\ CanReduceToken(s, a, m, tokens) => Better(s, ReduceToken(s, a, m, tokens), h)
<1> DEFINE p == s.portfolio[a]
<1>1. p \in Portfolio /\ s.portfolio \in [Account -> Portfolio]
  BY DEF LedgerType
<1>2. \A k \in Maturity : s.portfolio[h].token[k] \in Nat /\ p.token[k] \in Nat
  BY AccountTypes
<1>3. ASSUME a # h \/ n >= 0 PROVE Better(s, UpsertfCash(s, a, m, n), h)
  <2> DEFINE q == AddfCash(p, m, n)
             r == UpsertfCash(s, a, m, n)
  <2>1. q.token = p.token /\ q.listed = p.listed
    BY <1>1, AddfCashEffect, ZenonT(30)
  <2>2. r.portfolio = [s.portfolio EXCEPT ![a] = q]
    BY DEF UpsertfCash
  <2>3. Gains(s, r, h)
    BY <1>3, UpsertfCashGains
  <2> HIDE DEF q, r
  <2>4. r.portfolio[h].token = s.portfolio[h].token /\ r.portfolio[h].listed = s.portfolio[h].listed
    BY <1>1, <2>1, <2>2
  <2>5. Better(s, r, h)
    BY <1>2, <2>3, <2>4 DEF Better
  <2> QED BY <2>5 DEF r
<1>4. Better(s, UpsertToken(s, a, m, tokens), h)
  <2> DEFINE q == AddToken(p, m, tokens)
             r == UpsertToken(s, a, m, tokens)
  <2>1. q.token = [p.token EXCEPT ![m] = @ + tokens] /\ q.listed = p.listed \cup {m}
    BY DEF AddToken
  <2>2. r.portfolio = [s.portfolio EXCEPT ![a] = q]
    BY DEF UpsertToken
  <2>3. Gains(s, r, h)
    BY TokenGains
  <2>4. \A k \in Maturity : q.token[k] >= p.token[k]
    <3> HIDE DEF p
    <3>1. p.token \in [Maturity -> Nat]
      BY <1>1 DEF Portfolio
    <3>2. \A k \in Maturity : q.token[k] = IF k = m THEN p.token[k] + tokens ELSE p.token[k]
      BY <2>1, <3>1
    <3> HIDE DEF q
    <3> TAKE k \in Maturity
    <3>3. p.token[k] \in Nat /\ q.token[k] = IF k = m THEN p.token[k] + tokens ELSE p.token[k]
      BY <3>1, <3>2
    <3> QED BY <3>3
  <2> HIDE DEF q, r
  <2>5. r.portfolio[h] = IF h = a THEN q ELSE s.portfolio[h]
    BY <1>1, <2>2
  <2>6. /\ \A k \in Maturity : r.portfolio[h].token[k] >= s.portfolio[h].token[k]
        /\ s.portfolio[h].listed \subseteq r.portfolio[h].listed
    <3>1. CASE h = a
      BY <2>1, <2>4, <2>5, <3>1
    <3>2. CASE h # a
      BY <1>2, <2>5, <3>2
    <3> QED BY <3>1, <3>2
  <2>7. Better(s, r, h)
    BY <2>3, <2>6 DEF Better
  <2> QED BY <2>7 DEF r
<1>5. ASSUME a # h, CanReduceToken(s, a, m, tokens) PROVE Better(s, ReduceToken(s, a, m, tokens), h)
  <2>1. Gains(s, ReduceToken(s, a, m, tokens), h)
    BY <1>5, TokenGains
  <2>2. ReduceToken(s, a, m, tokens).portfolio[h] = s.portfolio[h]
    BY <1>1, <1>5 DEF ReduceToken
  <2> QED BY <2>1, <2>2, SamePortfolioBetter
<1> QED BY <1>3, <1>4, <1>5

LEMMA MoveInBetter ==
  ASSUME NEW s \in LedgerType, NEW a \in Account, NEW h \in Account, NEW c \in Currency, NEW n \in Int,
         a # h \/ n >= 0
  PROVE  Better(s, MoveIn(s, a, c, n), h)
<1> DEFINE r == MoveIn(s, a, c, n)
<1>1. s.cash[c] \in [Holder -> Int] /\ a \in Holder /\ h \in Holder
  BY DEF LedgerType, Holder
<1>2. Credit(s.cash[c], a, n)[h] >= s.cash[c][h]
  BY <1>1, CreditKeepsOthers
<1>3. /\ r.cash[c] = Credit(s.cash[c], a, n)
      /\ \A d \in Currency \ {c} : r.cash[d] = s.cash[d]
      /\ r.portfolio = s.portfolio
  BY DEF MoveIn, LedgerType
<1> HIDE DEF r
<1>4. ASSUME NEW d \in Currency PROVE r.cash[d][h] >= s.cash[d][h]
  <2>1. s.cash[d][h] \in Int
    BY AccountTypes
  <2>2. CASE d = c
    BY <1>2, <1>3, <2>2
  <2>3. CASE d # c
    BY <1>3, <2>1, <2>3
  <2> QED BY <2>2, <2>3
<1>5. ASSUME NEW m \in Maturity PROVE r.portfolio[h].fCash[m] >= s.portfolio[h].fCash[m]
  BY <1>3, AccountTypes
<1>6. Gains(s, r, h)
  BY <1>4, <1>5 DEF Gains
<1> QED BY <1>3, <1>6, SamePortfolioBetter DEF r

(* Settling another account keeps it so. *)
LEMMA SettleBetter ==
  ASSUME NEW s \in LedgerType, NEW a \in Account, NEW t \in Int, CanSettle(s, a, t), TokensListed(s),
         NEW h \in Account \ {a}
  PROVE  Better(s, Settle(s, a, t), h)
<1> DEFINE r == Settle(s, a, t)
<1>1. /\ r \in LedgerType
      /\ r.cash[ETH][h] = s.cash[ETH][h]
      /\ r.cash[LocalCurrency][h] = s.cash[LocalCurrency][h]
      /\ r.portfolio[h] = s.portfolio[h]
  BY SettleParts
<1> HIDE DEF r
<1>2. ASSUME NEW c \in Currency PROVE r.cash[c][h] >= s.cash[c][h]
  <2>1. s.cash[c][h] \in Int
    BY AccountTypes
  <2> QED BY <1>1, <2>1 DEF Currency
<1>3. \A m \in Maturity : r.portfolio[h].fCash[m] >= s.portfolio[h].fCash[m]
  BY <1>1, AccountTypes
<1>4. Gains(s, r, h)
  BY <1>2, <1>3 DEF Gains
<1> QED BY <1>1, <1>4, SamePortfolioBetter DEF r

(* Of the pools the account supplied before, nothing may change. *)
LEMMA BetterNoWorse ==
  ASSUME HaircutBounded, NEW s \in LedgerType, NEW r \in LedgerType, NEW h \in Account, NEW t \in Int,
         CanValueAccount(s, h, t), CanValueAccount(r, h, t), Better(s, r, h),
         \A m \in s.portfolio[h].listed : r.markets[m] = s.markets[m]
  PROVE  NoWorse(s, t, r, t, h)
<1> DEFINE p == s.portfolio[h]
           q == r.portfolio[h]
<1>1. /\ p \in Portfolio /\ s.markets \in [Maturity -> Market] /\ CanValue(p, s.markets, t)
      /\ q \in Portfolio /\ r.markets \in [Maturity -> Market] /\ CanValue(q, r.markets, t)
  BY AccountParts DEF CanValueAccount
<1>2. /\ \A m \in Maturity : /\ p.fCash[m] \in Int /\ q.fCash[m] \in Int
                             /\ p.token[m] \in Nat /\ q.token[m] \in Nat
                             /\ p.fCash[m] <= q.fCash[m] /\ p.token[m] <= q.token[m]
      /\ p.listed \subseteq q.listed
      /\ \A m \in p.listed : r.markets[m] = s.markets[m]
  BY AccountTypes DEF Better, Gains
<1> HIDE DEF p, q
<1>3. ASSUME NEW m \in Maturity
      PROVE  /\ CashClaim(p, s.markets, m, t) <= CashClaim(q, r.markets, m, t)
             /\ NetfCash(p, s.markets, m, t) <= NetfCash(q, r.markets, m, t)
  <2>1. /\ CashClaim(p, s.markets, m, t) \in Nat /\ CashClaim(q, r.markets, m, t) \in Nat
    BY <1>1, RungInt
  <2>2. CASE m \in p.listed
    <3> DEFINE mk == s.markets[m]
    <3>1. /\ mk.totalLiquidity \in Nat \ {0} /\ mk.totalCurrentCash \in Nat /\ mk.totalfCash \in Nat
          /\ m \in Int /\ m \in q.listed /\ r.markets[m] = mk
      BY <1>1, <1>2, <2>2, MaturityInt DEF CanValue, Market
    <3> HIDE DEF mk
    <3>2. /\ Claim(mk.totalCurrentCash, p.token[m], mk.totalLiquidity, m, t)
               <= Claim(mk.totalCurrentCash, q.token[m], mk.totalLiquidity, m, t)
          /\ Claim(mk.totalfCash, p.token[m], mk.totalLiquidity, m, t)
               <= Claim(mk.totalfCash, q.token[m], mk.totalLiquidity, m, t)
      BY <1>2, <3>1, ClaimMonotone
    <3>3. /\ Claim(mk.totalfCash, p.token[m], mk.totalLiquidity, m, t) \in Int
          /\ Claim(mk.totalfCash, q.token[m], mk.totalLiquidity, m, t) \in Int
      <4>1. /\ Claim(mk.totalfCash, p.token[m], mk.totalLiquidity, m, t) \in Nat
            /\ Claim(mk.totalfCash, q.token[m], mk.totalLiquidity, m, t) \in Nat
        BY <1>2, <3>1, ClaimInt
      <4> QED BY <4>1
    <3>4. /\ CashClaim(p, s.markets, m, t) = Claim(mk.totalCurrentCash, p.token[m], mk.totalLiquidity, m, t)
          /\ CashClaim(q, r.markets, m, t) = Claim(mk.totalCurrentCash, q.token[m], mk.totalLiquidity, m, t)
      BY <2>2, <3>1 DEF CashClaim, mk
    <3>5. /\ NetfCash(p, s.markets, m, t)
               = p.fCash[m] + Claim(mk.totalfCash, p.token[m], mk.totalLiquidity, m, t)
          /\ NetfCash(q, r.markets, m, t)
               = q.fCash[m] + Claim(mk.totalfCash, q.token[m], mk.totalLiquidity, m, t)
      BY <2>2, <3>1 DEF NetfCash, mk
    <3> QED BY <1>2, <3>2, <3>3, <3>4, <3>5
  <2>3. CASE m \notin p.listed
    <3>1. CashClaim(p, s.markets, m, t) = 0
      BY <2>3 DEF CashClaim
    <3>2. NetfCash(p, s.markets, m, t) = p.fCash[m]
      BY <1>2, <2>3 DEF NetfCash
    <3>3. q.fCash[m] <= NetfCash(q, r.markets, m, t)
      <4>1. CASE m \in q.listed
        <5> DEFINE nk == r.markets[m]
                   claim == Claim(nk.totalfCash, q.token[m], nk.totalLiquidity, m, t)
        <5>1. nk.totalLiquidity \in Nat \ {0} /\ nk.totalfCash \in Nat /\ m \in Int
          BY <1>1, <4>1, MaturityInt DEF CanValue, Market
        <5>2. claim \in Nat
          BY <1>2, <5>1, ClaimInt
        <5>3. NetfCash(q, r.markets, m, t) = q.fCash[m] + claim
          BY <4>1 DEF NetfCash
        <5> HIDE DEF claim
        <5> QED BY <1>2, <5>2, <5>3
      <4>2. CASE m \notin q.listed
        BY <1>2, <4>2 DEF NetfCash
      <4> QED BY <4>1, <4>2
    <3>4. NetfCash(q, r.markets, m, t) \in Int
      BY <1>1, RungInt
    <3> QED BY <1>2, <2>1, <3>1, <3>2, <3>3, <3>4
  <2> QED BY <2>2, <2>3
<1>4. \A m \in Maturity : RungValue(p, s.markets, m, t) <= RungValue(q, r.markets, m, t)
  BY <1>1, <1>3, RungMonotone
<1>5. ASSUME NEW c \in Currency PROVE s.cash[c][h] <= r.cash[c][h]
  <2>1. s.cash[c][h] \in Int /\ r.cash[c][h] \in Int /\ r.cash[c][h] >= s.cash[c][h]
    BY AccountTypes DEF Better, Gains
  <2> QED BY <2>1
<1> QED BY <1>3, <1>4, <1>5 DEF NoWorse, p, q

(* A pool that can be valued after a settlement could be before. *)
LEMMA SettleValued ==
  ASSUME NEW s \in LedgerType, NEW a \in Account, NEW t \in Int, CanSettle(s, a, t), TokensListed(s),
         NEW h \in Account \ {a}, CanValueAccount(Settle(s, a, t), h, t)
  PROVE  CanValueAccount(s, h, t)
<1> DEFINE r == Settle(s, a, t)
           p == s.portfolio[h]
<1>1. /\ r \in LedgerType
      /\ r.portfolio[h] = p
      /\ \A m \in Maturity :
           r.markets[m] = IF m \in MaturedTokens(s, a, t)
                            THEN Redeem(s.markets[m], s.portfolio[a].token[m])
                            ELSE s.markets[m]
  BY SettleParts
<1>2. CanValue(p, r.markets, t)
  BY <1>1 DEF CanValueAccount
<1> HIDE DEF r
<1>3. ASSUME NEW m \in p.listed, m \in Maturity PROVE s.markets[m].totalLiquidity > 0
  <2>1. r.markets[m].totalLiquidity > 0
    BY <1>2, <1>3 DEF CanValue
  <2>2. CASE m \in MaturedTokens(s, a, t)
    BY <2>2 DEF CanSettle, CanRedeem
  <2>3. CASE m \notin MaturedTokens(s, a, t)
    BY <1>1, <1>3, <2>1, <2>3
  <2> QED BY <2>2, <2>3
<1>4. CanValue(p, s.markets, t)
  BY <1>2, <1>3 DEF CanValue
<1> QED BY <1>4 DEF CanValueAccount

(* Time only lets go of haircuts. *)
LEMMA TimeNoWorse ==
  ASSUME LIQUIDITY_HAIRCUT <= DECIMALS, NEW s \in LedgerType, NEW h \in Account, NEW t \in Int,
         CanValueAccount(s, h, t), CanValueAccount(s, h, t + 1)
  PROVE  NoWorse(s, t, s, t + 1, h)
<1> DEFINE p == s.portfolio[h]
           u == t + 1
<1>1. /\ p \in Portfolio /\ s.markets \in [Maturity -> Market]
      /\ CanValue(p, s.markets, t) /\ CanValue(p, s.markets, u) /\ u \in Int /\ t <= u
  BY AccountParts DEF CanValueAccount
<1>2. \A m \in Maturity : p.fCash[m] \in Int /\ p.token[m] \in Nat
  BY AccountTypes
<1>u. \A m \in Int : t < m => u <= m
  OBVIOUS
<1> HIDE DEF p, u
<1>3. ASSUME NEW m \in Maturity
      PROVE  /\ CashClaim(p, s.markets, m, t) <= CashClaim(p, s.markets, m, u)
             /\ RungValue(p, s.markets, m, t) <= RungValue(p, s.markets, m, u)
  <2> DEFINE mk == s.markets[m]
             x == NetfCash(p, s.markets, m, t)
             y == NetfCash(p, s.markets, m, u)
  <2>1. /\ mk.totalLiquidity \in Nat /\ mk.totalCurrentCash \in Nat /\ mk.totalfCash \in Nat
        /\ m \in Int
    BY <1>1, MaturityInt DEF Market
  <2>2. /\ CashClaim(p, s.markets, m, t) <= CashClaim(p, s.markets, m, u)
        /\ x <= y
    <3>1. CASE m \in p.listed
      <4>1. mk.totalLiquidity \in Nat \ {0}
        BY <1>1, <2>1, <3>1 DEF CanValue
      <4> HIDE DEF mk
      <4>2. /\ Claim(mk.totalCurrentCash, p.token[m], mk.totalLiquidity, m, t)
                 <= Claim(mk.totalCurrentCash, p.token[m], mk.totalLiquidity, m, u)
            /\ Claim(mk.totalfCash, p.token[m], mk.totalLiquidity, m, t)
                 <= Claim(mk.totalfCash, p.token[m], mk.totalLiquidity, m, u)
        BY <1>1, <1>2, <2>1, <4>1, ClaimGrows
      <4>3. /\ Claim(mk.totalfCash, p.token[m], mk.totalLiquidity, m, t) \in Nat
            /\ Claim(mk.totalfCash, p.token[m], mk.totalLiquidity, m, u) \in Nat
        BY <1>1, <1>2, <2>1, <4>1, ClaimInt
      <4>4. /\ CashClaim(p, s.markets, m, t) = Claim(mk.totalCurrentCash, p.token[m], mk.totalLiquidity, m, t)
            /\ CashClaim(p, s.markets, m, u) = Claim(mk.totalCurrentCash, p.token[m], mk.totalLiquidity, m, u)
            /\ x = p.fCash[m] + Claim(mk.totalfCash, p.token[m], mk.totalLiquidity, m, t)
            /\ y = p.fCash[m] + Claim(mk.totalfCash, p.token[m], mk.totalLiquidity, m, u)
        BY <3>1 DEF CashClaim, NetfCash, mk
      <4> HIDE DEF x, y
      <4> QED BY <1>2, <4>2, <4>3, <4>4
    <3>2. CASE m \notin p.listed
      BY <1>2, <3>2 DEF CashClaim, NetfCash
    <3> QED BY <3>1, <3>2
  <2>3. /\ x \in Int /\ y \in Int
        /\ RungValue(p, s.markets, m, t) = IF t < m /\ x > 0 THEN ReceiverValue(x, m, t) ELSE x
        /\ RungValue(p, s.markets, m, u) = IF u < m /\ y > 0 THEN ReceiverValue(y, m, u) ELSE y
    BY <1>1, RungInt DEF RungValue
  <2>4. u < m => x = y
    <3> SUFFICES ASSUME u < m PROVE x = y
      OBVIOUS
    <3>1. t < m
      BY <1>1, <2>1
    <3> QED BY <3>1 DEF NetfCash, Claim
  <2> HIDE DEF x, y
  <2>5. t < m /\ x > 0 => /\ ReceiverValue(x, m, t) <= ReceiverValue(x, m, u)
                          /\ ReceiverValue(x, m, t) <= x
    <3> SUFFICES ASSUME t < m, x > 0
                 PROVE  /\ ReceiverValue(x, m, t) <= ReceiverValue(x, m, u)
                        /\ ReceiverValue(x, m, t) <= x
      OBVIOUS
    <3>1. x \in Nat /\ u <= m
      BY <1>u, <2>1, <2>3
    <3> QED BY <1>1, <2>1, <3>1, ReceiverValueGrows
  <2>6. ReceiverValue(x, m, t) \in Int
    BY <1>1, <2>1, <2>3, ReceiverValueInt
  <2>7. RungValue(p, s.markets, m, t) <= RungValue(p, s.markets, m, u)
    <3>1. CASE u < m
      <4>1. t < m /\ x = y
        BY <1>1, <2>1, <2>4, <3>1
      <4> QED BY <2>3, <2>5, <3>1, <4>1
    <3>2. CASE ~(u < m)
      BY <2>2, <2>3, <2>5, <2>6, <3>2
    <3> QED BY <3>1, <3>2
  <2> QED BY <2>2, <2>7
<1>4. \A c \in Currency : s.cash[c][h] <= s.cash[c][h]
  BY AccountTypes
<1>5. NoWorse(s, t, s, u, h)
  BY <1>3, <1>4 DEF NoWorse, p
<1> QED BY <1>5 DEF u

(* An account without debts has collateral. *)
LEMMA InCreditFC ==
  ASSUME HaircutBounded, NEW s \in LedgerType, NEW h \in Account, NEW t \in Int, CanValueAccount(s, h, t),
         InCredit(s, h), NEW price \in Nat
  PROVE  AccountFC(s, h, t, price) >= 0
<1> DEFINE p == s.portfolio[h]
           f == [m \in Maturity |-> CashClaim(p, s.markets, m, t) + RungValue(p, s.markets, m, t)]
           v == PortfolioValue(p, s.markets, t)
           x == s.cash[LocalCurrency][h] + v
           y == s.cash[ETH][h]
<1>1. /\ p \in Portfolio /\ s.markets \in [Maturity -> Market] /\ CanValue(p, s.markets, t)
      /\ ETH \in Currency /\ LocalCurrency \in Currency
      /\ s.cash[LocalCurrency][h] \in Int /\ s.cash[ETH][h] \in Int
  BY AccountParts DEF CanValueAccount
<1>2. /\ \A m \in Maturity : p.fCash[m] \in Int /\ p.fCash[m] >= 0 /\ p.token[m] \in Nat
      /\ s.cash[LocalCurrency][h] >= 0 /\ s.cash[ETH][h] >= 0
  BY <1>1, AccountTypes DEF InCredit
<1>3. /\ AccountFC(s, h, t, price) = ETHValue(ETH, y, price) + ETHValue(LocalCurrency, x, price)
      /\ v \in Int
  BY AccountFCParts
<1> HIDE DEF p
<1>4. ASSUME NEW m \in Maturity PROVE f[m] \in Nat
  <2> DEFINE net == NetfCash(p, s.markets, m, t)
  <2>1. CashClaim(p, s.markets, m, t) \in Nat /\ RungValue(p, s.markets, m, t) \in Int /\ net \in Int
    BY <1>1, RungInt
  <2>2. net >= 0
    <3>1. CASE m \in p.listed
      <4> DEFINE mk == s.markets[m]
                 claim == Claim(mk.totalfCash, p.token[m], mk.totalLiquidity, m, t)
      <4>1. mk.totalLiquidity \in Nat \ {0} /\ mk.totalfCash \in Nat /\ m \in Int
        BY <1>1, <3>1, MaturityInt DEF CanValue, Market
      <4>2. claim \in Nat
        BY <1>2, <4>1, ClaimInt
      <4>3. net = p.fCash[m] + claim
        BY <3>1 DEF NetfCash
      <4> HIDE DEF claim, net
      <4> QED BY <1>2, <4>2, <4>3
    <3>2. CASE m \notin p.listed
      BY <1>2, <3>2 DEF NetfCash
    <3> QED BY <3>1, <3>2
  <2>3. RungValue(p, s.markets, m, t) >= 0
    <3>1. CASE t < m /\ net > 0
      <4>1. /\ net \in Nat /\ m \in Int /\ t <= m
            /\ FCASH_HAIRCUT * (m - t) <= SECONDS_IN_YEAR * DECIMALS
        BY <1>1, <3>1, PositiveRung
      <4>2. RungValue(p, s.markets, m, t) = ReceiverValue(net, m, t)
        BY <3>1 DEF RungValue
      <4> HIDE DEF net
      <4>3. net <= net
        BY <4>1
      <4>4. 0 <= ReceiverValue(net, m, t)
        BY <4>1, <4>3, ReceiverValueMonotone
      <4> QED BY <2>1, <4>2, <4>4
    <3>2. CASE ~(t < m /\ net > 0)
      BY <2>2, <3>2 DEF RungValue
    <3> QED BY <3>1, <3>2
  <2> QED BY <2>1, <2>3
<1>5. v >= 0
  <2>1. v = SumFunction(f)
    BY DEF PortfolioValue
  <2>2. f \in [Maturity -> Nat]
    BY <1>4
  <2> HIDE DEF f, v
  <2>3. SumFunction(f) >= 0
    BY <2>2, SumNonnegative, MaturityInt
  <2> QED BY <2>1, <2>3
<1>6. x \in Int /\ x >= 0 /\ y \in Int /\ y >= 0
  <2> HIDE DEF v
  <2> QED BY <1>1, <1>2, <1>3, <1>5
<1> HIDE DEF x, y
<1>7. /\ ETHValue(ETH, y, price) \in Int /\ ETHValue(ETH, y, price) >= 0
      /\ ETHValue(LocalCurrency, x, price) \in Int /\ ETHValue(LocalCurrency, x, price) >= 0
  BY <1>1, <1>6, ETHValueInt
<1> QED BY <1>3, <1>7
=============================================================================
