------------------------ MODULE LiquidationsProofs ------------------------
(***************************************************************************)
(* Theorems about Liquidations: the books of both cash groups stay in      *)
(* order through settlements, liquidations and purchases of fCash.  What   *)
(* LedgerProofs says of a ledger with one cash group is used for each of   *)
(* the two, seen as the one group of a ledger.                             *)
(***************************************************************************)
EXTENDS Liquidations, LedgerProofs

(* The ledger as the cash group of c sees it: c in the place of LocalCurrency. *)
Other(c) == IF c = LocalCurrency THEN ETH ELSE LocalCurrency
Seen(c, d) == IF d = LocalCurrency THEN c ELSE Other(c)

View(s, c) == [cash      |-> [d \in Currency |-> s.cash[Seen(c, d)]],
               held      |-> [d \in Currency |-> s.held[Seen(c, d)]],
               portfolio |-> s.portfolio[c],
               markets   |-> s.markets[c]]

(* The inductive invariant, of a ledger: each group is sound. *)
Books(s, t) == s \in LedgersType /\ \A c \in Currency : Sound(View(s, c), t)

(* What the Escrow owes in c and does not hold. *)
Gap(s, c) == SumFunction(s.cash[c]) + Unset(View(s, c)) - s.held[c]

LEMMA CurrencyFacts ==
  /\ LocalCurrency \in Currency /\ ETH \in Currency
  /\ \A c \in Currency : c = LocalCurrency \/ c = ETH
  /\ \A c \in Currency : Other(c) \in Currency /\ Other(c) # c
  /\ \A c, d \in Currency : Seen(c, d) \in Currency
  /\ \A c \in Currency : Seen(c, LocalCurrency) = c
  /\ \A d \in Currency : Seen(LocalCurrency, d) = d
BY RiskAssumption DEF Currency, Other, Seen

LEMMA ViewType ==
  ASSUME NEW s \in LedgersType, NEW c \in Currency
  PROVE  /\ View(s, c) \in LedgerType
         /\ View(s, c).cash[LocalCurrency] = s.cash[c]
         /\ View(s, c).held[LocalCurrency] = s.held[c]
         /\ View(s, c).portfolio = s.portfolio[c]
         /\ View(s, c).markets = s.markets[c]
<1>1. /\ s.cash \in [Currency -> [Holder -> Int]] /\ s.held \in [Currency -> Nat]
      /\ s.portfolio[c] \in [Account -> Portfolio] /\ s.markets[c] \in [Maturity -> Market]
  BY DEF LedgersType
<1>2. /\ [d \in Currency |-> s.cash[Seen(c, d)]] \in [Currency -> [Holder -> Int]]
      /\ [d \in Currency |-> s.held[Seen(c, d)]] \in [Currency -> Nat]
  BY <1>1, CurrencyFacts
<1> QED BY <1>1, <1>2, CurrencyFacts DEF View, LedgerType

LEMMA GapInt ==
  ASSUME NEW s \in LedgersType, NEW c \in Currency
  PROVE  /\ SumFunction(s.cash[c]) \in Int
         /\ Unset(View(s, c)) \in Int
         /\ s.held[c] \in Nat
         /\ Gap(s, c) \in Int
<1>1. /\ View(s, c) \in LedgerType /\ View(s, c).cash[LocalCurrency] = s.cash[c]
  BY ViewType
<1>2. SumFunction(s.cash[c]) \in Int
  BY <1>1, TotalsInt, CurrencyFacts
<1>3. Unset(View(s, c)) \in Int
  BY <1>1, UnsetInt
<1>4. s.held[c] \in Nat
  BY DEF LedgersType
<1> QED BY <1>2, <1>3, <1>4 DEF Gap

-----------------------------------------------------------------------------
(* Settlement of both groups.                                              *)

(* The operators of the second cash group are those of the first. *)
LEMMA WethSum ==
  ASSUME NEW f
  PROVE  WethGroup!SumFunction(f) = SumFunction(f)
BY DEF WethGroup!SumFunction, SumFunction, WethGroup!SumFunctionOnSet, SumFunctionOnSet,
       WethGroup!FoldFunctionOnSet, FoldFunctionOnSet, WethGroup!MapThenFoldSet, MapThenFoldSet

LEMMA WethShares ==
  ASSUME NEW mk, NEW tokens
  PROVE  /\ WethGroup!CashShare(mk, tokens) = CashShare(mk, tokens)
         /\ WethGroup!fCashShare(mk, tokens) = fCashShare(mk, tokens)
         /\ WethGroup!CanRedeem(mk, tokens) = CanRedeem(mk, tokens)
         /\ WethGroup!Redeem(mk, tokens) = Redeem(mk, tokens)
BY DEF WethGroup!CashShare, CashShare, WethGroup!fCashShare, fCashShare, WethGroup!CanRedeem, CanRedeem,
       WethGroup!Redeem, Redeem, WethGroup!Share, Share

LEMMA WethSettledAmounts ==
  ASSUME NEW g, NEW a, NEW t
  PROVE  /\ WethGroup!MaturedTokens(g, a, t) = MaturedTokens(g, a, t)
         /\ WethGroup!RedeemedCash(g, a, t) = RedeemedCash(g, a, t)
         /\ WethGroup!SettledCash(g, a, t) = SettledCash(g, a, t)
<1>1. WethGroup!MaturedTokens(g, a, t) = MaturedTokens(g, a, t)
  BY DEF WethGroup!MaturedTokens, MaturedTokens
<1>2. \A m \in Maturity : /\ WethGroup!RedeemedAt(g, a, t, m) = RedeemedAt(g, a, t, m)
                          /\ WethGroup!SettledAt(g, a, t, m) = SettledAt(g, a, t, m)
  BY <1>1, WethShares DEF WethGroup!RedeemedAt, RedeemedAt, WethGroup!SettledAt, SettledAt
<1>3. /\ [m \in Maturity |-> WethGroup!RedeemedAt(g, a, t, m)] = [m \in Maturity |-> RedeemedAt(g, a, t, m)]
      /\ [m \in Maturity |-> WethGroup!SettledAt(g, a, t, m)] = [m \in Maturity |-> SettledAt(g, a, t, m)]
  BY <1>2
<1>4. WethGroup!RedeemedCash(g, a, t) = RedeemedCash(g, a, t)
  BY <1>3, WethSum DEF WethGroup!RedeemedCash, RedeemedCash
<1>5. WethGroup!SettledCash(g, a, t) = SettledCash(g, a, t)
  BY <1>3, WethSum DEF WethGroup!SettledCash, SettledCash
<1> QED BY <1>1, <1>4, <1>5

(* Settling the group of c, of a ledger with two of them. *)
SettleIn(s, c, a, t) ==
  LET settled == Settle(View(s, c), a, t)
  IN  [cash      |-> [s.cash EXCEPT ![c] = settled.cash[LocalCurrency]],
       held      |-> s.held,
       portfolio |-> [s.portfolio EXCEPT ![c] = settled.portfolio],
       markets   |-> [s.markets EXCEPT ![c] = settled.markets]]

LEMMA ViewLocal ==
  ASSUME NEW s \in LedgersType
  PROVE  GroupOf(s, LocalCurrency) = View(s, LocalCurrency)
<1>2. /\ s.cash = [d \in Currency |-> s.cash[d]]
      /\ s.held = [d \in Currency |-> s.held[d]]
  BY DEF LedgersType
<1>3. /\ [d \in Currency |-> s.cash[Seen(LocalCurrency, d)]] = [d \in Currency |-> s.cash[d]]
      /\ [d \in Currency |-> s.held[Seen(LocalCurrency, d)]] = [d \in Currency |-> s.held[d]]
  BY CurrencyFacts
<1> QED BY <1>2, <1>3 DEF View, GroupOf

(* What settlement pays depends on nothing but the group's assets and pools. *)
LEMMA AmountsOfGroup ==
  ASSUME NEW g, NEW v, g.portfolio = v.portfolio, g.markets = v.markets, NEW a, NEW t
  PROVE  /\ MaturedTokens(g, a, t) = MaturedTokens(v, a, t)
         /\ RedeemedCash(g, a, t) = RedeemedCash(v, a, t)
         /\ SettledCash(g, a, t) = SettledCash(v, a, t)
<1>1. MaturedTokens(g, a, t) = MaturedTokens(v, a, t)
  BY DEF MaturedTokens
<1>2. \A m \in Maturity : /\ RedeemedAt(g, a, t, m) = RedeemedAt(v, a, t, m)
                          /\ SettledAt(g, a, t, m) = SettledAt(v, a, t, m)
  BY <1>1 DEF RedeemedAt, SettledAt
<1>3. /\ [m \in Maturity |-> RedeemedAt(g, a, t, m)] = [m \in Maturity |-> RedeemedAt(v, a, t, m)]
      /\ [m \in Maturity |-> SettledAt(g, a, t, m)] = [m \in Maturity |-> SettledAt(v, a, t, m)]
  BY <1>2
<1> QED BY <1>1, <1>3 DEF RedeemedCash, SettledCash

LEMMA SettleGroupsInOrder ==
  ASSUME NEW s \in LedgersType, NEW a \in Account, NEW t \in Int,
         SettleIn(s, LocalCurrency, a, t) \in LedgersType
  PROVE  SettleGroups(s, a, t) = SettleIn(SettleIn(s, LocalCurrency, a, t), ETH, a, t)
<1> DEFINE u == SettleIn(s, LocalCurrency, a, t)
           g == GroupOf(u, ETH)
           v == View(u, ETH)
           first == Settle(View(s, LocalCurrency), a, t)
           second == Settle(v, a, t)
<1>1. LocalCurrency \in Currency /\ ETH \in Currency /\ ETH # LocalCurrency
  BY CurrencyFacts, RiskAssumption
<1>2. WithGroup(s, LocalCurrency, first) = u
  <2>1. View(s, LocalCurrency).cash = s.cash /\ View(s, LocalCurrency).held = s.held
    BY CurrencyFacts DEF View, LedgersType
  <2>2. first.cash = [s.cash EXCEPT ![LocalCurrency] = first.cash[LocalCurrency]]
    BY <1>1, <2>1 DEF Settle, LedgersType
  <2>3. first.held = s.held
    BY <2>1 DEF Settle
  <2> HIDE DEF first
  <2> QED BY <2>2, <2>3 DEF SettleIn, first, WithGroup
<1>3. /\ u.cash \in [Currency -> [Holder -> Int]]
      /\ u = [cash |-> u.cash, held |-> u.held, portfolio |-> u.portfolio, markets |-> u.markets]
  BY DEF LedgersType
<1> HIDE DEF u
<1>4. /\ g.cash = u.cash /\ g.held = u.held /\ g.portfolio = u.portfolio[ETH] /\ g.markets = u.markets[ETH]
      /\ v.portfolio = u.portfolio[ETH] /\ v.markets = u.markets[ETH]
      /\ v.cash[LocalCurrency] = u.cash[ETH]
  BY <1>1, <1>3, CurrencyFacts DEF GroupOf, View
<1> HIDE DEF g, v
<1>5. /\ WethGroup!RedeemedCash(g, a, t) = RedeemedCash(v, a, t)
      /\ WethGroup!SettledCash(g, a, t) = SettledCash(v, a, t)
      /\ WethGroup!MaturedTokens(g, a, t) = MaturedTokens(v, a, t)
  BY <1>4, AmountsOfGroup, WethSettledAmounts
<1>6. WethGroup!Settle(g, a, t)
        = [cash |-> [u.cash EXCEPT ![ETH] = second.cash[LocalCurrency]],
           held |-> u.held, portfolio |-> second.portfolio, markets |-> second.markets]
  <2>1. WethGroup!Unmatured(u.portfolio[ETH][a], t) = Unmatured(u.portfolio[ETH][a], t)
    BY DEF WethGroup!Unmatured, Unmatured
  <2>2. \A m \in Maturity : WethGroup!Redeem(g.markets[m], g.portfolio[a].token[m])
                              = Redeem(v.markets[m], v.portfolio[a].token[m])
    BY <1>4, WethShares
  <2>3. second.portfolio = [u.portfolio[ETH] EXCEPT ![a] = Unmatured(@, t)]
    BY <1>4 DEF Settle
  <2>4. WethGroup!Settle(g, a, t).portfolio = second.portfolio
    BY <1>4, <2>1, <2>3 DEF WethGroup!Settle
  <2>5. WethGroup!Settle(g, a, t).markets = second.markets
    BY <1>4, <1>5, <2>2 DEF WethGroup!Settle, Settle
  <2>6. WethGroup!Settle(g, a, t).held = u.held
    BY <1>4 DEF WethGroup!Settle
  <2>7. WethGroup!Settle(g, a, t).cash = [u.cash EXCEPT ![ETH] = second.cash[LocalCurrency]]
    <3>0. v.cash = [d \in Currency |-> v.cash[d]]
      BY DEF View, v
    <3>1. second.cash[LocalCurrency]
            = Credit(Credit(u.cash[ETH], CASH_MARKET, -RedeemedCash(v, a, t)),
                     a, RedeemedCash(v, a, t) + SettledCash(v, a, t))
      BY <1>1, <1>4, <3>0 DEF Settle
    <3>2. \A b, h, n : WethGroup!Credit(b, h, n) = Credit(b, h, n)
      BY DEF WethGroup!Credit, Credit
    <3>3. WethGroup!Settle(g, a, t).cash
            = [u.cash EXCEPT ![ETH] =
                 Credit(Credit(u.cash[ETH], CASH_MARKET, -RedeemedCash(v, a, t)),
                        a, RedeemedCash(v, a, t) + SettledCash(v, a, t))]
      BY <1>4, <1>5, <3>2 DEF WethGroup!Settle
    <3> QED BY <3>1, <3>3
  <2> HIDE DEF second
  <2>8. WethGroup!Settle(g, a, t)
          = [cash |-> WethGroup!Settle(g, a, t).cash, held |-> WethGroup!Settle(g, a, t).held,
             portfolio |-> WethGroup!Settle(g, a, t).portfolio,
             markets |-> WethGroup!Settle(g, a, t).markets]
    BY DEF WethGroup!Settle
  <2> QED BY <2>4, <2>5, <2>6, <2>7, <2>8
<1>7. GroupOf(s, LocalCurrency) = View(s, LocalCurrency)
  BY ViewLocal
<1>8. SettleGroups(s, a, t) = WithGroup(u, ETH, WethGroup!Settle(g, a, t))
  BY <1>2, <1>7 DEF SettleGroups, g, first
<1>9. SettleIn(u, ETH, a, t)
        = [cash |-> [u.cash EXCEPT ![ETH] = second.cash[LocalCurrency]], held |-> u.held,
           portfolio |-> [u.portfolio EXCEPT ![ETH] = second.portfolio],
           markets |-> [u.markets EXCEPT ![ETH] = second.markets]]
  BY DEF SettleIn, v
<1> HIDE DEF second
<1>10. WithGroup(u, ETH, WethGroup!Settle(g, a, t)) = SettleIn(u, ETH, a, t)
  BY <1>6, <1>9 DEF WithGroup
<1> QED BY <1>8, <1>10 DEF u

(* A change that does not touch a group's assets, pools or market balance. *)
LEMMA GroupUntouched ==
  ASSUME NEW s \in LedgerType, NEW r \in LedgerType, r.portfolio = s.portfolio, r.markets = s.markets,
         r.cash[LocalCurrency][CASH_MARKET] = s.cash[LocalCurrency][CASH_MARKET]
  PROVE  Kept(s, r)
<1>1. /\ PoolCash(s) \in Int
      /\ \A m \in Maturity : TokensOf(s, m) \in Int /\ fCashOf(s, m) \in Int
  BY TotalsInt
<1>2. /\ PoolCash(r) = PoolCash(s)
      /\ \A m \in Maturity : TokensOf(r, m) = TokensOf(s, m) /\ fCashOf(r, m) = fCashOf(s, m)
      /\ TokensListed(s) => TokensListed(r)
  BY DEF PoolCash, TokensOf, fCashOf, TokensListed
<1> QED BY <1>1, <1>2 DEF Kept

(* Kept leaves as much to settle as before. *)
LEMMA KeptUnset ==
  ASSUME NEW s, NEW r, Kept(s, r)
  PROVE  Unset(r) = Unset(s)
<1>1. [m \in Maturity |-> fCashOf(r, m) + r.markets[m].totalfCash]
        = [m \in Maturity |-> fCashOf(s, m) + s.markets[m].totalfCash]
  BY DEF Kept
<1> QED BY <1>1 DEF Unset

(* The settlement of one group keeps the books of both. *)
LEMMA SettleInBooks ==
  ASSUME NEW s, NEW c \in Currency, NEW a \in Account, NEW t \in Int, Books(s, t),
         CanSettle(View(s, c), a, t)
  PROVE  /\ Books(SettleIn(s, c, a, t), t)
         /\ SettleIn(s, c, a, t).held = s.held
         /\ \A d \in Currency : Gap(SettleIn(s, c, a, t), d) = Gap(s, d)
         /\ \A d \in Currency \ {c} : /\ SettleIn(s, c, a, t).portfolio[d] = s.portfolio[d]
                                      /\ SettleIn(s, c, a, t).markets[d] = s.markets[d]
                                      /\ SettleIn(s, c, a, t).cash[d] = s.cash[d]
<1> DEFINE r == SettleIn(s, c, a, t)
           v == View(s, c)
           settled == Settle(v, a, t)
<1>1. s \in LedgersType /\ v \in LedgerType /\ Sound(v, t) /\ TokensListed(v)
  BY ViewType DEF Books, Sound
<1>2. /\ s.cash \in [Currency -> [Holder -> Int]] /\ s.held \in [Currency -> Nat]
      /\ s.portfolio \in [Currency -> [Account -> Portfolio]]
      /\ s.markets \in [Currency -> [Maturity -> Market]]
  BY <1>1 DEF LedgersType
<1>3. /\ settled \in LedgerType /\ Sound(settled, t)
      /\ SumFunction(settled.cash[LocalCurrency]) = SumFunction(v.cash[LocalCurrency]) + SettledCash(v, a, t)
      /\ Unset(settled) = Unset(v) - SettledCash(v, a, t)
      /\ SettledCash(v, a, t) \in Int
  BY <1>1, SettleSound, SettleEffect, SettleUnset, SettledAmounts, CurrencyFacts
<1>4. /\ settled.cash[LocalCurrency] \in [Holder -> Int]
      /\ settled.portfolio \in [Account -> Portfolio] /\ settled.markets \in [Maturity -> Market]
  BY <1>3, CurrencyFacts DEF LedgerType
<1>5. /\ settled.held = v.held
      /\ settled = [cash |-> settled.cash, held |-> settled.held, portfolio |-> settled.portfolio,
                    markets |-> settled.markets]
      /\ \A d \in Currency \ {LocalCurrency} : settled.cash[d] = v.cash[d]
      /\ settled.cash = [d \in Currency |-> settled.cash[d]]
  <2>1. v.cash = [d \in Currency |-> v.cash[d]]
    BY <1>1 DEF LedgerType
  <2> HIDE DEF v
  <2> QED BY <2>1 DEF Settle
<1> HIDE DEF settled
<1>6. /\ r \in LedgersType
      /\ r.held = s.held
      /\ r.cash[c] = settled.cash[LocalCurrency]
      /\ r.portfolio[c] = settled.portfolio /\ r.markets[c] = settled.markets
      /\ \A d \in Currency \ {c} : /\ r.cash[d] = s.cash[d] /\ r.portfolio[d] = s.portfolio[d]
                                   /\ r.markets[d] = s.markets[d]
  BY <1>2, <1>4 DEF SettleIn, LedgersType, settled, v
<1> HIDE DEF r
<1>7. View(r, c) = settled
  <2>1. \A d \in Currency : r.cash[Seen(c, d)] = settled.cash[d]
    <3> TAKE d \in Currency
    <3>1. CASE d = LocalCurrency
      BY <3>1, <1>6, CurrencyFacts
    <3>2. CASE d # LocalCurrency
      BY <3>2, <1>5, <1>6, CurrencyFacts DEF v, View, Seen
    <3> QED BY <3>1, <3>2
  <2>2. [d \in Currency |-> r.held[Seen(c, d)]] = settled.held
    BY <1>5, <1>6 DEF v, View
  <2>3. [d \in Currency |-> r.cash[Seen(c, d)]] = settled.cash
    BY <2>1, <1>5
  <2> QED BY <2>2, <2>3, <1>5, <1>6 DEF View
<1>8. ASSUME NEW d \in Currency, d # c
      PROVE  Kept(View(s, d), View(r, d))
  BY <1>1, <1>6, <1>8, ViewType, GroupUntouched
<1>9. Books(r, t)
  BY <1>1, <1>3, <1>6, <1>7, <1>8, KeptSound DEF Books
<1>10. \A d \in Currency : Gap(r, d) = Gap(s, d)
  <2> TAKE d \in Currency
  <2>1. CASE d = c
    <3>1. Gap(r, c) = SumFunction(settled.cash[LocalCurrency]) + Unset(settled) - s.held[c]
      BY <1>6, <1>7 DEF Gap
    <3>2. Gap(s, c) = SumFunction(v.cash[LocalCurrency]) + Unset(v) - s.held[c]
      BY <1>1, ViewType DEF Gap, v
    <3> QED BY <2>1, <3>1, <3>2, <1>1, <1>3, GapInt, ViewType DEF v
  <2>2. CASE d # c
    BY <2>2, <1>6, <1>8, KeptUnset DEF Gap
  <2> QED BY <2>1, <2>2
<1> QED BY <1>6, <1>9, <1>10 DEF r

LEMMA SettleGroupsSteps ==
  ASSUME NEW s, NEW a \in Account, NEW t \in Int, Books(s, t), CanSettleGroups(s, a, t)
  PROVE  /\ CanSettle(View(s, LocalCurrency), a, t)
         /\ CanSettle(View(SettleIn(s, LocalCurrency, a, t), ETH), a, t)
         /\ SettleGroups(s, a, t) = SettleIn(SettleIn(s, LocalCurrency, a, t), ETH, a, t)
<1> DEFINE u == SettleIn(s, LocalCurrency, a, t)
           g == GroupOf(s, ETH)
           v == View(u, ETH)
<1>1. s \in LedgersType /\ LocalCurrency \in Currency /\ ETH \in Currency \ {LocalCurrency}
  BY RiskAssumption, CurrencyFacts DEF Books
<1>2. CanSettle(View(s, LocalCurrency), a, t)
  BY <1>1, ViewLocal DEF CanSettleGroups
<1>3. /\ Books(u, t) /\ u.held = s.held
      /\ \A c \in Currency : Gap(u, c) = Gap(s, c)
      /\ u.portfolio[ETH] = s.portfolio[ETH] /\ u.markets[ETH] = s.markets[ETH]
      /\ u.cash[ETH] = s.cash[ETH]
  BY <1>1, <1>2, SettleInBooks
<1> HIDE DEF u
<1>4. u \in LedgersType
  BY <1>3 DEF Books
<1>5. /\ g.portfolio = v.portfolio /\ g.markets = v.markets
      /\ g.cash[ETH] = v.cash[LocalCurrency]
  BY <1>1, <1>3, <1>4, ViewType DEF GroupOf
<1>6. CanSettle(v, a, t)
  <2>1. WethGroup!CanSettle(g, a, t)
    BY DEF CanSettleGroups
  <2>2. /\ WethGroup!MaturedTokens(g, a, t) = MaturedTokens(v, a, t)
        /\ WethGroup!RedeemedCash(g, a, t) = RedeemedCash(v, a, t)
    BY <1>5, AmountsOfGroup, WethSettledAmounts
  <2> HIDE DEF g, v
  <2> QED BY <1>5, <2>1, <2>2, WethShares DEF WethGroup!CanSettle, CanSettle
<1>7. SettleGroups(s, a, t) = SettleIn(u, ETH, a, t)
  BY <1>1, <1>4, SettleGroupsInOrder DEF u
<1> QED BY <1>2, <1>6, <1>7 DEF u

LEMMA SettleGroupsBooks ==
  ASSUME NEW s, NEW a \in Account, NEW t \in Int, Books(s, t), CanSettleGroups(s, a, t)
  PROVE  /\ Books(SettleGroups(s, a, t), t)
         /\ SettleGroups(s, a, t).held = s.held
         /\ \A c \in Currency : Gap(SettleGroups(s, a, t), c) = Gap(s, c)
<1> DEFINE u == SettleIn(s, LocalCurrency, a, t)
<1>1. /\ CanSettle(View(s, LocalCurrency), a, t) /\ CanSettle(View(u, ETH), a, t)
      /\ SettleGroups(s, a, t) = SettleIn(u, ETH, a, t)
  BY SettleGroupsSteps
<1>2. /\ Books(u, t) /\ u.held = s.held
      /\ \A c \in Currency : Gap(u, c) = Gap(s, c)
  BY <1>1, CurrencyFacts, SettleInBooks
<1> HIDE DEF u
<1> QED BY <1>1, <1>2, CurrencyFacts, SettleInBooks

-----------------------------------------------------------------------------
(* Changes that leave both groups in the relation of Kept.                 *)

KeptGroups(s, r) == r \in LedgersType /\ \A c \in Currency : Kept(View(s, c), View(r, c))

LEMMA KeptGroupsBooks ==
  ASSUME NEW s, NEW r, NEW t, Books(s, t), KeptGroups(s, r)
  PROVE  Books(r, t)
BY KeptSound DEF Books, KeptGroups

LEMMA KeptGroupsUnset ==
  ASSUME NEW s, NEW r, NEW c \in Currency, KeptGroups(s, r)
  PROVE  Unset(View(r, c)) = Unset(View(s, c))
BY KeptUnset DEF KeptGroups

LEMMA KeptTransitive ==
  ASSUME NEW s \in LedgerType, NEW u, NEW r, Kept(s, u), Kept(u, r)
  PROVE  Kept(s, r)
<1> DEFINE Number(x) == /\ x.cash[LocalCurrency][CASH_MARKET] \in Int
                        /\ PoolCash(x) \in Int
                        /\ \A m \in Maturity : /\ TokensOf(x, m) \in Int
                                               /\ fCashOf(x, m) \in Int
                                               /\ x.markets[m].totalLiquidity \in Nat
                                               /\ x.markets[m].totalfCash \in Nat
<1>1. u \in LedgerType /\ r \in LedgerType
  BY DEF Kept
<1>2. \A x \in LedgerType : Number(x)
  <2> TAKE x \in LedgerType
  <2>1. x.cash[LocalCurrency][CASH_MARKET] \in Int
    BY CurrencyFacts DEF LedgerType, Holder
  <2> QED BY <2>1, TotalsInt, PoolTotals
<1>3. Number(s) /\ Number(u) /\ Number(r)
  BY <1>1, <1>2
<1> QED BY <1>3 DEF Kept

LEMMA KeptGroupsTransitive ==
  ASSUME NEW s \in LedgersType, NEW u, NEW r, KeptGroups(s, u), KeptGroups(u, r)
  PROVE  KeptGroups(s, r)
BY KeptTransitive, ViewType DEF KeptGroups

(* A change of cash that leaves the balances of the market contracts alone. *)
LEMMA CashOnly ==
  ASSUME NEW s \in LedgersType, NEW r \in LedgersType, r.portfolio = s.portfolio, r.markets = s.markets,
         \A c \in Currency : r.cash[c][CASH_MARKET] = s.cash[c][CASH_MARKET]
  PROVE  KeptGroups(s, r)
BY GroupUntouched, ViewType DEF KeptGroups

LEMMA KeptGroupsReflexive ==
  ASSUME NEW s \in LedgersType
  PROVE  KeptGroups(s, s)
BY CashOnly

LEMMA LedgersParts ==
  ASSUME NEW s \in LedgersType
  PROVE  /\ s = [cash |-> s.cash, held |-> s.held, portfolio |-> s.portfolio, markets |-> s.markets]
         /\ s.cash \in [Currency -> [Holder -> Int]] /\ s.held \in [Currency -> Nat]
         /\ s.portfolio \in [Currency -> [Account -> Portfolio]]
         /\ s.markets \in [Currency -> [Maturity -> Market]]
BY DEF LedgersType

-----------------------------------------------------------------------------
(* Numbers.                                                                *)

LEMMA MaxMinOfTwo ==
  ASSUME NEW x \in Int, NEW y \in Int
  PROVE  /\ Max({x, y}) = IF x >= y THEN x ELSE y
         /\ Min({x, y}) = IF x <= y THEN x ELSE y
<1>1. \A z \in {x, y} : (\A w \in {x, y} : z >= w) => z = IF x >= y THEN x ELSE y
  OBVIOUS
<1>2. \E z \in {x, y} : \A w \in {x, y} : z >= w
  OBVIOUS
<1>3. \A z \in {x, y} : (\A w \in {x, y} : z <= w) => z = IF x <= y THEN x ELSE y
  OBVIOUS
<1>4. \E z \in {x, y} : \A w \in {x, y} : z <= w
  OBVIOUS
<1> QED BY <1>1, <1>2, <1>3, <1>4 DEF Max, Min

LEMMA PositivePartNat ==
  ASSUME NEW x \in Int
  PROVE  /\ PositivePart(x) \in Nat
         /\ PositivePart(x) = IF x >= 0 THEN x ELSE 0
BY MaxMinOfTwo DEF PositivePart

(* Of a finite set of numbers there is a greatest. *)
LEMMA GreatestElement ==
  ASSUME NEW S, IsFiniteSet(S), \A y \in S : y \in Int, S # {}
  PROVE  Max(S) \in S /\ \A y \in S : y <= Max(S)
<1> DEFINE Above(x) == {y \in S : y >= x}
           F == {T \in SUBSET S : \E x \in S : T = Above(x)}
<1>1. F # {}
  <2>1. \A x \in S : Above(x) \in F
    OBVIOUS
  <2> QED BY <2>1
<1>2. PICK T \in F : \A U \in F : ~ (U \subseteq T /\ U # T)
  <2>1. F \subseteq SUBSET S
    OBVIOUS
  <2> HIDE DEF F
  <2> QED BY <1>1, <2>1, MinimalSubset
<1>3. PICK x \in S : T = Above(x)
  OBVIOUS
<1>4. \A y \in S : y <= x
  <2> SUFFICES ASSUME NEW y \in S, y > x PROVE FALSE
    BY DEF Above
  <2>1. Above(y) \in F
    BY Zenon
  <2>2. Above(y) \subseteq T /\ Above(y) # T
    <3>1. x \in Int /\ y \in Int /\ x \in T /\ x \notin Above(y)
      BY <1>3
    <3>2. \A z \in S : z \in Int /\ (z >= y => z >= x)
      BY <3>1
    <3>3. Above(y) \subseteq T
      BY <1>3, <3>2
    <3> HIDE DEF Above
    <3> QED BY <3>1, <3>3
  <2> QED BY <1>2, <2>1, <2>2
<1> QED BY <1>4 DEF Max

(* The tokens to sell are among those there are, and raise at most the cash
   that is needed. *)
LEMMA TokensForBounds ==
  ASSUME NEW pool \in Market, pool.totalLiquidity > 0, NEW all \in 0 .. pool.totalLiquidity,
         NEW need \in Nat
  PROVE  /\ TokensFor(pool, all, need) \in 0 .. all
         /\ CashShare(pool, TokensFor(pool, all, need)) \in 0 .. need
<1> DEFINE C == pool.totalCurrentCash
           L == pool.totalLiquidity
           n == TokensFor(pool, all, need)
<1>1. C \in Nat /\ L \in Nat \ {0} /\ all \in Nat
  BY DEF Market
<1>2. CASE CashShare(pool, all) > need
  <2> DEFINE k == (L * need) \div C
  <2>1. need < (C * all) \div L
    BY <1>2 DEF CashShare, Share
  <2>2. C # 0
    BY <1>1, <2>1
  <2>3. n = k
    BY <1>2 DEF TokensFor, Share
  <2>4. L * need <= C * all
    <3> DEFINE q == (C * all) \div L
    <3>1. C * all \in Nat
      BY <1>1
    <3>2. q \in Int /\ L * q <= C * all
      BY <1>1, <3>1
    <3>3. L * need <= L * q
      BY <1>1, <2>1, <3>2
    <3> QED BY <1>1, <3>1, <3>2, <3>3
  <2>5. k \in Nat /\ C * k <= L * need
    BY <1>1, <2>2
  <2>6. k <= all
    <3> SUFFICES ASSUME k >= all + 1 PROVE FALSE
      BY <1>1, <2>5
    <3>1. C * k >= C * (all + 1)
      BY <1>1, <2>5
    <3>2. C * (all + 1) > C * all
      BY <1>1, <2>2
    <3> QED BY <1>1, <2>4, <2>5, <3>1, <3>2
  <2>7. (C * k) \div L \in 0 .. need
    <3> DEFINE q == (C * k) \div L
    <3>1. C * k \in Nat
      BY <1>1, <2>5
    <3>2. q \in Nat /\ L * q <= C * k
      BY <1>1, <3>1
    <3>3. L * q <= L * need
      BY <1>1, <2>5, <3>1, <3>2
    <3> SUFFICES ASSUME q >= need + 1 PROVE FALSE
      BY <3>2
    <3>4. L * q >= L * (need + 1)
      BY <1>1, <3>2
    <3>5. L * (need + 1) > L * need
      BY <1>1
    <3> QED BY <1>1, <3>2, <3>3, <3>4, <3>5
  <2> QED BY <1>1, <2>3, <2>5, <2>6, <2>7 DEF CashShare, Share
<1>3. CASE ~ (CashShare(pool, all) > need)
  <2>1. CashShare(pool, all) \in Nat
    BY <1>1, ShareNat DEF CashShare
  <2> QED BY <1>1, <1>3, <2>1 DEF TokensFor
<1> QED BY <1>2, <1>3

-----------------------------------------------------------------------------
(* Liquidity tokens are sold one maturity after another.                   *)

CashIn(mk) == SumFunction([m \in Maturity |-> mk[m].totalCurrentCash])

LEMMA CashInReplaced ==
  ASSUME NEW mk \in [Maturity -> Market], NEW m \in Maturity, NEW pool \in Market
  PROVE  /\ [mk EXCEPT ![m] = pool] \in [Maturity -> Market]
         /\ CashIn(mk) \in Int
         /\ CashIn([mk EXCEPT ![m] = pool]) = CashIn(mk) + pool.totalCurrentCash - mk[m].totalCurrentCash
<1> DEFINE f == [k \in Maturity |-> mk[k].totalCurrentCash]
           n == pool.totalCurrentCash
<1>1. f \in [Maturity -> Int] /\ n \in Int
  BY DEF Market
<1>2. [k \in Maturity |-> [mk EXCEPT ![m] = pool][k].totalCurrentCash] = [f EXCEPT ![m] = n]
  OBVIOUS
<1>3. IsFiniteSet(Maturity)
  BY RiskAssumption
<1>4. SumFunction(f) \in Int /\ SumFunction([f EXCEPT ![m] = n]) = SumFunction(f) + n - f[m]
  <2> HIDE DEF f, n
  <2> QED BY <1>1, <1>3, SumInt, SumUpdate
<1> QED BY <1>2, <1>4 DEF CashIn

(* A sale of tokens of portfolio p out of the pools mk, of which the maturities
   of T have been looked at. *)
SaleSound(p, mk, amount, T, r) ==
  /\ r.portfolio \in Portfolio
  /\ r.markets \in [Maturity -> Market]
  /\ r.left \in 0 .. amount
  /\ Listed(p) => Listed(r.portfolio)
  /\ CashIn(r.markets) - r.left = CashIn(mk) - amount
  /\ \A m \in Maturity :
       /\ r.portfolio.token[m] - r.markets[m].totalLiquidity = p.token[m] - mk[m].totalLiquidity
       /\ r.portfolio.fCash[m] + r.markets[m].totalfCash = p.fCash[m] + mk[m].totalfCash
       /\ Alive(mk[m]) => Alive(r.markets[m])
       /\ m \notin T => /\ r.portfolio.token[m] = p.token[m]
                        /\ (m \in r.portfolio.listed) <=> (m \in p.listed)
                        /\ r.markets[m] = mk[m]

LEMMA SaleStarts ==
  ASSUME NEW p \in Portfolio, NEW mk \in [Maturity -> Market], NEW amount \in Nat, NEW done
  PROVE  SaleSound(p, mk, amount, {}, [portfolio |-> p, markets |-> mk, left |-> amount, done |-> done])
<1>1. CashIn(mk) \in Int
  <2>1. CASE Maturity = {}
    <3>1. [m \in Maturity |-> mk[m].totalCurrentCash] \in [Maturity -> Int]
      BY <2>1
    <3> QED BY <3>1, SumInt, RiskAssumption DEF CashIn
  <2>2. CASE Maturity # {}
    <3>1. PICK m \in Maturity : TRUE
      BY <2>2
    <3> QED BY CashInReplaced
  <2> QED BY <2>1, <2>2
<1> QED BY <1>1 DEF SaleSound

LEMMA SaleGoesOn ==
  ASSUME NEW p \in Portfolio, NEW mk \in [Maturity -> Market], NEW amount \in Nat,
         NEW T, NEW m \in Maturity, m \in T, NEW r, SaleSound(p, mk, amount, T \ {m}, r),
         m \in p.listed, mk[m].totalLiquidity > 0, p.token[m] <= mk[m].totalLiquidity
  PROVE  SaleSound(p, mk, amount, T, TradeToken(r, m))
<1> DEFINE pool == r.markets[m]
           all == r.portfolio.token[m]
           tokens == TokensFor(pool, all, r.left)
           fcash == fCashShare(pool, tokens)
           added == AddfCash(r.portfolio, m, fcash)
           q == TakeToken(added, m, tokens)
           next == TradeToken(r, m)
<1>1. CASE r.done
  BY <1>1 DEF TradeToken, SaleSound
<1>2. CASE ~ r.done
  <2>1. /\ pool = mk[m] /\ all = p.token[m] /\ m \in r.portfolio.listed
        /\ pool \in Market /\ pool.totalLiquidity > 0 /\ pool.totalLiquidity \in Nat
        /\ all \in 0 .. pool.totalLiquidity
        /\ r.left \in Nat /\ r.left \in 0 .. amount
    <3>1. /\ p.token[m] \in Nat /\ mk[m] \in Market
          /\ mk[m].totalLiquidity \in Nat
      BY DEF Portfolio, Market
    <3>2. r.left \in 0 .. amount
      BY DEF SaleSound
    <3>3. /\ r.portfolio.token[m] = p.token[m]
          /\ (m \in r.portfolio.listed) <=> (m \in p.listed)
          /\ r.markets[m] = mk[m]
      <4>1. \A k \in Maturity :
              k \notin T \ {m} => /\ r.portfolio.token[k] = p.token[k]
                                  /\ k \in r.portfolio.listed <=> k \in p.listed
                                  /\ r.markets[k] = mk[k]
        BY DEF SaleSound
      <4>2. m \notin T \ {m}
        OBVIOUS
      <4> QED BY <4>1, <4>2
    <3> QED BY <3>1, <3>2, <3>3
  <2>2. /\ tokens \in 0 .. all /\ tokens \in Nat
        /\ CashShare(pool, tokens) \in 0 .. r.left
    <3> HIDE DEF pool, all
    <3> QED BY <2>1, TokensForBounds
  <2>3. CanRedeem(pool, tokens)
    BY <2>1, <2>2 DEF CanRedeem
  <2> DEFINE drained == Redeem(pool, tokens)
             raised == CashShare(pool, tokens)
  <2>4. /\ drained \in Market
        /\ fcash \in Nat
        /\ Alive(pool) => Alive(drained)
        /\ drained.totalfCash = pool.totalfCash - fcash
        /\ drained.totalLiquidity = pool.totalLiquidity - tokens
        /\ drained.totalCurrentCash = pool.totalCurrentCash - raised
        /\ pool.totalfCash \in Nat /\ pool.totalCurrentCash \in Nat
    <3>1. pool.totalfCash \in Nat /\ pool.totalCurrentCash \in Nat
      BY <2>1 DEF Market
    <3> HIDE DEF pool, tokens
    <3>2. /\ Redeem(pool, tokens) \in Market
          /\ fCashShare(pool, tokens) \in 0 .. pool.totalfCash
          /\ Alive(pool) => Alive(Redeem(pool, tokens))
      BY <2>1, <2>2, <2>3, RedeemEffect
    <3>3. fCashShare(pool, tokens) \in Nat
      BY <3>1, <3>2
    <3> QED BY <3>1, <3>2, <3>3 DEF Redeem
  <2>5. /\ next.portfolio = q
        /\ next.markets = [r.markets EXCEPT ![m] = drained]
        /\ next.left = r.left - raised
    BY <1>2 DEF TradeToken
  <2> HIDE DEF drained, tokens, fcash, next, raised
  <2>6. r.portfolio \in Portfolio /\ r.markets \in [Maturity -> Market] /\ CashIn(r.markets) \in Int
    BY CashInReplaced DEF SaleSound
  <2>7. /\ added \in Portfolio
        /\ added.fCash = [r.portfolio.fCash EXCEPT ![m] = @ + fcash]
        /\ added.token = r.portfolio.token
        /\ added.listed = r.portfolio.listed
        /\ Listed(r.portfolio) => Listed(added)
    BY <2>4, <2>6, AddfCashEffect
  <2> HIDE DEF added
  <2>8. CanTakeToken(added, m, tokens)
    BY <2>1, <2>2, <2>7 DEF CanTakeToken
  <2>9. /\ q \in Portfolio
        /\ q.token = [r.portfolio.token EXCEPT ![m] = @ - tokens]
        /\ q.fCash = [r.portfolio.fCash EXCEPT ![m] = @ + fcash]
        /\ q.listed = IF all = tokens THEN r.portfolio.listed \ {m} ELSE r.portfolio.listed
        /\ Listed(r.portfolio) => Listed(q)
    <3>1. /\ q \in Portfolio
          /\ q.token = [added.token EXCEPT ![m] = @ - tokens]
          /\ q.fCash = added.fCash
          /\ q.listed = IF added.token[m] = tokens THEN added.listed \ {m} ELSE added.listed
          /\ Listed(added) => Listed(q)
      BY <2>2, <2>7, <2>8, TakeTokenEffect
    <3> HIDE DEF q
    <3> QED BY <3>1, <2>7
  <2> HIDE DEF q
  <2>10. /\ next.markets \in [Maturity -> Market]
         /\ CashIn(next.markets) = CashIn(r.markets) - raised
    <3>1. /\ next.markets \in [Maturity -> Market]
          /\ CashIn(next.markets) = CashIn(r.markets) + drained.totalCurrentCash - pool.totalCurrentCash
      BY <2>4, <2>5, <2>6, CashInReplaced
    <3>2. raised \in Int
      BY <2>1, <2>2 DEF raised
    <3> QED BY <2>4, <2>6, <3>1, <3>2
  <2>11. raised \in 0 .. r.left
    BY <2>2 DEF raised
  <2>12. /\ next.left \in 0 .. amount
         /\ CashIn(next.markets) - next.left = CashIn(mk) - amount
    <3>1. /\ CashIn(r.markets) - r.left = CashIn(mk) - amount
          /\ CashIn(mk) \in Int
      BY CashInReplaced DEF SaleSound
    <3> HIDE DEF pool, all
    <3> QED BY <2>1, <2>5, <2>6, <2>10, <2>11, <3>1
  <2>13. ASSUME NEW k \in Maturity
         PROVE  /\ q.token[k] - next.markets[k].totalLiquidity = p.token[k] - mk[k].totalLiquidity
                /\ q.fCash[k] + next.markets[k].totalfCash = p.fCash[k] + mk[k].totalfCash
                /\ Alive(mk[k]) => Alive(next.markets[k])
                /\ k \notin T => /\ q.token[k] = p.token[k]
                                 /\ k \in q.listed <=> k \in p.listed
                                 /\ next.markets[k] = mk[k]
    <3>1. /\ r.portfolio.token[k] - r.markets[k].totalLiquidity = p.token[k] - mk[k].totalLiquidity
          /\ r.portfolio.fCash[k] + r.markets[k].totalfCash = p.fCash[k] + mk[k].totalfCash
          /\ Alive(mk[k]) => Alive(r.markets[k])
          /\ k \notin T \ {m} => /\ r.portfolio.token[k] = p.token[k]
                                 /\ k \in r.portfolio.listed <=> k \in p.listed
                                 /\ r.markets[k] = mk[k]
      BY DEF SaleSound
    <3>2. /\ r.portfolio.token[k] \in Nat /\ r.portfolio.fCash[k] \in Int
          /\ r.portfolio.token \in [Maturity -> Nat] /\ r.portfolio.fCash \in [Maturity -> Int]
          /\ p.token[k] \in Nat /\ p.fCash[k] \in Int
          /\ mk[k].totalLiquidity \in Nat /\ mk[k].totalfCash \in Nat
          /\ r.markets[k].totalLiquidity \in Nat /\ r.markets[k].totalfCash \in Nat
      BY <2>6 DEF Portfolio, Market
    <3>3. CASE k = m
      <4>1. /\ q.token[k] = r.portfolio.token[k] - tokens
            /\ q.fCash[k] = r.portfolio.fCash[k] + fcash
            /\ next.markets[k] = drained
        BY <3>2, <3>3, <2>5, <2>6, <2>9
      <4> QED BY <3>1, <3>2, <3>3, <4>1, <2>2, <2>4
    <3>4. CASE k # m
      <4>1. /\ q.token[k] = r.portfolio.token[k]
            /\ q.fCash[k] = r.portfolio.fCash[k]
            /\ next.markets[k] = r.markets[k]
            /\ k \in q.listed <=> k \in r.portfolio.listed
        BY <3>2, <3>4, <2>5, <2>6, <2>9
      <4> QED BY <3>1, <3>2, <3>4, <4>1
    <3> QED BY <3>3, <3>4
  <2>14. Listed(p) => Listed(q)
    BY <2>9 DEF SaleSound
  <2> QED BY <2>5, <2>9, <2>10, <2>12, <2>13, <2>14 DEF SaleSound, next
<1> QED BY <1>1, <1>2

(* The pools of the listed tokens can be divided by and hold the tokens. *)
Backing(p, mk) ==
  \A m \in p.listed : mk[m].totalLiquidity > 0 /\ p.token[m] <= mk[m].totalLiquidity

LEMMA SaleCompletes ==
  ASSUME NEW p \in Portfolio, NEW mk \in [Maturity -> Market], NEW amount \in Nat, Backing(p, mk)
  PROVE  SaleSound(p, mk, amount, p.listed, SellTokens(p, mk, amount))
<1> DEFINE L == p.listed
           base == [portfolio |-> p, markets |-> mk, left |-> amount, done |-> FALSE]
           Sale == [portfolio : Portfolio, markets : [Maturity -> Market], left : Nat, done : BOOLEAN]
           pick == [T \in SUBSET L |-> Max(T)]
           step == [z \in Maturity \X Sale |-> TradeToken(z[2], z[1])]
           X == [T \in SUBSET L |-> {r \in Sale : SaleSound(p, mk, amount, T, r)}]
           Solves(h) == h = [T \in SUBSET L |-> IF T = {} THEN base
                                               ELSE TradeToken(h[T \ {Max(T)}], Max(T))]
<1>1. L \subseteq Maturity /\ IsFiniteSet(L) /\ \A m \in L : m \in Int
  BY RiskAssumption, FS_Subset DEF Portfolio
<1>2. \A T \in SUBSET L : T # {} => Max(T) \in T
  <2> SUFFICES ASSUME NEW T \in SUBSET L, T # {} PROVE Max(T) \in T
    OBVIOUS
  <2>1. IsFiniteSet(T) /\ \A y \in T : y \in Int
    BY <1>1, FS_Subset
  <2> QED BY <2>1, GreatestElement
<1>3. \A T \in SUBSET L : T # {} => pick[T] \in T /\ pick[T] = Max(T)
  BY <1>2
<1>4. base \in X[{}]
  <2>1. SaleSound(p, mk, amount, {}, base)
    BY SaleStarts
  <2> QED BY <2>1
<1>5. \A T \in SUBSET L :
        T # {} => \A r \in X[T \ {Max(T)}] : /\ r \in Sale
                                             /\ TradeToken(r, Max(T)) \in X[T]
  <2> SUFFICES ASSUME NEW T \in SUBSET L, T # {}, NEW r \in X[T \ {Max(T)}]
               PROVE  r \in Sale /\ TradeToken(r, Max(T)) \in X[T]
    OBVIOUS
  <2> DEFINE m == Max(T)
  <2>1. m \in T /\ m \in Maturity /\ m \in L
    BY <1>1, <1>2
  <2>2. r \in Sale /\ SaleSound(p, mk, amount, T \ {m}, r)
    <3>1. T \ {m} \in SUBSET L
      OBVIOUS
    <3> QED BY <3>1
  <2> HIDE DEF m
  <2>3. SaleSound(p, mk, amount, T, TradeToken(r, m))
    BY <2>1, <2>2, SaleGoesOn DEF Backing
  <2>4. TradeToken(r, m) \in Sale
    <3>1. /\ TradeToken(r, m).portfolio \in Portfolio
          /\ TradeToken(r, m).markets \in [Maturity -> Market]
          /\ TradeToken(r, m).left \in Nat
      BY <2>3 DEF SaleSound
    <3>2. CASE r.done
      BY <2>2, <3>2 DEF TradeToken
    <3>3. CASE ~ r.done
      <4>1. TradeToken(r, m) = [portfolio |-> TradeToken(r, m).portfolio,
                                markets |-> TradeToken(r, m).markets,
                                left |-> TradeToken(r, m).left,
                                done |-> TradeToken(r, m).done]
        BY <3>3 DEF TradeToken
      <4>2. TradeToken(r, m).done \in BOOLEAN
        BY <3>3 DEF TradeToken
      <4> QED BY <3>1, <4>1, <4>2
    <3> QED BY <3>2, <3>3
  <2> QED BY <2>2, <2>3, <2>4 DEF m
<1> HIDE DEF base
<1>6. ASSUME NEW h, FoldRecursion(step, pick, base, L, h)
      PROVE  Solves(h)
  <2>1. \A T \in SUBSET L :
          T # {} => \A r \in X[T \ {pick[T]}] : step[<<pick[T], r>>] \in X[T]
    <3> SUFFICES ASSUME NEW T \in SUBSET L, T # {}, NEW r \in X[T \ {pick[T]}]
                 PROVE  step[<<pick[T], r>>] \in X[T]
      OBVIOUS
    <3>1. pick[T] = Max(T) /\ pick[T] \in Maturity
      BY <1>1, <1>3
    <3>2. r \in Sale /\ TradeToken(r, Max(T)) \in X[T]
      BY <1>5, <3>1
    <3>3. step[<<pick[T], r>>] = TradeToken(r, Max(T))
      BY <3>1, <3>2
    <3> QED BY <3>2, <3>3
  <2>2. \A T \in SUBSET L : h[T] \in X[T]
    <3> HIDE DEF step, pick, X
    <3> QED BY <1>1, <1>3, <1>4, <1>6, <2>1, FoldStaysIn
  <2>3. \A T \in SUBSET L : T # {} => step[<<pick[T], h[T \ {pick[T]}]>>]
                                       = TradeToken(h[T \ {Max(T)}], Max(T))
    <3> SUFFICES ASSUME NEW T \in SUBSET L, T # {}
                 PROVE  step[<<pick[T], h[T \ {pick[T]}]>>] = TradeToken(h[T \ {Max(T)}], Max(T))
      OBVIOUS
    <3>1. pick[T] = Max(T) /\ Max(T) \in Maturity /\ T \ {Max(T)} \in SUBSET L
      BY <1>1, <1>3
    <3>2. h[T \ {Max(T)}] \in Sale
      BY <1>5, <2>2, <3>1
    <3> QED BY <3>1, <3>2
  <2>4. h = [T \in SUBSET L |-> IF T = {} THEN base ELSE step[<<pick[T], h[T \ {pick[T]}]>>]]
    BY <1>6 DEF FoldRecursion
  <2> HIDE DEF step, pick
  <2>5. [T \in SUBSET L |-> IF T = {} THEN base ELSE step[<<pick[T], h[T \ {pick[T]}]>>]]
          = [T \in SUBSET L |-> IF T = {} THEN base ELSE TradeToken(h[T \ {Max(T)}], Max(T))]
    BY <2>3
  <2> QED BY <2>4, <2>5
<1>7. \E h : Solves(h)
  <2>1. \E h : FoldRecursion(step, pick, base, L, h)
    <3> HIDE DEF step, pick
    <3> QED BY <1>1, <1>3, FoldExists
  <2> QED BY <1>6, <2>1
<1>8. ASSUME NEW h, Solves(h)
      PROVE  h[L] \in X[L]
  <2>1. h[{}] = base /\ \A T \in SUBSET L : T # {} => h[T] = TradeToken(h[T \ {Max(T)}], Max(T))
    BY <1>8
  <2>2. h[{}] \in X[{}]
    BY <1>4, <2>1
  <2>3. \A T \in SUBSET L : T # {} /\ h[T \ {pick[T]}] \in X[T \ {pick[T]}] => h[T] \in X[T]
    <3> SUFFICES ASSUME NEW T \in SUBSET L, T # {}, h[T \ {pick[T]}] \in X[T \ {pick[T]}]
                 PROVE  h[T] \in X[T]
      OBVIOUS
    <3>1. pick[T] = Max(T) /\ h[T] = TradeToken(h[T \ {Max(T)}], Max(T))
      BY <1>3, <2>1
    <3> HIDE DEF X, pick
    <3> QED BY <1>5, <3>1
  <2> HIDE DEF X, pick
  <2>4. \A T \in SUBSET L : h[T] \in X[T]
    BY <1>1, <1>3, <2>2, <2>3, FoldInduction
  <2> QED BY <2>4
<1>9. SellTokens(p, mk, amount) = (CHOOSE h : Solves(h))[L]
  BY DEF SellTokens, MapThenFoldSet, base
<1>10. (CHOOSE h : Solves(h))[L] \in X[L]
  BY <1>7, <1>8
<1>11. SaleSound(p, mk, amount, L, (CHOOSE h : Solves(h))[L])
  BY <1>10
<1> QED BY <1>9, <1>11

(* Tokens of `a' in the group of c can be sold: the pools hold them. *)
CanSell(s, a, c) == Backing(s.portfolio[c][a], s.markets[c])

(* A sale raises amount - left out of the balance of the market. *)
Sold(s, a, c, amount, sale) ==
  /\ sale.left \in 0 .. amount
  /\ KeptGroups(s, sale.ledger)
  /\ sale.ledger.held = s.held
  /\ SumFunction(sale.ledger.cash[c]) = SumFunction(s.cash[c]) - (amount - sale.left)
  /\ \A b \in Account : sale.ledger.cash[c][b] = s.cash[c][b]
  /\ \A d \in Currency \ {c} : /\ sale.ledger.cash[d] = s.cash[d]
                               /\ sale.ledger.portfolio[d] = s.portfolio[d]
                               /\ sale.ledger.markets[d] = s.markets[d]

LEMMA TokensSold ==
  ASSUME NEW s \in LedgersType, NEW a \in Account, NEW c \in Currency, NEW amount \in Nat,
         CanSell(s, a, c)
  PROVE  Sold(s, a, c, amount, RaiseViaTokens(s, a, c, amount))
<1> DEFINE p == s.portfolio[c][a]
           mk == s.markets[c]
           r == SellTokens(p, mk, amount)
           sold == RaiseViaTokens(s, a, c, amount)
           u == sold.ledger
           b == Credit(s.cash[c], CASH_MARKET, r.left - amount)
<1>1. p \in Portfolio /\ mk \in [Maturity -> Market] /\ s.cash[c] \in [Holder -> Int]
  BY LedgersParts
<1>2. SaleSound(p, mk, amount, p.listed, r)
  BY <1>1, SaleCompletes DEF CanSell
<1> HIDE DEF r
<1>3. sold = [ledger |-> [cash |-> [s.cash EXCEPT ![c] = b], held |-> s.held,
                         portfolio |-> [s.portfolio EXCEPT ![c][a] = r.portfolio],
                         markets |-> [s.markets EXCEPT ![c] = r.markets]],
             left |-> r.left]
  BY DEF RaiseViaTokens, r
<1> HIDE DEF sold
<1>4. /\ r.portfolio \in Portfolio /\ r.markets \in [Maturity -> Market]
      /\ r.left \in 0 .. amount /\ r.left - amount \in Int /\ r.left \in Int
      /\ Listed(p) => Listed(r.portfolio)
      /\ CashIn(r.markets) - r.left = CashIn(mk) - amount
  BY <1>2 DEF SaleSound
<1>5. CASH_MARKET \in Holder /\ \A h \in Account : h \in Holder /\ h # CASH_MARKET
  BY LedgerAssumption DEF Holder
<1>6. /\ b \in [Holder -> Int]
      /\ b[CASH_MARKET] = s.cash[c][CASH_MARKET] + (r.left - amount)
      /\ \A h \in Account : b[h] = s.cash[c][h]
      /\ SumFunction(b) = SumFunction(s.cash[c]) + (r.left - amount)
  <2> DEFINE n == r.left - amount
  <2>1. n \in Int
    BY <1>4
  <2> HIDE DEF n
  <2>2. \A h \in Account : h \in Holder /\ h # CASH_MARKET /\ CASH_MARKET \in Holder
    BY <1>5
  <2>3. /\ Credit(s.cash[c], CASH_MARKET, n) \in [Holder -> Int]
        /\ Credit(s.cash[c], CASH_MARKET, n)[CASH_MARKET] = s.cash[c][CASH_MARKET] + n
        /\ \A g \in Holder : g # CASH_MARKET => Credit(s.cash[c], CASH_MARKET, n)[g] = s.cash[c][g]
        /\ SumFunction(Credit(s.cash[c], CASH_MARKET, n)) = SumFunction(s.cash[c]) + n
    BY <1>1, <1>5, <2>1, CreditEffect
  <2>4. b = Credit(s.cash[c], CASH_MARKET, n)
    BY DEF n
  <2> HIDE DEF b
  <2>5. \A h \in Account : b[h] = s.cash[c][h]
    BY <2>2, <2>3, <2>4
  <2> QED BY <2>3, <2>4, <2>5 DEF n
<1> HIDE DEF b
<1>7. u = [cash |-> [s.cash EXCEPT ![c] = b], held |-> s.held,
           portfolio |-> [s.portfolio EXCEPT ![c] = [s.portfolio[c] EXCEPT ![a] = r.portfolio]],
           markets |-> [s.markets EXCEPT ![c] = r.markets]]
  BY <1>3
<1> HIDE DEF u
<1>8. /\ u \in LedgersType
      /\ u.held = s.held
      /\ u.cash[c] = b /\ u.markets[c] = r.markets
      /\ u.portfolio[c] = [s.portfolio[c] EXCEPT ![a] = r.portfolio]
      /\ \A d \in Currency \ {c} : /\ u.cash[d] = s.cash[d]
                                   /\ u.portfolio[d] = s.portfolio[d]
                                   /\ u.markets[d] = s.markets[d]
  <2>1. [s.portfolio[c] EXCEPT ![a] = r.portfolio] \in [Account -> Portfolio]
    BY <1>4, LedgersParts
  <2> DEFINE q == [s.portfolio[c] EXCEPT ![a] = r.portfolio]
  <2>2. u.portfolio = [s.portfolio EXCEPT ![c] = q]
    BY <1>7
  <2> HIDE DEF q
  <2>3. u \in LedgersType
    <3>1. /\ u.cash \in [Currency -> [Holder -> Int]] /\ u.held \in [Currency -> Nat]
          /\ u.portfolio \in [Currency -> [Account -> Portfolio]]
          /\ u.markets \in [Currency -> [Maturity -> Market]]
      BY <1>4, <1>6, <1>7, <2>1, <2>2, LedgersParts DEF q
    <3>2. u = [cash |-> u.cash, held |-> u.held, portfolio |-> u.portfolio, markets |-> u.markets]
      BY <1>7
    <3> QED BY <3>1, <3>2 DEF LedgersType
  <2>4. u.portfolio[c] = q /\ \A d \in Currency \ {c} : u.portfolio[d] = s.portfolio[d]
    BY <2>2, LedgersParts
  <2> QED BY <1>7, <2>3, <2>4, LedgersParts DEF q
<1>9. Kept(View(s, c), View(u, c))
  <2> DEFINE v == View(s, c)
             w == View(u, c)
             x == [v EXCEPT !.portfolio[a] = r.portfolio]
  <2>1. /\ v \in LedgerType /\ w \in LedgerType
        /\ v.portfolio = s.portfolio[c] /\ v.markets = mk /\ v.cash[LocalCurrency] = s.cash[c]
        /\ w.portfolio = [s.portfolio[c] EXCEPT ![a] = r.portfolio] /\ w.markets = r.markets
        /\ w.cash[LocalCurrency] = b
    BY <1>8, ViewType
  <2> HIDE DEF v, w
  <2>2. /\ x.portfolio = w.portfolio
        /\ \A m \in Maturity :
             /\ TokensOf(x, m) = TokensOf(v, m) + r.portfolio.token[m] - p.token[m]
             /\ fCashOf(x, m) = fCashOf(v, m) + r.portfolio.fCash[m] - p.fCash[m]
        /\ TokensListed(v) /\ Listed(r.portfolio) => TokensListed(x)
    <3>1. r.portfolio \in Portfolio /\ v.portfolio[a] = p
      BY <1>4, <2>1
    <3>2. x.portfolio = [v.portfolio EXCEPT ![a] = r.portfolio]
      BY <2>1, <3>1, PortfolioReplaced
    <3>3. /\ \A m \in Maturity :
               /\ TokensOf(x, m) = TokensOf(v, m) + r.portfolio.token[m] - v.portfolio[a].token[m]
               /\ fCashOf(x, m) = fCashOf(v, m) + r.portfolio.fCash[m] - v.portfolio[a].fCash[m]
          /\ TokensListed(v) /\ Listed(r.portfolio) => TokensListed(x)
      BY <2>1, <3>1, PortfolioReplaced
    <3> HIDE DEF x
    <3> QED BY <2>1, <3>1, <3>2, <3>3
  <2> HIDE DEF x
  <2>3. /\ \A m \in Maturity : TokensOf(w, m) = TokensOf(x, m) /\ fCashOf(w, m) = fCashOf(x, m)
        /\ TokensListed(x) => TokensListed(w)
    BY <2>2 DEF TokensOf, fCashOf, TokensListed
  <2>4. PoolCash(w) = CashIn(r.markets) /\ PoolCash(v) = CashIn(mk)
    BY <2>1 DEF PoolCash, CashIn
  <2>5. /\ PoolCash(v) \in Int /\ PoolCash(w) \in Int
        /\ \A m \in Maturity : TokensOf(v, m) \in Int /\ fCashOf(v, m) \in Int
    BY <2>1, TotalsInt
  <2>6. TokensListed(v) => TokensListed(w)
    BY <1>4, <2>1, <2>2, <2>3 DEF TokensListed
  <2>7. w.cash[LocalCurrency][CASH_MARKET] - PoolCash(w) = v.cash[LocalCurrency][CASH_MARKET] - PoolCash(v)
    <3>1. s.cash[c][CASH_MARKET] \in Int
      BY <1>1, <1>5
    <3> QED BY <1>4, <1>6, <2>1, <2>4, <2>5, <3>1
  <2>8. ASSUME NEW m \in Maturity
        PROVE  /\ TokensOf(w, m) - w.markets[m].totalLiquidity = TokensOf(v, m) - v.markets[m].totalLiquidity
               /\ Alive(v.markets[m]) => Alive(w.markets[m])
               /\ fCashOf(w, m) + w.markets[m].totalfCash = fCashOf(v, m) + v.markets[m].totalfCash
    <3>1. /\ r.portfolio.token[m] - r.markets[m].totalLiquidity = p.token[m] - mk[m].totalLiquidity
          /\ r.portfolio.fCash[m] + r.markets[m].totalfCash = p.fCash[m] + mk[m].totalfCash
          /\ Alive(mk[m]) => Alive(r.markets[m])
      BY <1>2 DEF SaleSound
    <3>2. /\ r.portfolio.token[m] \in Nat /\ r.portfolio.fCash[m] \in Int
          /\ p.token[m] \in Nat /\ p.fCash[m] \in Int
          /\ mk[m].totalLiquidity \in Nat /\ mk[m].totalfCash \in Nat
          /\ r.markets[m].totalLiquidity \in Nat /\ r.markets[m].totalfCash \in Nat
      BY <1>1, <1>4 DEF Portfolio, Market
    <3>3. /\ TokensOf(w, m) = TokensOf(v, m) + r.portfolio.token[m] - p.token[m]
          /\ fCashOf(w, m) = fCashOf(v, m) + r.portfolio.fCash[m] - p.fCash[m]
          /\ TokensOf(v, m) \in Int /\ fCashOf(v, m) \in Int
      BY <2>2, <2>3, <2>5
    <3> QED BY <2>1, <3>1, <3>2, <3>3
  <2> QED BY <2>1, <2>6, <2>7, <2>8 DEF Kept, v, w
<1>10. \A d \in Currency \ {c} : Kept(View(s, d), View(u, d))
  BY <1>8, ViewType, GroupUntouched
<1>11. KeptGroups(s, u)
  BY <1>8, <1>9, <1>10 DEF KeptGroups
<1>12. SumFunction(u.cash[c]) = SumFunction(s.cash[c]) - (amount - r.left)
  <2>1. SumFunction(s.cash[c]) \in Int
    BY GapInt
  <2> QED BY <1>4, <1>6, <1>8, <2>1
<1>13. \A h \in Account : u.cash[c][h] = s.cash[c][h]
  BY <1>6, <1>8
<1>14. sold.left = r.left /\ sold.ledger = u
  BY <1>3 DEF u
<1>15. Sold(s, a, c, amount, sold)
  BY <1>4, <1>8, <1>11, <1>12, <1>13, <1>14 DEF Sold
<1> QED BY <1>15 DEF sold

-----------------------------------------------------------------------------
(* Receivers are sold one after another.                                   *)

(* A sale of receivers for `amount'. *)
ReceiverSale(amount) == {r \in [moved : [Maturity -> Int], left : Nat, ok : BOOLEAN] :
                           r.ok => r.left <= amount}

LEMMA ReceiverSold ==
  ASSUME NEW p \in Portfolio, NEW amount \in Nat, NEW r \in ReceiverSale(amount), NEW m \in Maturity,
         NEW t \in Int
  PROVE  SellReceiver(r, p, m, t) \in ReceiverSale(amount)
<1> DEFINE value == ReceiverValue(p.fCash[m], m, t)
           share == Share(p.fCash[m], r.left, value)
<1>1. /\ r.moved \in [Maturity -> Int] /\ r.left \in Nat /\ r.ok \in BOOLEAN
      /\ r.ok => r.left <= amount
  BY DEF ReceiverSale
<1>2. p.fCash[m] \in Int /\ m \in Int
  BY RiskAssumption DEF Portfolio
<1>3. value \in Int
  BY <1>2, ReceiverValueInt
<1> HIDE DEF value
<1>4. CASE r.left = 0
  BY <1>4 DEF SellReceiver
<1>5. CASE r.left # 0
  <2> DEFINE part == IF value >= r.left THEN share ELSE p.fCash[m]
  <2>1. part \in Int
    <3>1. CASE value >= r.left
      <4>1. value \in Nat \ {0} /\ p.fCash[m] * r.left \in Int
        BY <1>1, <1>2, <1>3, <1>5, <3>1
      <4>2. share \in Int
        BY <4>1, QuotientNat DEF Share
      <4> QED BY <3>1, <4>2
    <3>2. CASE ~ (value >= r.left)
      BY <1>2, <3>2
    <3> QED BY <3>1, <3>2
  <2>2. /\ PositivePart(r.left - value) \in Nat
        /\ value >= 0 => PositivePart(r.left - value) <= r.left
    BY <1>1, <1>3, PositivePartNat
  <2>3. SellReceiver(r, p, m, t) = [moved |-> [r.moved EXCEPT ![m] = part],
                                    left |-> PositivePart(r.left - value),
                                    ok |-> r.ok /\ value >= 0]
    BY <1>5 DEF SellReceiver, value
  <2> HIDE DEF part
  <2>4. [r.moved EXCEPT ![m] = part] \in [Maturity -> Int]
    BY <1>1, <2>1
  <2>5. (r.ok /\ value >= 0) \in BOOLEAN
    OBVIOUS
  <2>6. r.ok /\ value >= 0 => PositivePart(r.left - value) <= amount
    BY <1>1, <2>2
  <2> DEFINE left == PositivePart(r.left - value)
             ok == r.ok /\ value >= 0
  <2>7. left \in Nat /\ ok \in BOOLEAN /\ (ok => left <= amount)
    BY <2>2, <2>5, <2>6
  <2>8. SellReceiver(r, p, m, t) = [moved |-> [r.moved EXCEPT ![m] = part], left |-> left, ok |-> ok]
    BY <2>3
  <2> HIDE DEF left, ok
  <2> QED BY <2>4, <2>7, <2>8 DEF ReceiverSale
<1> QED BY <1>4, <1>5

LEMMA ReceiversSold ==
  ASSUME NEW p \in Portfolio, NEW amount \in Nat, NEW t \in Int,
         NEW n \in Nat, NEW order \in [1 .. n -> Maturity]
  PROVE  SellReceivers(p, amount, order, t) \in ReceiverSale(amount)
<1> DEFINE D == 1 .. n
           base == [moved |-> [m \in Maturity |-> 0], left |-> amount, ok |-> TRUE]
           W == ReceiverSale(amount)
           pick == [T \in SUBSET D |-> Max(T)]
           step == [z \in D \X W |-> SellReceiver(z[2], p, order[z[1]], t)]
           X == [T \in SUBSET D |-> W]
           Solves(h) == h = [T \in SUBSET D |-> IF T = {} THEN base
                                               ELSE SellReceiver(h[T \ {Max(T)}], p, order[Max(T)], t)]
<1>1. IsFiniteSet(D) /\ DOMAIN order = D /\ \A i \in D : i \in Int /\ order[i] \in Maturity
  BY FS_Interval
<1>2. \A T \in SUBSET D : T # {} => pick[T] = Max(T) /\ pick[T] \in T
  <2> SUFFICES ASSUME NEW T \in SUBSET D, T # {} PROVE Max(T) \in T
    OBVIOUS
  <2>1. IsFiniteSet(T) /\ \A y \in T : y \in Int
    BY <1>1, FS_Subset
  <2> QED BY <2>1, GreatestElement
<1>3. base \in W
  BY DEF ReceiverSale
<1> HIDE DEF W, base
<1>4. \A T \in SUBSET D : T # {} => \A r \in W : SellReceiver(r, p, order[Max(T)], t) \in W
  BY <1>1, <1>2, ReceiverSold DEF W
<1>5. ASSUME NEW h, FoldRecursion(step, pick, base, D, h)
      PROVE  Solves(h)
  <2>1. \A T \in SUBSET D : T # {} => \A r \in W : step[<<pick[T], r>>] = SellReceiver(r, p, order[Max(T)], t)
    BY <1>2
  <2>2. /\ base \in X[{}]
        /\ \A T \in SUBSET D : T # {} => \A r \in X[T \ {pick[T]}] : step[<<pick[T], r>>] \in X[T]
    <3>1. \A T \in SUBSET D : X[T] = W /\ T \ {pick[T]} \in SUBSET D
      OBVIOUS
    <3> HIDE DEF X, step, pick, D
    <3> QED BY <1>3, <1>4, <2>1, <3>1
  <2>3. \A T \in SUBSET D : h[T] \in X[T]
    <3> HIDE DEF step, pick, X
    <3> QED BY <1>1, <1>2, <1>5, <2>2, FoldStaysIn
  <2>4. \A T \in SUBSET D : T # {} => step[<<pick[T], h[T \ {pick[T]}]>>]
                                       = SellReceiver(h[T \ {Max(T)}], p, order[Max(T)], t)
    BY <1>2, <2>1, <2>3
  <2>5. h = [T \in SUBSET D |-> IF T = {} THEN base ELSE step[<<pick[T], h[T \ {pick[T]}]>>]]
    BY <1>5 DEF FoldRecursion
  <2> HIDE DEF step, pick
  <2> QED BY <2>4, <2>5
<1>6. \E h : Solves(h)
  <2>1. \E h : FoldRecursion(step, pick, base, D, h)
    <3> HIDE DEF step, pick
    <3> QED BY <1>1, <1>2, FoldExists
  <2> QED BY <1>5, <2>1
<1>7. ASSUME NEW h, Solves(h)
      PROVE  h[D] \in W
  <2>1. h[{}] = base
    BY <1>7
  <2>2. \A T \in SUBSET D : T # {} => h[T] = SellReceiver(h[T \ {Max(T)}], p, order[Max(T)], t)
    BY <1>7
  <2>3. h[{}] \in X[{}]
    BY <1>3, <2>1
  <2>4. \A T \in SUBSET D : T # {} /\ h[T \ {pick[T]}] \in X[T \ {pick[T]}] => h[T] \in X[T]
    <3> SUFFICES ASSUME NEW T \in SUBSET D, T # {}, h[T \ {pick[T]}] \in X[T \ {pick[T]}]
                 PROVE  h[T] \in X[T]
      OBVIOUS
    <3>1. pick[T] = Max(T) /\ T \ {Max(T)} \in SUBSET D
      BY <1>2
    <3>2. h[T \ {Max(T)}] \in W
      BY <3>1
    <3> HIDE DEF D
    <3> QED BY <1>4, <2>2, <3>2
  <2>5. \A T \in SUBSET D : h[T] \in X[T]
    <3> HIDE DEF X, pick
    <3> QED BY <1>1, <1>2, <2>3, <2>4, FoldInduction
  <2> QED BY <2>5
<1>8. SellReceivers(p, amount, order, t) = (CHOOSE h : Solves(h))[DOMAIN order]
  BY DEF SellReceivers, FoldLeft, MapThenFoldSet, base
<1>9. (CHOOSE h : Solves(h))[D] \in W
  BY <1>6, <1>7
<1>10. (CHOOSE h : Solves(h))[DOMAIN order] \in W
  BY <1>1, <1>9
<1> QED BY <1>8, <1>10 DEF W

LEMMA MovedEffect ==
  ASSUME NEW p \in Portfolio, NEW moved \in [Maturity -> Int], NEW sign \in {-1, 1}
  PROVE  /\ Moved(p, moved, sign) \in Portfolio
         /\ Moved(p, moved, sign).token = p.token
         /\ Moved(p, moved, sign).listed = p.listed
         /\ \A m \in Maturity : Moved(p, moved, sign).fCash[m] = p.fCash[m] + sign * moved[m]
<1> DEFINE f == [m \in Maturity |-> p.fCash[m] + sign * moved[m]]
<1>1. \A m \in Maturity : p.fCash[m] + sign * moved[m] \in Int
  <2> TAKE m \in Maturity
  <2>1. p.fCash[m] \in Int /\ moved[m] \in Int
    BY DEF Portfolio
  <2>2. sign * moved[m] \in Int
    BY <2>1
  <2> QED BY <2>1, <2>2
<1>2. f \in [Maturity -> Int] /\ \A m \in Maturity : f[m] = p.fCash[m] + sign * moved[m]
  BY <1>1
<1>3. Moved(p, moved, sign) = [p EXCEPT !.fCash = f]
  BY DEF Moved
<1> HIDE DEF f
<1> QED BY <1>2, <1>3 DEF Portfolio

(* The portfolios after one account gave another the fCash `moved'. *)
AfterGift(p, a, b, moved) ==
  [[p EXCEPT ![a] = Moved(p[a], moved, -1)]
     EXCEPT ![b] = Moved([p EXCEPT ![a] = Moved(p[a], moved, -1)][b], moved, 1)]

(* fCash that one account gives and another one gets. *)
LEMMA GivenKept ==
  ASSUME NEW v \in LedgerType, NEW a \in Account, NEW b \in Account, NEW moved \in [Maturity -> Int],
         NEW w \in LedgerType, w.cash[LocalCurrency] = v.cash[LocalCurrency], w.markets = v.markets,
         w.portfolio = AfterGift(v.portfolio, a, b, moved)
  PROVE  Kept(v, w)
<1> DEFINE given == Moved(v.portfolio[a], moved, -1)
           x == [v EXCEPT !.portfolio[a] = given]
           taken == Moved(x.portfolio[b], moved, 1)
           y == [x EXCEPT !.portfolio[b] = taken]
<1>1. v.portfolio[a] \in Portfolio /\ v.portfolio[b] \in Portfolio
  BY DEF LedgerType
<1>2. /\ given \in Portfolio
      /\ given.token = v.portfolio[a].token /\ given.listed = v.portfolio[a].listed
      /\ \A m \in Maturity : given.fCash[m] = v.portfolio[a].fCash[m] + (-1) * moved[m]
  BY <1>1, MovedEffect
<1>3. /\ x \in LedgerType
      /\ x.portfolio = [v.portfolio EXCEPT ![a] = given]
      /\ x.cash = v.cash /\ x.markets = v.markets
      /\ \A m \in Maturity : /\ TokensOf(x, m) = TokensOf(v, m) + given.token[m] - v.portfolio[a].token[m]
                             /\ fCashOf(x, m) = fCashOf(v, m) + given.fCash[m] - v.portfolio[a].fCash[m]
      /\ TokensListed(v) /\ Listed(given) => TokensListed(x)
  <2> HIDE DEF given
  <2> QED BY <1>2, PortfolioReplaced
<1> HIDE DEF x
<1>4. x.portfolio[b] \in Portfolio
  BY <1>3 DEF LedgerType
<1>5. /\ taken \in Portfolio
      /\ taken.token = x.portfolio[b].token /\ taken.listed = x.portfolio[b].listed
      /\ \A m \in Maturity : taken.fCash[m] = x.portfolio[b].fCash[m] + 1 * moved[m]
  BY <1>4, MovedEffect
<1>6. /\ y \in LedgerType
      /\ y.portfolio = [x.portfolio EXCEPT ![b] = taken]
      /\ y.cash = x.cash /\ y.markets = x.markets
      /\ \A m \in Maturity : /\ TokensOf(y, m) = TokensOf(x, m) + taken.token[m] - x.portfolio[b].token[m]
                             /\ fCashOf(y, m) = fCashOf(x, m) + taken.fCash[m] - x.portfolio[b].fCash[m]
      /\ TokensListed(x) /\ Listed(taken) => TokensListed(y)
  <2> HIDE DEF taken
  <2>1. x \in LedgerType /\ taken \in Portfolio
    BY <1>3, <1>5
  <2>2. /\ y \in LedgerType
        /\ y.portfolio = [x.portfolio EXCEPT ![b] = taken]
        /\ y.cash = x.cash /\ y.markets = x.markets
    BY <2>1, PortfolioReplaced
  <2>3. \A m \in Maturity : /\ TokensOf(y, m) = TokensOf(x, m) + taken.token[m] - x.portfolio[b].token[m]
                            /\ fCashOf(y, m) = fCashOf(x, m) + taken.fCash[m] - x.portfolio[b].fCash[m]
    BY <2>1, PortfolioReplaced
  <2>4. TokensListed(x) /\ Listed(taken) => TokensListed(y)
    BY <2>1, PortfolioReplaced
  <2> QED BY <2>2, <2>3, <2>4
<1>7. w.portfolio = y.portfolio
  BY <1>3, <1>6 DEF AfterGift
<1> HIDE DEF given, taken, y
<1>8. /\ TokensListed(v) => TokensListed(x)
      /\ TokensListed(x) => TokensListed(w)
  <2>1. TokensListed(v) => Listed(given)
    BY <1>2 DEF TokensListed, Listed
  <2>2. TokensListed(x) => Listed(taken)
    BY <1>5 DEF TokensListed, Listed
  <2>3. TokensListed(y) => TokensListed(w)
    BY <1>7 DEF TokensListed
  <2> QED BY <1>3, <1>6, <2>1, <2>2, <2>3
<1>9. ASSUME NEW m \in Maturity
      PROVE  TokensOf(w, m) = TokensOf(v, m) /\ fCashOf(w, m) = fCashOf(v, m)
  <2>1. /\ TokensOf(v, m) \in Int /\ fCashOf(v, m) \in Int
        /\ v.portfolio[a].token[m] \in Int /\ v.portfolio[a].fCash[m] \in Int
        /\ x.portfolio[b].token[m] \in Int /\ x.portfolio[b].fCash[m] \in Int
        /\ moved[m] \in Int
    BY <1>1, <1>4, TotalsInt DEF Portfolio
  <2>2. TokensOf(w, m) = TokensOf(y, m) /\ fCashOf(w, m) = fCashOf(y, m)
    BY <1>7 DEF TokensOf, fCashOf
  <2>3. /\ TokensOf(x, m) = TokensOf(v, m) + given.token[m] - v.portfolio[a].token[m]
        /\ fCashOf(x, m) = fCashOf(v, m) + given.fCash[m] - v.portfolio[a].fCash[m]
        /\ TokensOf(y, m) = TokensOf(x, m) + taken.token[m] - x.portfolio[b].token[m]
        /\ fCashOf(y, m) = fCashOf(x, m) + taken.fCash[m] - x.portfolio[b].fCash[m]
        /\ given.token[m] = v.portfolio[a].token[m] /\ taken.token[m] = x.portfolio[b].token[m]
        /\ given.fCash[m] = v.portfolio[a].fCash[m] + (-1) * moved[m]
        /\ taken.fCash[m] = x.portfolio[b].fCash[m] + 1 * moved[m]
    BY <1>2, <1>3, <1>5, <1>6
  <2>4. TokensOf(y, m) = TokensOf(v, m)
    <3>1. TokensOf(x, m) = TokensOf(v, m)
      BY <2>1, <2>3
    <3> QED BY <2>1, <2>3, <3>1
  <2>5. fCashOf(y, m) = fCashOf(v, m)
    <3>1. fCashOf(x, m) = fCashOf(v, m) - moved[m]
      BY <2>1, <2>3
    <3>2. fCashOf(y, m) = fCashOf(x, m) + moved[m]
      BY <2>1, <2>3, <3>1
    <3> QED BY <2>1, <3>1, <3>2
  <2> QED BY <2>2, <2>4, <2>5
<1>10. PoolCash(w) = PoolCash(v) /\ PoolCash(v) \in Int
  BY TotalsInt DEF PoolCash
<1> QED BY <1>8, <1>9, <1>10, TotalsInt DEF Kept

LEMMA ReceiversMoved ==
  ASSUME NEW s \in LedgersType, NEW a \in Account, NEW b \in Account, NEW c \in Currency,
         NEW amount \in Nat, NEW t \in Int, NEW order \in SetToSeqs(Receivers(s, a, c)),
         NEW sale, sale = RaiseViaReceivers(s, a, b, c, amount, order, t)
  PROVE  /\ KeptGroups(s, sale.ledger)
         /\ sale.ledger.cash = s.cash
         /\ sale.ledger.held = s.held
         /\ sale.left \in Nat
         /\ sale.ok => sale.left <= amount
<1> DEFINE r == SellReceivers(s.portfolio[c][a], amount, order, t)
           given == [s.portfolio[c] EXCEPT ![a] = Moved(s.portfolio[c][a], r.moved, -1)]
           q == [given EXCEPT ![b] = Moved(given[b], r.moved, 1)]
           u == sale.ledger
<1>1. s.portfolio[c] \in [Account -> Portfolio]
  BY LedgersParts
<1>2. order \in [1 .. Cardinality(Receivers(s, a, c)) -> Maturity]
      /\ Cardinality(Receivers(s, a, c)) \in Nat
  <2>1. Receivers(s, a, c) \subseteq Maturity
    BY DEF Receivers
  <2>2. Cardinality(Receivers(s, a, c)) \in Nat
    BY <2>1, RiskAssumption, FS_Subset, FS_CardinalityType
  <2>3. order \in [1 .. Cardinality(Receivers(s, a, c)) -> Receivers(s, a, c)]
    BY DEF SetToSeqs
  <2> QED BY <2>1, <2>2, <2>3
<1>3. r \in ReceiverSale(amount)
  BY <1>1, <1>2, ReceiversSold
<1>4. sale = [ledger |-> [cash |-> s.cash, held |-> s.held,
                         portfolio |-> [s.portfolio EXCEPT ![c] = q], markets |-> s.markets],
             left |-> r.left, ok |-> r.ok]
  BY DEF RaiseViaReceivers
<1> HIDE DEF r
<1>5. r.moved \in [Maturity -> Int] /\ r.left \in Nat /\ (r.ok => r.left <= amount)
  BY <1>3 DEF ReceiverSale
<1>6. given \in [Account -> Portfolio] /\ q \in [Account -> Portfolio]
  <2>1. given \in [Account -> Portfolio]
    BY <1>1, <1>5, MovedEffect
  <2> HIDE DEF given
  <2> QED BY <1>5, <2>1, MovedEffect
<1> HIDE DEF q
<1>7. u = [cash |-> s.cash, held |-> s.held, portfolio |-> [s.portfolio EXCEPT ![c] = q],
           markets |-> s.markets]
  BY <1>4
<1> HIDE DEF u
<1>8. /\ u \in LedgersType
      /\ u.cash = s.cash /\ u.held = s.held /\ u.markets = s.markets
      /\ u.portfolio[c] = q
      /\ \A d \in Currency \ {c} : u.portfolio[d] = s.portfolio[d]
  BY <1>6, <1>7, LedgersParts DEF LedgersType
<1>9. Kept(View(s, c), View(u, c))
  <2> DEFINE v == View(s, c)
             w == View(u, c)
  <2>1. /\ v \in LedgerType /\ w \in LedgerType
        /\ w.cash[LocalCurrency] = v.cash[LocalCurrency] /\ w.markets = v.markets
        /\ w.portfolio = q /\ v.portfolio = s.portfolio[c]
    BY <1>8, ViewType
  <2> HIDE DEF v, w
  <2>2. q = AfterGift(s.portfolio[c], a, b, r.moved)
    BY DEF q, AfterGift
  <2>3. Kept(v, w)
    BY <1>5, <2>1, <2>2, GivenKept
  <2> QED BY <2>3 DEF v, w
<1>10. \A d \in Currency \ {c} : Kept(View(s, d), View(u, d))
  BY <1>8, ViewType, GroupUntouched
<1> QED BY <1>4, <1>5, <1>8, <1>9, <1>10 DEF KeptGroups, u

-----------------------------------------------------------------------------
(* Valuations are numbers.                                                 *)

LEMMA RatesNat ==
  ASSUME NEW oracle \in Nat \ {0}
  PROVE  /\ InverseRate(oracle) \in Nat
         /\ Price(oracle) \in Nat
<1>1. RATE_DECIMALS * RATE_DECIMALS \in Nat
  BY RiskAssumption, ProductNat
<1> DEFINE w == RATE_DECIMALS * RATE_DECIMALS
<1>2. w \in Nat
  BY <1>1
<1> HIDE DEF w
<1>3. w \div oracle \in Nat
  BY <1>2, QuotientNat
<1> QED BY <1>3 DEF InverseRate, Price, w

(* What an account can be valued at. *)
LEMMA ValuesInt ==
  ASSUME NEW s \in LedgersType, NEW a \in Account, NEW t \in Int, CanValueGroups(s, a, t),
         NEW price \in Nat
  PROVE  /\ \A c \in Currency : /\ NetAvailable(s, a, c, t) \in Int
                                /\ CashClaims(s, a, c, t) \in Int
         /\ Aggregate(s, a, t, price) \in Int
<1>1. ASSUME NEW c \in Currency
      PROVE  /\ NetAvailable(s, a, c, t) \in Int
             /\ CashClaims(s, a, c, t) \in Int
  <2> DEFINE p == s.portfolio[c][a]
             mk == s.markets[c]
             claims == [m \in Maturity |-> CashClaim(p, mk, m, t)]
             values == [m \in Maturity |-> CashClaim(p, mk, m, t) + RungValue(p, mk, m, t)]
  <2>1. /\ p \in Portfolio /\ mk \in [Maturity -> Market] /\ s.cash[c][a] \in Int
        /\ CanValue(p, mk, t)
    BY LedgersParts DEF Holder, CanValueGroups
  <2>2. claims \in [Maturity -> Int] /\ values \in [Maturity -> Int]
    <3> HIDE DEF p, mk
    <3>1. \A m \in Maturity : CashClaim(p, mk, m, t) \in Int /\ RungValue(p, mk, m, t) \in Int
      BY <2>1, RungInt
    <3> QED BY <3>1
  <2>3. SumFunction(claims) \in Int /\ SumFunction(values) \in Int
    <3> HIDE DEF claims, values
    <3> QED BY <2>2, SumInt, MaturityInt
  <2> QED BY <2>1, <2>3 DEF NetAvailable, CashClaims, PortfolioValue
<1>2. Aggregate(s, a, t, price) \in Int
  <2> DEFINE values == [c \in Currency |-> ETHValue(c, NetAvailable(s, a, c, t), price)]
  <2>1. values \in [Currency -> Int]
    BY <1>1, ETHValueInt
  <2> HIDE DEF values
  <2>2. SumFunction(values) \in Int
    BY <2>1, SumInt, MaturityInt
  <2> QED BY <2>2 DEF Aggregate, values
<1> QED BY <1>1, <1>2

(* In sound books a pool holds the tokens of every account. *)
LEMMA BooksCanSell ==
  ASSUME NEW s, NEW t \in Int, Books(s, t), NEW a \in Account, NEW c \in Currency,
         CanValueGroups(s, a, t)
  PROVE  CanSell(s, a, c)
<1> DEFINE v == View(s, c)
<1>1. /\ v \in LedgerType /\ v.portfolio = s.portfolio[c] /\ v.markets = s.markets[c]
      /\ \A m \in Maturity : TokensOf(v, m) = v.markets[m].totalLiquidity
      /\ s \in LedgersType
  BY ViewType DEF Books, Sound
<1> HIDE DEF v
<1>2. ASSUME NEW m \in Maturity
      PROVE  v.portfolio[a].token[m] <= v.markets[m].totalLiquidity
  <2> DEFINE f == [b \in Account |-> v.portfolio[b].token[m]]
  <2>1. f \in [Account -> Nat] /\ f[a] = v.portfolio[a].token[m]
    BY <1>1 DEF LedgerType, Portfolio
  <2>2. SumFunction(f) = v.markets[m].totalLiquidity
    BY <1>1 DEF TokensOf
  <2> HIDE DEF f
  <2> QED BY <2>1, <2>2, SumAtLeastTerm, LedgerAssumption
<1>3. \A m \in s.portfolio[c][a].listed : m \in Maturity /\ s.markets[c][m].totalLiquidity > 0
  <2>1. s.portfolio[c][a] \in Portfolio
    BY <1>1, LedgersParts
  <2> QED BY <2>1 DEF CanValueGroups, CanValue, Portfolio
<1> QED BY <1>1, <1>2, <1>3 DEF CanSell, Backing

-----------------------------------------------------------------------------
(* Amounts.                                                                *)

LEMMA LiquidationConstants ==
  /\ RATE_DECIMALS \in Nat \ {0} /\ DECIMALS \in Nat \ {0}
  /\ LIQUIDITY_HAIRCUT \in Nat \ {0} /\ DECIMALS - LIQUIDITY_HAIRCUT \in Nat \ {0}
  /\ LOCAL_BUFFER \in Nat /\ LOCAL_BUFFER - LIQUIDATION_DISCOUNT \in Nat \ {0}
  /\ LIQUIDATION_DISCOUNT \in Nat \ {0} /\ SETTLEMENT_DISCOUNT \in Nat \ {0}
  /\ REPO_INCENTIVE \in Nat \ {0} /\ LIQUIDATION_BUFFER \in Nat
<1>1. /\ RATE_DECIMALS \in Nat \ {0} /\ DECIMALS \in Nat \ {0} /\ LOCAL_BUFFER \in Nat
  BY RiskAssumption
<1>2. /\ LIQUIDITY_HAIRCUT \in 1 .. DECIMALS - 1
      /\ SETTLEMENT_DISCOUNT \in 1 .. LOCAL_BUFFER - 1
      /\ LIQUIDATION_DISCOUNT \in 1 .. LOCAL_BUFFER - 1
      /\ REPO_INCENTIVE \in Nat \ {0} /\ LIQUIDATION_BUFFER \in Nat \ {0}
  BY LiquidationAssumption
<1> QED BY <1>1, <1>2

LEMMA ProductInt ==
  ASSUME NEW x \in Int, NEW y \in Int
  PROVE  x * y \in Int
OBVIOUS

LEMMA ShortfallNat ==
  ASSUME NEW aggregate \in Int, aggregate < 0, NEW oracle \in Nat \ {0}
  PROVE  LocalShortfall(aggregate, oracle) \in Nat
<1> DEFINE w == -aggregate * LIQUIDATION_BUFFER
           q == w \div DECIMALS
           r == InverseRate(oracle) * q
<1>1. w \in Nat
  <2>1. -aggregate \in Nat
    OBVIOUS
  <2> QED BY <2>1, LiquidationConstants, ProductNat
<1> HIDE DEF w
<1>2. q \in Nat
  BY <1>1, LiquidationConstants, QuotientNat
<1> HIDE DEF q
<1>3. r \in Nat
  BY <1>2, RatesNat, ProductNat
<1> HIDE DEF r
<1>4. r \div RATE_DECIMALS \in Nat
  BY <1>3, LiquidationConstants, QuotientNat
<1> QED BY <1>4 DEF LocalShortfall, ETHToLocal, r, q, w

LEMMA LocalToTradeNat ==
  ASSUME NEW required \in Nat, NEW debt \in Nat
  PROVE  LocalToTrade(required, debt) \in Nat
<1> DEFINE w == required * DECIMALS
           q == w \div (LOCAL_BUFFER - LIQUIDATION_DISCOUNT)
<1>1. w \in Nat
  BY LiquidationConstants, ProductNat
<1> HIDE DEF w
<1>2. q \in Nat
  BY <1>1, LiquidationConstants, QuotientNat
<1> HIDE DEF q
<1>3. Min({debt, q}) \in Nat
  <2>1. debt \in Int /\ q \in Int
    BY <1>2
  <2>2. Min({debt, q}) = IF debt <= q THEN debt ELSE q
    BY <2>1, MaxMinOfTwo
  <2> QED BY <1>2, <2>2
<1> QED BY <1>3 DEF LocalToTrade, q, w

LEMMA CollateralToSellNat ==
  ASSUME NEW discount \in Nat, NEW local \in Nat, NEW price \in Nat
  PROVE  /\ CollateralToSell(discount, local, price) \in Nat
         /\ CollateralToSell(discount, local, price) # 0 => price # 0
<1> DEFINE w == price * local * discount
           q == w \div RATE_DECIMALS
<1>1. w \in Nat /\ (price = 0 => w = 0)
  <2> DEFINE v == price * local
  <2>1. v \in Nat /\ (price = 0 => v = 0)
    BY ProductNat
  <2> HIDE DEF v
  <2>2. v * discount \in Nat /\ (v = 0 => v * discount = 0)
    BY <2>1, ProductNat
  <2> QED BY <2>1, <2>2 DEF v
<1> HIDE DEF w
<1>2. q \in Nat /\ (w = 0 => q = 0)
  BY <1>1, LiquidationConstants, QuotientNat
<1> HIDE DEF q
<1>3. q \div DECIMALS \in Nat /\ (q = 0 => q \div DECIMALS = 0)
  BY <1>2, LiquidationConstants, QuotientNat
<1> QED BY <1>1, <1>2, <1>3 DEF CollateralToSell, q, w

LEMMA LocalAmountInt ==
  ASSUME NEW discount \in Nat \ {0}, NEW collateral \in Int, NEW price \in Nat \ {0}
  PROVE  /\ LocalAmount(discount, collateral, price) \in Int
         /\ collateral >= 0 => LocalAmount(discount, collateral, price) >= 0
<1> DEFINE f == RATE_DECIMALS * DECIMALS * DECIMALS
           w == collateral * RATE_DECIMALS * DECIMALS * DECIMALS
           q == w \div price
           d == discount * DECIMALS
<1>1. w \in Int /\ (collateral >= 0 => w >= 0)
  <2>1. \A x \in Int, y \in Nat : x * y \in Int /\ (x >= 0 => x * y >= 0)
    OBVIOUS
  <2> DEFINE u == collateral * RATE_DECIMALS
             v == u * DECIMALS
  <2>2. u \in Int /\ (collateral >= 0 => u >= 0)
    BY <2>1, LiquidationConstants
  <2> HIDE DEF u
  <2>3. v \in Int /\ (u >= 0 => v >= 0)
    BY <2>1, <2>2, LiquidationConstants
  <2> HIDE DEF v
  <2>4. v * DECIMALS \in Int /\ (v >= 0 => v * DECIMALS >= 0)
    BY <2>1, <2>3, LiquidationConstants
  <2> QED BY <2>2, <2>3, <2>4 DEF v, u
<1>2. d \in Nat \ {0}
  <2>1. \A x, y \in Nat \ {0} : x * y \in Nat \ {0}
    OBVIOUS
  <2> QED BY <2>1, LiquidationConstants
<1> HIDE DEF w, d
<1>3. q \in Int /\ (w >= 0 => q \in Nat)
  BY <1>1, QuotientNat
<1> HIDE DEF q
<1>4. q \div d \in Int /\ (q >= 0 => q \div d \in Nat)
  BY <1>2, <1>3, QuotientNat
<1> QED BY <1>1, <1>3, <1>4 DEF LocalAmount, q, d, w

LEMMA HaircutNumbers ==
  ASSUME NEW x \in Int
  PROVE  /\ HaircutOff(x) \in Int
         /\ x >= 0 => ClaimFreeing(x) \in Nat
<1> DEFINE w == x * DECIMALS
<1>1. w \in Int /\ (x >= 0 => w \in Nat)
  BY LiquidationConstants
<1> HIDE DEF w
<1>2. /\ w \div LIQUIDITY_HAIRCUT \in Int
      /\ w >= 0 => w \div (DECIMALS - LIQUIDITY_HAIRCUT) \in Nat
  BY <1>1, LiquidationConstants, QuotientNat
<1> QED BY <1>1, <1>2 DEF HaircutOff, ClaimFreeing, w

-----------------------------------------------------------------------------
(* What a liquidation or settlement of `payer' has done to the ledger s.   *)

Cases == [ledger : LedgersType, aggregate : Int, localNet : Int, localClaim : Int,
          collateralNet : Int, collateralClaim : Int, required : Int, toPayer : Int,
          fromLiquidator : Int, toLiquidator : Int, balance : Int, ok : BOOLEAN]

(* Once its transfers are made, balances fall by what leaves the Escrow. *)
CaseSound(s, payer, x) ==
  /\ x \in Cases
  /\ KeptGroups(s, x.ledger)
  /\ x.ledger.held = s.held
  /\ \A c \in Currency : x.ledger.cash[c][payer] = s.cash[c][payer]
  /\ SumFunction(x.ledger.cash[LocalCurrency]) + x.toPayer
       = SumFunction(s.cash[LocalCurrency]) + x.fromLiquidator
  /\ SumFunction(x.ledger.cash[ETH]) + x.balance
       = SumFunction(s.cash[ETH]) + s.cash[ETH][payer] - x.toLiquidator

(* Collateral is as it was found. *)
CollateralUntouched(s, payer, x) ==
  /\ x.ledger.cash[ETH] = s.cash[ETH]
  /\ x.ledger.portfolio[ETH] = s.portfolio[ETH]
  /\ x.ledger.markets[ETH] = s.markets[ETH]
  /\ x.balance = s.cash[ETH][payer]
  /\ x.toLiquidator = 0

LEMMA CaseOpens ==
  ASSUME NEW s \in LedgersType, NEW payer \in Account, NEW t \in Int, NEW oracle \in Nat \ {0},
         CanValueGroups(s, payer, t),
         NEW x, x = Case(s, payer, t, oracle)
  PROVE  /\ CaseSound(s, payer, x)
         /\ CollateralUntouched(s, payer, x)
         /\ x.ledger = s /\ x.toPayer = 0 /\ x.fromLiquidator = 0
<1>1. /\ \A c \in Currency : /\ NetAvailable(s, payer, c, t) \in Int
                             /\ CashClaims(s, payer, c, t) \in Int
      /\ Aggregate(s, payer, t, Price(oracle)) \in Int
  BY RatesNat, ValuesInt
<1>2. s.cash[ETH][payer] \in Int
  BY LedgersParts, CurrencyFacts DEF Holder
<1>3. x \in Cases
  BY <1>1, <1>2, CurrencyFacts DEF Case, Cases
<1>4. x.ledger = s /\ x.toPayer = 0 /\ x.fromLiquidator = 0 /\ x.toLiquidator = 0
      /\ x.balance = s.cash[ETH][payer]
  BY DEF Case
<1>5. \A c \in Currency : SumFunction(s.cash[c]) \in Int
  BY GapInt
<1> QED BY <1>2, <1>3, <1>4, <1>5, CurrencyFacts, KeptGroupsReflexive DEF CaseSound, CollateralUntouched

(* Local liquidity tokens are sold: the payer gets what the liquidator does not. *)
LEMMA LocalTokensSold ==
  ASSUME NEW s \in LedgersType, NEW payer \in Account, CanSell(s, payer, LocalCurrency),
         NEW amount \in Nat, NEW sale, sale = RaiseViaTokens(s, payer, LocalCurrency, amount),
         NEW x, CollateralUntouched(s, payer, x), x.ledger = s,
         NEW y, y.ledger = sale.ledger, y.balance = x.balance, y.toLiquidator = x.toLiquidator,
         sale.ledger \in LedgersType => y \in Cases,
         y.toPayer - y.fromLiquidator = amount - sale.left
  PROVE  /\ sale.left \in 0 .. amount
         /\ CaseSound(s, payer, y)
         /\ CollateralUntouched(s, payer, y)
<1>1. Sold(s, payer, LocalCurrency, amount, sale)
  BY TokensSold, CurrencyFacts
<1>2. sale.left \in 0 .. amount /\ KeptGroups(s, sale.ledger) /\ sale.ledger \in LedgersType
  BY <1>1 DEF Sold, KeptGroups
<1>3. ETH \in Currency \ {LocalCurrency}
  BY RiskAssumption, CurrencyFacts
<1>4. CollateralUntouched(s, payer, y)
  BY <1>1, <1>3 DEF Sold, CollateralUntouched
<1>5. \A c \in Currency : y.ledger.cash[c][payer] = s.cash[c][payer]
  BY <1>1, <1>3, CurrencyFacts DEF Sold
<1>6. /\ SumFunction(s.cash[LocalCurrency]) \in Int /\ SumFunction(s.cash[ETH]) \in Int
      /\ s.cash[ETH][payer] \in Int
  BY GapInt, LedgersParts, CurrencyFacts DEF Holder
<1>7. y \in Cases /\ y.toPayer \in Int /\ y.fromLiquidator \in Int
  BY <1>2 DEF Cases
<1>8. SumFunction(y.ledger.cash[LocalCurrency]) + y.toPayer
        = SumFunction(s.cash[LocalCurrency]) + y.fromLiquidator
  <2>1. SumFunction(y.ledger.cash[LocalCurrency])
          = SumFunction(s.cash[LocalCurrency]) - (amount - sale.left)
    BY <1>1 DEF Sold
  <2> QED BY <1>2, <1>6, <1>7, <2>1
<1>9. SumFunction(y.ledger.cash[ETH]) + y.balance
        = SumFunction(s.cash[ETH]) + s.cash[ETH][payer] - y.toLiquidator
  BY <1>4, <1>6 DEF CollateralUntouched
<1>10. y.ledger.held = s.held
  BY <1>1 DEF Sold
<1> QED BY <1>2, <1>4, <1>5, <1>7, <1>8, <1>9, <1>10 DEF CaseSound

LEMMA LocalTokensLiquidated ==
  ASSUME NEW s \in LedgersType, NEW payer \in Account, CanSell(s, payer, LocalCurrency),
         NEW x, CaseSound(s, payer, x), CollateralUntouched(s, payer, x), x.ledger = s,
         NEW required \in Nat
  PROVE  /\ CaseSound(s, payer, LiquidateLocalTokens(x, payer, required))
         /\ CollateralUntouched(s, payer, LiquidateLocalTokens(x, payer, required))
<1> DEFINE H == DECIMALS - LIQUIDITY_HAIRCUT
           toTrade == (required * REPO_INCENTIVE) \div H
           sale == RaiseViaTokens(s, payer, LocalCurrency, toTrade)
           withdrawn == toTrade - sale.left
           freed == (withdrawn * H) \div DECIMALS
           raised == IF sale.left > 0 THEN (withdrawn * H) \div REPO_INCENTIVE ELSE required
           incentive == freed - raised
           y == LiquidateLocalTokens(x, payer, required)
<1>1. H \in Nat \ {0} /\ REPO_INCENTIVE \in Nat \ {0} /\ DECIMALS \in Nat \ {0}
  BY LiquidationConstants
<1>2. y = [x EXCEPT !.ledger = sale.ledger, !.toPayer = withdrawn - incentive,
                    !.fromLiquidator = -incentive, !.localNet = @ + raised,
                    !.required = required - raised, !.ok = incentive >= 0]
  BY DEF LiquidateLocalTokens
<1> HIDE DEF H, y
<1>3. toTrade \in Nat
  <2> DEFINE w == required * REPO_INCENTIVE
  <2>1. w \in Nat
    BY <1>1, ProductNat
  <2> HIDE DEF w
  <2>2. w \div H \in Nat
    BY <1>1, <2>1, QuotientNat
  <2> QED BY <2>2 DEF w
<1> HIDE DEF toTrade
<1>4. sale.left \in 0 .. toTrade
  BY <1>3, TokensSold, CurrencyFacts DEF Sold
<1> HIDE DEF sale
<1>5. withdrawn \in Nat
  BY <1>3, <1>4
<1> HIDE DEF withdrawn
<1>6. freed \in Int /\ raised \in Int
  <2> DEFINE w == withdrawn * H
  <2>1. w \in Nat
    BY <1>1, <1>5, ProductNat
  <2> HIDE DEF w
  <2>2. w \div DECIMALS \in Nat /\ w \div REPO_INCENTIVE \in Nat
    BY <1>1, <2>1, QuotientNat
  <2> QED BY <2>2 DEF w
<1> HIDE DEF freed, raised
<1>7. incentive \in Int /\ withdrawn - incentive \in Int /\ -incentive \in Int
      /\ required - raised \in Int /\ (incentive >= 0) \in BOOLEAN
  BY <1>5, <1>6
<1>8. x \in Cases
  BY DEF CaseSound
<1>9. /\ y.ledger = sale.ledger /\ y.balance = x.balance /\ y.toLiquidator = x.toLiquidator
      /\ y.toPayer = withdrawn - incentive /\ y.fromLiquidator = -incentive
  BY <1>2, <1>8 DEF Cases
<1>10. sale.ledger \in LedgersType => y \in Cases
  <2> DEFINE i == incentive >= 0
             n == x.localNet + raised
             v == withdrawn - incentive
             k == -incentive
             l == required - raised
  <2>1. i \in BOOLEAN /\ n \in Int /\ v \in Int /\ k \in Int /\ l \in Int
    BY <1>6, <1>7, <1>8 DEF Cases
  <2>2. y = [x EXCEPT !.ledger = sale.ledger, !.toPayer = v, !.fromLiquidator = k, !.localNet = n,
                      !.required = l, !.ok = i]
    BY <1>2, <1>8 DEF Cases
  <2> HIDE DEF i, n, v, k, l
  <2> QED BY <1>8, <2>1, <2>2 DEF Cases
<1>11. y.toPayer - y.fromLiquidator = toTrade - sale.left
  <2>1. y.toPayer - y.fromLiquidator = withdrawn
    BY <1>5, <1>7, <1>9
  <2> QED BY <2>1 DEF withdrawn
<1>12. sale = RaiseViaTokens(s, payer, LocalCurrency, toTrade)
  BY DEF sale
<1>13. CaseSound(s, payer, y) /\ CollateralUntouched(s, payer, y)
  BY <1>3, <1>9, <1>10, <1>11, <1>12, LocalTokensSold
<1> QED BY <1>13 DEF y

LEMMA ForSaleInt ==
  ASSUME NEW x \in Cases
  PROVE  /\ BalanceAdjustment(x) \in Int
         /\ ForSale(x) \in Int
<1>1. x.collateralNet \in Int /\ x.balance \in Int /\ x.collateralClaim \in Int
  BY DEF Cases
<1>2. x.collateralNet - x.balance - x.collateralClaim \in Int /\ -x.balance \in Int
  BY <1>1
<1>3. fCashValue(x) \in Nat /\ PositivePart(-x.balance) \in Nat
  BY <1>2, PositivePartNat DEF fCashValue
<1>4. BalanceAdjustment(x) \in Int
  <2>1. BalanceAdjustment(x) = IF fCashValue(x) <= PositivePart(-x.balance) THEN fCashValue(x)
                                                                         ELSE PositivePart(-x.balance)
    <3>1. \A n, k \in Nat : Min({n, k}) = IF n <= k THEN n ELSE k
      BY MaxMinOfTwo
    <3> QED BY <1>3, <3>1 DEF BalanceAdjustment
  <2> QED BY <1>3, <2>1
<1> QED BY <1>1, <1>3, <1>4 DEF ForSale

(* Collateral that is sold: what the balance does not pay, the pools do. *)
LEMMA CollateralTraded ==
  ASSUME NEW s \in LedgersType, NEW payer \in Account, CanSell(s, payer, ETH),
         NEW x, CaseSound(s, payer, x), CollateralUntouched(s, payer, x),
         NEW required \in Nat, NEW discount \in Nat \ {0}, NEW price \in Nat
  PROVE  CaseSound(s, payer, TradeCollateral(x, payer, required, discount, price))
<1> DEFINE wanted == CollateralToSell(discount, required, price)
           limit == ForSale(x) + HaircutOff(x.collateralClaim)
           sold == Min({wanted, limit})
           bought == IF wanted > limit THEN LocalAmount(discount, sold, price) ELSE required
           adjusted == BalanceAdjustment(x)
           balance == x.balance + adjusted
           freeing == ClaimFreeing(PositivePart(sold - ForSale(x)))
           toRaise == Max({freeing, sold - balance})
           sale == RaiseViaTokens(x.ledger, payer, ETH, toRaise)
           y == TradeCollateral(x, payer, required, discount, price)
<1>1. /\ x \in Cases /\ x.balance \in Int /\ x.toPayer \in Int /\ x.fromLiquidator \in Int
      /\ x.toLiquidator \in Int /\ x.collateralClaim \in Int /\ x.ledger \in LedgersType /\ x.ok \in BOOLEAN
  BY DEF CaseSound, Cases
<1>2. /\ y = IF wanted = 0 THEN x
             ELSE IF ForSale(x) <= 0 THEN [x EXCEPT !.ok = FALSE]
             ELSE IF toRaise = 0
               THEN [x EXCEPT !.toPayer = @ + bought,
                              !.fromLiquidator = @ + bought,
                              !.toLiquidator = sold,
                              !.balance = @ - sold]
               ELSE [x EXCEPT !.ledger = sale.ledger,
                              !.toPayer = @ + bought,
                              !.fromLiquidator = @ + bought,
                              !.toLiquidator = sold,
                              !.balance = BalanceAfter(balance, sold, toRaise, sale.left) - adjusted,
                              !.ok = @ /\ (balance < sold => sale.left <= 1)]
  BY DEF TradeCollateral
<1>3. adjusted \in Int /\ ForSale(x) \in Int /\ balance \in Int
  BY <1>1, ForSaleInt
<1>4. limit \in Int
  BY <1>1, <1>3, HaircutNumbers
<1>5. wanted \in Nat /\ (wanted # 0 => price \in Nat \ {0})
  BY CollateralToSellNat
<1> HIDE DEF wanted, limit, y, adjusted
<1>6. sold \in Int
  <2>1. sold = IF wanted <= limit THEN wanted ELSE limit
    BY <1>4, <1>5, MaxMinOfTwo
  <2> QED BY <1>4, <1>5, <2>1
<1> HIDE DEF sold
<1>7. wanted # 0 => bought \in Int
  BY <1>5, <1>6, LocalAmountInt
<1> HIDE DEF bought, balance
<1>8. toRaise \in Nat
  <2>1. sold - ForSale(x) \in Int
    BY <1>3, <1>6
  <2>2. PositivePart(sold - ForSale(x)) \in Nat
    BY <2>1, PositivePartNat
  <2>3. freeing \in Nat
    BY <2>2, HaircutNumbers
  <2> HIDE DEF freeing
  <2>4. toRaise = IF freeing >= sold - balance THEN freeing ELSE sold - balance
    BY <1>3, <1>6, <2>3, MaxMinOfTwo
  <2> QED BY <1>3, <1>6, <2>3, <2>4
<1> HIDE DEF toRaise
<1>9. /\ SumFunction(s.cash[ETH]) \in Int /\ s.cash[ETH][payer] \in Int
      /\ SumFunction(s.cash[LocalCurrency]) \in Int
      /\ SumFunction(x.ledger.cash[LocalCurrency]) \in Int
  BY <1>1, GapInt, LedgersParts, CurrencyFacts DEF Holder
<1>10. /\ KeptGroups(s, x.ledger) /\ x.ledger.held = s.held
       /\ \A c \in Currency : x.ledger.cash[c][payer] = s.cash[c][payer]
       /\ SumFunction(x.ledger.cash[LocalCurrency]) + x.toPayer
            = SumFunction(s.cash[LocalCurrency]) + x.fromLiquidator
       /\ x.ledger.cash[ETH] = s.cash[ETH]
       /\ x.balance = s.cash[ETH][payer]
  BY DEF CaseSound, CollateralUntouched
<1>11. CASE wanted = 0
  <2>1. y = x
    BY <1>2, <1>11
  <2> QED BY <2>1 DEF y
<1>12. CASE wanted # 0 /\ ForSale(x) <= 0
  <2>1. y = [x EXCEPT !.ok = FALSE]
    BY <1>2, <1>12
  <2>2. /\ y \in Cases /\ y.ledger = x.ledger /\ y.balance = x.balance
        /\ y.toPayer = x.toPayer /\ y.fromLiquidator = x.fromLiquidator /\ y.toLiquidator = x.toLiquidator
    BY <1>1, <2>1 DEF Cases
  <2> QED BY <2>2 DEF CaseSound, y
<1>13. CASE wanted # 0 /\ ~(ForSale(x) <= 0) /\ toRaise = 0
  <2> DEFINE p == x.toPayer + bought
             f == x.fromLiquidator + bought
             b == x.balance - sold
  <2>1. p \in Int /\ f \in Int /\ b \in Int
    BY <1>1, <1>6, <1>7, <1>13
  <2>2. y = [x EXCEPT !.toPayer = p, !.fromLiquidator = f, !.toLiquidator = sold, !.balance = b]
    BY <1>1, <1>2, <1>13 DEF Cases
  <2> HIDE DEF p, f, b
  <2>3. /\ y \in Cases /\ y.ledger = x.ledger /\ y.balance = b
        /\ y.toPayer = p /\ y.fromLiquidator = f /\ y.toLiquidator = sold
    BY <1>1, <1>6, <2>1, <2>2 DEF Cases
  <2>4. SumFunction(y.ledger.cash[LocalCurrency]) + y.toPayer
          = SumFunction(s.cash[LocalCurrency]) + y.fromLiquidator
    BY <1>1, <1>7, <1>9, <1>10, <1>13, <2>3 DEF p, f
  <2>5. SumFunction(y.ledger.cash[ETH]) + y.balance
          = SumFunction(s.cash[ETH]) + s.cash[ETH][payer] - y.toLiquidator
    BY <1>6, <1>9, <1>10, <2>3 DEF b
  <2>6. CaseSound(s, payer, y)
    BY <1>10, <2>3, <2>4, <2>5 DEF CaseSound
  <2> QED BY <2>6 DEF y
<1>14. CASE wanted # 0 /\ ~(ForSale(x) <= 0) /\ toRaise # 0
  <2> DEFINE u == x.ledger
             p == x.toPayer + bought
             f == x.fromLiquidator + bought
             b == BalanceAfter(balance, sold, toRaise, sale.left) - adjusted
             o == x.ok /\ (balance < sold => sale.left <= 1)
  <2>1. CanSell(u, payer, ETH)
    BY DEF CanSell, CollateralUntouched
  <2>2. Sold(u, payer, ETH, toRaise, sale)
    BY <1>1, <1>8, <2>1, TokensSold, CurrencyFacts
  <2>3. y = [x EXCEPT !.ledger = sale.ledger, !.toPayer = p, !.fromLiquidator = f,
                      !.toLiquidator = sold, !.balance = b, !.ok = o]
    BY <1>1, <1>2, <1>14 DEF Cases
  <2> HIDE DEF sale
  <2>4. sale.left \in 0 .. toRaise /\ sale.left \in Int /\ toRaise \in Int
    BY <1>8, <2>2 DEF Sold
  <2>5. p \in Int /\ f \in Int /\ b \in Int /\ o \in BOOLEAN
    BY <1>1, <1>3, <1>6, <1>7, <1>14, <2>4 DEF BalanceAfter
  <2>6. b = x.balance - sold + (toRaise - sale.left)
    BY <1>1, <1>3, <1>6, <2>4 DEF BalanceAfter, balance
  <2> HIDE DEF p, f, b, o
  <2>7. KeptGroups(u, sale.ledger) /\ sale.ledger \in LedgersType
    BY <2>2 DEF Sold, KeptGroups
  <2>8. /\ y \in Cases /\ y.ledger = sale.ledger /\ y.balance = b
        /\ y.toPayer = p /\ y.fromLiquidator = f /\ y.toLiquidator = sold
    BY <1>1, <1>6, <2>3, <2>5, <2>7 DEF Cases
  <2>9. LocalCurrency \in Currency \ {ETH} /\ ETH \in Currency
    BY RiskAssumption, CurrencyFacts
  <2>10. /\ sale.ledger.cash[LocalCurrency] = u.cash[LocalCurrency]
         /\ SumFunction(sale.ledger.cash[ETH]) = SumFunction(u.cash[ETH]) - (toRaise - sale.left)
         /\ \A c \in Currency : sale.ledger.cash[c][payer] = u.cash[c][payer]
         /\ sale.ledger.held = u.held
    BY <2>2, <2>9, CurrencyFacts DEF Sold
  <2>11. KeptGroups(s, sale.ledger)
    BY <1>10, <2>7, KeptGroupsTransitive
  <2>12. SumFunction(y.ledger.cash[LocalCurrency]) + y.toPayer
          = SumFunction(s.cash[LocalCurrency]) + y.fromLiquidator
    BY <1>1, <1>7, <1>9, <1>10, <1>14, <2>8, <2>10 DEF p, f
  <2>13. SumFunction(y.ledger.cash[ETH]) + y.balance
          = SumFunction(s.cash[ETH]) + s.cash[ETH][payer] - y.toLiquidator
    <3>1. SumFunction(y.ledger.cash[ETH]) = SumFunction(s.cash[ETH]) - (toRaise - sale.left)
      BY <1>10, <2>8, <2>10
    <3> QED BY <1>6, <1>9, <1>10, <2>4, <2>6, <2>8, <3>1
  <2>14. CaseSound(s, payer, y)
    BY <1>10, <2>8, <2>10, <2>11, <2>12, <2>13 DEF CaseSound
  <2> QED BY <2>14 DEF y
<1> QED BY <1>11, <1>12, <1>13, <1>14 DEF y

LEMMA DebtLiquidated ==
  ASSUME NEW s \in LedgersType, NEW payer \in Account, \A c \in Currency : CanSell(s, payer, c),
         NEW x0, CaseSound(s, payer, x0), CollateralUntouched(s, payer, x0), x0.ledger = s,
         x0.aggregate < 0, NEW maxAmount \in Nat, NEW oracle \in Nat \ {0}
  PROVE  CaseSound(s, payer, LiquidateDebt(x0, payer, maxAmount, oracle))
<1> DEFINE short == LocalShortfall(x0.aggregate, oracle)
           x == IF x0.localClaim > 0 THEN LiquidateLocalTokens(x0, payer, short)
                                     ELSE [x0 EXCEPT !.required = short]
           debt == LocalToTrade(x.required, -x.localNet)
           required == IF maxAmount > 0 THEN Min({debt, maxAmount}) ELSE debt
           y == LiquidateDebt(x0, payer, maxAmount, oracle)
<1>1. y = IF x.required > 0 /\ x.localNet < 0
            THEN TradeCollateral(x, payer, required, LIQUIDATION_DISCOUNT, Price(oracle))
            ELSE x
  BY DEF LiquidateDebt
<1>2. x0 \in Cases /\ x0.aggregate \in Int
  BY DEF CaseSound, Cases
<1>3. short \in Nat
  BY <1>2, ShortfallNat
<1> HIDE DEF short, y
<1>4. CaseSound(s, payer, x) /\ CollateralUntouched(s, payer, x)
  <2>1. CASE x0.localClaim > 0
    <3>1. x = LiquidateLocalTokens(x0, payer, short)
      BY <2>1
    <3> HIDE DEF x
    <3>2. CanSell(s, payer, LocalCurrency)
      BY CurrencyFacts
    <3> QED BY <1>3, <3>1, <3>2, LocalTokensLiquidated
  <2>2. CASE ~(x0.localClaim > 0)
    <3>1. x = [x0 EXCEPT !.required = short]
      BY <2>2
    <3> HIDE DEF x
    <3>2. /\ x \in Cases /\ x.ledger = x0.ledger /\ x.balance = x0.balance
          /\ x.toPayer = x0.toPayer /\ x.fromLiquidator = x0.fromLiquidator
          /\ x.toLiquidator = x0.toLiquidator
      BY <1>2, <1>3, <3>1 DEF Cases
    <3>3. CaseSound(s, payer, x)
      BY <3>2 DEF CaseSound
    <3>4. CollateralUntouched(s, payer, x)
      BY <3>2 DEF CollateralUntouched
    <3> QED BY <3>3, <3>4
  <2> QED BY <2>1, <2>2
<1> HIDE DEF x
<1>5. x.required \in Int /\ x.localNet \in Int
  BY <1>4 DEF CaseSound, Cases
<1>6. CASE x.required > 0 /\ x.localNet < 0
  <2>1. x.required \in Nat /\ -x.localNet \in Nat
    BY <1>5, <1>6
  <2>2. debt \in Nat
    BY <2>1, LocalToTradeNat
  <2> HIDE DEF debt
  <2>3. required \in Nat
    <3>1. \A n, k \in Nat : Min({n, k}) = IF n <= k THEN n ELSE k
      BY MaxMinOfTwo
    <3> QED BY <2>2, <3>1
  <2> HIDE DEF required
  <2>4. CanSell(s, payer, ETH)
    BY CurrencyFacts
  <2>5. Price(oracle) \in Nat /\ LIQUIDATION_DISCOUNT \in Nat \ {0}
    BY RatesNat, LiquidationConstants
  <2>6. CaseSound(s, payer, TradeCollateral(x, payer, required, LIQUIDATION_DISCOUNT, Price(oracle)))
    BY <1>4, <2>3, <2>4, <2>5, CollateralTraded
  <2>7. y = TradeCollateral(x, payer, required, LIQUIDATION_DISCOUNT, Price(oracle))
    BY <1>1, <1>6
  <2> QED BY <2>6, <2>7 DEF y
<1>7. CASE ~(x.required > 0 /\ x.localNet < 0)
  <2>1. y = x
    BY <1>1, <1>7
  <2> QED BY <1>4, <2>1 DEF y
<1> QED BY <1>6, <1>7

(* What a settlement gains from claims beyond their valuation. *)
LEMMA BufferedInt ==
  ASSUME NEW raised \in Int, NEW claim \in Int, NEW net, NEW price \in Nat
  PROVE  ((price * PositivePart(raised - claim) * (IF net < 0 THEN LOCAL_BUFFER ELSE DECIMALS))
            \div RATE_DECIMALS) \div DECIMALS \in Int
<1> DEFINE gained == PositivePart(raised - claim)
           buffer == IF net < 0 THEN LOCAL_BUFFER ELSE DECIMALS
           w == price * gained * buffer
           q == w \div RATE_DECIMALS
<1>1. raised - claim \in Int
  OBVIOUS
<1>2. gained \in Nat /\ buffer \in Nat
  BY <1>1, PositivePartNat, LiquidationConstants
<1> HIDE DEF gained, buffer
<1>3. w \in Nat
  BY <1>2, ProductNat
<1> HIDE DEF w
<1>4. q \in Nat
  BY <1>3, LiquidationConstants, QuotientNat
<1> HIDE DEF q
<1>5. q \div DECIMALS \in Int
  BY <1>4, LiquidationConstants, QuotientNat
<1> QED BY <1>5 DEF q, w, gained, buffer

LEMMA DebtSettled ==
  ASSUME NEW s \in LedgersType, NEW payer \in Account, \A c \in Currency : CanSell(s, payer, c),
         NEW x0, CaseSound(s, payer, x0), CollateralUntouched(s, payer, x0), x0.ledger = s,
         x0.toPayer = 0, x0.fromLiquidator = 0, NEW value \in Nat, NEW price \in Nat
  PROVE  CaseSound(s, payer, SettleDebt(x0, payer, value, price))
<1> DEFINE sale == RaiseViaTokens(s, payer, LocalCurrency, value)
           raised == value - sale.left
           gained == PositivePart(raised - x0.localClaim)
           buffer == IF x0.localNet < 0 THEN LOCAL_BUFFER ELSE DECIMALS
           added == ((price * gained * buffer) \div RATE_DECIMALS) \div DECIMALS
           x == IF x0.localClaim > 0
                  THEN [x0 EXCEPT !.ledger = sale.ledger, !.toPayer = raised, !.aggregate = @ + added]
                  ELSE x0
           y == SettleDebt(x0, payer, value, price)
<1>1. y = IF value > x.toPayer /\ x.aggregate >= 0
            THEN TradeCollateral(x, payer, value - x.toPayer, SETTLEMENT_DISCOUNT, price)
            ELSE x
  BY DEF SettleDebt
<1>2. x0 \in Cases /\ x0.aggregate \in Int /\ x0.localClaim \in Int
  BY DEF CaseSound, Cases
<1>3. CanSell(s, payer, LocalCurrency) /\ CanSell(s, payer, ETH)
  BY CurrencyFacts
<1>4. sale.left \in 0 .. value
  BY <1>3, TokensSold, CurrencyFacts DEF Sold
<1> HIDE DEF y, sale
<1>5. raised \in Nat
  BY <1>4
<1>6. added \in Int
  BY <1>2, <1>5, BufferedInt
<1> HIDE DEF added
<1>7. CaseSound(s, payer, x) /\ CollateralUntouched(s, payer, x)
  <2>1. CASE x0.localClaim > 0
    <3> DEFINE g == x0.aggregate + added
    <3>1. x = [x0 EXCEPT !.ledger = sale.ledger, !.toPayer = raised, !.aggregate = g]
      BY <1>2, <2>1 DEF Cases
    <3>2. g \in Int /\ raised \in Int
      BY <1>2, <1>5, <1>6
    <3> HIDE DEF x, g
    <3>3. /\ x.ledger = sale.ledger /\ x.balance = x0.balance /\ x.toLiquidator = x0.toLiquidator
          /\ x.toPayer = raised /\ x.fromLiquidator = 0
          /\ sale.ledger \in LedgersType => x \in Cases
      <4> HIDE DEF raised
      <4> QED BY <1>2, <3>1, <3>2 DEF Cases
    <3>4. x.toPayer - x.fromLiquidator = value - sale.left
      BY <3>3, <3>2
    <3> QED BY <1>3, <3>3, <3>4, LocalTokensSold DEF sale
  <2>2. CASE ~(x0.localClaim > 0)
    <3>1. x = x0
      BY <2>2
    <3> QED BY <3>1
  <2> QED BY <2>1, <2>2
<1> HIDE DEF x
<1>8. CASE value > x.toPayer /\ x.aggregate >= 0
  <2> DEFINE required == value - x.toPayer
  <2>1. x.toPayer \in Int
    BY <1>7 DEF CaseSound, Cases
  <2>2. required \in Nat
    BY <1>8, <2>1
  <2> HIDE DEF required
  <2>3. CaseSound(s, payer, TradeCollateral(x, payer, required, SETTLEMENT_DISCOUNT, price))
    BY <1>3, <1>7, <2>2, LiquidationConstants, CollateralTraded
  <2>4. y = TradeCollateral(x, payer, required, SETTLEMENT_DISCOUNT, price)
    BY <1>1, <1>8 DEF required
  <2> QED BY <2>3, <2>4 DEF y
<1>9. CASE ~(value > x.toPayer /\ x.aggregate >= 0)
  <2>1. y = x
    BY <1>1, <1>9
  <2> QED BY <1>7, <2>1 DEF y
<1> QED BY <1>8, <1>9

-----------------------------------------------------------------------------
(* The end of a liquidation or settlement.                                 *)

LEMMA CashOfAccount ==
  ASSUME NEW s \in LedgersType, NEW c \in Currency, NEW a \in Account
  PROVE  /\ s.cash[c] \in [Holder -> Int] /\ a \in Holder /\ s.cash[c][a] \in Int
         /\ SumFunction(s.cash[c]) \in Int
<1>1. s.cash[c] \in [Holder -> Int]
  BY LedgersParts
<1>2. a \in Holder
  BY DEF Holder
<1> QED BY <1>1, <1>2, GapInt

(* A ledger with the balances in c replaced. *)
WithCash(s, c, b) ==
  [cash |-> [s.cash EXCEPT ![c] = b], held |-> s.held, portfolio |-> s.portfolio, markets |-> s.markets]

LEMMA BalanceReplaced ==
  ASSUME NEW s \in LedgersType, NEW c \in Currency,
         NEW b \in [Holder -> Int], b[CASH_MARKET] = s.cash[c][CASH_MARKET],
         NEW r, r = WithCash(s, c, b)
  PROVE  /\ r \in LedgersType
         /\ KeptGroups(s, r)
         /\ r.held = s.held
         /\ r.cash[c] = b
         /\ \A d \in Currency \ {c} : r.cash[d] = s.cash[d]
<1>1. r \in LedgersType
  BY LedgersParts DEF LedgersType, WithCash
<1>2. /\ r.cash[c] = b /\ \A d \in Currency \ {c} : r.cash[d] = s.cash[d]
      /\ r.held = s.held /\ r.portfolio = s.portfolio /\ r.markets = s.markets
  BY LedgersParts DEF WithCash
<1>3. KeptGroups(s, r)
  <2>1. \A d \in Currency : r.cash[d][CASH_MARKET] = s.cash[d][CASH_MARKET]
    BY <1>2
  <2> QED BY <1>1, <1>2, <2>1, CashOnly
<1> QED BY <1>1, <1>2, <1>3

LEMMA ChargedAs ==
  ASSUME NEW s \in LedgersType, NEW a, NEW n
  PROVE  Charged(s, a, n) = WithCash(s, LocalCurrency, Credit(s.cash[LocalCurrency], a, -n))
<1>1. s = [cash |-> s.cash, held |-> s.held, portfolio |-> s.portfolio, markets |-> s.markets]
  BY LedgersParts
<1> QED BY <1>1 DEF Charged, WithCash

LEMMA PaidAs ==
  ASSUME NEW x, NEW payer, NEW u \in LedgersType, u = Charged(x.ledger, payer, -x.toPayer)
  PROVE  Paid(x, payer) = WithCash(u, ETH, [u.cash[ETH] EXCEPT ![payer] = x.balance])
<1>1. u = [cash |-> u.cash, held |-> u.held, portfolio |-> u.portfolio, markets |-> u.markets]
  BY LedgersParts
<1>2. Paid(x, payer) = [u EXCEPT !.cash[ETH] = [@ EXCEPT ![payer] = x.balance]]
  BY DEF Paid
<1> QED BY <1>1, <1>2 DEF WithCash

(* One balance of the local currency. *)
LEMMA ChargedEffect ==
  ASSUME NEW s \in LedgersType, NEW a \in Account, NEW n \in Int
  PROVE  /\ KeptGroups(s, Charged(s, a, n)) /\ Charged(s, a, n) \in LedgersType
         /\ Charged(s, a, n).held = s.held
         /\ SumFunction(Charged(s, a, n).cash[LocalCurrency]) = SumFunction(s.cash[LocalCurrency]) - n
         /\ Charged(s, a, n).cash[ETH] = s.cash[ETH]
<1> DEFINE r == Charged(s, a, n)
           b == Credit(s.cash[LocalCurrency], a, -n)
<1>1. /\ s.cash[LocalCurrency] \in [Holder -> Int] /\ a \in Holder
      /\ SumFunction(s.cash[LocalCurrency]) \in Int
  BY CashOfAccount, CurrencyFacts
<1>2. /\ b \in [Holder -> Int]
      /\ SumFunction(b) = SumFunction(s.cash[LocalCurrency]) + (-n)
      /\ b[CASH_MARKET] = s.cash[LocalCurrency][CASH_MARKET]
  <2>1. -n \in Int
    OBVIOUS
  <2>2. CASH_MARKET \in Holder /\ CASH_MARKET # a
    BY LedgerAssumption DEF Holder
  <2> QED BY <1>1, <2>1, <2>2, CreditEffect, ZenonT(60)
<1>3. r = WithCash(s, LocalCurrency, b)
  BY ChargedAs
<1> HIDE DEF b, r
<1>4. /\ r \in LedgersType /\ KeptGroups(s, r) /\ r.held = s.held /\ r.cash[LocalCurrency] = b
      /\ \A d \in Currency \ {LocalCurrency} : r.cash[d] = s.cash[d]
  BY <1>2, <1>3, CurrencyFacts, BalanceReplaced
<1>5. ETH \in Currency \ {LocalCurrency}
  BY CurrencyFacts, RiskAssumption
<1> QED BY <1>1, <1>2, <1>4, <1>5 DEF r

LEMMA PaidEffect ==
  ASSUME NEW s \in LedgersType, NEW payer \in Account, NEW x, CaseSound(s, payer, x),
         NEW r, r = Paid(x, payer)
  PROVE  /\ KeptGroups(s, r) /\ r \in LedgersType
         /\ r.held = s.held
         /\ SumFunction(r.cash[LocalCurrency]) = SumFunction(s.cash[LocalCurrency]) + x.fromLiquidator
         /\ SumFunction(r.cash[ETH]) = SumFunction(s.cash[ETH]) - x.toLiquidator
<1> DEFINE u == Charged(x.ledger, payer, -x.toPayer)
           n == -x.toPayer
           b == [u.cash[ETH] EXCEPT ![payer] = x.balance]
<1>1. /\ x.ledger \in LedgersType /\ x.toPayer \in Int /\ x.fromLiquidator \in Int
      /\ x.toLiquidator \in Int /\ x.balance \in Int /\ n \in Int
  BY DEF CaseSound, Cases
<1>2. /\ KeptGroups(x.ledger, u) /\ u \in LedgersType /\ u.held = x.ledger.held
      /\ SumFunction(u.cash[LocalCurrency]) = SumFunction(x.ledger.cash[LocalCurrency]) - n
      /\ u.cash[ETH] = x.ledger.cash[ETH]
  <2>1. u = Charged(x.ledger, payer, n)
    OBVIOUS
  <2> HIDE DEF u, n, b
  <2> QED BY <1>1, <2>1, ChargedEffect
<1>3. r = WithCash(u, ETH, b)
  <2>1. u = Charged(x.ledger, payer, -x.toPayer)
    OBVIOUS
  <2> HIDE DEF u
  <2> QED BY <1>2, <2>1, PaidAs
<1> HIDE DEF u
<1>4. /\ u.cash[ETH] \in [Holder -> Int] /\ payer \in Holder /\ u.cash[ETH][payer] \in Int
      /\ SumFunction(u.cash[ETH]) \in Int
  BY <1>2, CashOfAccount, CurrencyFacts
<1>5. /\ b \in [Holder -> Int]
      /\ SumFunction(b) = SumFunction(u.cash[ETH]) + x.balance - u.cash[ETH][payer]
      /\ b[CASH_MARKET] = u.cash[ETH][CASH_MARKET]
  <2>1. CASH_MARKET \in Holder /\ CASH_MARKET # payer /\ IsFiniteSet(Holder)
    BY LedgerAssumption, FS_AddElement DEF Holder
  <2> QED BY <1>1, <1>4, <2>1, SumUpdate
<1> HIDE DEF b
<1>6. /\ r \in LedgersType /\ KeptGroups(u, r) /\ r.held = u.held /\ r.cash[ETH] = b
      /\ \A d \in Currency \ {ETH} : r.cash[d] = u.cash[d]
  BY <1>2, <1>3, <1>5, CurrencyFacts, BalanceReplaced
<1>7. LocalCurrency \in Currency \ {ETH} /\ ETH \in Currency
  BY RiskAssumption, CurrencyFacts
<1>8. KeptGroups(s, r)
  <2>1. KeptGroups(s, u)
    BY <1>2, KeptGroupsTransitive DEF CaseSound
  <2> QED BY <1>6, <2>1, KeptGroupsTransitive
<1>9. /\ SumFunction(s.cash[ETH]) \in Int /\ SumFunction(s.cash[LocalCurrency]) \in Int
      /\ s.cash[ETH][payer] \in Int
      /\ SumFunction(x.ledger.cash[LocalCurrency]) \in Int
  BY <1>1, <1>7, CashOfAccount
<1>10. SumFunction(r.cash[LocalCurrency]) = SumFunction(s.cash[LocalCurrency]) + x.fromLiquidator
  <2>1. SumFunction(x.ledger.cash[LocalCurrency]) + x.toPayer
          = SumFunction(s.cash[LocalCurrency]) + x.fromLiquidator
    BY DEF CaseSound
  <2>2. r.cash[LocalCurrency] = u.cash[LocalCurrency]
    BY <1>6, <1>7
  <2> QED BY <1>1, <1>2, <1>9, <2>1, <2>2
<1>11. SumFunction(r.cash[ETH]) = SumFunction(s.cash[ETH]) - x.toLiquidator
  <2>1. x.ledger.cash[ETH][payer] = s.cash[ETH][payer]
    BY <1>7 DEF CaseSound
  <2>2. SumFunction(x.ledger.cash[ETH]) + x.balance
          = SumFunction(s.cash[ETH]) + s.cash[ETH][payer] - x.toLiquidator
    BY DEF CaseSound
  <2> QED BY <1>1, <1>2, <1>4, <1>5, <1>6, <1>9, <2>1, <2>2
<1>12. r.held = s.held
  BY <1>2, <1>6 DEF CaseSound
<1> QED BY <1>6, <1>8, <1>10, <1>11, <1>12

(* A ledger with the tokens held of c replaced. *)
WithHeld(s, c, n) ==
  [cash |-> s.cash, held |-> [s.held EXCEPT ![c] = n], portfolio |-> s.portfolio, markets |-> s.markets]

LEMMA HeldReplaced ==
  ASSUME NEW s \in LedgersType, NEW c \in Currency, NEW n \in Nat
  PROVE  /\ WithHeld(s, c, n) \in LedgersType
         /\ KeptGroups(s, WithHeld(s, c, n))
         /\ WithHeld(s, c, n).cash = s.cash
         /\ WithHeld(s, c, n).held[c] = n
         /\ \A d \in Currency \ {c} : WithHeld(s, c, n).held[d] = s.held[d]
<1> DEFINE r == WithHeld(s, c, n)
<1>1. /\ r.cash = s.cash /\ r.portfolio = s.portfolio /\ r.markets = s.markets
      /\ r.held[c] = n /\ \A d \in Currency \ {c} : r.held[d] = s.held[d]
  BY LedgersParts DEF WithHeld
<1>2. r \in LedgersType
  BY LedgersParts DEF LedgersType, WithHeld
<1>3. KeptGroups(s, r)
  BY <1>1, <1>2, CashOnly
<1> QED BY <1>1, <1>2, <1>3

LEMMA ReceivedAs ==
  ASSUME NEW s \in LedgersType, NEW n
  PROVE  /\ Received(s, n) = WithHeld(s, LocalCurrency, s.held[LocalCurrency] + n)
         /\ [s EXCEPT !.held[ETH] = @ - n] = WithHeld(s, ETH, s.held[ETH] - n)
<1>1. s = [cash |-> s.cash, held |-> s.held, portfolio |-> s.portfolio, markets |-> s.markets]
  BY LedgersParts
<1> QED BY <1>1 DEF Received, WithHeld

(* What a change of balances and holdings does to the gap. *)
LEMMA GapMoves ==
  ASSUME NEW s \in LedgersType, NEW r, KeptGroups(s, r), NEW c \in Currency
  PROVE  /\ Gap(s, c) \in Int /\ Gap(r, c) \in Int
         /\ Gap(r, c) = Gap(s, c) + (SumFunction(r.cash[c]) - SumFunction(s.cash[c]))
                                  - (r.held[c] - s.held[c])
<1>1. r \in LedgersType /\ Unset(View(r, c)) = Unset(View(s, c))
  BY KeptGroupsUnset DEF KeptGroups
<1>2. /\ SumFunction(s.cash[c]) \in Int /\ Unset(View(s, c)) \in Int /\ s.held[c] \in Int
      /\ SumFunction(r.cash[c]) \in Int /\ r.held[c] \in Int
      /\ Gap(s, c) \in Int /\ Gap(r, c) \in Int
  BY <1>1, GapInt
<1> QED BY <1>1, <1>2 DEF Gap

LEMMA ReceivedEffect ==
  ASSUME NEW s \in LedgersType, NEW n \in Int, s.held[LocalCurrency] + n >= 0
  PROVE  /\ KeptGroups(s, Received(s, n))
         /\ Received(s, n).held[ETH] = s.held[ETH]
         /\ Gap(Received(s, n), LocalCurrency) = Gap(s, LocalCurrency) - n
         /\ Gap(Received(s, n), ETH) = Gap(s, ETH)
<1> DEFINE r == Received(s, n)
           k == s.held[LocalCurrency] + n
<1>1. s.held[LocalCurrency] \in Nat /\ k \in Nat
  <2>1. s.held[LocalCurrency] \in Nat
    BY LedgersParts, CurrencyFacts
  <2> QED BY <2>1
<1>2. r = WithHeld(s, LocalCurrency, k)
  BY ReceivedAs
<1>3. ETH \in Currency \ {LocalCurrency} /\ LocalCurrency \in Currency
  BY CurrencyFacts, RiskAssumption
<1> HIDE DEF r
<1>4. /\ KeptGroups(s, r) /\ r.cash = s.cash /\ r.held[LocalCurrency] = k
      /\ r.held[ETH] = s.held[ETH]
  <2> HIDE DEF k
  <2> QED BY <1>1, <1>2, <1>3, HeldReplaced
<1>5. \A c \in Currency : Gap(r, c) = Gap(s, c) - (r.held[c] - s.held[c]) /\ Gap(s, c) \in Int
  <2> TAKE c \in Currency
  <2>1. /\ Gap(s, c) \in Int
        /\ Gap(r, c) = Gap(s, c) + (SumFunction(r.cash[c]) - SumFunction(s.cash[c]))
                                 - (r.held[c] - s.held[c])
    BY <1>4, GapMoves
  <2>2. SumFunction(s.cash[c]) \in Int /\ r.held[c] - s.held[c] \in Int
    <3>1. r \in LedgersType
      BY <1>4 DEF KeptGroups
    <3>2. r.held[c] \in Nat /\ s.held[c] \in Nat /\ SumFunction(s.cash[c]) \in Int
      BY <3>1, GapInt
    <3> QED BY <3>2
  <2> QED BY <1>4, <2>1, <2>2
<1>6. Gap(r, LocalCurrency) = Gap(s, LocalCurrency) - n
  BY <1>1, <1>3, <1>4, <1>5
<1>7. Gap(r, ETH) = Gap(s, ETH)
  <2>1. r.held[ETH] - s.held[ETH] = 0
    BY <1>3, <1>4, LedgersParts
  <2> QED BY <1>3, <1>5, <2>1
<1> QED BY <1>4, <1>6, <1>7 DEF r

LEMMA ChargedGap ==
  ASSUME NEW s \in LedgersType, NEW a \in Account, NEW n \in Int
  PROVE  /\ KeptGroups(s, Charged(s, a, n))
         /\ Charged(s, a, n).held = s.held
         /\ Gap(Charged(s, a, n), LocalCurrency) = Gap(s, LocalCurrency) - n
         /\ Gap(Charged(s, a, n), ETH) = Gap(s, ETH)
<1> DEFINE r == Charged(s, a, n)
<1>1. /\ KeptGroups(s, r) /\ r.held = s.held
      /\ SumFunction(r.cash[LocalCurrency]) = SumFunction(s.cash[LocalCurrency]) - n
      /\ r.cash[ETH] = s.cash[ETH]
  BY ChargedEffect
<1> HIDE DEF r
<1>2. LocalCurrency \in Currency /\ ETH \in Currency
  BY CurrencyFacts
<1>3. \A c \in Currency : SumFunction(s.cash[c]) \in Int /\ s.held[c] \in Nat
  BY GapInt
<1>4. \A c \in Currency : /\ Gap(s, c) \in Int
                          /\ Gap(r, c) = Gap(s, c) + (SumFunction(r.cash[c]) - SumFunction(s.cash[c]))
                                                   - (r.held[c] - s.held[c])
  BY <1>1, GapMoves
<1>5. Gap(r, LocalCurrency) = Gap(s, LocalCurrency) - n
  BY <1>1, <1>2, <1>3, <1>4
<1>6. Gap(r, ETH) = Gap(s, ETH)
  BY <1>1, <1>2, <1>3, <1>4
<1> QED BY <1>1, <1>5, <1>6 DEF r

(* What the liquidator pays is what the gap falls by: a plain token comes in,
   a token with a fee is charged.  A hook credits the sender of a token as well,
   so that nothing is paid. *)
LEMMA Finished ==
  ASSUME NEW s, Books(s, now), now \in Int, NEW a \in Account, NEW net \in Int, CanFinish(s, a, net)
  PROVE  /\ Books(Finish(s, a, net), now)
         /\ Finish(s, a, net).held[ETH] = s.held[ETH]
         /\ Gap(Finish(s, a, net), ETH) = Gap(s, ETH)
         /\ TokenKind # "hook" => Gap(Finish(s, a, net), LocalCurrency) = Gap(s, LocalCurrency) - net
<1> DEFINE r == Finish(s, a, net)
<1>1. s \in LedgersType
  BY DEF Books
<1>2. s.held[LocalCurrency] + net >= 0
  BY DEF CanFinish
<1>3. CASE net <= 0 \/ TokenKind = "plain"
  <2>1. r = Received(s, net)
    BY <1>3 DEF Finish
  <2> HIDE DEF r
  <2>2. /\ KeptGroups(s, r) /\ r.held[ETH] = s.held[ETH]
        /\ Gap(r, LocalCurrency) = Gap(s, LocalCurrency) - net
        /\ Gap(r, ETH) = Gap(s, ETH)
    BY <1>1, <1>2, <2>1, ReceivedEffect
  <2>3. Books(r, now)
    BY <2>2, KeptGroupsBooks
  <2> QED BY <2>2, <2>3 DEF r
<1>4. CASE ~(net <= 0 \/ TokenKind = "plain") /\ TokenKind = "hook"
  <2> DEFINE n == -net
             u == Charged(s, a, n)
  <2>1. r = Received(u, net) /\ n \in Int
    BY <1>4 DEF Finish
  <2> HIDE DEF r, n
  <2>2. KeptGroups(s, u) /\ u.held = s.held /\ Gap(u, ETH) = Gap(s, ETH)
    BY <1>1, <2>1, ChargedGap
  <2> HIDE DEF u
  <2>3. u \in LedgersType /\ u.held[LocalCurrency] + net >= 0
    BY <1>2, <2>2 DEF KeptGroups
  <2>4. KeptGroups(u, r) /\ r.held[ETH] = u.held[ETH] /\ Gap(r, ETH) = Gap(u, ETH)
    BY <2>1, <2>3, ReceivedEffect
  <2>5. Books(r, now)
    BY <2>2, <2>4, KeptGroupsBooks
  <2> QED BY <1>4, <2>2, <2>4, <2>5 DEF r
<1>5. CASE ~(net <= 0 \/ TokenKind = "plain") /\ TokenKind # "hook"
  <2> DEFINE u == Charged(s, a, net)
  <2>1. r = SettleGroups(u, a, now)
    BY <1>5 DEF Finish
  <2>2. CanSettleGroups(u, a, now)
    <3>1. TokenKind = "fee" /\ net > 0
      BY <1>5, LiquidationsAssumption
    <3> QED BY <3>1 DEF CanFinish
  <2> HIDE DEF r
  <2>3. /\ KeptGroups(s, u) /\ u.held = s.held /\ Gap(u, ETH) = Gap(s, ETH)
        /\ Gap(u, LocalCurrency) = Gap(s, LocalCurrency) - net
    BY <1>1, ChargedGap
  <2> HIDE DEF u
  <2>4. Books(u, now)
    BY <2>3, KeptGroupsBooks
  <2>5. Books(r, now) /\ r.held = u.held /\ \A c \in Currency : Gap(r, c) = Gap(u, c)
    BY <2>1, <2>2, <2>4, SettleGroupsBooks
  <2> QED BY <2>3, <2>5, CurrencyFacts DEF r
<1> QED BY <1>3, <1>4, <1>5

-----------------------------------------------------------------------------
(* The inductive invariant.  A hook lets the liquidator off, so that only the
   books of the pools are kept then. *)
Whole(s) == TokenKind # "hook" => \A c \in Currency : Gap(s, c) = 0

IInv ==
  /\ Books(ledger, now)
  /\ now \in 0 .. MaxTime
  /\ rate \in Rate
  /\ Whole(ledger)

LEMMA TimeAndRate ==
  ASSUME IInv
  PROVE  /\ now \in Int
         /\ rate \in Nat \ {0} /\ Price(rate) \in Nat
         /\ \A a \in Payer \cup Liquidator : a \in Account
<1>1. now \in Int /\ rate \in Nat \ {0} /\ \A a \in Payer \cup Liquidator : a \in Account
  BY LiquidationsAssumption DEF IInv
<1> QED BY <1>1, RatesNat

LEMMA CommitKeeps ==
  ASSUME IInv, NEW s, Books(s, now), Whole(s), Commit(s)
  PROVE  IInv'
<1>1. s \in LedgersType
  BY DEF Books
<1>2. ledger' = s
  BY <1>1, LedgersParts DEF Commit, ledger
<1>3. now' = now /\ rate' = rate
  BY DEF Commit
<1>4. Books(s, now)' /\ Whole(s)'
  BY <1>3
<1> QED BY <1>1, <1>2, <1>3, <1>4 DEF IInv

LEMMA PayerSettled ==
  ASSUME IInv, NEW a \in Account, CanSettleGroups(ledger, a, now)
  PROVE  /\ Books(SettleGroups(ledger, a, now), now)
         /\ Whole(SettleGroups(ledger, a, now))
         /\ SettleGroups(ledger, a, now).held = held
<1>1. Books(ledger, now) /\ now \in Int /\ Whole(ledger)
  BY TimeAndRate DEF IInv
<1>2. /\ Books(SettleGroups(ledger, a, now), now)
      /\ SettleGroups(ledger, a, now).held = ledger.held
      /\ \A c \in Currency : Gap(SettleGroups(ledger, a, now), c) = Gap(ledger, c)
  BY <1>1, SettleGroupsBooks
<1>3. ledger.held = held
  BY DEF ledger
<1> QED BY <1>1, <1>2, <1>3 DEF Whole

LEMMA ConcludeKeeps ==
  ASSUME IInv, NEW s, Books(s, now), Whole(s), s.held = held, NEW payer \in Account,
         NEW liquidator \in Account, NEW x, CaseSound(s, payer, x), Conclude(x, liquidator, payer)
  PROVE  IInv'
<1> DEFINE paid == Paid(x, payer)
           net == x.fromLiquidator
           done == Finish(paid, liquidator, net)
           k == done.held[ETH] - x.toLiquidator
           r == WithHeld(done, ETH, k)
<1>1. s \in LedgersType /\ now \in Int
  BY TimeAndRate DEF Books
<1>2. net \in Int /\ x.toLiquidator \in Int
  BY DEF CaseSound, Cases
<1>3. /\ x.toLiquidator <= held[ETH]
      /\ CanFinish(paid, liquidator, net)
      /\ Commit([done EXCEPT !.held[ETH] = @ - x.toLiquidator])
  BY DEF Conclude
<1>4. /\ KeptGroups(s, paid) /\ paid \in LedgersType /\ paid.held = s.held
      /\ SumFunction(paid.cash[LocalCurrency]) = SumFunction(s.cash[LocalCurrency]) + net
      /\ SumFunction(paid.cash[ETH]) = SumFunction(s.cash[ETH]) - x.toLiquidator
  BY <1>1, PaidEffect
<1> HIDE DEF paid
<1>5. LocalCurrency \in Currency /\ ETH \in Currency /\ ETH # LocalCurrency
  BY CurrencyFacts, RiskAssumption
<1>6. /\ Gap(paid, LocalCurrency) = Gap(s, LocalCurrency) + net
      /\ Gap(paid, ETH) = Gap(s, ETH) - x.toLiquidator
      /\ Gap(s, ETH) \in Int /\ Gap(s, LocalCurrency) \in Int
  <2>1. \A c \in Currency : /\ Gap(s, c) \in Int
                            /\ Gap(paid, c) = Gap(s, c) + (SumFunction(paid.cash[c]) - SumFunction(s.cash[c]))
                                                        - (paid.held[c] - s.held[c])
                            /\ SumFunction(s.cash[c]) \in Int /\ s.held[c] \in Nat
    BY <1>1, <1>4, GapMoves, GapInt
  <2> QED BY <1>2, <1>4, <1>5, <2>1
<1>7. /\ Books(done, now) /\ done.held[ETH] = paid.held[ETH] /\ Gap(done, ETH) = Gap(paid, ETH)
      /\ TokenKind # "hook" => Gap(done, LocalCurrency) = Gap(paid, LocalCurrency) - net
  <2>1. Books(paid, now)
    BY <1>4, KeptGroupsBooks
  <2> QED BY <1>1, <1>2, <1>3, <2>1, Finished
<1> HIDE DEF done
<1>8. done \in LedgersType /\ k \in Nat /\ done.held[ETH] \in Nat
  <2>1. done \in LedgersType
    BY <1>7 DEF Books
  <2>2. done.held[ETH] = held[ETH] /\ done.held[ETH] \in Nat
    BY <1>4, <1>5, <1>7, <2>1, LedgersParts
  <2> QED BY <1>2, <1>3, <2>1, <2>2
<1>9. Commit(r)
  <2>1. [done EXCEPT !.held[ETH] = @ - x.toLiquidator] = r
    BY <1>8, ReceivedAs
  <2> QED BY <1>3, <2>1
<1>10. k = done.held[ETH] - x.toLiquidator
  OBVIOUS
<1> HIDE DEF k
<1>11. /\ KeptGroups(done, r) /\ r.cash = done.cash /\ r.held[ETH] = k
       /\ r.held[LocalCurrency] = done.held[LocalCurrency]
  BY <1>5, <1>8, HeldReplaced
<1> HIDE DEF r
<1>12. Books(r, now)
  BY <1>7, <1>11, KeptGroupsBooks
<1>13. Whole(r)
  <2> SUFFICES ASSUME TokenKind # "hook" PROVE \A c \in Currency : Gap(r, c) = 0
    BY DEF Whole
  <2>1. /\ Gap(s, ETH) = 0 /\ Gap(s, LocalCurrency) = 0
    BY <1>5 DEF Whole
  <2>2. Gap(done, ETH) = -x.toLiquidator /\ Gap(done, LocalCurrency) = 0
    <3>1. Gap(done, ETH) = Gap(paid, ETH) /\ Gap(done, LocalCurrency) = Gap(paid, LocalCurrency) - net
      BY <1>7
    <3> HIDE DEF net
    <3>2. net \in Int /\ Gap(paid, LocalCurrency) = Gap(s, LocalCurrency) + net
      BY <1>2, <1>6
    <3> QED BY <1>2, <1>6, <2>1, <3>1, <3>2
  <2>3. \A c \in Currency : /\ Gap(r, c) = Gap(done, c) - (r.held[c] - done.held[c])
                            /\ done.held[c] \in Nat
    <3> TAKE c \in Currency
    <3>1. Gap(r, c) = Gap(done, c) + (SumFunction(r.cash[c]) - SumFunction(done.cash[c]))
                                   - (r.held[c] - done.held[c])
      BY <1>8, <1>11, GapMoves
    <3>2. SumFunction(done.cash[c]) \in Int /\ Gap(done, c) \in Int /\ done.held[c] \in Nat
      BY <1>8, GapInt
    <3>3. r.held[c] \in Nat
      <4>1. r \in LedgersType
        BY <1>11 DEF KeptGroups
      <4> QED BY <4>1, GapInt
    <3>4. SumFunction(r.cash[c]) - SumFunction(done.cash[c]) = 0
      BY <1>11, <3>2
    <3> QED BY <3>1, <3>2, <3>3, <3>4
  <2>4. Gap(r, ETH) = 0
    BY <1>2, <1>5, <1>8, <1>10, <1>11, <2>2, <2>3
  <2>5. Gap(r, LocalCurrency) = 0
    BY <1>5, <1>11, <2>2, <2>3
  <2> QED BY <2>4, <2>5, CurrencyFacts
<1> QED BY <1>9, <1>12, <1>13, CommitKeeps

LEMMA SettleCashBalanceKeeps ==
  ASSUME IInv, NEW settler \in Liquidator, NEW payer \in Payer, NEW value \in Nat,
         SettleCashBalance(settler, payer, value)
  PROVE  IInv'
<1> DEFINE s == SettleGroups(ledger, payer, now)
           x0 == Case(s, payer, now, rate)
           x == SettleDebt(x0, payer, value, Price(rate))
<1>1. /\ CanSettleGroups(ledger, payer, now) /\ CanValueGroups(s, payer, now)
      /\ Conclude(x, settler, payer)
  BY DEF SettleCashBalance, CanBeFactored
<1>2. /\ payer \in Account /\ settler \in Account /\ now \in Int /\ rate \in Nat \ {0}
      /\ Price(rate) \in Nat
  BY TimeAndRate
<1>3. Books(s, now) /\ Whole(s) /\ s.held = held
  BY <1>1, <1>2, PayerSettled
<1> HIDE DEF s
<1>4. s \in LedgersType /\ \A c \in Currency : CanSell(s, payer, c)
  BY <1>1, <1>2, <1>3, BooksCanSell DEF Books
<1>5. /\ CaseSound(s, payer, x0) /\ CollateralUntouched(s, payer, x0)
      /\ x0.ledger = s /\ x0.toPayer = 0 /\ x0.fromLiquidator = 0
  BY <1>1, <1>2, <1>4, CaseOpens
<1> HIDE DEF x0
<1>6. CaseSound(s, payer, x)
  BY <1>2, <1>4, <1>5, DebtSettled
<1> HIDE DEF x
<1> QED BY <1>1, <1>2, <1>3, <1>6, ConcludeKeeps

LEMMA LiquidateKeeps ==
  ASSUME IInv, NEW liquidator \in Liquidator, NEW payer \in Payer, NEW maxAmount \in Nat,
         Liquidate(liquidator, payer, maxAmount)
  PROVE  IInv'
<1> DEFINE s == SettleGroups(ledger, payer, now)
           x0 == Case(s, payer, now, rate)
           x == LiquidateDebt(x0, payer, maxAmount, rate)
<1>1. /\ CanSettleGroups(ledger, payer, now) /\ CanValueGroups(s, payer, now)
      /\ x0.aggregate < 0 /\ Conclude(x, liquidator, payer)
  BY DEF Liquidate, CanBeFactored
<1>2. payer \in Account /\ liquidator \in Account /\ now \in Int /\ rate \in Nat \ {0}
  BY TimeAndRate
<1>3. Books(s, now) /\ Whole(s) /\ s.held = held
  BY <1>1, <1>2, PayerSettled
<1> HIDE DEF s
<1>4. s \in LedgersType /\ \A c \in Currency : CanSell(s, payer, c)
  BY <1>1, <1>2, <1>3, BooksCanSell DEF Books
<1>5. /\ CaseSound(s, payer, x0) /\ CollateralUntouched(s, payer, x0) /\ x0.ledger = s
  BY <1>1, <1>2, <1>4, CaseOpens
<1> HIDE DEF x0
<1>6. CaseSound(s, payer, x)
  BY <1>1, <1>2, <1>4, <1>5, DebtLiquidated
<1> HIDE DEF x
<1> QED BY <1>1, <1>2, <1>3, <1>6, ConcludeKeeps

(* fCash has moved, and the local currency it is worth is paid for it. *)
LEMMA PaidForfCashKeeps ==
  ASSUME IInv, NEW s, Books(s, now), Whole(s),
         NEW u, KeptGroups(s, u), u.cash = s.cash, u.held = s.held,
         NEW payer \in Account, NEW liquidator \in Account, NEW amount \in Int,
         NEW paid, paid = Charged(u, payer, -amount),
         CanFinish(paid, liquidator, amount), Commit(Finish(paid, liquidator, amount))
  PROVE  IInv'
<1> DEFINE n == -amount
           done == Finish(paid, liquidator, amount)
<1>1. s \in LedgersType /\ u \in LedgersType /\ now \in Int /\ n \in Int
  BY TimeAndRate DEF Books, KeptGroups
<1>2. \A c \in Currency : Gap(u, c) = Gap(s, c) /\ Gap(s, c) \in Int
  <2> TAKE c \in Currency
  <2>1. /\ Gap(s, c) \in Int
        /\ Gap(u, c) = Gap(s, c) + (SumFunction(u.cash[c]) - SumFunction(s.cash[c])) - (u.held[c] - s.held[c])
        /\ SumFunction(s.cash[c]) \in Int /\ s.held[c] \in Nat
    BY <1>1, GapMoves, GapInt
  <2> QED BY <2>1
<1>3. paid = Charged(u, payer, n)
  OBVIOUS
<1>4. n = -amount
  OBVIOUS
<1> HIDE DEF n
<1>5. /\ KeptGroups(u, paid) /\ Gap(paid, LocalCurrency) = Gap(u, LocalCurrency) - n
      /\ Gap(paid, ETH) = Gap(u, ETH)
  BY <1>1, <1>3, ChargedGap
<1>6. Books(paid, now)
  BY <1>5, KeptGroupsBooks
<1>7. /\ Books(done, now) /\ Gap(done, ETH) = Gap(paid, ETH)
      /\ TokenKind # "hook" => Gap(done, LocalCurrency) = Gap(paid, LocalCurrency) - amount
  BY <1>1, <1>6, Finished
<1> HIDE DEF done
<1>8. Whole(done)
  <2> SUFFICES ASSUME TokenKind # "hook" PROVE \A c \in Currency : Gap(done, c) = 0
    BY DEF Whole
  <2>1. Gap(s, ETH) = 0 /\ Gap(s, LocalCurrency) = 0
    BY CurrencyFacts DEF Whole
  <2>2. Gap(done, ETH) = 0 /\ Gap(done, LocalCurrency) = 0
    BY <1>2, <1>4, <1>5, <1>7, <2>1, CurrencyFacts
  <2> QED BY <2>2, CurrencyFacts
<1>9. Commit(done)
  BY DEF done
<1> QED BY <1>7, <1>8, <1>9, CommitKeeps

LEMMA SettleLocalfCashKeeps ==
  ASSUME IInv, NEW settler \in Liquidator, NEW payer \in Payer, NEW value \in Nat,
         SettleLocalfCash(settler, payer, value)
  PROVE  IInv'
<1> DEFINE s == SettleGroups(ledger, payer, now)
<1>1. CanSettleGroups(ledger, payer, now)
  BY DEF SettleLocalfCash, CanBeFactored
<1>2. PICK order \in SetToSeqs(Receivers(s, payer, LocalCurrency)) :
        LET sale == RaiseViaReceivers(s, payer, settler, LocalCurrency, value, order, now)
            raised == value - sale.left
            paid == Charged(sale.ledger, payer, -raised)
        IN  /\ sale.ok
            /\ CanFinish(paid, settler, raised)
            /\ Commit(Finish(paid, settler, raised))
  BY DEF SettleLocalfCash
<1>3. payer \in Account /\ settler \in Account /\ now \in Int
  BY TimeAndRate
<1>4. Books(s, now) /\ Whole(s)
  BY <1>1, <1>3, PayerSettled
<1> HIDE DEF s
<1> DEFINE sale == RaiseViaReceivers(s, payer, settler, LocalCurrency, value, order, now)
           raised == value - sale.left
           paid == Charged(sale.ledger, payer, -raised)
<1>5. CanFinish(paid, settler, raised) /\ Commit(Finish(paid, settler, raised))
  BY <1>2
<1>6. s \in LedgersType
  BY <1>4 DEF Books
<1>7. KeptGroups(s, sale.ledger) /\ sale.ledger.cash = s.cash /\ sale.ledger.held = s.held
      /\ sale.left \in Nat
  BY <1>3, <1>6, CurrencyFacts, ReceiversMoved
<1> HIDE DEF sale
<1>8. raised \in Int
  BY <1>7
<1> HIDE DEF raised
<1>9. paid = Charged(sale.ledger, payer, -raised)
  OBVIOUS
<1> HIDE DEF paid
<1> QED BY <1>3, <1>4, <1>5, <1>7, <1>8, <1>9, PaidForfCashKeeps

(* A purchase of fCash that does not revert. *)
LEMMA fCashTraded ==
  ASSUME NEW s \in LedgersType, NEW payer \in Account, NEW liquidator \in Account,
         NEW required \in Nat, NEW net \in Int, NEW discount \in Nat \ {0}, NEW price \in Nat,
         NEW order \in SetToSeqs(Receivers(s, payer, ETH)), NEW t \in Int,
         NEW x, x = TradefCash(s, payer, liquidator, required, net, discount, price, order, t), x.ok
  PROVE  KeptGroups(s, x.ledger) /\ x.ledger.cash = s.cash /\ x.ledger.held = s.held /\ x.toPayer \in Int
<1> DEFINE wanted == CollateralToSell(discount, required, price)
           sell == Min({wanted, net})
           local == IF wanted > net THEN LocalAmount(discount, net, price) ELSE required
           sale == RaiseViaReceivers(s, payer, liquidator, ETH, sell, order, t)
           toPayer == local - LocalAmount(discount, sale.left, price)
<1>1. x = [ledger |-> sale.ledger, toPayer |-> toPayer,
           ok |-> net > 0 /\ CanRaiseViaReceivers(s, payer, sell) /\ sale.ok /\ toPayer >= 0]
  BY DEF TradefCash
<1>2. net > 0 /\ sell > 0
  <2> DEFINE bought == net > 0 /\ CanRaiseViaReceivers(s, payer, sell) /\ sale.ok /\ toPayer >= 0
  <2>1. x = [ledger |-> sale.ledger, toPayer |-> toPayer, ok |-> bought]
    BY <1>1
  <2> HIDE DEF sell, sale, toPayer
  <2>2. bought
    <3> HIDE DEF bought
    <3> QED BY <2>1
  <2> QED BY <2>2 DEF CanRaiseViaReceivers
<1>3. x.ledger = sale.ledger /\ x.toPayer = toPayer
  BY <1>1
<1>4. wanted \in Nat /\ (wanted # 0 => price # 0)
  BY CollateralToSellNat
<1> HIDE DEF wanted
<1>5. sell \in Nat /\ wanted # 0
  <2>1. \A n \in Nat, k \in Int : Min({n, k}) = IF n <= k THEN n ELSE k
    BY MaxMinOfTwo
  <2>2. sell = IF wanted <= net THEN wanted ELSE net
    BY <1>4, <2>1
  <2> QED BY <1>2, <1>4, <2>2
<1> HIDE DEF sell
<1>6. KeptGroups(s, sale.ledger) /\ sale.ledger.cash = s.cash /\ sale.ledger.held = s.held
      /\ sale.left \in Nat
  BY <1>5, CurrencyFacts, ReceiversMoved
<1> HIDE DEF sale
<1>7. price \in Nat \ {0}
  BY <1>4, <1>5
<1>8. LocalAmount(discount, net, price) \in Int /\ LocalAmount(discount, sale.left, price) \in Int
  BY <1>6, <1>7, LocalAmountInt
<1>9. toPayer \in Int
  BY <1>8
<1> QED BY <1>3, <1>6, <1>9

LEMMA ConcludefCashKeeps ==
  ASSUME IInv, NEW s, Books(s, now), Whole(s), NEW payer \in Payer, NEW liquidator \in Liquidator,
         NEW required \in Nat, NEW net \in Int, NEW discount \in Nat \ {0}, NEW price \in Nat,
         NEW order \in SetToSeqs(Receivers(s, payer, ETH)),
         ConcludefCash(TradefCash(s, payer, liquidator, required, net, discount, price, order, now),
                       liquidator, payer)
  PROVE  IInv'
<1> DEFINE x == TradefCash(s, payer, liquidator, required, net, discount, price, order, now)
           paid == Charged(x.ledger, payer, -x.toPayer)
<1>1. x.ok /\ CanFinish(paid, liquidator, x.toPayer) /\ Commit(Finish(paid, liquidator, x.toPayer))
  BY DEF ConcludefCash
<1>2. payer \in Account /\ liquidator \in Account /\ now \in Int /\ s \in LedgersType
  BY TimeAndRate DEF Books
<1>3. KeptGroups(s, x.ledger) /\ x.ledger.cash = s.cash /\ x.ledger.held = s.held /\ x.toPayer \in Int
  BY <1>1, <1>2, fCashTraded
<1> HIDE DEF x
<1>4. paid = Charged(x.ledger, payer, -x.toPayer)
  OBVIOUS
<1> HIDE DEF paid
<1> QED BY <1>1, <1>2, <1>3, <1>4, PaidForfCashKeeps

LEMMA SettlefCashKeeps ==
  ASSUME IInv, NEW settler \in Liquidator, NEW payer \in Payer, NEW value \in Nat,
         SettlefCash(settler, payer, value)
  PROVE  IInv'
<1> DEFINE s == SettleGroups(ledger, payer, now)
           net == NetAvailable(s, payer, ETH, now)
<1>1. CanSettleGroups(ledger, payer, now) /\ CanValueGroups(s, payer, now)
  BY DEF SettlefCash, CanBeFactored
<1>2. PICK order \in SetToSeqs(Receivers(s, payer, ETH)) :
        ConcludefCash(TradefCash(s, payer, settler, value, net, SETTLEMENT_DISCOUNT,
                                 Price(rate), order, now), settler, payer)
  BY DEF SettlefCash
<1>3. payer \in Account /\ settler \in Account /\ now \in Int /\ Price(rate) \in Nat
  BY TimeAndRate
<1>4. Books(s, now) /\ Whole(s)
  BY <1>1, <1>3, PayerSettled
<1> HIDE DEF s
<1>5. net \in Int
  BY <1>1, <1>3, <1>4, ValuesInt, CurrencyFacts DEF Books
<1> HIDE DEF net
<1> QED BY <1>2, <1>3, <1>4, <1>5, LiquidationConstants, ConcludefCashKeeps

LEMMA LiquidatefCashKeeps ==
  ASSUME IInv, NEW liquidator \in Liquidator, NEW payer \in Payer, LiquidatefCash(liquidator, payer)
  PROVE  IInv'
<1> DEFINE s == SettleGroups(ledger, payer, now)
           localNet == NetAvailable(s, payer, LocalCurrency, now)
           net == NetAvailable(s, payer, ETH, now)
           required == LocalToTrade(LocalShortfall(FC(s, payer), rate), -localNet)
<1>1. /\ CanSettleGroups(ledger, payer, now) /\ CanValueGroups(s, payer, now)
      /\ FC(s, payer) < 0 /\ localNet < 0
  BY DEF LiquidatefCash, CanBeFactored
<1>2. PICK order \in SetToSeqs(Receivers(s, payer, ETH)) :
        ConcludefCash(TradefCash(s, payer, liquidator, required, net, LIQUIDATION_DISCOUNT,
                                 Price(rate), order, now), liquidator, payer)
  BY DEF LiquidatefCash
<1>3. payer \in Account /\ liquidator \in Account /\ now \in Int /\ rate \in Nat \ {0}
      /\ Price(rate) \in Nat
  BY TimeAndRate
<1>4. Books(s, now) /\ Whole(s)
  BY <1>1, <1>3, PayerSettled
<1> HIDE DEF s
<1>5. net \in Int /\ localNet \in Int /\ FC(s, payer) \in Int
  BY <1>1, <1>3, <1>4, ValuesInt, CurrencyFacts DEF Books, FC
<1> HIDE DEF net, localNet
<1>6. required \in Nat
  <2>1. LocalShortfall(FC(s, payer), rate) \in Nat
    BY <1>1, <1>3, <1>5, ShortfallNat
  <2>2. -localNet \in Nat
    BY <1>1, <1>5
  <2> QED BY <2>1, <2>2, LocalToTradeNat
<1> HIDE DEF required
<1> QED BY <1>2, <1>3, <1>4, <1>5, <1>6, LiquidationConstants, ConcludefCashKeeps

LEMMA SettleMaturedAssetsKeeps ==
  ASSUME IInv, NEW a \in Account, SettleMaturedAssets(a)
  PROVE  IInv'
<1>1. CanSettleGroups(ledger, a, now) /\ Commit(SettleGroups(ledger, a, now))
  BY DEF SettleMaturedAssets
<1>2. Books(SettleGroups(ledger, a, now), now) /\ Whole(SettleGroups(ledger, a, now))
  BY <1>1, PayerSettled
<1> QED BY <1>1, <1>2, CommitKeeps

LEMMA EnvironmentKeeps ==
  ASSUME IInv, Tick \/ MoveRate \/ UNCHANGED vars
  PROVE  IInv'
<1>1. now \in Int /\ now' \in 0 .. MaxTime /\ now' >= now /\ rate' \in Rate
  BY LiquidationsAssumption DEF IInv, Tick, MoveRate, vars
<1>2. ledger' = ledger
  BY DEF Tick, MoveRate, vars, ledgerVars, ledger
<1>3. Books(ledger, now')
  <2>1. now' \in Int
    BY <1>1, LiquidationsAssumption
  <2>2. \A c \in Currency : Sound(View(ledger, c), now)
    BY DEF IInv, Books
  <2>3. \A c \in Currency : Sound(View(ledger, c), now')
    <3>1. \A m \in Maturity : m \in Int
      BY MaturityInt
    <3> QED BY <1>1, <2>1, <2>2, <3>1 DEF Sound
  <2> QED BY <2>3 DEF IInv, Books
<1> QED BY <1>1, <1>2, <1>3 DEF IInv, Books, Whole

LEMMA ViewTotals ==
  ASSUME NEW s \in LedgersType, NEW c \in Currency
  PROVE  /\ PoolCash(View(s, c)) = SumFunction([m \in Maturity |-> s.markets[c][m].totalCurrentCash])
         /\ \A m \in Maturity :
              /\ TokensOf(View(s, c), m) = SumFunction([a \in Account |-> s.portfolio[c][a].token[m]])
              /\ fCashOf(View(s, c), m) + View(s, c).markets[m].totalfCash = Unsettled(s, c, m)
         /\ Unset(View(s, c)) = SumFunction([m \in Maturity |-> Unsettled(s, c, m)])
<1> DEFINE v == View(s, c)
<1>1. v.portfolio = s.portfolio[c] /\ v.markets = s.markets[c]
  BY ViewType
<1> HIDE DEF v
<1>2. \A m \in Maturity : fCashOf(v, m) + v.markets[m].totalfCash = Unsettled(s, c, m)
  BY <1>1 DEF fCashOf, Unsettled
<1>3. Unset(v) = SumFunction([m \in Maturity |-> Unsettled(s, c, m)])
  <2>1. [m \in Maturity |-> fCashOf(v, m) + v.markets[m].totalfCash] = [m \in Maturity |-> Unsettled(s, c, m)]
    BY <1>2
  <2> QED BY <2>1 DEF Unset
<1>4. PoolCash(v) = SumFunction([m \in Maturity |-> s.markets[c][m].totalCurrentCash])
  BY <1>1 DEF PoolCash
<1>5. \A m \in Maturity : TokensOf(v, m) = SumFunction([a \in Account |-> s.portfolio[c][a].token[m]])
  BY <1>1 DEF TokensOf
<1> QED BY <1>2, <1>3, <1>4, <1>5 DEF v

LEMMA StartInBooks ==
  ASSUME NEW s \in Start
  PROVE  Books(s, 0) /\ \A c \in Currency : Gap(s, c) = 0
<1>1. s \in LedgersType
  BY StartAssumption
<1>2. ASSUME NEW c \in Currency
      PROVE  Sound(View(s, c), 0) /\ Gap(s, c) = 0
  <2> DEFINE v == View(s, c)
  <2>1. /\ TokensCovered(s, c) /\ PoolsBacked(s, c)
        /\ \A m \in Maturity :
             /\ TokensInPortfolios(s, c, m)
             /\ 0 < m => Unsettled(s, c, m) = 0
             /\ \A a \in Account : s.portfolio[c][a].token[m] > 0 => m \in s.portfolio[c][a].listed
             /\ Alive(s.markets[c][m])
    BY StartAssumption DEF Alive
  <2>2. /\ v \in LedgerType /\ v.cash[LocalCurrency] = s.cash[c]
        /\ v.portfolio = s.portfolio[c] /\ v.markets = s.markets[c]
    BY <1>1, ViewType
  <2>3. /\ PoolCash(v) = SumFunction([m \in Maturity |-> s.markets[c][m].totalCurrentCash])
        /\ \A m \in Maturity :
             /\ TokensOf(v, m) = SumFunction([a \in Account |-> s.portfolio[c][a].token[m]])
             /\ fCashOf(v, m) + v.markets[m].totalfCash = Unsettled(s, c, m)
        /\ Unset(v) = SumFunction([m \in Maturity |-> Unsettled(s, c, m)])
    BY <1>1, ViewTotals
  <2> HIDE DEF v
  <2>4. v.cash[LocalCurrency][CASH_MARKET] = PoolCash(v)
    BY <2>1, <2>2, <2>3 DEF PoolsBacked
  <2>5. TokensListed(v)
    BY <2>1, <2>2 DEF TokensListed, Listed
  <2>6. \A m \in Maturity : /\ TokensOf(v, m) = v.markets[m].totalLiquidity
                            /\ Alive(v.markets[m])
                            /\ 0 < m => fCashOf(v, m) + v.markets[m].totalfCash = 0
    BY <2>1, <2>2, <2>3 DEF TokensInPortfolios
  <2>7. Sound(v, 0)
    BY <2>2, <2>4, <2>5, <2>6 DEF Sound
  <2>8. s.held[c] = SumFunction(s.cash[c]) + Unset(v)
    BY <2>1, <2>3 DEF TokensCovered
  <2>9. SumFunction(s.cash[c]) + Unset(v) - s.held[c] = 0
    <3>1. SumFunction(s.cash[c]) \in Int /\ Unset(v) \in Int /\ s.held[c] \in Int
      BY <1>1, GapInt DEF v
    <3> QED BY <2>8, <3>1
  <2> QED BY <2>7, <2>9 DEF v, Gap
<1> QED BY <1>1, <1>2 DEF Books

LEMMA InitSound ==
  ASSUME Init
  PROVE  IInv
<1>1. PICK s \in Start : cash = s.cash /\ held = s.held /\ portfolio = s.portfolio /\ markets = s.markets
  BY DEF Init
<1>2. s \in LedgersType
  BY StartAssumption
<1>3. ledger = s
  BY <1>1, <1>2, LedgersParts DEF ledger
<1>4. now = 0 /\ rate \in Rate /\ 0 \in 0 .. MaxTime
  BY LiquidationsAssumption DEF Init
<1>5. Books(s, 0) /\ \A c \in Currency : Gap(s, c) = 0
  BY StartInBooks
<1> QED BY <1>3, <1>4, <1>5 DEF IInv, Whole

LEMMA NextKeeps ==
  ASSUME IInv, [Next]_vars
  PROVE  IInv'
<1>1. CASE \E payer \in Payer : SettleStep(payer)
  <2>1. PICK payer \in Payer, settler \in Liquidator, value \in Amount :
          \/ SettleCashBalance(settler, payer, value)
          \/ SettleLocalfCash(settler, payer, value)
          \/ SettlefCash(settler, payer, value)
    BY <1>1 DEF SettleStep
  <2>2. value \in Nat
    BY LiquidationsAssumption
  <2> QED BY <2>1, <2>2, SettleCashBalanceKeeps, SettleLocalfCashKeeps, SettlefCashKeeps
<1>2. CASE \E payer \in Payer : LiquidateStep(payer)
  <2>1. PICK payer \in Payer, liquidator \in Liquidator :
          \/ \E maxAmount \in Amount \cup {0} : Liquidate(liquidator, payer, maxAmount)
          \/ LiquidatefCash(liquidator, payer)
    BY <1>2 DEF LiquidateStep
  <2>2. \A maxAmount \in Amount \cup {0} : maxAmount \in Nat
    BY LiquidationsAssumption
  <2> QED BY <2>1, <2>2, LiquidateKeeps, LiquidatefCashKeeps
<1>3. CASE \E a \in Account : SettleMaturedAssets(a)
  BY <1>3, SettleMaturedAssetsKeeps
<1>4. CASE Tick \/ MoveRate \/ UNCHANGED vars
  BY <1>4, EnvironmentKeeps
<1> QED BY <1>1, <1>2, <1>3, <1>4 DEF Next

(* The inductive invariant holds of every behaviour: both cash groups are in
   order, and unless the token calls back, the Escrow's gap stays closed. *)
THEOREM Invariance == Spec => []IInv
<1>1. Init => IInv
  BY InitSound
<1>2. IInv /\ [Next]_vars => IInv'
  BY NextKeeps
<1> QED BY <1>1, <1>2, PTL DEF Spec

-----------------------------------------------------------------------------
(* A settlement pays no more than the debt.                                *)

LEMMA QuotientBounds ==
  ASSUME NEW x \in Int, NEW d \in Nat \ {0}, NEW y \in Int
  PROVE  /\ y <= x \div d => y * d <= x
         /\ x <= y * d => x \div d <= y
<1> DEFINE q == x \div d
<1>1. q \in Int /\ d * q <= x /\ x < d * q + d
  OBVIOUS
<1> HIDE DEF q
<1>2. ASSUME y <= q PROVE y * d <= x
  <2>1. d * y <= d * q
    BY <1>1, <1>2
  <2> QED BY <1>1, <2>1
<1>3. ASSUME x <= y * d PROVE q <= y
  <2> SUFFICES ASSUME q >= y + 1 PROVE FALSE
    BY <1>1
  <2>1. d * q >= d * (y + 1)
    BY <1>1
  <2>2. d * q >= d * y + d
    BY <1>1, <2>1
  <2>3. d * q <= d * y
    BY <1>1, <1>3
  <2>4. d * y + d <= d * y
    BY <1>1, <2>2, <2>3
  <2>5. d * y \in Int
    OBVIOUS
  <2> QED BY <2>4, <2>5
<1> QED BY <1>2, <1>3 DEF q

(* Collateral below what is wanted for an amount costs no more than that amount:
   both conversions round down. *)
LEMMA LocalAmountBounded ==
  ASSUME NEW discount \in Nat \ {0}, NEW price \in Nat \ {0}, NEW required \in Nat, NEW sold \in Int,
         sold <= CollateralToSell(discount, required, price)
  PROVE  LocalAmount(discount, sold, price) <= required
<1> DEFINE R == RATE_DECIMALS
           D == DECIMALS
           w == price * required * discount
           q == w \div R
           v == sold * R * D * D
           p == v \div price
           d == discount * D
<1>1. R \in Nat \ {0} /\ D \in Nat \ {0}
  BY LiquidationConstants
<1> HIDE DEF R, D
<1>2. w \in Nat
  <2> DEFINE u == price * required
  <2>1. u \in Nat
    BY ProductNat
  <2> HIDE DEF u
  <2>2. u * discount \in Nat
    BY <2>1, ProductNat
  <2> QED BY <2>2 DEF u
<1>3. sold <= q \div D
  BY DEF CollateralToSell, R, D
<1>4. q \in Int
  <2> HIDE DEF w
  <2> QED BY <1>1, <1>2, QuotientNat
<1>5. sold * D <= q
  <2> HIDE DEF q
  <2> QED BY <1>1, <1>3, <1>4, QuotientBounds
<1>6. (sold * D) * R <= w
  <2> DEFINE y == sold * D
  <2>1. y \in Int /\ y <= w \div R
    BY <1>1, <1>5
  <2> HIDE DEF y, w
  <2>2. y * R <= w
    BY <1>1, <1>2, <2>1, QuotientBounds
  <2> QED BY <2>2 DEF y
<1>7. v <= (required * d) * price /\ v \in Int /\ required * d \in Int /\ d \in Nat \ {0}
  <2>1. \A x, y \in Nat \ {0} : x * y \in Nat \ {0}
    OBVIOUS
  <2>2. d \in Nat \ {0}
    BY <1>1, <2>1
  <2> DEFINE y == sold * D * R
  <2>3. y \in Int /\ y <= w
    BY <1>1, <1>6
  <2>4. v = y * D
    <3>1. \A a, b, c \in Int : a * b * c * c = a * c * b * c
      OBVIOUS
    <3> QED BY <1>1, <3>1
  <2>5. y * D <= w * D
    <3> HIDE DEF y, w
    <3>1. D * y <= D * w
      BY <1>1, <1>2, <2>3
    <3> QED BY <1>1, <1>2, <2>3, <3>1
  <2>6. w * D = (required * d) * price
    <3>1. \A a, b, c, e \in Int : a * b * c * e = (b * (c * e)) * a
      OBVIOUS
    <3> QED BY <1>1, <3>1
  <2>7. required * d \in Int
    BY <2>2
  <2>8. v \in Int
    BY <1>1, <2>3, <2>4
  <2> QED BY <2>2, <2>4, <2>5, <2>6, <2>7, <2>8
<1>8. p <= required * d /\ p \in Int
  <2> DEFINE y == required * d
  <2>1. v <= y * price /\ v \in Int /\ y \in Int
    BY <1>7
  <2> HIDE DEF v, y
  <2>2. v \div price <= y
    BY <2>1, QuotientBounds
  <2>3. v \div price \in Int
    BY <2>1
  <2> QED BY <2>2, <2>3 DEF y
<1>9. p \div d <= required
  <2>1. d \in Nat \ {0} /\ p \in Int /\ p <= required * d /\ required \in Int
    BY <1>7, <1>8
  <2> HIDE DEF p, d
  <2> QED BY <2>1, QuotientBounds
<1> QED BY <1>9 DEF LocalAmount, R, D

(* The account is paid no more than what is required. *)
LEMMA CollateralPays ==
  ASSUME NEW x \in Cases, NEW payer \in Account,
         NEW required \in Nat, NEW discount \in Nat \ {0}, NEW price \in Nat
  PROVE  TradeCollateral(x, payer, required, discount, price).toPayer <= x.toPayer + required
<1> DEFINE wanted == CollateralToSell(discount, required, price)
           limit == ForSale(x) + HaircutOff(x.collateralClaim)
           sold == Min({wanted, limit})
           bought == IF wanted > limit THEN LocalAmount(discount, sold, price) ELSE required
           balance == x.balance + BalanceAdjustment(x)
           toRaise == Max({ClaimFreeing(PositivePart(sold - ForSale(x))), sold - balance})
           sale == RaiseViaTokens(x.ledger, payer, ETH, toRaise)
           adjusted == BalanceAdjustment(x)
           y == TradeCollateral(x, payer, required, discount, price)
<1>1. /\ y = IF wanted = 0 THEN x
             ELSE IF ForSale(x) <= 0 THEN [x EXCEPT !.ok = FALSE]
             ELSE IF toRaise = 0
               THEN [x EXCEPT !.toPayer = @ + bought,
                              !.fromLiquidator = @ + bought,
                              !.toLiquidator = sold,
                              !.balance = @ - sold]
               ELSE [x EXCEPT !.ledger = sale.ledger,
                              !.toPayer = @ + bought,
                              !.fromLiquidator = @ + bought,
                              !.toLiquidator = sold,
                              !.balance = BalanceAfter(balance, sold, toRaise, sale.left) - adjusted,
                              !.ok = @ /\ (balance < sold => sale.left <= 1)]
  BY DEF TradeCollateral
<1>2. x.toPayer \in Int /\ x.collateralClaim \in Int
  BY DEF Cases
<1>3. limit \in Int
  BY <1>2, ForSaleInt, HaircutNumbers
<1>4. wanted \in Nat /\ (wanted # 0 => price \in Nat \ {0})
  BY CollateralToSellNat
<1>5. wanted # 0 => bought \in Int /\ bought <= required
  <2> SUFFICES ASSUME wanted # 0 PROVE bought \in Int /\ bought <= required
    OBVIOUS
  <2>1. CASE wanted > limit
    <3>1. sold \in Int /\ sold <= wanted
      <4>1. \A n \in Nat, k \in Int : Min({n, k}) = IF n <= k THEN n ELSE k
        BY MaxMinOfTwo
      <4>2. sold = IF wanted <= limit THEN wanted ELSE limit
        BY <1>3, <1>4, <4>1
      <4> QED BY <1>3, <1>4, <4>2
    <3> HIDE DEF sold
    <3>2. LocalAmount(discount, sold, price) \in Int /\ LocalAmount(discount, sold, price) <= required
      BY <1>4, <3>1, LocalAmountInt, LocalAmountBounded
    <3> QED BY <2>1, <3>2
  <2>2. CASE ~(wanted > limit)
    BY <2>2
  <2> QED BY <2>1, <2>2
<1> HIDE DEF wanted, limit, sold, bought, balance, toRaise, sale, adjusted, y
<1>6. CASE wanted = 0 \/ ForSale(x) <= 0
  <2>1. y = x \/ y = [x EXCEPT !.ok = FALSE]
    BY <1>1, <1>6
  <2>2. y.toPayer = x.toPayer
    BY <2>1 DEF Cases
  <2> QED BY <1>2, <2>2 DEF y
<1>7. CASE wanted # 0 /\ ~(ForSale(x) <= 0)
  <2>1. y.toPayer = x.toPayer + bought
    <3>1. CASE toRaise = 0
      <4>1. y = [x EXCEPT !.toPayer = @ + bought, !.fromLiquidator = @ + bought, !.toLiquidator = sold,
                          !.balance = @ - sold]
        BY <1>1, <1>7, <3>1
      <4> QED BY <4>1 DEF Cases
    <3>2. CASE toRaise # 0
      <4> DEFINE b == BalanceAfter(balance, sold, toRaise, sale.left) - adjusted
                 o == x.ok /\ (balance < sold => sale.left <= 1)
      <4>1. y = [x EXCEPT !.ledger = sale.ledger, !.toPayer = @ + bought, !.fromLiquidator = @ + bought,
                          !.toLiquidator = sold, !.balance = b, !.ok = o]
        BY <1>1, <1>7, <3>2 DEF Cases
      <4> HIDE DEF b, o
      <4> QED BY <4>1 DEF Cases
    <3> QED BY <3>1, <3>2
  <2> QED BY <1>2, <1>5, <1>7, <2>1 DEF y
<1> QED BY <1>6, <1>7

LEMMA SettledLocally ==
  ASSUME NEW s, NEW a \in Account, NEW t \in Int, Books(s, t), CanSettleGroups(s, a, t)
  PROVE  /\ SettleGroups(s, a, t).cash[LocalCurrency]
              = Settle(View(s, LocalCurrency), a, t).cash[LocalCurrency]
         /\ SettleGroups(s, a, t).portfolio[LocalCurrency]
              = Settle(View(s, LocalCurrency), a, t).portfolio
<1> DEFINE u == SettleIn(s, LocalCurrency, a, t)
           settled == Settle(View(s, LocalCurrency), a, t)
<1>1. /\ CanSettle(View(s, LocalCurrency), a, t) /\ CanSettle(View(u, ETH), a, t)
      /\ SettleGroups(s, a, t) = SettleIn(u, ETH, a, t)
      /\ LocalCurrency \in Currency /\ LocalCurrency \in Currency \ {ETH} /\ ETH \in Currency
  BY SettleGroupsSteps, CurrencyFacts, RiskAssumption
<1>2. Books(u, t)
  BY <1>1, SettleInBooks
<1>3. u.cash[LocalCurrency] = settled.cash[LocalCurrency] /\ u.portfolio[LocalCurrency] = settled.portfolio
  <2>1. s.cash \in [Currency -> [Holder -> Int]] /\ s.portfolio \in [Currency -> [Account -> Portfolio]]
    BY LedgersParts DEF Books
  <2> HIDE DEF settled
  <2> QED BY <1>1, <2>1 DEF SettleIn, settled
<1> HIDE DEF u
<1>4. /\ SettleIn(u, ETH, a, t).cash[LocalCurrency] = u.cash[LocalCurrency]
      /\ SettleIn(u, ETH, a, t).portfolio[LocalCurrency] = u.portfolio[LocalCurrency]
  BY <1>1, <1>2, SettleInBooks
<1> QED BY <1>1, <1>3, <1>4

(* Nothing in p is left to settle. *)
NothingMatured(p, t) == \A m \in Maturity : m <= t => p.fCash[m] = 0 /\ m \notin p.listed

(* Settling an account leaves it nothing to settle, and leaves the balances of
   others alone; settling it again does nothing to its own. *)
LEMMA SettledBalance ==
  ASSUME NEW s, NEW a \in Account, NEW b \in Account, NEW t \in Int, Books(s, t),
         CanSettleGroups(s, a, t)
  PROVE  /\ NothingMatured(SettleGroups(s, a, t).portfolio[LocalCurrency][a], t)
         /\ (a # b \/ NothingMatured(s.portfolio[LocalCurrency][a], t))
              => SettleGroups(s, a, t).cash[LocalCurrency][b] = s.cash[LocalCurrency][b]
<1> DEFINE v == View(s, LocalCurrency)
           settled == Settle(v, a, t)
           r == RedeemedCash(v, a, t)
           n == SettledCash(v, a, t)
<1>1. /\ SettleGroups(s, a, t).cash[LocalCurrency] = settled.cash[LocalCurrency]
      /\ SettleGroups(s, a, t).portfolio[LocalCurrency] = settled.portfolio
  BY SettledLocally
<1>2. /\ v \in LedgerType /\ v.cash[LocalCurrency] = s.cash[LocalCurrency]
      /\ v.portfolio = s.portfolio[LocalCurrency]
      /\ CanSettle(v, a, t) /\ s \in LedgersType
  BY ViewType, SettleGroupsSteps, CurrencyFacts DEF Books
<1> HIDE DEF v
<1>3. v.portfolio \in [Account -> Portfolio] /\ v.cash[LocalCurrency] \in [Holder -> Int]
      /\ v.cash \in [Currency -> [Holder -> Int]] /\ LocalCurrency \in Currency
  BY <1>2, CurrencyFacts DEF LedgerType
<1>4. r \in Int /\ n \in Int
  BY <1>2, SettledAmounts
<1>5. /\ settled.cash[LocalCurrency] = Credit(Credit(v.cash[LocalCurrency], CASH_MARKET, -r), a, r + n)
      /\ settled.portfolio = [v.portfolio EXCEPT ![a] = Unmatured(v.portfolio[a], t)]
  BY <1>3 DEF Settle
<1>6. NothingMatured(settled.portfolio[a], t)
  <2>1. settled.portfolio[a] = Unmatured(v.portfolio[a], t)
    BY <1>3, <1>5
  <2> HIDE DEF settled
  <2>2. \A m \in Maturity : m \in Int
    BY MaturityInt
  <2> QED BY <2>1, <2>2 DEF NothingMatured, Unmatured
<1>7. ASSUME a # b \/ NothingMatured(v.portfolio[a], t)
      PROVE  settled.cash[LocalCurrency][b] = v.cash[LocalCurrency][b]
  <2> DEFINE c == Credit(v.cash[LocalCurrency], CASH_MARKET, -r)
  <2>1. a \in Holder /\ b \in Holder /\ CASH_MARKET \in Holder /\ b # CASH_MARKET
    BY LedgerAssumption DEF Holder
  <2>2. c \in [Holder -> Int] /\ c[b] = v.cash[LocalCurrency][b]
    <3>1. -r \in Int
      BY <1>4
    <3> DEFINE k == -r
               d == v.cash[LocalCurrency]
    <3>2. k \in Int /\ d \in [Holder -> Int]
      BY <1>3, <3>1
    <3> HIDE DEF k, d
    <3>3. /\ Credit(d, CASH_MARKET, k) \in [Holder -> Int]
          /\ \A g \in Holder : g # CASH_MARKET => Credit(d, CASH_MARKET, k)[g] = d[g]
      BY <2>1, <3>2, CreditEffect
    <3> QED BY <2>1, <3>3 DEF k, d
  <2>3. settled.cash[LocalCurrency] = Credit(c, a, r + n)
    BY <1>5
  <2> HIDE DEF c, settled
  <2>4. CASE a # b
    <3>1. r + n \in Int
      BY <1>4
    <3> DEFINE k == r + n
    <3>2. k \in Int
      BY <3>1
    <3> HIDE DEF k
    <3>3. \A g \in Holder : g # a => Credit(c, a, k)[g] = c[g]
      BY <2>1, <2>2, <3>2, CreditEffect
    <3>4. b \in Holder /\ b # a
      BY <2>1, <2>4
    <3>5. Credit(c, a, k)[b] = c[b]
      BY <3>3, <3>4
    <3> QED BY <2>2, <2>3, <3>5 DEF k
  <2>5. CASE a = b /\ NothingMatured(v.portfolio[a], t)
    <3>1. MaturedTokens(v, a, t) = {}
      <4>1. v.portfolio[a].listed \subseteq Maturity
        BY <1>3 DEF Portfolio
      <4> QED BY <2>5, <4>1 DEF MaturedTokens, NothingMatured
    <3>0. IsFiniteSet(Maturity)
      BY RiskAssumption
    <3>2. r = 0
      <4>1. \A m \in Maturity : RedeemedAt(v, a, t, m) = 0
        BY <3>1 DEF RedeemedAt
      <4>2. [m \in Maturity |-> RedeemedAt(v, a, t, m)] = [m \in Maturity |-> 0]
        BY <4>1
      <4>3. r = SumFunction([m \in Maturity |-> RedeemedAt(v, a, t, m)])
        BY DEF RedeemedCash
      <4> HIDE DEF r
      <4>4. r = SumFunction([m \in Maturity |-> 0])
        BY <4>2, <4>3, Zenon
      <4> QED BY <3>0, <4>4, SumZero
    <3>3. n = 0
      <4>1. ASSUME NEW m \in Maturity PROVE SettledAt(v, a, t, m) = 0
        <5>1. m \in Int
          BY MaturityInt
        <5>2. CASE m > t
          BY <5>2 DEF SettledAt
        <5>3. CASE ~(m > t)
          <6>1. m <= t
            BY <5>1, <5>3
          <6>2. v.portfolio[a].fCash[m] = 0 /\ m \notin v.portfolio[a].listed
            BY <2>5, <6>1 DEF NothingMatured
          <6>3. SettledAt(v, a, t, m) = 0 + 0
            BY <5>3, <6>2 DEF SettledAt
          <6> QED BY <6>3
        <5> QED BY <5>2, <5>3
      <4>2. [m \in Maturity |-> SettledAt(v, a, t, m)] = [m \in Maturity |-> 0]
        BY <4>1
      <4>3. n = SumFunction([m \in Maturity |-> SettledAt(v, a, t, m)])
        BY DEF SettledCash
      <4> HIDE DEF n
      <4>4. n = SumFunction([m \in Maturity |-> 0])
        BY <4>2, <4>3, Zenon
      <4> QED BY <3>0, <4>4, SumZero
    <3> HIDE DEF r, n
    <3>4. settled.cash[LocalCurrency][b] = c[b] + 0
      BY <2>1, <2>2, <2>3, <3>2, <3>3 DEF Credit
    <3>5. c[b] \in Int
      BY <2>1, <2>2
    <3> QED BY <2>2, <3>4, <3>5
  <2> QED BY <1>7, <2>4, <2>5
<1> HIDE DEF settled
<1> QED BY <1>1, <1>2, <1>6, <1>7

(* One balance moves, the others stay. *)
LEMMA ChargedCash ==
  ASSUME NEW s \in LedgersType, NEW a \in Account, NEW b \in Account, NEW n \in Int
  PROVE  /\ Charged(s, a, n).cash[LocalCurrency][b]
              = IF b = a THEN s.cash[LocalCurrency][b] - n ELSE s.cash[LocalCurrency][b]
         /\ Charged(s, a, n).portfolio = s.portfolio
<1> DEFINE r == Charged(s, a, n)
           k == -n
           d == s.cash[LocalCurrency]
           e == Credit(d, a, k)
<1>1. d \in [Holder -> Int] /\ a \in Holder /\ b \in Holder /\ d[b] \in Int /\ k \in Int
  BY CashOfAccount, CurrencyFacts
<1>2. r = WithCash(s, LocalCurrency, e)
  BY ChargedAs
<1>3. d[b] + k = d[b] - n
  BY <1>1
<1> HIDE DEF d, k
<1>4. e[a] = d[a] + k /\ \A g \in Holder : g # a => e[g] = d[g]
  BY <1>1, CreditEffect
<1> HIDE DEF e, r
<1>5. r.cash[LocalCurrency] = e /\ r.portfolio = s.portfolio
  BY <1>2, LedgersParts, CurrencyFacts DEF WithCash
<1>6. r.cash[LocalCurrency][b] = IF b = a THEN d[b] - n ELSE d[b]
  BY <1>1, <1>3, <1>4, <1>5
<1> QED BY <1>5, <1>6 DEF r, d

LEMMA ReceivedCash ==
  ASSUME NEW s \in LedgersType, NEW n \in Int
  PROVE  Received(s, n).cash = s.cash
<1> DEFINE r == Received(s, n)
           k == s.held[LocalCurrency] + n
<1>1. r = WithHeld(s, LocalCurrency, k)
  BY ReceivedAs
<1> HIDE DEF r, k
<1>2. r.cash = s.cash
  BY <1>1 DEF WithHeld
<1> QED BY <1>2 DEF r

(* The purchaser's side of a transaction does not add to what the account has:
   a purchaser other than the account pays with its own, and an account that
   pays for itself is only charged. *)
LEMMA FinishedForPayer ==
  ASSUME NEW s, Books(s, now), now \in Int, NEW a \in Account, NEW payer \in Account, NEW net \in Int,
         CanFinish(s, a, net),
         a # payer \/ (TokenKind # "hook" /\ NothingMatured(s.portfolio[LocalCurrency][payer], now))
  PROVE  Finish(s, a, net).cash[LocalCurrency][payer] <= s.cash[LocalCurrency][payer]
<1>1. s \in LedgersType /\ s.cash[LocalCurrency][payer] \in Int
  BY CashOfAccount, CurrencyFacts DEF Books
<1>2. CASE net <= 0 \/ TokenKind = "plain"
  <2>1. Finish(s, a, net) = Received(s, net)
    BY <1>2 DEF Finish
  <2>2. Received(s, net).cash = s.cash
    BY <1>1, ReceivedCash
  <2> QED BY <1>1, <2>1, <2>2
<1>3. CASE ~(net <= 0 \/ TokenKind = "plain") /\ TokenKind = "hook"
  <2> DEFINE n == -net
             u == Charged(s, a, n)
  <2>1. Finish(s, a, net) = Received(u, net)
    BY <1>3 DEF Finish
  <2>2. n \in Int
    OBVIOUS
  <2> HIDE DEF n
  <2>3. u \in LedgersType /\ u.cash[LocalCurrency][payer] = s.cash[LocalCurrency][payer]
    BY <1>1, <1>3, <2>2, ChargedEffect, ChargedCash, SMTT(30)
  <2> HIDE DEF u
  <2>4. Received(u, net).cash = u.cash
    BY <2>3, ReceivedCash
  <2> QED BY <1>1, <2>1, <2>3, <2>4
<1>4. CASE ~(net <= 0 \/ TokenKind = "plain") /\ TokenKind # "hook"
  <2> DEFINE u == Charged(s, a, net)
  <2>1. Finish(s, a, net) = SettleGroups(u, a, now)
    BY <1>4 DEF Finish
  <2>2. CanSettleGroups(u, a, now) /\ net > 0
    BY <1>4, LiquidationsAssumption DEF CanFinish
  <2>3. Books(u, now)
    BY <1>1, ChargedEffect, KeptGroupsBooks
  <2>4. u.cash[LocalCurrency][payer] <= s.cash[LocalCurrency][payer] /\ u.portfolio = s.portfolio
    <3>1. CASE payer = a
      BY <1>1, <2>2, <3>1, ChargedCash
    <3>2. CASE payer # a
      BY <1>1, <3>2, ChargedCash
    <3> QED BY <3>1, <3>2
  <2> HIDE DEF u
  <2>5. a # payer \/ NothingMatured(u.portfolio[LocalCurrency][a], now)
    BY <2>4
  <2>6. SettleGroups(u, a, now).cash[LocalCurrency][payer] = u.cash[LocalCurrency][payer]
    BY <2>2, <2>3, <2>5, SettledBalance
  <2> QED BY <2>1, <2>4, <2>6
<1> QED BY <1>2, <1>3, <1>4

LEMMA PaidCash ==
  ASSUME NEW s \in LedgersType, NEW payer \in Account, NEW x, CaseSound(s, payer, x)
  PROVE  Paid(x, payer).cash[LocalCurrency][payer] = s.cash[LocalCurrency][payer] + x.toPayer
<1> DEFINE n == -x.toPayer
           u == Charged(x.ledger, payer, n)
           e == [u.cash[ETH] EXCEPT ![payer] = x.balance]
           r == Paid(x, payer)
<1>1. /\ x.ledger \in LedgersType /\ x.toPayer \in Int /\ n \in Int
      /\ x.ledger.cash[LocalCurrency][payer] = s.cash[LocalCurrency][payer]
      /\ s.cash[LocalCurrency][payer] \in Int
  BY CashOfAccount, CurrencyFacts DEF CaseSound, Cases
<1>2. s.cash[LocalCurrency][payer] - n = s.cash[LocalCurrency][payer] + x.toPayer
  BY <1>1
<1>3. u = Charged(x.ledger, payer, -x.toPayer)
  OBVIOUS
<1> HIDE DEF n
<1>4. u \in LedgersType /\ u.cash[LocalCurrency][payer] = s.cash[LocalCurrency][payer] + x.toPayer
  <2> DEFINE w == x.ledger
  <2>1. w \in LedgersType /\ w.cash[LocalCurrency][payer] = s.cash[LocalCurrency][payer]
    BY <1>1
  <2>2. u = Charged(w, payer, n)
    OBVIOUS
  <2> HIDE DEF w, u
  <2>3. u \in LedgersType /\ u.cash[LocalCurrency][payer] = w.cash[LocalCurrency][payer] - n
    BY <1>1, <2>1, <2>2, ChargedEffect, ChargedCash
  <2> QED BY <1>2, <2>1, <2>3
<1> HIDE DEF u
<1>5. r = WithCash(u, ETH, e)
  BY <1>3, <1>4, PaidAs
<1> HIDE DEF r, e
<1>6. r.cash[LocalCurrency] = u.cash[LocalCurrency]
  BY <1>4, <1>5, LedgersParts, CurrencyFacts, RiskAssumption DEF WithCash
<1> QED BY <1>4, <1>6 DEF r

(* A settlement pays no more than the amount asked for. *)
LEMMA DebtPaid ==
  ASSUME NEW s \in LedgersType, NEW payer \in Account, \A c \in Currency : CanSell(s, payer, c),
         NEW x0, CaseSound(s, payer, x0), x0.ledger = s,
         x0.toPayer = 0, NEW value \in Nat, NEW price \in Nat
  PROVE  SettleDebt(x0, payer, value, price).toPayer <= value
<1> DEFINE sale == RaiseViaTokens(s, payer, LocalCurrency, value)
           raised == value - sale.left
           gained == PositivePart(raised - x0.localClaim)
           buffer == IF x0.localNet < 0 THEN LOCAL_BUFFER ELSE DECIMALS
           added == ((price * gained * buffer) \div RATE_DECIMALS) \div DECIMALS
           x == IF x0.localClaim > 0
                  THEN [x0 EXCEPT !.ledger = sale.ledger, !.toPayer = raised, !.aggregate = @ + added]
                  ELSE x0
           y == SettleDebt(x0, payer, value, price)
<1>1. y = IF value > x.toPayer /\ x.aggregate >= 0
            THEN TradeCollateral(x, payer, value - x.toPayer, SETTLEMENT_DISCOUNT, price)
            ELSE x
  BY DEF SettleDebt
<1>2. x0 \in Cases /\ x0.aggregate \in Int /\ x0.localClaim \in Int
  BY DEF CaseSound, Cases
<1>3. /\ sale.left \in 0 .. value
      /\ sale.ledger \in LedgersType
  BY TokensSold, CurrencyFacts DEF Sold, KeptGroups
<1> HIDE DEF y, sale
<1>4. raised \in Nat /\ raised <= value
  BY <1>3
<1>5. added \in Int
  BY <1>2, <1>4, BufferedInt
<1> HIDE DEF added, raised
<1>6. x \in Cases /\ x.toPayer \in Nat /\ x.toPayer <= value
  <2>1. CASE x0.localClaim > 0
    <3> DEFINE g == x0.aggregate + added
    <3>1. x = [x0 EXCEPT !.ledger = sale.ledger, !.toPayer = raised, !.aggregate = g]
      BY <1>2, <2>1 DEF Cases
    <3>2. g \in Int /\ raised \in Int
      BY <1>2, <1>4, <1>5
    <3> HIDE DEF x, g
    <3>3. x \in Cases /\ x.toPayer = raised
      BY <1>2, <1>3, <3>1, <3>2 DEF Cases
    <3> QED BY <1>4, <3>3
  <2>2. CASE ~(x0.localClaim > 0)
    <3>1. x = x0
      BY <2>2
    <3> HIDE DEF x
    <3> QED BY <1>2, <3>1
  <2> QED BY <2>1, <2>2
<1> HIDE DEF x
<1>7. CASE value > x.toPayer /\ x.aggregate >= 0
  <2> DEFINE required == value - x.toPayer
  <2>1. required \in Nat /\ x.toPayer + required = value
    BY <1>6, <1>7
  <2> HIDE DEF required
  <2>2. TradeCollateral(x, payer, required, SETTLEMENT_DISCOUNT, price).toPayer <= x.toPayer + required
    BY <1>6, <2>1, LiquidationConstants, CollateralPays
  <2>3. y = TradeCollateral(x, payer, required, SETTLEMENT_DISCOUNT, price)
    BY <1>1, <1>7 DEF required
  <2> QED BY <2>1, <2>2, <2>3 DEF y
<1>8. CASE ~(value > x.toPayer /\ x.aggregate >= 0)
  <2>1. y = x
    BY <1>1, <1>8
  <2> QED BY <1>6, <2>1 DEF y
<1> QED BY <1>7, <1>8

(* An account that buys its own receivers has what it had. *)
LEMMA ReceiversToSelf ==
  ASSUME NEW s \in LedgersType, NEW a \in Account, NEW c \in Currency,
         NEW amount \in Nat, NEW t \in Int, NEW order \in SetToSeqs(Receivers(s, a, c)), NEW now0,
         NothingMatured(s.portfolio[LocalCurrency][a], now0)
  PROVE  NothingMatured(RaiseViaReceivers(s, a, a, c, amount, order, t)
                          .ledger.portfolio[LocalCurrency][a], now0)
<1> DEFINE r == SellReceivers(s.portfolio[c][a], amount, order, t)
           p == s.portfolio[c][a]
           one == Moved(p, r.moved, -1)
           two == Moved(one, r.moved, 1)
           given == [s.portfolio[c] EXCEPT ![a] = one]
           q == [given EXCEPT ![a] = Moved(given[a], r.moved, 1)]
           sale == RaiseViaReceivers(s, a, a, c, amount, order, t)
<1>1. s.portfolio[c] \in [Account -> Portfolio] /\ p \in Portfolio
  BY LedgersParts
<1>2. order \in [1 .. Cardinality(Receivers(s, a, c)) -> Maturity]
      /\ Cardinality(Receivers(s, a, c)) \in Nat
  <2>1. Receivers(s, a, c) \subseteq Maturity
    BY DEF Receivers
  <2>2. Cardinality(Receivers(s, a, c)) \in Nat
    BY <2>1, RiskAssumption, FS_Subset, FS_CardinalityType
  <2>3. order \in [1 .. Cardinality(Receivers(s, a, c)) -> Receivers(s, a, c)]
    BY DEF SetToSeqs
  <2> QED BY <2>1, <2>2, <2>3
<1>3. r \in ReceiverSale(amount)
  BY <1>1, <1>2, ReceiversSold
<1>4. sale.ledger.portfolio = [s.portfolio EXCEPT ![c] = q]
  BY DEF RaiseViaReceivers
<1> HIDE DEF sale, r
<1>5. r.moved \in [Maturity -> Int]
  BY <1>3 DEF ReceiverSale
<1>6. q[a] = two
  BY <1>1
<1>7. sale.ledger.portfolio[LocalCurrency][a] = IF c = LocalCurrency THEN two
                                                ELSE s.portfolio[LocalCurrency][a]
  <2> HIDE DEF q, two
  <2> QED BY <1>4, <1>6, LedgersParts, CurrencyFacts
<1>8. two.listed = p.listed /\ \A m \in Maturity : two.fCash[m] = p.fCash[m]
  <2> HIDE DEF p
  <2>1. /\ one \in Portfolio /\ one.listed = p.listed
        /\ \A m \in Maturity : one.fCash[m] = p.fCash[m] + -1 * r.moved[m]
    BY <1>1, <1>5, MovedEffect
  <2> HIDE DEF one
  <2>2. two.listed = one.listed /\ \A m \in Maturity : two.fCash[m] = one.fCash[m] + 1 * r.moved[m]
    BY <1>5, <2>1, MovedEffect
  <2>3. \A m \in Maturity : p.fCash[m] \in Int /\ r.moved[m] \in Int
    BY <1>1, <1>5 DEF Portfolio
  <2> HIDE DEF two
  <2> QED BY <2>1, <2>2, <2>3
<1> HIDE DEF two
<1>9. NothingMatured(sale.ledger.portfolio[LocalCurrency][a], now0)
  <2>1. CASE c = LocalCurrency
    <3>1. sale.ledger.portfolio[LocalCurrency][a] = two /\ p = s.portfolio[LocalCurrency][a]
      BY <1>7, <2>1
    <3> HIDE DEF p
    <3> QED BY <1>8, <3>1 DEF NothingMatured
  <2>2. CASE c # LocalCurrency
    BY <1>7, <2>2
  <2> QED BY <2>1, <2>2
<1> QED BY <1>9 DEF sale

(* A purchase of fCash pays no more than the amount asked for. *)
LEMMA fCashPays ==
  ASSUME NEW s \in LedgersType, NEW payer \in Account, NEW liquidator \in Account,
         NEW required \in Nat, NEW net \in Int, NEW discount \in Nat \ {0}, NEW price \in Nat,
         NEW order \in SetToSeqs(Receivers(s, payer, ETH)), NEW t \in Int,
         TradefCash(s, payer, liquidator, required, net, discount, price, order, t).ok
  PROVE  /\ TradefCash(s, payer, liquidator, required, net, discount, price, order, t).toPayer <= required
         /\ payer = liquidator /\ NothingMatured(s.portfolio[LocalCurrency][payer], t)
              => NothingMatured(TradefCash(s, payer, liquidator, required, net, discount, price, order, t)
                                  .ledger.portfolio[LocalCurrency][payer], t)
<1> DEFINE x == TradefCash(s, payer, liquidator, required, net, discount, price, order, t)
           wanted == CollateralToSell(discount, required, price)
           sell == Min({wanted, net})
           local == IF wanted > net THEN LocalAmount(discount, net, price) ELSE required
           sale == RaiseViaReceivers(s, payer, liquidator, ETH, sell, order, t)
           toPayer == local - LocalAmount(discount, sale.left, price)
<1>1. x = [ledger |-> sale.ledger, toPayer |-> toPayer,
           ok |-> net > 0 /\ CanRaiseViaReceivers(s, payer, sell) /\ sale.ok /\ toPayer >= 0]
  BY DEF TradefCash
<1>2. net > 0 /\ sell > 0
  <2> DEFINE bought == net > 0 /\ CanRaiseViaReceivers(s, payer, sell) /\ sale.ok /\ toPayer >= 0
  <2>1. x = [ledger |-> sale.ledger, toPayer |-> toPayer, ok |-> bought]
    BY <1>1
  <2> HIDE DEF sell, sale, toPayer
  <2>2. bought
    <3> HIDE DEF bought
    <3> QED BY <2>1
  <2> QED BY <2>2 DEF CanRaiseViaReceivers
<1>3. x.ledger = sale.ledger /\ x.toPayer = toPayer
  BY <1>1
<1> HIDE DEF x
<1>4. wanted \in Nat /\ (wanted # 0 => price # 0)
  BY CollateralToSellNat
<1>5. sell \in Nat /\ wanted # 0
  <2> HIDE DEF wanted
  <2>1. \A n \in Nat, k \in Int : Min({n, k}) = IF n <= k THEN n ELSE k
    BY MaxMinOfTwo
  <2>2. sell = IF wanted <= net THEN wanted ELSE net
    BY <1>4, <2>1
  <2> QED BY <1>2, <1>4, <2>2
<1> HIDE DEF sell
<1>6. sale.left \in Nat
  BY <1>5, CurrencyFacts, ReceiversMoved
<1>7. price \in Nat \ {0}
  BY <1>4, <1>5
<1>8. local \in Int /\ local <= required
  <2>1. CASE wanted > net
    <3>1. LocalAmount(discount, net, price) \in Int /\ LocalAmount(discount, net, price) <= required
      <4>1. net <= wanted
        BY <1>4, <2>1
      <4> QED BY <1>7, <4>1, LocalAmountInt, LocalAmountBounded
    <3> HIDE DEF wanted
    <3> QED BY <2>1, <3>1
  <2>2. CASE ~(wanted > net)
    <3> HIDE DEF wanted
    <3> QED BY <2>2
  <2> QED BY <2>1, <2>2
<1> HIDE DEF local, wanted
<1>9. toPayer <= required
  <2> HIDE DEF sale
  <2>1. LocalAmount(discount, sale.left, price) \in Int /\ LocalAmount(discount, sale.left, price) >= 0
    BY <1>6, <1>7, LocalAmountInt
  <2> QED BY <1>8, <2>1
<1>10. payer = liquidator /\ NothingMatured(s.portfolio[LocalCurrency][payer], t)
         => NothingMatured(sale.ledger.portfolio[LocalCurrency][payer], t)
  BY <1>5, CurrencyFacts, ReceiversToSelf
<1> HIDE DEF sale, toPayer
<1> QED BY <1>3, <1>9, <1>10 DEF x

(* What is left of a debt once receivers are paid for. *)
LEMMA PaidForfCash ==
  ASSUME IInv, NEW s, Books(s, now), NEW u, KeptGroups(s, u), u.cash = s.cash,
         NEW payer \in Account, NEW liquidator \in Account, NEW amount \in Int,
         s.cash[LocalCurrency][payer] + amount <= 0,
         NEW paid, paid = Charged(u, payer, -amount),
         CanFinish(paid, liquidator, amount), Commit(Finish(paid, liquidator, amount)),
         \/ liquidator # payer
         \/ TokenKind # "hook" /\ NothingMatured(u.portfolio[LocalCurrency][payer], now)
  PROVE  cash'[LocalCurrency][payer] <= 0
<1> DEFINE n == -amount
           done == Finish(paid, liquidator, amount)
<1>1. s \in LedgersType /\ u \in LedgersType /\ now \in Int /\ n \in Int
  BY TimeAndRate DEF Books, KeptGroups
<1>2. paid = Charged(u, payer, n) /\ cash' = done.cash
  BY DEF Commit
<1>3. u.cash[LocalCurrency][payer] \in Int /\ u.cash[LocalCurrency][payer] - n <= 0
  <2>1. u.cash[LocalCurrency][payer] \in Int /\ u.cash[LocalCurrency][payer] + amount <= 0
    BY <1>1, CashOfAccount, CurrencyFacts
  <2> QED BY <2>1
<1> HIDE DEF n
<1>4. /\ KeptGroups(u, paid) /\ paid \in LedgersType
      /\ paid.cash[LocalCurrency][payer] <= 0 /\ paid.portfolio = u.portfolio
  <2>1. KeptGroups(u, Charged(u, payer, n)) /\ Charged(u, payer, n) \in LedgersType
    BY <1>1, ChargedEffect
  <2>2. /\ Charged(u, payer, n).cash[LocalCurrency][payer] = u.cash[LocalCurrency][payer] - n
        /\ Charged(u, payer, n).portfolio = u.portfolio
    BY <1>1, ChargedCash
  <2> QED BY <1>2, <1>3, <2>1, <2>2
<1>5. Books(u, now)
  BY KeptGroupsBooks
<1>6. Books(paid, now)
  BY <1>4, <1>5, KeptGroupsBooks
<1>7. \/ liquidator # payer
      \/ TokenKind # "hook" /\ NothingMatured(paid.portfolio[LocalCurrency][payer], now)
  BY <1>4
<1>8. done.cash[LocalCurrency][payer] <= paid.cash[LocalCurrency][payer]
  BY <1>1, <1>6, <1>7, FinishedForPayer
<1>9. /\ paid.cash[LocalCurrency][payer] \in Int
      /\ done.cash[LocalCurrency][payer] \in Int
  <2>1. Books(done, now)
    BY <1>1, <1>6, Finished
  <2> HIDE DEF done
  <2>2. done \in LedgersType
    BY <2>1 DEF Books
  <2> QED BY <1>4, <2>2, CashOfAccount, CurrencyFacts
<1> HIDE DEF done
<1> QED BY <1>2, <1>4, <1>8, <1>9

(* An account that is settled has the debt that is asked for, and nothing left
   to settle. *)
LEMMA PayerOwes ==
  ASSUME IInv, NEW payer \in Account, NEW value \in Nat, CanSettleGroups(ledger, payer, now),
         Owes(SettleGroups(ledger, payer, now), payer, value)
  PROVE  /\ SettleGroups(ledger, payer, now).cash[LocalCurrency][payer] \in Int
         /\ SettleGroups(ledger, payer, now).cash[LocalCurrency][payer] <= -value
         /\ NothingMatured(SettleGroups(ledger, payer, now).portfolio[LocalCurrency][payer], now)
<1>1. Books(ledger, now) /\ now \in Int
  BY TimeAndRate DEF IInv
<1>2. NothingMatured(SettleGroups(ledger, payer, now).portfolio[LocalCurrency][payer], now)
  BY <1>1, SettledBalance
<1>3. Books(SettleGroups(ledger, payer, now), now)
  BY PayerSettled
<1> QED BY <1>2, <1>3, CashOfAccount, CurrencyFacts DEF Owes, Books

LEMMA SettleCashBalancePays ==
  ASSUME IInv, NEW settler \in Liquidator, NEW payer \in Payer, NEW value \in Nat,
         SettleCashBalance(settler, payer, value)
  PROVE  cash'[LocalCurrency][payer] <= 0
<1> DEFINE s == SettleGroups(ledger, payer, now)
           x0 == Case(s, payer, now, rate)
           x == SettleDebt(x0, payer, value, Price(rate))
           net == x.fromLiquidator
           paid == Paid(x, payer)
           done == Finish(paid, settler, net)
<1>1. /\ CanSettleGroups(ledger, payer, now) /\ CanValueGroups(s, payer, now)
      /\ Owes(s, payer, value) /\ settler # payer
      /\ CanFinish(paid, settler, net)
      /\ Commit([done EXCEPT !.held[ETH] = @ - x.toLiquidator])
  BY DEF SettleCashBalance, CanBeFactored, Conclude
<1>2. /\ payer \in Account /\ settler \in Account /\ now \in Int /\ rate \in Nat \ {0}
      /\ Price(rate) \in Nat
  BY TimeAndRate
<1>3. Books(s, now)
  BY <1>1, <1>2, PayerSettled
<1>4. s.cash[LocalCurrency][payer] \in Int /\ s.cash[LocalCurrency][payer] <= -value
  BY <1>1, <1>2, PayerOwes
<1> HIDE DEF s
<1>5. s \in LedgersType /\ \A c \in Currency : CanSell(s, payer, c)
  BY <1>1, <1>2, <1>3, BooksCanSell DEF Books
<1>6. /\ CaseSound(s, payer, x0) /\ CollateralUntouched(s, payer, x0)
      /\ x0.ledger = s /\ x0.toPayer = 0 /\ x0.fromLiquidator = 0
  BY <1>1, <1>2, <1>5, CaseOpens
<1> HIDE DEF x0
<1>7. CaseSound(s, payer, x) /\ x.toPayer <= value
  BY <1>2, <1>5, <1>6, DebtSettled, DebtPaid
<1> HIDE DEF x
<1>8. x.toPayer \in Int /\ net \in Int
  BY <1>7 DEF CaseSound, Cases
<1>9. KeptGroups(s, paid) /\ paid.cash[LocalCurrency][payer] = s.cash[LocalCurrency][payer] + x.toPayer
  BY <1>2, <1>5, <1>7, PaidEffect, PaidCash
<1> HIDE DEF paid, net
<1>10. Books(paid, now)
  BY <1>3, <1>9, KeptGroupsBooks
<1>11. /\ done.cash[LocalCurrency][payer] <= paid.cash[LocalCurrency][payer]
       /\ Books(done, now)
  BY <1>1, <1>2, <1>8, <1>10, FinishedForPayer, Finished
<1> HIDE DEF done
<1>12. cash' = done.cash /\ done.cash[LocalCurrency][payer] \in Int
  <2>1. done \in LedgersType
    BY <1>11 DEF Books
  <2> DEFINE r == [done EXCEPT !.held[ETH] = @ - x.toLiquidator]
  <2>2. r.cash = done.cash
    BY <2>1, LedgersParts
  <2>3. Commit(r)
    BY <1>1
  <2> HIDE DEF r
  <2>4. cash' = r.cash
    BY <2>3 DEF Commit
  <2> QED BY <1>2, <2>1, <2>2, <2>4, CashOfAccount, CurrencyFacts
<1> QED BY <1>4, <1>7, <1>8, <1>9, <1>11, <1>12

LEMMA SettleLocalfCashPays ==
  ASSUME IInv, NEW settler \in Liquidator, NEW payer \in Payer, NEW value \in Nat,
         TokenKind # "hook" \/ settler # payer,
         SettleLocalfCash(settler, payer, value)
  PROVE  cash'[LocalCurrency][payer] <= 0
<1> DEFINE s == SettleGroups(ledger, payer, now)
<1>1. CanSettleGroups(ledger, payer, now) /\ Owes(s, payer, value)
  BY DEF SettleLocalfCash, CanBeFactored
<1>2. PICK order \in SetToSeqs(Receivers(s, payer, LocalCurrency)) :
        LET sale == RaiseViaReceivers(s, payer, settler, LocalCurrency, value, order, now)
            raised == value - sale.left
            paid == Charged(sale.ledger, payer, -raised)
        IN  /\ sale.ok
            /\ CanFinish(paid, settler, raised)
            /\ Commit(Finish(paid, settler, raised))
  BY DEF SettleLocalfCash
<1>3. payer \in Account /\ settler \in Account /\ now \in Int
  BY TimeAndRate
<1>4. Books(s, now)
  BY <1>1, <1>3, PayerSettled
<1>5. /\ s.cash[LocalCurrency][payer] \in Int /\ s.cash[LocalCurrency][payer] <= -value
      /\ NothingMatured(s.portfolio[LocalCurrency][payer], now)
  BY <1>1, <1>3, PayerOwes
<1> HIDE DEF s
<1> DEFINE sale == RaiseViaReceivers(s, payer, settler, LocalCurrency, value, order, now)
           raised == value - sale.left
           paid == Charged(sale.ledger, payer, -raised)
<1>6. CanFinish(paid, settler, raised) /\ Commit(Finish(paid, settler, raised))
  BY <1>2
<1>7. s \in LedgersType
  BY <1>4 DEF Books
<1>8. KeptGroups(s, sale.ledger) /\ sale.ledger.cash = s.cash /\ sale.left \in Nat
  BY <1>3, <1>7, CurrencyFacts, ReceiversMoved
<1>9. \/ settler # payer
      \/ TokenKind # "hook" /\ NothingMatured(sale.ledger.portfolio[LocalCurrency][payer], now)
  BY <1>3, <1>5, <1>7, CurrencyFacts, ReceiversToSelf
<1> HIDE DEF sale
<1>10. raised \in Int /\ s.cash[LocalCurrency][payer] + raised <= 0
  BY <1>5, <1>8
<1> HIDE DEF raised
<1>11. paid = Charged(sale.ledger, payer, -raised)
  OBVIOUS
<1> HIDE DEF paid
<1> QED BY <1>3, <1>4, <1>6, <1>8, <1>9, <1>10, <1>11, PaidForfCash

LEMMA SettlefCashPays ==
  ASSUME IInv, NEW settler \in Liquidator, NEW payer \in Payer, NEW value \in Nat,
         TokenKind # "hook" \/ settler # payer,
         SettlefCash(settler, payer, value)
  PROVE  cash'[LocalCurrency][payer] <= 0
<1> DEFINE s == SettleGroups(ledger, payer, now)
           net == NetAvailable(s, payer, ETH, now)
<1>1. CanSettleGroups(ledger, payer, now) /\ CanValueGroups(s, payer, now) /\ Owes(s, payer, value)
  BY DEF SettlefCash, CanBeFactored
<1>2. PICK order \in SetToSeqs(Receivers(s, payer, ETH)) :
        ConcludefCash(TradefCash(s, payer, settler, value, net, SETTLEMENT_DISCOUNT,
                                 Price(rate), order, now), settler, payer)
  BY DEF SettlefCash
<1>3. payer \in Account /\ settler \in Account /\ now \in Int /\ Price(rate) \in Nat
  BY TimeAndRate
<1>4. Books(s, now)
  BY <1>1, <1>3, PayerSettled
<1>5. /\ s.cash[LocalCurrency][payer] \in Int /\ s.cash[LocalCurrency][payer] <= -value
      /\ NothingMatured(s.portfolio[LocalCurrency][payer], now)
  BY <1>1, <1>3, PayerOwes
<1> HIDE DEF s
<1>6. net \in Int /\ s \in LedgersType
  BY <1>1, <1>3, <1>4, ValuesInt, CurrencyFacts DEF Books
<1> HIDE DEF net
<1> DEFINE x == TradefCash(s, payer, settler, value, net, SETTLEMENT_DISCOUNT, Price(rate), order, now)
           paid == Charged(x.ledger, payer, -x.toPayer)
<1>7. x.ok /\ CanFinish(paid, settler, x.toPayer) /\ Commit(Finish(paid, settler, x.toPayer))
  BY <1>2 DEF ConcludefCash
<1>8. SETTLEMENT_DISCOUNT \in Nat \ {0}
  BY LiquidationConstants
<1>9. KeptGroups(s, x.ledger) /\ x.ledger.cash = s.cash /\ x.toPayer \in Int
  BY <1>3, <1>6, <1>7, <1>8, fCashTraded
<1>10. /\ x.toPayer <= value
       /\ payer = settler => NothingMatured(x.ledger.portfolio[LocalCurrency][payer], now)
  BY <1>3, <1>5, <1>6, <1>7, <1>8, fCashPays
<1> HIDE DEF x
<1>11. s.cash[LocalCurrency][payer] + x.toPayer <= 0
  BY <1>5, <1>9, <1>10
<1>12. paid = Charged(x.ledger, payer, -x.toPayer)
  OBVIOUS
<1> HIDE DEF paid
<1> QED BY <1>3, <1>4, <1>7, <1>9, <1>10, <1>11, <1>12, PaidForfCash

-----------------------------------------------------------------------------
(* What the invariant says to a reader.                                    *)

(* Whoever is settled or liquidated, at whatever rate and in whatever order:
   balances stay integers of their accounts, pools and portfolios stay what
   they are, and no subtraction of an unsigned amount goes below zero. *)
THEOREM TypeCorrect == Spec => []TypeOK
<1>1. IInv => TypeOK
  BY DEF IInv, Books, TypeOK
<1> QED BY <1>1, Invariance, PTL

(* The pools of both cash groups: what Portfolios._tradeLiquidityToken and
   CashMarket.tradeLiquidityToken burn leaves cash, tokens and fCash in step,
   whatever the token of the debt does when it is transferred. *)
THEOREM PoolsInOrder == Spec => []MarketIntegrity
<1>1. IInv => MarketIntegrity
  <2> SUFFICES ASSUME IInv, NEW c \in Currency
               PROVE  /\ PoolsBacked(ledger, c)
                      /\ \A m \in Maturity : /\ TokensInPortfolios(ledger, c, m)
                                             /\ now < m => Unsettled(ledger, c, m) = 0
    BY DEF MarketIntegrity
  <2> DEFINE s == ledger
             v == View(s, c)
  <2>1. s \in LedgersType /\ Sound(v, now)
    BY DEF IInv, Books
  <2>2. v.cash[LocalCurrency] = s.cash[c] /\ v.markets = s.markets[c]
    BY <2>1, ViewType
  <2>3. /\ PoolCash(v) = SumFunction([m \in Maturity |-> s.markets[c][m].totalCurrentCash])
        /\ \A m \in Maturity :
             /\ TokensOf(v, m) = SumFunction([a \in Account |-> s.portfolio[c][a].token[m]])
             /\ fCashOf(v, m) + v.markets[m].totalfCash = Unsettled(s, c, m)
    BY <2>1, ViewTotals
  <2> HIDE DEF v, s
  <2>4. PoolsBacked(s, c) /\ \A m \in Maturity : TokensInPortfolios(s, c, m)
    BY <2>1, <2>2, <2>3 DEF Sound, PoolsBacked, TokensInPortfolios
  <2>5. \A m \in Maturity : now < m => Unsettled(s, c, m) = 0
    BY <2>1, <2>3 DEF Sound
  <2> QED BY <2>4, <2>5 DEF s
<1> QED BY <1>1, Invariance, PTL

(* The transfers of Escrow._finishLiquidateSettle cover what Liquidation.sol
   decided: what is raised from pools, taken from the account's balance and paid
   by the liquidator adds up, for every rate, discount and rounding.  A token
   that calls tokensReceived breaks it (run hook_token). *)
THEOREM EscrowSolventAlways ==
  ASSUME TokenKind # "hook"
  PROVE  Spec => []EscrowSolvent
<1>1. IInv => EscrowSolvent
  <2> SUFFICES ASSUME IInv, NEW c \in Currency
               PROVE  TokensCovered(ledger, c)
    BY DEF EscrowSolvent
  <2>1. ledger \in LedgersType /\ Gap(ledger, c) = 0
    BY DEF IInv, Books, Whole
  <2>2. /\ Unset(View(ledger, c)) = SumFunction([m \in Maturity |-> Unsettled(ledger, c, m)])
        /\ SumFunction(ledger.cash[c]) \in Int /\ Unset(View(ledger, c)) \in Int
        /\ ledger.held[c] \in Nat
    BY <2>1, ViewTotals, GapInt
  <2>3. ledger.held[c] = SumFunction(ledger.cash[c]) + Unset(View(ledger, c))
    BY <2>1, <2>2 DEF Gap
  <2> QED BY <2>2, <2>3 DEF TokensCovered
<1> QED BY <1>1, Invariance, PTL

(* _settleCashBalance and settlefCash pay a debt and no more, in every state and
   for every constant: liquidity tokens pay at most what is asked for, and what
   collateral or receivers are sold for is converted back no higher than the
   amount they were to pay.  An account may settle its own debt with its
   receivers; with an ERC777 token it is then credited twice, once as the sender
   of the tokens, which the assumption leaves out. *)
THEOREM SettlementsPayDebts ==
  ASSUME TokenKind # "hook" \/ Liquidator \cap Payer = {}
  PROVE  Spec => SettlementPaysOnlyTheDebt
<1> DEFINE Step == \A p \in Payer : cash'[LocalCurrency][p] > 0 => ~SettleStep(p)
<1>1. IInv /\ [Next]_vars => [Step]_vars
  <2> SUFFICES ASSUME IInv, Next, NEW p \in Payer, cash'[LocalCurrency][p] > 0, SettleStep(p)
               PROVE  FALSE
    OBVIOUS
  <2>1. PICK settler \in Liquidator, value \in Amount :
          \/ SettleCashBalance(settler, p, value)
          \/ SettleLocalfCash(settler, p, value)
          \/ SettlefCash(settler, p, value)
    BY DEF SettleStep
  <2>2. value \in Nat /\ (TokenKind # "hook" \/ settler # p)
    BY LiquidationsAssumption
  <2>3. cash'[LocalCurrency][p] <= 0
    BY <2>1, <2>2, SettleCashBalancePays, SettleLocalfCashPays, SettlefCashPays
  <2>4. cash'[LocalCurrency][p] \in Int
    <3>1. IInv'
      BY NextKeeps
    <3>2. ledger' \in LedgersType
      BY <3>1 DEF IInv, Books
    <3>3. p \in Account /\ ledger'.cash = cash'
      BY TimeAndRate DEF ledger
    <3> QED BY <3>2, <3>3, CashOfAccount, CurrencyFacts
  <2> QED BY <2>3, <2>4
<1>2. SettlementPaysOnlyTheDebt <=> [][Step]_vars
  BY DEF SettlementPaysOnlyTheDebt
<1> HIDE DEF Step
<1> QED BY <1>1, <1>2, Invariance, PTL DEF Spec
=============================================================================
