--------------------------- MODULE MCLiquidations ---------------------------
(***************************************************************************)
(* Small instances of Liquidations for TLC.  One account has positions in  *)
(* both cash groups; whoever is on the other side of them is the maker, so *)
(* that every start is sound: claims net to zero, tokens add up, and the   *)
(* tokens held are the sum of the balances.                                *)
(***************************************************************************)
EXTENDS Liquidations

CONSTANTS payer, buyer, maker, treasury, market, ether, dai

CONSTANTS
  Pool,      \* the pool of every cash group and maturity
  Balances,  \* Balances[c]: the payer's cash balance
  Tokens,    \* Tokens[c]: the liquidity tokens of the payer
  Claims,    \* Claims[c]: its fCash
  Wealth     \* what the maker and the buyer have in either currency

MCAccount == {payer, buyer, maker, treasury}

(* One currency of a start: the payer's balance, tokens and fCash. *)
Holdings(c) == [balance : Balances[c], token : Tokens[c], fCash : Claims[c]]

PayerPortfolio(h) ==
  [fCash  |-> [m \in Maturity |-> h.fCash],
   token  |-> [m \in Maturity |-> h.token],
   listed |-> IF h.token = 0 THEN {} ELSE Maturity]

MakerPortfolio(h) ==
  [fCash  |-> [m \in Maturity |-> -h.fCash - Pool.totalfCash],
   token  |-> [m \in Maturity |-> Pool.totalLiquidity - h.token],
   listed |-> IF h.token = Pool.totalLiquidity THEN {} ELSE Maturity]

BalancesOf(h) ==
  [a \in Holder |-> CASE a = payer -> h.balance
                      [] a \in {buyer, maker} -> Wealth
                      [] a = treasury -> 0
                      [] a = CASH_MARKET -> Cardinality(Maturity) * Pool.totalCurrentCash]

StartWith(h) ==
  [cash      |-> [c \in Currency |-> BalancesOf(h[c])],
   held      |-> [c \in Currency |-> SumFunction(BalancesOf(h[c]))],
   portfolio |-> [c \in Currency |->
                   [a \in Account |-> CASE a = payer -> PayerPortfolio(h[c])
                                        [] a = maker -> MakerPortfolio(h[c])
                                        [] OTHER -> EmptyPortfolio]],
   markets   |-> [c \in Currency |-> [m \in Maturity |-> Pool]]]

MCStart == {StartWith((ETH :> e) @@ (LocalCurrency :> l)) :
              e \in Holdings(ETH), l \in Holdings(LocalCurrency)}

MCPayer == {payer}
MCBuyer == {buyer}
MCAnyone == {buyer, payer}

OneMaturity == {2}
TwoMaturities == {2, 4}

(* A pool and positions of a few units: every rounding is a large part of them. *)
TinyPool == [totalfCash |-> 6, totalLiquidity |-> 5, totalCurrentCash |-> 7]
TinyBalances == (ether :> {-2, 3, 8}) @@ (dai :> {-9, -5})
TinyTokens == (ether :> {0, 3}) @@ (dai :> {0, 2})
TinyClaims == (ether :> {-3, 0, 4}) @@ (dai :> {-3, 4})

(* Large enough for a discount and a haircut to be more than a unit. *)
SmallPool == [totalfCash |-> 24, totalLiquidity |-> 17, totalCurrentCash |-> 29]
SmallBalances == (ether :> {-5, 20}) @@ (dai :> {-40, -17})
SmallTokens == (ether :> {0, 6}) @@ (dai :> {0, 6, 17})
SmallClaims == (ether :> {-7, 16}) @@ (dai :> {-7, 0, 24})
=============================================================================
