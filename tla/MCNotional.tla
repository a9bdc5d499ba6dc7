----------------------------- MODULE MCNotional -----------------------------
(***************************************************************************)
(* Small instances of Notional for TLC.  With dai alone every transaction  *)
(* is in the run; with ether as collateral and a moving rate a run starts  *)
(* after the traders' deposits, and without transfers.                     *)
(***************************************************************************)
EXTENDS Notional, TLC

CONSTANTS a1, a2, treasury, market, ether, dai

CONSTANT Funds  \* Funds[c]: what every trader has deposited in c when the run starts

MCAccount == {a1, a2, treasury}
MCTrader == {a1, a2}
Sym == Permutations(MCTrader)

OneMaturity == {2}

(* Dai only, or dai with ether as collateral: what each trader deposits and
   what two traders ever bring. *)
DaiFunds == (ether :> 0) @@ (dai :> 3)
DaiHeld == (ether :> 0) @@ (dai :> 6)
EthFunds == (ether :> 1) @@ (dai :> 2)
EthHeld == (ether :> 2) @@ (dai :> 4)

NoDeposits == (ether :> {}) @@ (dai :> {})
DaiDeposits == (ether :> {}) @@ (dai :> {3})

(* The state Init reaches when every trader deposits its funds. *)
FundedInit ==
  /\ cash = [c \in Currency |-> [h \in Holder |-> IF h \in Trader THEN Funds[c] ELSE 0]]
  /\ held = [c \in Currency |-> Cardinality(Trader) * Funds[c]]
  /\ portfolio = [a \in Account |-> EmptyPortfolio]
  /\ markets = [m \in Maturity |-> EmptyMarket]
  /\ now = 0
  /\ rate \in Rate

(* Provide, trade and settle: what an entry of zero tokens needs. *)
PoolSpec == FundedInit /\ [][MarketNext \/ SettleNext \/ Tick]_vars

(* The same with withdrawals and a moving rate, and without transfers. *)
CollateralSpec ==
  FundedInit /\ [][EscrowNext \/ MarketNext \/ SettleNext \/ Tick \/ MoveRate]_vars
=============================================================================
