--------------------------- MODULE RiskFramework ---------------------------
(***************************************************************************)
(* The valuation of an account: contracts/utils/RiskFramework.sol, the     *)
(* conversion to ETH of contracts/utils/ExchangeRate.sol and               *)
(* Escrow.convertBalancesToETH.  Pure operators; the state they read is    *)
(* passed in.                                                              *)
(*                                                                         *)
(* A portfolio is the record of Positions.tla.                             *)
(* A market is [totalfCash, totalLiquidity, totalCurrentCash].             *)
(***************************************************************************)
EXTENDS Positions, FiniteSets, Functions

CONSTANTS
  MATURITY_LENGTH,    \* G_MATURITY_LENGTH
  NUM_MATURITIES,     \* G_NUM_MATURITIES
  SECONDS_IN_YEAR,    \* Common.SECONDS_IN_YEAR
  DECIMALS,           \* Common.DECIMALS, the denominator of haircuts, buffers and fees
  LIQUIDITY_HAIRCUT,  \* haircut on liquidity token claims
  FCASH_HAIRCUT,      \* fCash haircut per year to maturity
  FCASH_MAX_HAIRCUT,  \* the most a receiver counts for, however close its maturity
  ETH,                \* currency 0
  LocalCurrency,              \* the currency of the cash group
  ETH_BUFFER,         \* buffer on negative ETH balances
  LOCAL_BUFFER,       \* buffer on negative balances of LocalCurrency
  RATE_DECIMALS       \* precision of the LocalCurrency/ETH rate

Currency == {ETH, LocalCurrency}

ASSUME RiskAssumption ==
  /\ MATURITY_LENGTH \in Nat \ {0} /\ NUM_MATURITIES \in Nat
  /\ IsFiniteSet(Maturity)
  /\ Maturity \subseteq {m \in Nat : m % MATURITY_LENGTH = 0}
  /\ SECONDS_IN_YEAR \in Nat \ {0} /\ DECIMALS \in Nat \ {0} /\ RATE_DECIMALS \in Nat \ {0}
  /\ LIQUIDITY_HAIRCUT \in Nat /\ FCASH_HAIRCUT \in Nat /\ FCASH_MAX_HAIRCUT \in Nat
  /\ ETH_BUFFER \in Nat /\ LOCAL_BUFFER \in Nat
  /\ ETH # LocalCurrency

Market == [totalfCash : Nat, totalLiquidity : Nat, totalCurrentCash : Nat]

-----------------------------------------------------------------------------
(* What `tokens' of `supply' liquidity tokens claim of `total', rounded down. *)
Share(total, tokens, supply) == (total * tokens) \div supply

(* The same claim after the liquidity haircut, rounded as the contract does. *)
HaircutShare(total, tokens, supply) ==
  ((total * tokens * LIQUIDITY_HAIRCUT) \div DECIMALS) \div supply

(* Mutant of Claim: matured claims are cut as well. *)
ClaimAlwaysCut(total, tokens, supply, m, t) == HaircutShare(total, tokens, supply)

(* _calculateLiquidityTokenClaims: only unmatured claims are cut. *)
Claim(total, tokens, supply, m, t) ==
  IF t < m THEN HaircutShare(total, tokens, supply) ELSE Share(total, tokens, supply)

CashClaim(p, mk, m, t) ==
  IF m \in p.listed
    THEN Claim(mk[m].totalCurrentCash, p.token[m], mk[m].totalLiquidity, m, t)
    ELSE 0

(* One rung of the cash ladder.  Maturities are multiples of MATURITY_LENGTH,
   so a rung holds the assets of exactly one maturity. *)
NetfCash(p, mk, m, t) ==
  p.fCash[m] + IF m \in p.listed
                 THEN Claim(mk[m].totalfCash, p.token[m], mk[m].totalLiquidity, m, t)
                 ELSE 0

(* Mutant of ReceiverValue: the haircut is not scaled back by DECIMALS. *)
ReceiverValueUnscaled(fCash, m, t) == fCash - (fCash * FCASH_HAIRCUT * (m - t)) \div SECONDS_IN_YEAR

(* The present value of a positive rung. *)
ReceiverValue(fCash, m, t) ==
  LET postHaircut == fCash - ((fCash * FCASH_HAIRCUT * (m - t)) \div SECONDS_IN_YEAR) \div DECIMALS
      maxPostHaircut == (fCash * FCASH_MAX_HAIRCUT) \div DECIMALS
  IN  IF postHaircut < maxPostHaircut THEN postHaircut ELSE maxPostHaircut

RungValue(p, mk, m, t) ==
  LET net == NetfCash(p, mk, m, t)
  IN  IF t < m /\ net > 0 THEN ReceiverValue(net, m, t) ELSE net

(* cashClaim + netfCashValue of getRequirement; matured fCash counts as cash. *)
PortfolioValue(p, mk, t) ==
  SumFunction([m \in Maturity |-> CashClaim(p, mk, m, t) + RungValue(p, mk, m, t)])

(* When getRequirement returns at all: it divides by the supply of every pool
   whose token is listed, and indexes a ladder of NUM_MATURITIES rungs. *)
CanValue(p, mk, t) ==
  \A m \in Maturity :
    /\ m \in p.listed => mk[m].totalLiquidity > 0
    /\ m > t /\ (m \in p.listed \/ p.fCash[m] # 0) => (m - t) \div MATURITY_LENGTH < NUM_MATURITIES

-----------------------------------------------------------------------------
(* The conversion of a balance to ETH: debts are scaled up by the buffer, and
   the magnitude is rounded towards zero. *)
ETHValue(c, x, rate) ==
  LET abs == IF x < 0 THEN -x ELSE x
      buffered == abs * (IF x > 0 THEN DECIMALS ELSE IF c = ETH THEN ETH_BUFFER ELSE LOCAL_BUFFER)
      eth == IF c = ETH THEN buffered \div DECIMALS
                        ELSE ((rate * buffered) \div RATE_DECIMALS) \div DECIMALS
  IN  IF x > 0 THEN eth ELSE -eth

(* Portfolios._freeCollateral over the two currencies. *)
FreeCollateral(balance, p, mk, t, rate) ==
  ETHValue(ETH, balance[ETH], rate)
    + ETHValue(LocalCurrency, balance[LocalCurrency] + PortfolioValue(p, mk, t), rate)
=============================================================================
