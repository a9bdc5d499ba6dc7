---------------------------- MODULE PositionBook ----------------------------
(***************************************************************************)
(* What Portfolios.sol promises to the contracts that call it: a book of   *)
(* positions per account that each call changes as a whole or not at all.  *)
(* How the entries lie in the array, and in which order loops visit them,  *)
(* does not show here.  Notional.tla is written over these positions;      *)
(* Portfolios.tla implements this module.                                  *)
(***************************************************************************)
EXTENDS Positions

CONSTANTS
  Account,  \* the owners of portfolios
  Amount,   \* the notionals callers pass
  MaxTime   \* bound of the model: the last block time

VARIABLES
  book,  \* the positions of every account
  now    \* block.timestamp

bookVars == <<book, now>>

BookInit ==
  /\ book = [a \in Account |-> EmptyPortfolio]
  /\ now = 0

(* A free collateral check at the end of a call settles the account. *)
Checked(b, a) == [b EXCEPT ![a] = Unmatured(@, now)]

(* The markets' calls: a provider gains tokens for a debt, one that leaves
   gives them up for a claim, a trader's fCash moves up or down. *)
Changed(p, m, n, f) ==
  {AddfCash(AddToken(p, m, n), m, -f), AddfCash(p, m, f), AddfCash(p, m, -f)}
    \cup IF CanTakeToken(p, m, n) THEN {AddfCash(TakeToken(p, m, n), m, f)} ELSE {}

Change(a, m) ==
  \E p \in {book[a]}, q \in {book'[a]} :
      /\ now < m
      /\ \E n, f \in Amount : \E r \in Changed(p, m, n, f) : q = r \/ q = Unmatured(r, now)

(* fCash moves from one account to another; only a mint makes a debtor. *)
MovefCash(a, b, m, n) == [[book EXCEPT ![a] = AddfCash(@, m, -n)] EXCEPT ![b] = AddfCash(@, m, n)]

MoveToken(a, b, m, n) == [[book EXCEPT ![a] = TakeToken(@, m, n)] EXCEPT ![b] = AddToken(@, m, n)]

Transfer(a, b, m) ==
  /\ now < m
  /\ \E n \in Amount :
       \/ (n = 0 \/ n <= book[a].fCash[m])
          /\ book' = Checked(MovefCash(a, b, m, n), a)
       \/ CanTakeToken(book[a], m, n)
          /\ book' = Checked(MoveToken(a, b, m, n), a)

MintPair(payer, receiver, m) ==
  /\ now < m
  /\ \E n \in Amount : book' = Checked(MovefCash(payer, receiver, m, n), payer)

SettleAccount(a) == book'[a] = Unmatured(book[a], now)

(* A liquidation redeems tokens: they only become fewer, and the fCash behind
   them arrives at their maturities and nowhere else. *)
RaiseFromTokens(a) ==
  LET p == Unmatured(book[a], now)
      q == book'[a]
  IN  /\ q.listed \subseteq p.listed
      /\ \A m \in Maturity :
           /\ 0 <= q.token[m] /\ q.token[m] <= p.token[m]
           /\ m \notin q.listed => q.token[m] = 0
           /\ IF m \in p.listed THEN q.fCash[m] >= p.fCash[m] ELSE q.fCash[m] = p.fCash[m]

(* A liquidator takes over claims of an account that has no tokens: what one
   loses the other gains, and a claim is never turned into a debt. *)
RaiseFromReceivers(a, b) ==
  LET p == Unmatured(book[a], now)
      sold(m) == p.fCash[m] - book'[a].fCash[m]
  IN  /\ p.listed = {}
      /\ \A m \in Maturity : sold(m) = 0 \/ sold(m) \in 1 .. p.fCash[m]
      /\ book' = [[book EXCEPT ![a] = [p EXCEPT !.fCash = [m \in Maturity |-> @[m] - sold(m)]]]
                     EXCEPT ![b].fCash = [m \in Maturity |-> @[m] + sold(m)]]

Elapse ==
  /\ now < MaxTime
  /\ now' = now + 1
  /\ UNCHANGED book

(* A call is about the positions of one account or two, and nobody else's
   move.  Quantifying over the one set of accounts whose positions changed,
   here and in Change over one value, has TLC evaluate it once: a primed
   variable read through a refinement mapping is expanded at every use. *)
Call ==
  \E changed \in {{a \in Account : book'[a] # book[a]}} :
      \/ \E a \in Account :
           /\ changed \subseteq {a}
           /\ \/ SettleAccount(a)
              \/ \E m \in Maturity : Change(a, m)
              \/ RaiseFromTokens(a)
      \/ \E a, b \in Account :
           /\ changed \subseteq {a, b}
           /\ \/ \E m \in Maturity : Transfer(a, b, m) \/ MintPair(a, b, m)
              \/ RaiseFromReceivers(a, b)

BookNext == (Call /\ UNCHANGED now) \/ Elapse

BookSpec == BookInit /\ [][BookNext]_bookVars
=============================================================================
