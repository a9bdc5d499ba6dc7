----------------------------- MODULE Positions -----------------------------
(***************************************************************************)
(* What a portfolio means: Portfolios._accountAssets[account] read as      *)
(* positions, and what the internal functions of Portfolios.sol do to      *)
(* them.  Portfolios.tla has the array itself and shows that it keeps to   *)
(* this reading.                                                           *)
(*                                                                         *)
(*   fCash   the net fCash per maturity: positive for a receiver, negative *)
(*           for a payer; the array never keeps both                       *)
(*   token   the notional of the liquidity token per maturity              *)
(*   listed  the maturities that have a liquidity token ENTRY: an entry    *)
(*           may have notional zero, and still be valued and settled       *)
(***************************************************************************)
EXTENDS Integers

CONSTANT Maturity  \* the maturities of the one cash group

Portfolio == [fCash : [Maturity -> Int], token : [Maturity -> Nat], listed : SUBSET Maturity]

EmptyPortfolio == [fCash |-> [m \in Maturity |-> 0], token |-> [m \in Maturity |-> 0], listed |-> {}]

(* Mutant of AddfCash: the opposite position is replaced, not netted. *)
AddfCashReplaced(p, m, n) == [p EXCEPT !.fCash[m] = IF @ * n < 0 THEN n ELSE @ + n]

(* _upsertAsset of a receiver (n > 0) or payer (n < 0): netted with the
   opposite position. *)
AddfCash(p, m, n) == [p EXCEPT !.fCash[m] = @ + n]

(* Mutant of AddToken: an entry that exists is overwritten. *)
AddTokenOverwrites(p, m, n) == [p EXCEPT !.token[m] = n, !.listed = @ \cup {m}]

(* _upsertAsset of a liquidity token: appended or added, even for n = 0. *)
AddToken(p, m, n) ==
  [fCash |-> p.fCash, token |-> [p.token EXCEPT ![m] = @ + n], listed |-> p.listed \cup {m}]

(* _reduceAsset: an entry whose notional is used up is removed. *)
TakeToken(p, m, n) ==
  [fCash  |-> p.fCash,
   token  |-> [p.token EXCEPT ![m] = @ - n],
   listed |-> IF p.token[m] = n THEN p.listed \ {m} ELSE p.listed]

(* Mutant of CanTakeToken: more may be taken than the entry holds. *)
CanTakeTokenUnbounded(p, m, n) == m \in p.listed

CanTakeToken(p, m, n) == m \in p.listed /\ n <= p.token[m]

(* _settleMaturedAssets takes every matured entry out. *)
Unmatured(p, t) ==
  [fCash  |-> [m \in Maturity |-> IF m <= t THEN 0 ELSE p.fCash[m]],
   token  |-> [m \in Maturity |-> IF m <= t THEN 0 ELSE p.token[m]],
   listed |-> {m \in p.listed : m > t}]
=============================================================================
