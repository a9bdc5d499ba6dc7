---------------------------- MODULE MCPortfolios ----------------------------
(***************************************************************************)
(* Small instances of Portfolios for TLC: two accounts that exchange their *)
(* entries, and one that outgrows MAX_ASSETS.                              *)
(***************************************************************************)
EXTENDS Portfolios, TLC

CONSTANTS a1, a2

OneAccount == {a1}
TwoAccounts == {a1, a2}

Sym == Permutations(TwoAccounts)
=============================================================================
