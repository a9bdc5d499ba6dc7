------------------------------ MODULE MCUpgrade ------------------------------
(***************************************************************************)
(* Small instances of Upgrade for TLC.                                     *)
(***************************************************************************)
EXTENDS Upgrade, TLC

TwoMarkets == <<"dai_1M", "dai_3M">>

SomeNames == {{"CashMarket"}, {"Escrow"}, {"Liquidation", "Escrow", "CashMarket"}}
=============================================================================
