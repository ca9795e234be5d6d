-------------------------- MODULE MCMarketRotation ---------------------------
(* MarketRotation for TLC: windows of eight ticks.                         *)
EXTENDS MarketRotation

FreshOrOld == {0, 1}

=============================================================================
