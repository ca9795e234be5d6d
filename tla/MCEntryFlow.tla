----------------------------- MODULE MCEntryFlow -----------------------------
(* EntryFlow for TLC: one token per market, order and trade ids are small  *)
(* numbers (0 is no order), a fill is one sellable unit and one atom of    *)
(* dust.                                                                   *)
EXTENDS EntryFlow

CONSTANTS t1, t2

MCTokens == {t1, t2}
TwoMarkets == <<{t1}, {t2}>>
MCIds == 1 .. MaxSubmits + MaxSells
MCSizes == 1..6
MCStamps == 0..MaxTime
BothSides == {"BUY", "SELL"}
NoSide == {}
NoInterim == {}

=============================================================================
