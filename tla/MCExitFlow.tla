----------------------------- MODULE MCExitFlow ------------------------------
(* ExitFlow for TLC: a BUY brings whole sellable units and one atom of     *)
(* dust; thresholds of one tick, so that two bids reach every reason.      *)
EXTENDS ExitFlow

CONSTANT t1

MCTokens == {t1}
OneThenNone == << <<t1>>, <<>> >>
OneBook == << <<t1>> >>
MCIds == 1 .. MaxBuys + MaxSells
MCSizes == 1..12
MCStamps == 0..MaxTime
TwoTicks == {2, 3}
ModelSays == {0, 2, 4}
AllPressures == {"opposes", "not", "unknown"}
EitherWay == {"opposes", "unknown"}
BothSides == {"BUY", "SELL"}
NoSide == {}
NoInterim == {}

=============================================================================
