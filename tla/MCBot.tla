-------------------------------- MODULE MCBot --------------------------------
(* Bot for TLC: a BUY is one sellable unit and one atom of dust; one bid   *)
(* and no model, so that the hold boundary sells; one token, and a second  *)
(* market in which nothing is traded, so that the rotation leaves orders   *)
(* and positions of the first behind.                                      *)
EXTENDS Bot

CONSTANT t1

MCTokens == {t1}
OneThenNone == << <<t1>>, <<>> >>
TokensOfBooks == << {t1}, {} >>
MCIds == 1 .. MaxSubmits + MaxSells
MCSizes == 1..10
MCStamps == 0..MaxTime
OneTick == {2}
NoModel == {0}
Unknown == {"unknown"}
BuySide == {"BUY"}
NoInterim == {}

=============================================================================
