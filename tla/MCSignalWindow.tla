--------------------------- MODULE MCSignalWindow ----------------------------
(* SignalWindow for TLC: four books around the strike, two of them wide or *)
(* thin enough to be refused.                                              *)
EXTENDS SignalWindow

Book(bid, ask, bid_qty, ask_qty) ==
  [bid |-> bid, ask |-> ask, bid_qty |-> bid_qty, ask_qty |-> ask_qty]

FewBooks == {Book(4, 5, 1, 3), Book(5, 6, 3, 1), Book(5, 6, 1, 3), Book(4, 8, 3, 1)}
FewDelays == {-1, 0, 2}
FewProbs == {79, 100, 121}
FewQuotes == {[bid |-> 38, cutoff |-> 40, age |-> 0], [bid |-> 0, cutoff |-> 52, age |-> 1]}

=============================================================================
