---------------------------- MODULE MCMarketFeed -----------------------------
(* MarketFeed for TLC: a book with both sides, one with a bid only and one *)
(* that is empty.                                                          *)
EXTENDS MarketFeed

SomeTops == {[bid |-> 1, ask |-> 2], [bid |-> 1, ask |-> None], EmptyTop}

=============================================================================
