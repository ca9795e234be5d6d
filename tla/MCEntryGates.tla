---------------------------- MODULE MCEntryGates -----------------------------
(* EntryGates for TLC: one side, times and round trips of a few units.     *)
EXTENDS EntryGates

CONSTANTS yes, no

OneSide == {yes}
MaybeAsk == {0, 1, 3}
FewEdges == 1..5
FewRtts == {-1, 1, 17}

=============================================================================
