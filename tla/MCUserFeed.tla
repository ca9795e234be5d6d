----------------------------- MODULE MCUserFeed ------------------------------
(* UserFeed for TLC: its constants are numbers.                            *)
EXTENDS UserFeed

=============================================================================
