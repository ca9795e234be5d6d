------------------------------ MODULE Decision -------------------------------
(***************************************************************************)
(* What the signal engine (SignalWindow) and the gates behind it           *)
(* (EntryGates) share when a Binance sample comes in: the instant at which *)
(* they look, and the age up to which they take a quote.                   *)
(***************************************************************************)
EXTENDS Integers

CONSTANTS
  MAX_QUOTE_AGE,       \* max_quote_age_us
  MaxTime              \* bound: the last tick

VARIABLE now

Magnitude(n) == IF n < 0 THEN -n ELSE n

=============================================================================
