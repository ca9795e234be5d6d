---------------------------- MODULE SignalWindow ----------------------------
(***************************************************************************)
(* SignalEngine (signal.rs): the ring of accepted Binance samples since    *)
(* the strike was set, the entry decision on it, and what the exit task    *)
(* reads of it.                                                            *)
(*                                                                         *)
(* Prices and quantities are small numbers; microprice and imbalance are   *)
(* scaled by SCALE, which the quantities divide.  The probability, a float *)
(* from the drift, the time left and a realised or implied sigma, is any   *)
(* value on the side of the strike the microprice is on, in halves of a    *)
(* tick so that the two sides round down separately.  It is one value per  *)
(* instant and quote, for the entry and the exit alike.                    *)
(***************************************************************************)
EXTENDS Decision, Sequences, SequencesExt

CONSTANTS
  Books,           \* Binance's best bid and ask with their quantities
  Delays,          \* exchange to local clock, below 0 if the clocks disagree
  Quotes,          \* quotes of the side bought: bid, buy_cutoff_for_cents, age
  Probs,           \* p_yes in half ticks
  SCALE,
  STRIKE,          \* the strike a market gets, scaled like a microprice
  MAX_LAG, MIN_WINDOW, MAX_WINDOW,
  MAX_SPREAD, MIN_MOVE, MIN_ABS_OFI, MIN_IMBALANCE, MIN_TOTAL_QTY,
  MIN_EDGE, ENTRY_SLIPPAGE, MIN_TTE, MIN_BUY_LIMIT, MAX_BUY_LIMIT,
  MAX_SAMPLES,
  EndTs,           \* the market's end
  MaxSamplesSeen   \* bound: samples accepted under one strike

OutcomeSide == {"Yes", "No"}
NoTick == 0
MaxPrice == 99
Half == 100

ASSUME SignalAssumption ==
  /\ \A b \in Books : /\ {b.bid, b.ask, b.bid_qty, b.ask_qty} \subseteq Nat
                      /\ SCALE % (b.bid_qty + b.ask_qty) = 0
  /\ \A quote \in Quotes : {quote.bid, quote.cutoff} \subseteq Nat /\ quote.age \in Int
  /\ Probs \subseteq 0..2 * Half /\ Half \in Probs
  /\ {MIN_MOVE, MIN_ABS_OFI, MIN_IMBALANCE, MIN_TTE, ENTRY_SLIPPAGE} \subseteq Nat
  /\ Delays \cup {MAX_LAG, MIN_WINDOW, MAX_WINDOW, MIN_EDGE, EndTs, MaxTime} \subseteq Int
  /\ {SCALE, STRIKE, MAX_SAMPLES} \subseteq Nat \ {0}

VARIABLES
  strike,          \* 0: none
  samples,         \* the ring
  last,            \* last_bid, last_ask and their quantities
  last_update_id,
  p_yes,           \* prob_yes at this instant
  intent,          \* what the last call returned: none or one BuyIntent
  seen             \* history: every sample accepted since the strike was set

signalVars == <<now, strike, samples, last, last_update_id, p_yes, intent, seen>>

NoBook == [bid |-> 0, ask |-> 0, bid_qty |-> 0, ask_qty |-> 0]
NoIntent == {}

SignalInit ==
  /\ now = 0
  /\ strike = 0
  /\ samples = <<>> /\ seen = <<>>
  /\ last = NoBook
  /\ last_update_id = 0
  /\ p_yes = Half
  /\ intent = NoIntent

-----------------------------------------------------------------------------
(* The ring.                                                               *)
total_qty(b) == b.bid_qty + b.ask_qty
microprice(b) == (SCALE \div total_qty(b)) * (b.bid * b.ask_qty + b.ask * b.bid_qty)
imbalance(b) == (SCALE \div total_qty(b)) * (b.bid_qty - b.ask_qty)

When(condition, n) == IF condition THEN n ELSE 0

ofi_without_reset(b) ==
  When(b.bid >= last.bid, b.bid_qty) - When(b.bid <= last.bid, last.bid_qty)
  + When(b.ask >= last.ask, last.ask_qty) - When(b.ask <= last.ask, b.ask_qty)

compute_ofi(b) == IF samples = <<>> THEN 0 ELSE ofi_without_reset(b)

Accepts(b, ts, update_id) ==
  /\ update_id > last_update_id
  /\ b.bid > 0 /\ b.ask > 0 /\ b.ask >= b.bid /\ b.bid_qty > 0 /\ b.ask_qty > 0
  /\ total_qty(b) >= MIN_TOTAL_QTY
  /\ MAX_SPREAD > 0 => b.ask - b.bid <= MAX_SPREAD
  /\ samples # <<>> => ts > Last(samples).ts_us

Point(b, ts, recv) ==
  [ts_us |-> ts, recv_ts_us |-> recv, microprice |-> microprice(b),
   ofi |-> compute_ofi(b), imbalance |-> imbalance(b)]

(* Its mutant makes room one sample too early.                             *)
RingEarly(point) ==
  Append(IF Len(samples) >= MAX_SAMPLES - 1 THEN Tail(samples) ELSE samples, point)

Ring(point) ==
  Append(IF Len(samples) >= MAX_SAMPLES THEN Tail(samples) ELSE samples, point)

push_received(b, ts, update_id, recv) ==
  IF Accepts(b, ts, update_id)
  THEN /\ Len(seen) < MaxSamplesSeen
       /\ samples' = Ring(Point(b, ts, recv))
       /\ last' = b
       /\ last_update_id' = update_id
       /\ seen' = Append(seen, [book |-> b, ts_us |-> ts])
  ELSE UNCHANGED <<samples, last, last_update_id, seen>>

(* set_strike(_, true); the mutant keeps the samples.                      *)
KeptWindow ==
  /\ samples' = samples
  /\ last' = NoBook
  /\ last_update_id' = 0

reset_window ==
  /\ samples' = <<>>
  /\ last' = NoBook
  /\ last_update_id' = 0

-----------------------------------------------------------------------------
(* Reading it.                                                             *)
Since(ss, cutoff) == {i \in DOMAIN ss : ss[i].ts_us >= cutoff}
Window(ss) == Since(ss, Last(ss).ts_us - MAX_WINDOW)
OldestOf(ss, is) == ss[CHOOSE i \in is : \A j \in is : i <= j]

Span(ss) == Last(ss).ts_us - OldestOf(ss, Window(ss)).ts_us
latest_window(ss) ==
  /\ ss # <<>> /\ Window(ss) # {}
  /\ Span(ss) > 0 /\ Span(ss) >= MIN_WINDOW

Move(ss) == Last(ss).microprice - OldestOf(ss, Window(ss)).microprice

ofi_sum(ss) == SumFunctionOnSet([i \in DOMAIN ss |-> ss[i].ofi], Window(ss))

tte == EndTs - now

(* What prob_yes may be with this ring and strike.                         *)
ProbsAt(ss, s) ==
  IF ss = <<>> \/ s = 0 THEN {Half}
  ELSE {p \in Probs : LET drift == Last(ss).microprice - s IN
                        /\ drift >= 0 => p >= Half
                        /\ drift <= 0 => p <= Half}

prob_yes(s) == {p \in {p_yes} : s > 0 /\ tte > 0}

side_ticks(side, p) == (IF side = "Yes" THEN p ELSE 2 * Half - p) \div 2

Sign(side) == IF side = "Yes" THEN 1 ELSE -1

(* The last sample was received in the past and not too long ago.          *)
Fresh(ss) ==
  LET lag == now - Last(ss).recv_ts_us IN
  lag >= 0 /\ (MAX_LAG > 0 => lag <= MAX_LAG)

(* The mutant prices both sides as Yes.                                    *)
fair_yes_only(side) ==
  IF latest_window(samples) /\ Fresh(samples)
  THEN {side_ticks("Yes", p) : p \in prob_yes(strike)} ELSE {}

fair_ticks_for_side(side) ==
  IF latest_window(samples) /\ Fresh(samples)
  THEN {side_ticks(side, p) : p \in prob_yes(strike)} ELSE {}

opposes_side(side) ==
  IF latest_window(samples) /\ Fresh(samples)
  THEN {/\ Sign(side) * Move(samples) <= -MIN_MOVE
        /\ Sign(side) * ofi_sum(samples) <= -MIN_ABS_OFI
        /\ Sign(side) * Last(samples).imbalance <= -MIN_IMBALANCE}
  ELSE {}

-----------------------------------------------------------------------------
(* The decision, on the ring ss and the probability p this sample leaves.  *)
SideOf(move) == IF move > 0 THEN "Yes" ELSE "No"
Pressure(ss, side) ==
  /\ Magnitude(Move(ss)) >= MIN_MOVE
  /\ side = SideOf(Move(ss))
  /\ Sign(side) * ofi_sum(ss) >= MIN_ABS_OFI
  /\ Sign(side) * Last(ss).imbalance >= MIN_IMBALANCE

Executable(quote) ==
  /\ quote.cutoff # NoTick
  /\ quote.age \in 0..MAX_QUOTE_AGE
  /\ quote.cutoff + ENTRY_SLIPPAGE <= MaxPrice
  /\ quote.cutoff + ENTRY_SLIPPAGE \in MIN_BUY_LIMIT..MAX_BUY_LIMIT

(* Half the slippage, rounded up, is charged to the edge.                  *)
BuyIntent(side, quote, p) ==
  LET edge_price == quote.cutoff + ((ENTRY_SLIPPAGE + 1) \div 2) IN
  [side |-> side, limit |-> quote.cutoff + ENTRY_SLIPPAGE, edge_price |-> edge_price,
   edge_ticks |-> side_ticks(side, p) - edge_price]

EdgeCovers(buy, quote) ==
  /\ buy.edge_ticks >= MIN_EDGE /\ buy.edge_ticks >= 0
  /\ quote.bid # NoTick => buy.edge_ticks >= buy.edge_price - quote.bid

decide_latest(ss, quote, p) ==
  IF /\ strike > 0 /\ tte > 0 /\ tte >= MIN_TTE
     /\ latest_window(ss) /\ Executable(quote)
  THEN {buy \in {BuyIntent(side, quote, p) : side \in {s \in OutcomeSide : Pressure(ss, s)}} :
          EdgeCovers(buy, quote)}
  ELSE NoIntent

-----------------------------------------------------------------------------
(* An anchor or a rotation; the window starts again with the strike.       *)
set_strike(s) ==
  /\ strike' = s
  /\ reset_window
  /\ p_yes' = Half
  /\ intent' = NoIntent
  /\ seen' = <<>>
  /\ UNCHANGED now

AnchorResolved == strike = 0 /\ set_strike(STRIKE)
Rotated == set_strike(0)

(* A sample while there is no active market or a side has no quote: kept,  *)
(* as if received when the exchange sent it.                               *)
SampleUnquoted(b, delay, update_id) ==
  /\ push_received(b, now - delay, update_id, now - delay)
  /\ p_yes' \in ProbsAt(samples', strike)
  /\ intent' = NoIntent
  /\ UNCHANGED <<now, strike>>

on_sample(b, delay, update_id, quote) ==
  /\ push_received(b, now - delay, update_id, now)
  /\ p_yes' \in ProbsAt(samples', strike)
  /\ intent' = IF Accepts(b, now - delay, update_id) /\ (MAX_LAG > 0 => delay <= MAX_LAG)
               THEN decide_latest(samples', quote, p_yes') ELSE NoIntent
  /\ UNCHANGED <<now, strike>>

SignalTick ==
  /\ now < MaxTime
  /\ now' = now + 1
  /\ p_yes' \in ProbsAt(samples, strike)
  /\ intent' = NoIntent
  /\ UNCHANGED <<strike, samples, last, last_update_id, seen>>

SignalNext ==
  \/ AnchorResolved \/ Rotated
  \/ \E b \in Books, delay \in Delays, update_id \in {last_update_id, last_update_id + 1} :
       \/ SampleUnquoted(b, delay, update_id)
       \/ \E quote \in Quotes : on_sample(b, delay, update_id, quote)
  \/ SignalTick

SignalSpec == SignalInit /\ [][SignalNext]_signalVars

-----------------------------------------------------------------------------
(* The order flow between two books: what joined the bid less what left it *)
(* and the reverse at the ask, a better price joining whole and a worse    *)
(* one leaving whole.                                                      *)
Flow(from, to) ==
  (IF to.bid > from.bid THEN to.bid_qty
   ELSE IF to.bid < from.bid THEN -from.bid_qty ELSE to.bid_qty - from.bid_qty)
  +
  (IF to.ask > from.ask THEN from.ask_qty
   ELSE IF to.ask < from.ask THEN -to.ask_qty ELSE from.ask_qty - to.ask_qty)

FlowAt(i) == IF i = 1 THEN 0 ELSE Flow(seen[i - 1].book, seen[i].book)

(* The ring is the end of what was accepted since the strike was set, each *)
(* flow taken between neighbours: no price, quantity or flow of the market *)
(* before reaches a window of this one, and the ring is in the order of the*)
(* exchange whatever the order of arrival.                                 *)
WindowIsOfStrike ==
  LET dropped == Len(seen) - Len(samples) IN
  /\ dropped >= 0
  /\ \A i, j \in DOMAIN samples : i < j => samples[i].ts_us < samples[j].ts_us
  /\ \A i \in DOMAIN samples :
       /\ samples[i].ts_us = seen[dropped + i].ts_us
       /\ samples[i].microprice = microprice(seen[dropped + i].book)
       /\ samples[i].ofi = FlowAt(dropped + i)

(* The window of all that was accepted, as far back as the ring reaches.   *)
WithinReach(sn) == {i \in Window(sn) : i > Len(sn) - MAX_SAMPLES}

(* A BUY follows a move and a flow in its favour, over all the market did  *)
(* in the window or, in a busy one, over its last MAX_SAMPLES samples, the *)
(* flow into the oldest of them included; and what is left of a busy       *)
(* window is still MIN_WINDOW long.                                        *)
BuyFollowsPressure ==
  \A buy \in intent :
    LET window == WithinReach(seen)
        first == OldestOf(seen, window)
        flow == SumFunctionOnSet([i \in DOMAIN seen |-> FlowAt(i)], window)
    IN  /\ Last(seen).ts_us - first.ts_us >= MIN_WINDOW
        /\ Sign(buy.side) * (microprice(Last(seen).book) - microprice(first.book)) >= MIN_MOVE
        /\ Sign(buy.side) * flow >= MIN_ABS_OFI

(* "The same Binance probability model used for entry": at the instant of  *)
(* a BUY the exit's own reading of its side is the value the edge was      *)
(* taken from, no pressure opposes it, and that value covers the worst     *)
(* price the order may fill at (where MIN_EDGE is at least the slippage    *)
(* not charged to the edge and MIN_MOVE is positive).                      *)
EntryAgreesWithExit ==
  \A buy \in intent :
    /\ fair_ticks_for_side(buy.side) = {buy.edge_price + buy.edge_ticks}
    /\ opposes_side(buy.side) = {FALSE}
    /\ buy.edge_price + buy.edge_ticks >= buy.limit

=============================================================================
