--------------------------- MODULE DecisionProofs ---------------------------
(***************************************************************************)
(* Theorems about the two halves of a BUY decision: the gates behind the   *)
(* engine (EntryGates) and the engine itself (SignalWindow).               *)
(*                                                                         *)
(* Of the gates, for any tokens, asks, edges, round trips, weights and     *)
(* thresholds: where the average lies and why it latches, and what the     *)
(* drift gates see of the window although the ring forgets.                *)
(***************************************************************************)
EXTENDS EntryGates, SignalWindow, Sums, SequenceTheorems

(* The shift floors: it never takes the step past its length, whichever    *)
(* the sign.                                                               *)
LEMMA FloorWithin ==
  ASSUME NEW step \in Int, NEW weight \in Nat \ {0}
  PROVE  /\ step \div weight \in Int
         /\ step >= 0 => 0 <= step \div weight /\ step \div weight <= step
         /\ step < 0 => step <= step \div weight /\ step \div weight <= 0
<1> DEFINE q == step \div weight
<1>1. q \in Int /\ weight \in Int /\ weight >= 1
  OBVIOUS
<1>2. weight * q <= step /\ step < weight * (q + 1)
  OBVIOUS
<1> HIDE DEF q
<1>3. \A k \in Int : (k >= 0 => weight * k >= k) /\ (k <= 0 => weight * k <= k)
  BY <1>1
<1>4. step >= 0 => 0 <= q
  BY <1>1, <1>2, <1>3
<1>5. step >= 0 => q <= step
  BY <1>1, <1>2, <1>3, <1>4
<1>6. step < 0 => q <= 0
  BY <1>1, <1>2, <1>3
<1>7. step < 0 => step <= q
  BY <1>1, <1>2, <1>3, <1>6
<1>8. QED
  BY <1>1, <1>4, <1>5, <1>6, <1>7 DEF q

(* A new average lies between the old one and the new round trip.          *)
LEMMA BlendBetween ==
  ASSUME rtt_ewma_us \in Int, NEW rtt \in Int, rtt_ewma_us # 0
  PROVE  /\ ewma_after(rtt) \in Int
         /\ rtt >= rtt_ewma_us => rtt_ewma_us <= ewma_after(rtt) /\ ewma_after(rtt) <= rtt
         /\ rtt < rtt_ewma_us => rtt <= ewma_after(rtt) /\ ewma_after(rtt) <= rtt_ewma_us
<1> DEFINE step == rtt - rtt_ewma_us
           q == step \div RTT_WEIGHT
<1>1. RTT_WEIGHT \in Nat \ {0}
  BY GatesAssumption DEF GatesAssumption
<1>2. step \in Int
  OBVIOUS
<1>3. /\ q \in Int
      /\ step >= 0 => 0 <= q /\ q <= step
      /\ step < 0 => step <= q /\ q <= 0
  BY <1>1, <1>2, FloorWithin
<1>4. ewma_after(rtt) = rtt_ewma_us + q
  BY DEF ewma_after
<1> HIDE DEF q
<1>5. QED
  BY <1>3, <1>4

-----------------------------------------------------------------------------
AverageInv ==
  /\ rtt_ewma_us \in Int
  /\ \A rtt \in rtts : rtt \in Int /\ rtt > 0
  /\ EwmaAmongSamples

LEMMA RecordKeepsAverage ==
  ASSUME AverageInv, NEW rtt \in Int, record_rtt(rtt)
  PROVE  AverageInv'
<1>1. CASE rtt <= 0
  BY <1>1 DEF record_rtt, AverageInv, EwmaAmongSamples
<1>2. CASE rtt > 0
  <2>1. rtt_ewma_us' = ewma_after(rtt) /\ rtts' = rtts \cup {rtt}
    BY <1>2 DEF record_rtt
  <2>2. CASE rtts = {}
    <3>1. rtt_ewma_us' = rtt
      BY <2>1, <2>2 DEF AverageInv, EwmaAmongSamples, ewma_after
    <3>2. QED
      BY <1>2, <2>1, <2>2, <3>1 DEF AverageInv, EwmaAmongSamples
  <2>3. CASE rtts # {}
    <3>1. rtt_ewma_us \in Int /\ rtt_ewma_us > 0
      BY <2>3 DEF AverageInv, EwmaAmongSamples
    <3>2. PICK low \in rtts, high \in rtts : low <= rtt_ewma_us /\ high >= rtt_ewma_us
      BY <2>3 DEF AverageInv, EwmaAmongSamples
    <3>3. low \in Int /\ high \in Int
      BY <3>2 DEF AverageInv
    <3>4. /\ rtt_ewma_us' \in Int
          /\ rtt >= rtt_ewma_us => rtt_ewma_us <= rtt_ewma_us' /\ rtt_ewma_us' <= rtt
          /\ rtt < rtt_ewma_us => rtt <= rtt_ewma_us' /\ rtt_ewma_us' <= rtt_ewma_us
      BY <2>1, <3>1, BlendBetween
    <3>5. rtt_ewma_us' > 0 /\ rtts' # {}
      BY <1>2, <2>1, <3>1, <3>4
    <3>6. \E r \in rtts' : r <= rtt_ewma_us'
      BY <2>1, <3>1, <3>2, <3>3, <3>4
    <3>7. \E r \in rtts' : r >= rtt_ewma_us'
      BY <2>1, <3>1, <3>2, <3>3, <3>4
    <3>8. \A r \in rtts' : r \in Int /\ r > 0
      BY <1>2, <2>1 DEF AverageInv
    <3>9. QED
      BY <3>4, <3>5, <3>6, <3>7, <3>8 DEF AverageInv, EwmaAmongSamples
  <2>4. QED
    BY <2>2, <2>3
<1>3. QED
  BY <1>1, <1>2

LEMMA AverageStep == AverageInv /\ [Next]_vars => AverageInv'
<1> SUFFICES ASSUME AverageInv, [Next]_vars PROVE AverageInv'
  OBVIOUS
<1>1. CASE \E rtt \in Rtts : SubmitOutcome(rtt)
  <2>1. PICK rtt \in Rtts : SubmitOutcome(rtt)
    BY <1>1
  <2>2. rtt \in Int /\ record_rtt(rtt)
    BY <2>1, GatesAssumption DEF GatesAssumption, SubmitOutcome
  <2>3. QED
    BY <2>2, RecordKeepsAverage
<1>2. CASE UNCHANGED <<rtt_ewma_us, rtts>>
  BY <1>2 DEF AverageInv, EwmaAmongSamples
<1>3. QED
  BY <1>1, <1>2 DEF Next, vars, set_market, mark_market_inactive, update_quote, BuySignal, Tick

(* The average stays among the round trips it is made of.                  *)
THEOREM AverageAlwaysAmongSamples == Spec => []EwmaAmongSamples
<1>1. Init => AverageInv
  BY DEF Init, AverageInv, EwmaAmongSamples
<1>2. AverageInv => EwmaAmongSamples
  BY DEF AverageInv
<1>3. QED
  BY <1>1, <1>2, AverageStep, PTL DEF Spec

-----------------------------------------------------------------------------
(* Above the ceiling with nothing in flight, nothing can bring the average *)
(* down: whatever the other gates, quotes and rotations do.                *)
THEOREM AverageNeverUnlatches == Spec => CeilingLatches
<1>1. [Next]_vars => [Latched => Latched']_vars
  <2> SUFFICES ASSUME [Next]_vars, Latched PROVE Latched'
    OBVIOUS
  <2>1. in_flight \in {0} /\ rtt_ewma_high
    BY DEF Latched
  <2>2. CASE UNCHANGED <<in_flight, rtt_ewma_us>>
    BY <2>1, <2>2 DEF Latched, rtt_ewma_high
  <2>3. CASE \E token \in Tokens, edge_ticks \in Edges : BuySignal(token, edge_ticks)
    BY <2>1, <2>3 DEF BuySignal, entry_gate_block
  <2>4. CASE \E rtt \in Rtts : SubmitOutcome(rtt)
    BY <2>1, <2>4 DEF SubmitOutcome
  <2>5. QED
    BY <2>2, <2>3, <2>4 DEF Next, vars, set_market, mark_market_inactive, update_quote, Tick
<1>2. QED
  BY <1>1, PTL DEF Spec, CeilingLatches

-----------------------------------------------------------------------------
(* The drift gates look back in a ring that has forgotten, and was cleared.*)
(* What they see of the window rests on what the ring holds: the newest    *)
(* updates, in their order, and all of them unless it is full (RingInv).   *)
Update == [ask : Nat, ts_us : Nat]

(* The ring holds the newest of all updates, as many as it has slots.      *)
Newest(ring, all) ==
  /\ Len(ring) <= QUOTE_HISTORY_CAP /\ Len(ring) <= Len(all)
  /\ Len(ring) < Len(all) => Len(ring) = QUOTE_HISTORY_CAP
  /\ \A i \in DOMAIN ring : ring[i] = all[i + (Len(all) - Len(ring))]

RingInv ==
  /\ now \in Nat
  /\ \A token \in DOMAIN quotes : quotes[token] \in Update
  /\ DOMAIN quotes \subseteq Tokens
  /\ book \in [Tokens -> Seq(Update)] /\ quote_history \in [Tokens -> Seq(Update)]
  /\ \A token \in Tokens : Newest(quote_history[token], book[token])

LEMMA RingConstants ==
  /\ QUOTE_HISTORY_CAP \in Nat /\ QUOTE_HISTORY_CAP >= 1
  /\ POLY_DRIFT_WINDOW \in Nat /\ Asks \subseteq Nat
BY GatesAssumption DEF GatesAssumption

LEMMA EmptyRings ==
  ASSUME now \in Nat, quotes = [token \in {} |-> 0], quote_history = NoHistory, book = NoHistory
  PROVE  RingInv
<1>1. <<>> \in Seq(Update) /\ Len(<<>>) = 0 /\ DOMAIN <<>> = {}
  OBVIOUS
<1>2. \A token \in Tokens : book[token] = <<>> /\ quote_history[token] = <<>>
  BY DEF NoHistory
<1>3. book \in [Tokens -> Seq(Update)] /\ quote_history \in [Tokens -> Seq(Update)]
  BY <1>1 DEF NoHistory
<1>4. QED
  BY <1>1, <1>2, <1>3, RingConstants DEF RingInv, Newest

(* A push makes room first, at the expense of the oldest sample.           *)
LEMMA RoomIsMade ==
  ASSUME NEW ring \in Seq(Update), NEW all \in Seq(Update), Newest(ring, all),
         Len(ring) >= QUOTE_HISTORY_CAP
  PROVE  /\ Tail(ring) \in Seq(Update)
         /\ Len(Tail(ring)) < QUOTE_HISTORY_CAP /\ Len(Tail(ring)) <= Len(all)
         /\ Len(Tail(ring)) + 1 = QUOTE_HISTORY_CAP
         /\ \A i \in 1..Len(Tail(ring)) : Tail(ring)[i] = all[i + (Len(all) - Len(Tail(ring)))]
<1>1. Len(ring) \in Nat /\ Len(all) \in Nat /\ DOMAIN ring = 1..Len(ring)
  OBVIOUS
<1>2. Len(ring) = QUOTE_HISTORY_CAP /\ Len(ring) <= Len(all)
  <2>1. Len(ring) <= QUOTE_HISTORY_CAP /\ Len(ring) <= Len(all)
    BY DEF Newest
  <2>2. Len(ring) \in Nat /\ QUOTE_HISTORY_CAP \in Nat
    BY RingConstants
  <2>3. Len(ring) = QUOTE_HISTORY_CAP
    BY <2>1, <2>2
  <2>4. QED
    BY <2>1, <2>3
<1>3. ring # <<>>
  BY <1>1, <1>2, RingConstants
<1>4. /\ Tail(ring) \in Seq(Update) /\ Len(Tail(ring)) = Len(ring) - 1
      /\ \A i \in 1..(Len(ring) - 1) : Tail(ring)[i] = ring[i + 1]
  BY <1>3
<1>5. ASSUME NEW i \in 1..Len(Tail(ring)) PROVE Tail(ring)[i] = all[i + (Len(all) - Len(Tail(ring)))]
  <2>1. i + 1 \in DOMAIN ring /\ (i + 1) + (Len(all) - Len(ring)) = i + (Len(all) - Len(Tail(ring)))
    BY <1>1, <1>4
  <2>2. ring[i + 1] = all[(i + 1) + (Len(all) - Len(ring))]
    BY <2>1 DEF Newest
  <2>3. QED
    BY <1>1, <1>4, <2>1, <2>2
<1>6. QED
  BY <1>1, <1>2, <1>4, <1>5, RingConstants

LEMMA AppendKeepsNewest ==
  ASSUME NEW kept \in Seq(Update), NEW all \in Seq(Update), NEW update \in Update,
         Len(kept) < QUOTE_HISTORY_CAP, Len(kept) <= Len(all),
         Len(kept) < Len(all) => Len(kept) + 1 = QUOTE_HISTORY_CAP,
         \A i \in 1..Len(kept) : kept[i] = all[i + (Len(all) - Len(kept))]
  PROVE  Append(kept, update) \in Seq(Update) /\ Newest(Append(kept, update), Append(all, update))
<1>1. Len(kept) \in Nat /\ Len(all) \in Nat
  OBVIOUS
<1>2. /\ Append(kept, update) \in Seq(Update) /\ Len(Append(kept, update)) = Len(kept) + 1
      /\ DOMAIN Append(kept, update) = 1..(Len(kept) + 1)
      /\ Append(kept, update)[Len(kept) + 1] = update
      /\ \A i \in 1..Len(kept) : Append(kept, update)[i] = kept[i]
  OBVIOUS
<1>3. /\ Len(Append(all, update)) = Len(all) + 1 /\ Append(all, update)[Len(all) + 1] = update
      /\ \A i \in 1..Len(all) : Append(all, update)[i] = all[i]
  OBVIOUS
<1>4. ASSUME NEW i \in 1..(Len(kept) + 1)
      PROVE  Append(kept, update)[i] = Append(all, update)[i + ((Len(all) + 1) - (Len(kept) + 1))]
  <2>1. CASE i = Len(kept) + 1
    <3>1. i + ((Len(all) + 1) - (Len(kept) + 1)) = Len(all) + 1
      BY <1>1, <2>1
    <3>2. QED
      BY <1>2, <1>3, <2>1, <3>1
  <2>2. CASE i \in 1..Len(kept)
    <3>1. /\ i + ((Len(all) + 1) - (Len(kept) + 1)) = i + (Len(all) - Len(kept))
          /\ i + (Len(all) - Len(kept)) \in 1..Len(all)
      BY <1>1, <2>2
    <3>2. QED
      BY <1>2, <1>3, <2>2, <3>1
  <2>3. QED
    BY <1>1, <2>1, <2>2
<1>5. Len(kept) + 1 <= QUOTE_HISTORY_CAP /\ Len(kept) + 1 <= Len(all) + 1
  BY <1>1, RingConstants
<1>6. Len(kept) + 1 < Len(all) + 1 => Len(kept) + 1 = QUOTE_HISTORY_CAP
  BY <1>1
<1>7. QED
  BY <1>2, <1>3, <1>4, <1>5, <1>6 DEF Newest

(* A push keeps the ring the newest of the updates.                        *)
LEMMA PushKeepsNewest ==
  ASSUME NEW ring \in Seq(Update), NEW all \in Seq(Update), Newest(ring, all), NEW update \in Update
  PROVE  Pushed(ring, update) \in Seq(Update) /\ Newest(Pushed(ring, update), Append(all, update))
<1>1. CASE Len(ring) >= QUOTE_HISTORY_CAP
  <2>1. Pushed(ring, update) = Append(Tail(ring), update)
    BY <1>1 DEF Pushed
  <2>2. QED
    BY <1>1, <2>1, RoomIsMade, AppendKeepsNewest
<1>2. CASE ~(Len(ring) >= QUOTE_HISTORY_CAP)
  <2>1. Pushed(ring, update) = Append(ring, update)
    BY <1>2 DEF Pushed
  <2>2. Len(ring) \in Nat /\ Len(all) \in Nat /\ DOMAIN ring = 1..Len(ring)
    OBVIOUS
  <2>3. Len(ring) < QUOTE_HISTORY_CAP
    BY <1>2, <2>2, RingConstants
  <2>4. Len(ring) <= Len(all) /\ ~(Len(ring) < Len(all))
    <3>1. Len(ring) <= Len(all) /\ (Len(ring) < Len(all) => Len(ring) = QUOTE_HISTORY_CAP)
      BY DEF Newest
    <3>2. QUOTE_HISTORY_CAP \in Nat /\ Len(ring) \in Nat /\ Len(all) \in Nat
      BY RingConstants
    <3>3. QED
      BY <2>3, <3>1, <3>2
  <2>5. \A i \in 1..Len(ring) : ring[i] = all[i + (Len(all) - Len(ring))]
    BY <2>2 DEF Newest
  <2>6. QED
    BY <2>1, <2>3, <2>4, <2>5, AppendKeepsNewest
<1>3. QED
  BY <1>1, <1>2

LEMMA UpdateKeepsRing ==
  ASSUME RingInv, NEW token \in Tokens, NEW ask \in Asks, update_quote(token, ask)
  PROVE  RingInv'
<1> DEFINE update == [ask |-> ask, ts_us |-> now]
           all == book[token]
<1>1. /\ DOMAIN quotes' = DOMAIN quotes \cup {token}
      /\ \A t \in DOMAIN quotes' : quotes'[t] = IF t = token THEN update ELSE quotes[t]
      /\ quote_history' = [quote_history EXCEPT ![token] = Pushed(quote_history[token], update)]
      /\ book' = [book EXCEPT ![token] = Append(all, update)]
      /\ UNCHANGED now
  BY DEF update_quote
<1>2. now \in Nat /\ update \in Update /\ all \in Seq(Update)
  BY RingConstants DEF RingInv, Update
<1>3. /\ Pushed(quote_history[token], update) \in Seq(Update)
      /\ Newest(Pushed(quote_history[token], update), Append(all, update))
  BY <1>2, PushKeepsNewest DEF RingInv
<1> HIDE DEF update
<1>4. /\ book'[token] = Append(all, update) /\ book' \in [Tokens -> Seq(Update)]
      /\ \A t \in Tokens : t # token => book'[t] = book[t]
      /\ quote_history' \in [Tokens -> Seq(Update)]
      /\ quote_history'[token] = Pushed(quote_history[token], update)
      /\ \A t \in Tokens : t # token => quote_history'[t] = quote_history[t]
  BY <1>1, <1>2, <1>3 DEF RingInv
<1>5. \A t \in Tokens : Newest(quote_history'[t], book'[t])
  BY <1>3, <1>4 DEF RingInv
<1>6. DOMAIN quotes' \subseteq Tokens /\ \A t \in DOMAIN quotes' : quotes'[t] \in Update
  BY <1>1, <1>2 DEF RingInv
<1>7. QED
  BY <1>1, <1>4, <1>5, <1>6 DEF RingInv, Newest

LEMMA RingStep == RingInv /\ [Next]_vars => RingInv'
<1> SUFFICES ASSUME RingInv, [Next]_vars PROVE RingInv'
  OBVIOUS
<1>1. CASE set_market \/ mark_market_inactive
  <2>1. now' \in Nat
    BY <1>1 DEF set_market, mark_market_inactive, RingInv
  <2>2. quotes' = [token \in {} |-> 0] /\ quote_history' = NoHistory /\ book' = NoHistory
    BY <1>1 DEF set_market, mark_market_inactive, Cleared
  <2>3. <<>> \in Seq(Update) /\ Len(<<>>) = 0 /\ DOMAIN <<>> = {}
    OBVIOUS
  <2>4. \A token \in Tokens : book'[token] = <<>> /\ quote_history'[token] = <<>>
    BY <2>2 DEF NoHistory
  <2>5. book' \in [Tokens -> Seq(Update)] /\ quote_history' \in [Tokens -> Seq(Update)]
    BY <2>2, <2>3 DEF NoHistory
  <2>6. \A token \in Tokens : Newest(quote_history'[token], book'[token])
    BY <2>3, <2>4, RingConstants DEF Newest
  <2>7. QED
    BY <2>1, <2>2, <2>3, <2>4, <2>5, <2>6 DEF RingInv, Newest
<1>2. CASE \E token \in Tokens, ask \in Asks : update_quote(token, ask)
  BY <1>2, UpdateKeepsRing
<1>3. CASE UNCHANGED <<now, quotes, quote_history, book>>
  BY <1>3 DEF RingInv, Newest
<1>4. CASE Tick
  <2>1. now' \in Nat /\ UNCHANGED <<quotes, quote_history, book>>
    BY <1>4 DEF Tick, stateVars, RingInv
  <2>2. QED
    BY <2>1 DEF RingInv, Newest
<1>5. QED
  BY <1>1, <1>2, <1>3, <1>4 DEF Next, vars, stateVars, BuySignal, SubmitOutcome

LEMMA RingAlways == Spec => []RingInv
<1>1. Init => RingInv
  BY EmptyRings DEF Init
<1>2. QED
  BY <1>1, RingStep, PTL DEF Spec

(* The first update within reach is in the ring, and is the first of the   *)
(* window there.                                                           *)
LEMMA RingHasFirst ==
  ASSUME RingInv, NEW token \in Tokens
  PROVE  FirstWithinReach(token) \subseteq FirstOf(quote_history[token])
<1> DEFINE all == book[token]
           ring == quote_history[token]
           d == Len(all) - Len(ring)
           recent == {i \in InWindow(all) : i > Len(all) - QUOTE_HISTORY_CAP}
<1> SUFFICES ASSUME NEW first \in FirstWithinReach(token) PROVE first \in FirstOf(ring)
  OBVIOUS
<1>1. PICK i \in recent : first = all[i] /\ \A k \in recent : i <= k
  BY DEF FirstWithinReach
<1>2. /\ all \in Seq(Update) /\ ring \in Seq(Update) /\ Newest(ring, all)
      /\ i \in DOMAIN all /\ i > Len(all) - QUOTE_HISTORY_CAP
  BY <1>1 DEF RingInv, InWindow
<1>3. \A k : k \in recent <=> k \in InWindow(all) /\ k > Len(all) - QUOTE_HISTORY_CAP
  OBVIOUS
<1> HIDE DEF all, ring, recent
<1>4. /\ Len(all) \in Nat /\ Len(ring) \in Nat /\ i \in 1..Len(all)
      /\ DOMAIN ring = 1..Len(ring) /\ DOMAIN all = 1..Len(all)
  BY <1>2
<1>5. /\ Len(ring) <= Len(all) /\ (Len(ring) < Len(all) => Len(ring) = QUOTE_HISTORY_CAP)
      /\ Len(ring) <= QUOTE_HISTORY_CAP
      /\ \A k \in DOMAIN ring : ring[k] = all[k + d]
  BY <1>2 DEF Newest
<1>6. d \in Nat /\ i - d \in 1..Len(ring)
  <2>1. QUOTE_HISTORY_CAP \in Nat
    BY RingConstants
  <2>2. CASE Len(ring) = Len(all)
    BY <1>4, <2>2
  <2>3. CASE Len(ring) < Len(all)
    BY <1>2, <1>4, <1>5, <2>1, <2>3
  <2>4. Len(ring) = Len(all) \/ Len(ring) < Len(all)
    <3>1. Len(ring) <= Len(all)
      BY <1>5
    <3>2. Len(ring) \in Nat /\ Len(all) \in Nat
      BY <1>4
    <3>3. QED
      BY <3>1, <3>2
  <2>5. QED
    BY <2>2, <2>3, <2>4
<1>7. ring[i - d] = all[i]
  <2>1. (i - d) + d = i
    BY <1>4, <1>6
  <2>2. QED
    BY <1>4, <1>5, <1>6, <2>1
<1>8. i - d \in InWindow(ring)
  BY <1>1, <1>3, <1>4, <1>6, <1>7 DEF InWindow
<1>9. ASSUME NEW k \in InWindow(ring) PROVE i - d <= k
  <2>1. k \in 1..Len(ring) /\ ring[k] = all[k + d] /\ ring[k].ts_us >= now - POLY_DRIFT_WINDOW
    BY <1>4, <1>5 DEF InWindow
  <2>2. k + d \in DOMAIN all /\ k + d > Len(all) - QUOTE_HISTORY_CAP
    <3>1. QUOTE_HISTORY_CAP \in Nat /\ Len(ring) <= QUOTE_HISTORY_CAP
      BY <1>5, RingConstants
    <3>2. k \in Nat /\ 1 <= k /\ k <= Len(ring) /\ d = Len(all) - Len(ring)
      BY <1>4, <2>1
    <3> HIDE DEF d
    <3>3. k + d \in 1..Len(all)
      BY <1>4, <1>6, <3>2
    <3>4. k + d > Len(all) - QUOTE_HISTORY_CAP
      BY <1>4, <3>1, <3>2
    <3>5. QED
      BY <1>4, <3>3, <3>4
  <2>3. k + d \in recent
    BY <1>3, <2>1, <2>2 DEF InWindow
  <2>4. i <= k + d
    BY <1>1, <2>3
  <2>5. QED
    BY <1>4, <1>6, <2>1, <2>4
<1>10. QED
  BY <1>1, <1>7, <1>8, <1>9 DEF FirstOf

(* What a BUY signal has passed: neither drift gate blocks on the first    *)
(* update of the window within reach, if it has an ask.                    *)
LEMMA SignalPassedDrift ==
  ASSUME POLY_DRIFT_WINDOW > 0, RingInv,
         NEW token \in Tokens, NEW edge_ticks, BuySignal(token, edge_ticks),
         NEW first \in FirstWithinReach(token), first.ask # NoAsk
  PROVE  /\ ~poly_drift(quotes[token].ask - first.ask)
         /\ ~edge_insufficient(edge_ticks, quotes[token].ask - first.ask, now - first.ts_us)
<1>1. first \in oldest_since(token)
  BY RingHasFirst DEF oldest_since
<1>2. ~drift_gates(token, edge_ticks)
  BY DEF BuySignal, entry_gate_block
<1>3. QED
  BY <1>1, <1>2 DEF drift_gates

(* However busy a window and however often the market was left and entered,*)
(* the drift gate measures from the first update the ring can still have.  *)
(* The gates are on: POLY_DRIFT_WINDOW is not 0, which turns them off.     *)
THEOREM DriftIsSinceFirst ==
  ASSUME POLY_DRIFT_WINDOW > 0
  PROVE  Spec => DriftSinceFirstBlocks
<1>1. ASSUME RingInv, [Next]_vars, NEW token \in Tokens, token \in claims' \ claims,
             NEW first \in FirstWithinReach(token), first.ask # NoAsk
      PROVE  ~poly_drift(quotes[token].ask - first.ask)
  <2>1. PICK t \in Tokens, edge_ticks \in Edges : BuySignal(t, edge_ticks)
    BY <1>1 DEF Next, vars, set_market, mark_market_inactive, update_quote, SubmitOutcome, Tick
  <2>2. t = token
    BY <1>1, <2>1 DEF BuySignal
  <2>3. QED
    BY <1>1, <2>1, <2>2, SignalPassedDrift
<1>2. RingInv /\ [Next]_vars =>
        [\A token \in Tokens :
           token \in claims' \ claims =>
             \A first \in FirstWithinReach(token) :
               first.ask # NoAsk => ~poly_drift(quotes[token].ask - first.ask)]_vars
  BY <1>1
<1>3. QED
  BY <1>2, RingAlways, PTL DEF Spec, DriftSinceFirstBlocks

(* A quotient rounded up covers its dividend.                              *)
LEMMA CeilingCovers ==
  ASSUME NEW a \in Int, NEW d \in Nat \ {0}, NEW x \in Int, x >= (a + d - 1) \div d
  PROVE  x * d >= a
<1> DEFINE q == (a + d - 1) \div d
<1>1. q \in Int /\ d \in Int /\ d >= 1 /\ a + d - 1 \in Int
  OBVIOUS
<1>2. a + d - 1 < d * (q + 1)
  <2>1. \A n \in Int : n < d * ((n \div d) + 1)
    OBVIOUS
  <2>2. QED
    BY <1>1, <2>1
<1> HIDE DEF q
<1>3. d * (q + 1) = q * d + d
  BY <1>1
<1>4. a <= q * d
  <2>1. q * d \in Int
    BY <1>1
  <2>2. QED
    BY <1>1, <1>2, <1>3, <2>1
<1>5. x * d >= q * d
  <2>1. x - q \in Nat /\ x = q + (x - q)
    BY <1>1 DEF q
  <2>2. \A n \in Nat : n * d >= 0 /\ (q + n) * d = q * d + n * d
    BY <1>1
  <2>3. QED
    BY <1>1, <2>1, <2>2
<1>6. QED
  BY <1>1, <1>4, <1>5

(* The required drift, as the code computes it from integers, is never     *)
(* less than the drift in flight: it is rounded up.                        *)
LEMMA RequiredCovers ==
  ASSUME NEW edge_ticks \in Int, NEW drift_ticks \in Int, NEW dt_us \in Int, dt_us > 0,
         SAFETY_BPS > 0, rtt_ewma_us \in Int, rtt_ewma_us > 0,
         ~edge_insufficient(edge_ticks, drift_ticks, dt_us)
  PROVE  (edge_ticks - MIN_CLEAN_EDGE_TICKS) * dt_us * BPS
           >= Magnitude(drift_ticks) * rtt_ewma_us * SAFETY_BPS
<1>1. SAFETY_BPS \in Nat /\ BPS \in Nat \ {0} /\ MIN_CLEAN_EDGE_TICKS \in Nat
  BY GatesAssumption DEF GatesAssumption
<1> DEFINE a == Magnitude(drift_ticks) * rtt_ewma_us * SAFETY_BPS
           d == dt_us * BPS
           x == edge_ticks - MIN_CLEAN_EDGE_TICKS
<1>2. Magnitude(drift_ticks) \in Nat
  BY DEF Magnitude
<1>3. a \in Int /\ x \in Int
  BY <1>1, <1>2
<1>4. d \in Nat \ {0}
  BY <1>1
<1>5. (a + d - 1) \div d = required_drift(drift_ticks, dt_us)
  BY DEF required_drift
<1>6. ~(edge_ticks < required_drift(drift_ticks, dt_us) + MIN_CLEAN_EDGE_TICKS)
  BY DEF edge_insufficient
<1>7. x * dt_us * BPS = x * d
  BY <1>1, <1>3
<1> HIDE DEF a, d
<1>8. required_drift(drift_ticks, dt_us) \in Int
  BY <1>3, <1>4, <1>5
<1>9. x >= (a + d - 1) \div d
  BY <1>1, <1>5, <1>6, <1>8
<1> HIDE DEF x
<1>10. x * d >= a
  BY <1>3, <1>4, <1>9, CeilingCovers
<1>11. QED
  BY <1>7, <1>10 DEF a, x

(* A claimed BUY's edge, less the floor, is at least what the ask runs in  *)
(* flight at the speed it ran since that update, in exact arithmetic: the  *)
(* code's rounding only makes the gate stricter.                           *)
THEOREM EdgeAlwaysCoversFlight ==
  ASSUME POLY_DRIFT_WINDOW > 0
  PROVE  Spec => EdgeCoversFlight
<1>1. ASSUME RingInv, AverageInv, NEW token \in Tokens, NEW edge_ticks \in Edges,
             BuySignal(token, edge_ticks), NEW first \in FirstWithinReach(token), first.ask # NoAsk,
             now - first.ts_us > 0, SAFETY_BPS > 0, rtt_ewma_us > 0
      PROVE  (edge_ticks - MIN_CLEAN_EDGE_TICKS) * (now - first.ts_us) * BPS
               >= Magnitude(quotes[token].ask - first.ask) * rtt_ewma_us * SAFETY_BPS
  <2>1. first \in Update /\ quotes[token] \in Update
    <3>1. book[token] \in Seq(Update) /\ \A t \in DOMAIN quotes : quotes[t] \in Update
      BY <1>1 DEF RingInv
    <3>2. PICK i \in DOMAIN book[token] : first = book[token][i]
      BY <1>1 DEF FirstWithinReach, InWindow
    <3>3. token \in DOMAIN quotes
      BY <1>1 DEF BuySignal
    <3>4. QED
      BY <3>1, <3>2, <3>3
  <2>2. /\ quotes[token].ask - first.ask \in Int /\ now - first.ts_us \in Int
        /\ edge_ticks \in Int /\ rtt_ewma_us \in Int
    <3>1. now \in Nat /\ rtt_ewma_us \in Int
      BY <1>1 DEF RingInv, AverageInv
    <3>2. edge_ticks \in Int
      BY GatesAssumption DEF GatesAssumption
    <3>3. first.ask \in Nat /\ first.ts_us \in Nat /\ quotes[token].ask \in Nat
      BY <2>1 DEF Update
    <3>4. QED
      BY <3>1, <3>2, <3>3
  <2>3. ~edge_insufficient(edge_ticks, quotes[token].ask - first.ask, now - first.ts_us)
    BY <1>1, SignalPassedDrift
  <2>4. QED
    BY <1>1, <2>2, <2>3, RequiredCovers
<1>2. RingInv /\ AverageInv /\ [Next]_vars =>
        [\A token \in Tokens, edge_ticks \in Edges :
           BuySignal(token, edge_ticks) =>
             \A first \in FirstWithinReach(token) :
               LET dt_us == now - first.ts_us
                   drift_ticks == Magnitude(quotes[token].ask - first.ask)
               IN  first.ask # NoAsk /\ dt_us > 0 /\ SAFETY_BPS > 0 /\ rtt_ewma_us > 0 =>
                     (edge_ticks - MIN_CLEAN_EDGE_TICKS) * dt_us * BPS
                       >= drift_ticks * rtt_ewma_us * SAFETY_BPS]_vars
  BY <1>1
<1>3. Init => AverageInv
  BY DEF Init, AverageInv, EwmaAmongSamples
<1>4. QED
  BY <1>2, <1>3, RingAlways, AverageStep, PTL DEF Spec, EdgeCoversFlight

-----------------------------------------------------------------------------
(* SignalWindow, for any ring and window, any books, delays, quotes and    *)
(* thresholds.  Both the ring and what the program forgets of the strike's *)
(* samples are needed: IsRing says that the ring is their end, all of them *)
(* unless it is full, and in the order of the exchange.  What a BUY was    *)
(* decided on (Decided) is then what the market did, as far back as a ring *)
(* of that size can tell.                                                  *)

(* A book the engine accepted.                                             *)
Sound(b) ==
  /\ b.bid \in Nat /\ b.ask \in Nat
  /\ b.bid_qty \in Nat \ {0} /\ b.ask_qty \in Nat \ {0}

Accepted == [book : {b \in Books : Sound(b)}, ts_us : Int]
SignalPoint == [ts_us : Int, recv_ts_us : Int, microprice : Int, ofi : Int, imbalance : Int]

FlowIn(sn, i) == IF i = 1 THEN 0 ELSE Flow(sn[i - 1].book, sn[i].book)

(* The ring ss is the end of sn, and all of it unless it is full.          *)
IsEnd(ss, sn) ==
  LET dropped == Len(sn) - Len(ss) IN
  /\ dropped >= 0 /\ Len(ss) <= MAX_SAMPLES
  /\ dropped > 0 => Len(ss) = MAX_SAMPLES
  /\ \A i \in DOMAIN ss : /\ ss[i].ts_us = sn[dropped + i].ts_us
                          /\ ss[i].microprice = microprice(sn[dropped + i].book)
                          /\ ss[i].ofi = FlowIn(sn, dropped + i)

InOrder(sn) == \A i, j \in DOMAIN sn : i < j => sn[i].ts_us < sn[j].ts_us

IsRing(ss, sn) ==
  /\ ss \in Seq(SignalPoint) /\ sn \in Seq(Accepted)
  /\ IsEnd(ss, sn) /\ InOrder(sn)

SamplesInv ==
  /\ IsRing(samples, seen)
  /\ seen # <<>> => last = seen[Len(seen)].book
  /\ now \in Int /\ strike \in {0, STRIKE}

-----------------------------------------------------------------------------
LEMMA AcceptedIsSound ==
  ASSUME NEW b \in Books, NEW ts, NEW update_id, Accepts(b, ts, update_id)
  PROVE  Sound(b)
<1>1. {b.bid, b.ask, b.bid_qty, b.ask_qty} \subseteq Nat
  BY SignalAssumption DEF SignalAssumption
<1>2. QED
  BY <1>1 DEF Sound, Accepts

LEMMA SoundNumbers ==
  ASSUME NEW b, Sound(b)
  PROVE  microprice(b) \in Int /\ imbalance(b) \in Int
<1>1. total_qty(b) \in Nat \ {0} /\ SCALE \in Int
  BY SignalAssumption DEF Sound, total_qty, SignalAssumption
<1>2. SCALE \div total_qty(b) \in Int
  BY <1>1
<1>3. /\ b.bid * b.ask_qty + b.ask * b.bid_qty \in Int
      /\ b.bid_qty - b.ask_qty \in Int
  BY DEF Sound
<1>4. QED
  BY <1>2, <1>3 DEF microprice, imbalance

LEMMA FlowType ==
  ASSUME NEW a, Sound(a), NEW b, Sound(b)
  PROVE  Flow(a, b) \in Int
BY DEF Flow, Sound

(* What the code adds up side by side is the flow between the two books.   *)
LEMMA FlowOfLast ==
  ASSUME NEW b, Sound(b), Sound(last)
  PROVE  ofi_without_reset(b) = Flow(last, b)
<1>1. When(b.bid >= last.bid, b.bid_qty) - When(b.bid <= last.bid, last.bid_qty)
      = IF b.bid > last.bid THEN b.bid_qty
        ELSE IF b.bid < last.bid THEN 0 - last.bid_qty ELSE b.bid_qty - last.bid_qty
  BY DEF Sound, When
<1>2. When(b.ask >= last.ask, last.ask_qty) - When(b.ask <= last.ask, b.ask_qty)
      = IF b.ask > last.ask THEN last.ask_qty
        ELSE IF b.ask < last.ask THEN 0 - b.ask_qty ELSE last.ask_qty - b.ask_qty
  BY DEF Sound, When
<1>3. /\ -last.bid_qty = 0 - last.bid_qty /\ -b.ask_qty = 0 - b.ask_qty
      /\ When(b.bid >= last.bid, b.bid_qty) \in Int /\ When(b.bid <= last.bid, last.bid_qty) \in Int
      /\ When(b.ask >= last.ask, last.ask_qty) \in Int /\ When(b.ask <= last.ask, b.ask_qty) \in Int
  BY DEF Sound, When
<1>4. QED
  BY <1>1, <1>2, <1>3 DEF Flow, ofi_without_reset

LEMMA AppendKeepsOrder ==
  ASSUME NEW sn \in Seq(Accepted), NEW x \in Accepted, InOrder(sn),
         sn # <<>> => x.ts_us > sn[Len(sn)].ts_us
  PROVE  InOrder(Append(sn, x))
<1> DEFINE s == Append(sn, x)
           n == Len(sn)
<1>1. /\ n \in Nat /\ DOMAIN sn = 1..n /\ DOMAIN s = 1..(n + 1)
      /\ s[n + 1] = x /\ \A i \in 1..n : s[i] = sn[i]
  OBVIOUS
<1>2. x.ts_us \in Int /\ \A i \in 1..n : sn[i].ts_us \in Int
  <2>1. \A i \in 1..n : sn[i] \in Accepted
    OBVIOUS
  <2>2. QED
    BY <2>1 DEF Accepted
<1> HIDE DEF s, n
<1>3. ASSUME NEW i \in 1..n PROVE sn[i].ts_us < x.ts_us
  <2>1. n \in 1..n /\ sn # <<>>
    BY <1>1, <1>3
  <2>2. x.ts_us > sn[n].ts_us
    BY <2>1 DEF n
  <2>3. i < n => sn[i].ts_us < sn[n].ts_us
    BY <1>1, <2>1 DEF InOrder
  <2>4. QED
    BY <1>1, <1>2, <2>1, <2>2, <2>3
<1>4. ASSUME NEW i \in 1..(n + 1), NEW j \in 1..(n + 1), i < j
      PROVE  s[i].ts_us < s[j].ts_us
  <2>1. i \in 1..n
    BY <1>1, <1>4
  <2>2. CASE j \in 1..n
    BY <1>1, <1>4, <2>1, <2>2 DEF InOrder
  <2>3. CASE j = n + 1
    BY <1>1, <1>3, <2>1, <2>3
  <2>4. QED
    BY <1>1, <2>2, <2>3
<1>5. QED
  BY <1>1, <1>4 DEF InOrder, s

(* The same with names for the lengths.                                    *)
RingOf(ss, sn, n, m) ==
  /\ ss \in Seq(SignalPoint) /\ sn \in Seq(Accepted)
  /\ n = Len(ss) /\ m = Len(sn) /\ DOMAIN ss = 1..n /\ DOMAIN sn = 1..m
  /\ n <= m /\ n <= MAX_SAMPLES /\ (n < m => n = MAX_SAMPLES)
  /\ (ss = <<>> <=> n = 0) /\ (sn = <<>> <=> m = 0) /\ (n = 0 => m = 0)
  /\ MAX_SAMPLES \in Nat \ {0}
  /\ \A i \in 1..n : /\ m - n + i \in 1..m
                     /\ ss[i] \in SignalPoint
                     /\ ss[i].ts_us = sn[m - n + i].ts_us
                     /\ ss[i].microprice = microprice(sn[m - n + i].book)
                     /\ ss[i].ofi = FlowIn(sn, m - n + i)
  /\ \A i \in 1..m : Sound(sn[i].book) /\ sn[i].ts_us \in Int

LEMMA RingFacts ==
  ASSUME NEW ss, NEW sn, IsRing(ss, sn)
  PROVE  \E n, m \in Nat : RingOf(ss, sn, n, m)
<1>1. ss \in Seq(SignalPoint) /\ sn \in Seq(Accepted) /\ IsEnd(ss, sn)
  BY DEF IsRing
<1> DEFINE n == Len(ss)
           m == Len(sn)
<1>2. /\ n \in Nat /\ m \in Nat /\ DOMAIN ss = 1..n /\ DOMAIN sn = 1..m
      /\ (ss = <<>> <=> n = 0) /\ (sn = <<>> <=> m = 0)
      /\ (\A i \in 1..n : ss[i] \in SignalPoint) /\ (\A i \in 1..m : sn[i] \in Accepted)
  BY <1>1
<1>3. MAX_SAMPLES \in Nat \ {0}
  BY SignalAssumption DEF SignalAssumption
<1>4. m - n >= 0 /\ n <= MAX_SAMPLES /\ (m - n > 0 => n = MAX_SAMPLES)
  BY <1>1 DEF IsEnd
<1>5. \A i \in 1..n : /\ ss[i].ts_us = sn[m - n + i].ts_us
                      /\ ss[i].microprice = microprice(sn[m - n + i].book)
                      /\ ss[i].ofi = FlowIn(sn, m - n + i)
  BY <1>1, <1>2 DEF IsEnd
<1>6. \A i \in 1..m : Sound(sn[i].book) /\ sn[i].ts_us \in Int
  BY <1>2 DEF Accepted
<1>7. n = Len(ss) /\ m = Len(sn)
  OBVIOUS
<1> HIDE DEF n, m
<1>8. n <= m /\ (n < m => n = MAX_SAMPLES) /\ (n = 0 => m = 0) /\ \A i \in 1..n : m - n + i \in 1..m
  BY <1>2, <1>3, <1>4
<1>9. RingOf(ss, sn, n, m)
  BY <1>1, <1>2, <1>3, <1>4, <1>5, <1>6, <1>7, <1>8 DEF RingOf
<1>10. QED
  BY <1>2, <1>9

(* A sample accepted joins both ends.                                      *)
LEMMA PushKeepsRing ==
  ASSUME SamplesInv, NEW b \in Books, NEW ts \in Int, NEW recv \in Int, NEW update_id,
         Accepts(b, ts, update_id)
  PROVE  /\ IsRing(Ring(Point(b, ts, recv)), Append(seen, [book |-> b, ts_us |-> ts]))
         /\ Ring(Point(b, ts, recv)) # <<>>
         /\ Last(Ring(Point(b, ts, recv))).recv_ts_us = recv
<1> DEFINE point == Point(b, ts, recv)
           x == [book |-> b, ts_us |-> ts]
           kept == IF Len(samples) >= MAX_SAMPLES THEN Tail(samples) ELSE samples
           ss == Ring(point)
           sn == Append(seen, x)
           k == Len(kept)
<1>0. IsRing(samples, seen)
  BY DEF SamplesInv
<1>1. Sound(b) /\ x \in Accepted /\ microprice(b) \in Int /\ imbalance(b) \in Int
  BY AcceptedIsSound, SoundNumbers DEF Accepted
<1>2. PICK n \in Nat, m \in Nat : RingOf(samples, seen, n, m)
  BY <1>0, RingFacts
<1>3. samples = <<>> <=> seen = <<>>
  BY <1>2 DEF RingOf
<1>4. seen # <<>> => Sound(last) /\ m \in 1..m /\ last = seen[m].book
  <2>1. seen # <<>> => m \in 1..m
    BY <1>2 DEF RingOf
  <2>2. QED
    BY <1>2, <2>1 DEF SamplesInv, RingOf
<1>5. seen # <<>> => ts > seen[m].ts_us
  <2>1. SUFFICES ASSUME seen # <<>> PROVE ts > seen[m].ts_us
    OBVIOUS
  <2>2. samples # <<>> /\ n \in 1..n /\ Last(samples) = samples[n]
    BY <1>2, <1>3, <2>1 DEF Last, RingOf
  <2>3. samples[n].ts_us = seen[m].ts_us
    <3>1. m - n + n = m
      BY <1>2
    <3>2. QED
      BY <1>2, <2>2, <3>1 DEF RingOf
  <2>4. QED
    BY <2>2, <2>3 DEF Accepts
<1>6. /\ point.ts_us = ts /\ point.recv_ts_us = recv
      /\ point.microprice = microprice(b) /\ point.imbalance = imbalance(b)
      /\ point.ofi = IF seen = <<>> THEN 0 ELSE Flow(last, b)
      /\ point \in SignalPoint
  <2>1. compute_ofi(b) = IF seen = <<>> THEN 0 ELSE Flow(last, b)
    BY <1>1, <1>3, <1>4, FlowOfLast DEF compute_ofi
  <2>2. compute_ofi(b) \in Int
    BY <1>1, <1>4, <2>1, FlowType
  <2>3. QED
    BY <1>1, <2>1, <2>2 DEF Point, SignalPoint
<1>7. /\ sn \in Seq(Accepted) /\ Len(sn) = m + 1 /\ sn[m + 1] = x
      /\ \A i \in 1..m : sn[i] = seen[i]
  BY <1>1, <1>2, AppendProperties DEF RingOf
<1>8. InOrder(sn)
  <2>1. seen # <<>> => x.ts_us > seen[Len(seen)].ts_us
    BY <1>2, <1>5 DEF RingOf
  <2>2. InOrder(seen) /\ seen \in Seq(Accepted)
    BY <1>0 DEF IsRing
  <2> HIDE DEF x
  <2>3. QED
    BY <1>1, <2>1, <2>2, AppendKeepsOrder
<1>9. /\ kept \in Seq(SignalPoint) /\ k \in Nat /\ k <= n /\ k < MAX_SAMPLES
      /\ k = IF n >= MAX_SAMPLES THEN n - 1 ELSE n
      /\ \A i \in 1..k : kept[i] = samples[n - k + i]
  <2>0. samples \in Seq(SignalPoint) /\ n = Len(samples) /\ MAX_SAMPLES \in Nat \ {0} /\ n <= MAX_SAMPLES
    BY <1>2 DEF RingOf
  <2>1. CASE n >= MAX_SAMPLES
    <3>1. samples # <<>> /\ kept = Tail(samples) /\ n >= 1
      BY <2>0, <2>1
    <3>2. kept \in Seq(SignalPoint) /\ k = n - 1 /\ \A i \in 1..k : kept[i] = samples[i + 1]
      BY <2>0, <3>1, HeadTailProperties
    <3> HIDE DEF k, kept
    <3>3. n - k = 1 /\ k \in Nat /\ \A i \in 1..k : n - k + i = i + 1
      BY <3>1, <3>2
    <3>4. QED
      BY <2>0, <2>1, <3>1, <3>2, <3>3
  <2>2. CASE ~(n >= MAX_SAMPLES)
    <3>1. kept = samples /\ k = n
      BY <2>0, <2>2
    <3> HIDE DEF k, kept
    <3>2. \A i \in 1..k : n - k + i = i
      BY <3>1
    <3>3. QED
      BY <2>0, <2>2, <3>1, <3>2
  <2>3. QED
    BY <2>0, <2>1, <2>2
<1>10. ss = Append(kept, point)
  BY DEF Ring
<1> HIDE DEF point, x, kept, ss, sn, k
<1>11. /\ ss \in Seq(SignalPoint) /\ Len(ss) = k + 1 /\ ss[k + 1] = point
       /\ \A i \in 1..k : ss[i] = kept[i]
  BY <1>6, <1>9, <1>10, AppendProperties DEF k
<1>12. k \in Nat /\ k <= n /\ n <= m
  BY <1>2, <1>9 DEF RingOf
<1>13. ASSUME NEW i \in 1..(k + 1)
       PROVE  /\ ss[i].ts_us = sn[m - k + i].ts_us
              /\ ss[i].microprice = microprice(sn[m - k + i].book)
              /\ ss[i].ofi = FlowIn(sn, m - k + i)
  <2>1. CASE i = k + 1
    <3>1. m - k + i = m + 1
      BY <1>12, <2>1
    <3>2. FlowIn(sn, m + 1) = IF seen = <<>> THEN 0 ELSE Flow(last, b)
      <4>1. CASE seen = <<>>
        BY <1>2, <4>1 DEF FlowIn, RingOf
      <4>2. CASE seen # <<>>
        <5>1. m + 1 # 1 /\ m + 1 - 1 = m /\ m \in 1..m
          BY <1>4, <4>2
        <5>2. QED
          BY <1>4, <1>7, <4>2, <5>1 DEF FlowIn, x
      <4>3. QED
        BY <4>1, <4>2
    <3>3. QED
      BY <1>6, <1>7, <1>11, <2>1, <3>1, <3>2 DEF x
  <2>2. CASE i \in 1..k
    <3>1. /\ n - k + i \in 1..n /\ m - k + i \in 1..m /\ m - n + (n - k + i) = m - k + i
          /\ m - k + i # 1 => m - k + i - 1 \in 1..m
      BY <1>12, <2>2
    <3>2. ss[i] = samples[n - k + i]
      BY <1>9, <1>11, <2>2
    <3>3. FlowIn(sn, m - k + i) = FlowIn(seen, m - k + i)
      BY <1>7, <3>1 DEF FlowIn
    <3> DEFINE j == n - k + i
    <3>4. /\ samples[j].ts_us = seen[m - n + j].ts_us
          /\ samples[j].microprice = microprice(seen[m - n + j].book)
          /\ samples[j].ofi = FlowIn(seen, m - n + j)
      <4> HIDE DEF j
      <4>1. QED
        BY <1>2, <3>1 DEF RingOf, j
    <3>5. QED
      BY <1>7, <3>1, <3>2, <3>3, <3>4
  <2>3. QED
    BY <1>12, <2>1, <2>2
<1>14. IsEnd(ss, sn)
  <2>1. /\ Len(sn) - Len(ss) = m - k /\ m - k >= 0 /\ k + 1 <= MAX_SAMPLES
        /\ m - k > 0 => k + 1 = MAX_SAMPLES
    BY <1>2, <1>7, <1>9, <1>11 DEF RingOf
  <2>2. DOMAIN ss = 1..(k + 1)
    BY <1>11
  <2>3. QED
    BY <1>11, <1>13, <2>1, <2>2 DEF IsEnd
<1>15. ss # <<>> /\ Last(ss).recv_ts_us = recv
  BY <1>6, <1>9, <1>11 DEF Last
<1>16. IsRing(ss, sn)
  BY <1>7, <1>8, <1>11, <1>14 DEF IsRing
<1>17. QED
  BY <1>15, <1>16 DEF ss, sn, point, x

-----------------------------------------------------------------------------
(* Reading the window.                                                     *)
LEMMA OldestIsLeast ==
  ASSUME NEW ss, NEW is, is \subseteq Nat, NEW i0 \in is, \A j \in is : i0 <= j
  PROVE  OldestOf(ss, is) = ss[i0]
<1>1. \A i \in is : (\A j \in is : i <= j) => i = i0
  OBVIOUS
<1>2. (CHOOSE i \in is : \A j \in is : i <= j) = i0
  BY <1>1
<1>3. QED
  BY <1>2 DEF OldestOf

(* What of the window the ring still has is what is within its reach.      *)
LEMMA WindowOfEnd ==
  ASSUME NEW ss, NEW sn, NEW n \in Nat, NEW m \in Nat, RingOf(ss, sn, n, m), ss # <<>>
  PROVE  /\ Last(ss).ts_us = Last(sn).ts_us
         /\ Last(ss).microprice = microprice(Last(sn).book)
         /\ Window(ss) \subseteq 1..n
         /\ WithinReach(sn) = {m - n + i : i \in Window(ss)}
<1> DEFINE d == m - n
           cutoff == Last(sn).ts_us - MAX_WINDOW
<1>1. /\ n \in 1..n /\ m \in 1..m /\ m - n + n = m /\ n <= m /\ d \in Nat
      /\ MAX_SAMPLES \in Nat /\ n <= MAX_SAMPLES
      /\ DOMAIN ss = 1..n /\ DOMAIN sn = 1..m /\ (n < m => n = MAX_SAMPLES)
  BY DEF RingOf
<1>2. Last(ss) = ss[n] /\ Last(sn) = sn[m] /\ Len(sn) = m
  BY DEF Last, RingOf
<1>3. ss[n].ts_us = sn[m].ts_us /\ ss[n].microprice = microprice(sn[m].book)
  <2>1. /\ ss[n].ts_us = sn[m - n + n].ts_us
        /\ ss[n].microprice = microprice(sn[m - n + n].book)
    BY <1>1 DEF RingOf
  <2>2. QED
    BY <1>1, <2>1
<1>4. \A i \in 1..n : d + i \in 1..m /\ ss[i].ts_us = sn[d + i].ts_us
  BY DEF RingOf
<1>5. Window(ss) = {i \in 1..n : ss[i].ts_us >= cutoff}
  BY <1>1, <1>2, <1>3 DEF Window, Since
<1>6. WithinReach(sn) = {k \in 1..m : sn[k].ts_us >= cutoff /\ k > m - MAX_SAMPLES}
  BY <1>1, <1>2 DEF WithinReach, Window, Since
<1> HIDE DEF cutoff
<1>7. ASSUME NEW i \in Window(ss) PROVE d + i \in WithinReach(sn)
  <2>1. i \in 1..n /\ d + i \in 1..m /\ sn[d + i].ts_us >= cutoff
    BY <1>4, <1>5
  <2>2. d + i > m - MAX_SAMPLES
    BY <1>1, <2>1
  <2>3. QED
    BY <1>6, <2>1, <2>2
<1>8. ASSUME NEW k \in WithinReach(sn) PROVE \E i \in Window(ss) : k = d + i
  <2>1. k \in 1..m /\ sn[k].ts_us >= cutoff /\ k > m - MAX_SAMPLES
    BY <1>6
  <2>2. k - d \in 1..n /\ d + (k - d) = k
    BY <1>1, <2>1
  <2> HIDE DEF d
  <2>3. k - d \in Window(ss)
    BY <1>4, <1>5, <2>1, <2>2
  <2>4. QED
    BY <2>2, <2>3
<1>9. WithinReach(sn) = {d + i : i \in Window(ss)}
  BY <1>7, <1>8
<1>10. QED
  BY <1>2, <1>3, <1>5, <1>9

(* So a move, a span and a flow read off the ring are those since the      *)
(* strike was set.                                                         *)
LEMMA ReadingsOfEnd ==
  ASSUME NEW ss, NEW sn, IsRing(ss, sn), ss # <<>>, Window(ss) # {}
  PROVE  /\ Span(ss) = Last(sn).ts_us - OldestOf(sn, WithinReach(sn)).ts_us
         /\ Move(ss) = microprice(Last(sn).book) - microprice(OldestOf(sn, WithinReach(sn)).book)
         /\ Move(ss) \in Int
         /\ ofi_sum(ss) = SumFunctionOnSet([i \in DOMAIN sn |-> FlowIn(sn, i)], WithinReach(sn))
         /\ ofi_sum(ss) \in Int
<1>1. PICK n \in Nat, m \in Nat : RingOf(ss, sn, n, m)
  BY RingFacts
<1>0. /\ Last(ss).ts_us = Last(sn).ts_us
      /\ Last(ss).microprice = microprice(Last(sn).book)
      /\ Window(ss) \subseteq 1..n
      /\ WithinReach(sn) = {m - n + i : i \in Window(ss)}
  BY <1>1, WindowOfEnd
<1> DEFINE W == Window(ss)
           d == m - n
<1>3. /\ Last(ss).ts_us = Last(sn).ts_us
      /\ Last(ss).microprice = microprice(Last(sn).book)
      /\ W \subseteq 1..n
      /\ WithinReach(sn) = {d + i : i \in W}
  BY <1>0
<1>4. d \in Nat
  BY <1>1 DEF RingOf
<1>5. /\ DOMAIN ss = 1..n /\ DOMAIN sn = 1..m
      /\ \A i \in 1..n : /\ d + i \in 1..m /\ ss[i] \in SignalPoint
                         /\ ss[i].ts_us = sn[d + i].ts_us
                         /\ ss[i].microprice = microprice(sn[d + i].book)
                         /\ ss[i].ofi = FlowIn(sn, d + i)
  BY <1>1 DEF RingOf
<1>6. Last(ss) \in SignalPoint
  <2>1. n \in 1..n /\ Last(ss) = ss[n]
    BY <1>1 DEF RingOf, Last
  <2>2. QED
    BY <1>5, <2>1
<1> HIDE DEF W, d
<1>7. PICK i0 \in W : \A i \in W : i0 <= i
  <2>1. W \subseteq Nat /\ W # {}
    BY <1>3 DEF W
  <2>2. QED
    BY <2>1, LeastNat
<1>8. i0 \in 1..n
  BY <1>3, <1>7
<1>9. OldestOf(ss, W) = ss[i0]
  <2>1. W \subseteq Nat /\ i0 \in W /\ \A j \in W : i0 <= j
    BY <1>3, <1>7
  <2>2. QED
    BY <2>1, OldestIsLeast
<1>10. OldestOf(sn, WithinReach(sn)) = sn[d + i0]
  <2>1. WithinReach(sn) \subseteq Nat /\ d + i0 \in WithinReach(sn) /\ \A k \in WithinReach(sn) : d + i0 <= k
    BY <1>3, <1>4, <1>7, <1>8
  <2>2. QED
    BY <2>1, OldestIsLeast
<1>11. Span(ss) = Last(sn).ts_us - OldestOf(sn, WithinReach(sn)).ts_us
  BY <1>3, <1>5, <1>8, <1>9, <1>10 DEF Span, W
<1>12. Move(ss) = microprice(Last(sn).book) - microprice(OldestOf(sn, WithinReach(sn)).book)
  BY <1>3, <1>5, <1>8, <1>9, <1>10 DEF Move, W
<1>13. Move(ss) \in Int
  <2>1. ss[i0].microprice \in Int /\ Last(ss).microprice \in Int
    BY <1>5, <1>6, <1>8 DEF SignalPoint
  <2>2. QED
    BY <1>9, <2>1 DEF Move, W
<1>14. /\ ofi_sum(ss) = SumFunctionOnSet([i \in DOMAIN sn |-> FlowIn(sn, i)], WithinReach(sn))
       /\ ofi_sum(ss) \in Int
  <2> DEFINE w == [i \in DOMAIN ss |-> ss[i].ofi]
             v == [i \in DOMAIN sn |-> FlowIn(sn, i)]
             f == [i \in W |-> d + i]
  <2>1. IsFiniteSet(W)
    <3>1. IsFiniteSet(1..n)
      BY FS_Interval
    <3>2. QED
      BY <1>3, <3>1, FS_Subset
  <2>2. \A i \in W : w[i] \in Int /\ v[d + i] = w[i]
    BY <1>3, <1>5 DEF SignalPoint
  <2>3. f \in Bijection(W, WithinReach(sn)) /\ \A i \in W : f[i] = d + i
    <3>1. f \in [W -> WithinReach(sn)] /\ \A i \in W : f[i] = d + i
      BY <1>3
    <3>2. \A i \in W, j \in W : f[i] = f[j] => i = j
      BY <1>3, <1>4, <3>1
    <3>3. \A k \in WithinReach(sn) : \E i \in W : f[i] = k
      BY <1>3, <3>1
    <3> HIDE DEF f
    <3>4. QED
      BY <3>1, <3>2, <3>3 DEF Bijection, Injection, Surjection, IsInjective
  <2>4. ofi_sum(ss) = SumFunctionOnSet(w, W)
    BY DEF ofi_sum, W
  <2> HIDE DEF w, v, f
  <2>5. IntOn(w, W) /\ \A i \in W : v[f[i]] = w[i]
    BY <2>2, <2>3 DEF IntOn
  <2>6. SumFunctionOnSet(v, WithinReach(sn)) = SumFunctionOnSet(w, W)
    BY <2>1, <2>3, <2>5, SumMoved
  <2>7. SumFunctionOnSet(w, W) \in Int
    BY <2>1, <2>5, SumType
  <2>8. QED
    BY <2>4, <2>6, <2>7 DEF v
<1>15. QED
  BY <1>11, <1>12, <1>13, <1>14

-----------------------------------------------------------------------------
(* A BUY was decided at this instant on the ring and the probability that  *)
(* are there now.                                                          *)
Decided(buy) ==
  /\ strike > 0 /\ tte > 0
  /\ latest_window(samples) /\ Last(samples).recv_ts_us = now
  /\ buy.side \in OutcomeSide /\ Pressure(samples, buy.side)
  /\ \E quote \in Quotes : buy = BuyIntent(buy.side, quote, p_yes) /\ EdgeCovers(buy, quote)

SignalInv ==
  /\ SamplesInv
  /\ p_yes \in Int
  /\ \A buy \in intent : Decided(buy)

LEMMA ProbsType ==
  ASSUME NEW ss, NEW s PROVE ProbsAt(ss, s) \subseteq Int
<1>1. Probs \subseteq Int /\ Half \in Int
  BY SignalAssumption DEF SignalAssumption, Half
<1>2. ProbsAt(ss, s) \subseteq Probs \cup {Half}
  BY DEF ProbsAt
<1>3. QED
  BY <1>1, <1>2

LEMMA NoSamples == IsRing(<<>>, <<>>)
<1>1. /\ <<>> \in Seq(SignalPoint) /\ <<>> \in Seq(Accepted)
      /\ DOMAIN <<>> = {} /\ Len(<<>>) = 0
  OBVIOUS
<1>2. MAX_SAMPLES \in Nat
  BY SignalAssumption DEF SignalAssumption
<1>3. QED
  BY <1>1, <1>2 DEF IsRing, IsEnd, InOrder

LEMMA PushKeepsSamples ==
  ASSUME SamplesInv, NEW b \in Books, NEW ts \in Int, NEW recv \in Int, NEW update_id,
         push_received(b, ts, update_id, recv), UNCHANGED <<now, strike>>
  PROVE  /\ SamplesInv'
         /\ Accepts(b, ts, update_id) => samples' # <<>> /\ Last(samples').recv_ts_us = recv
<1>1. CASE Accepts(b, ts, update_id)
  <2>1. /\ samples' = Ring(Point(b, ts, recv)) /\ last' = b
        /\ seen' = Append(seen, [book |-> b, ts_us |-> ts])
    BY <1>1 DEF push_received
  <2>2. /\ IsRing(samples', seen')
        /\ samples' # <<>> /\ Last(samples').recv_ts_us = recv
    BY <1>1, <2>1, PushKeepsRing
  <2>3. last' = seen'[Len(seen')].book
    <3>1. seen \in Seq(Accepted) /\ [book |-> b, ts_us |-> ts] \in Accepted
      BY <1>1, AcceptedIsSound DEF SamplesInv, IsRing, Accepted
    <3>2. QED
      BY <2>1, <3>1, AppendProperties
  <2>4. QED
    BY <2>2, <2>3 DEF SamplesInv
<1>2. CASE ~Accepts(b, ts, update_id)
  <2>1. UNCHANGED <<samples, last, seen>>
    BY <1>2 DEF push_received
  <2>2. QED
    BY <1>2, <2>1 DEF SamplesInv
<1>3. QED
  BY <1>1, <1>2

LEMMA StartHasSignalInv == SignalInit => SignalInv
<1> SUFFICES ASSUME SignalInit PROVE SignalInv
  OBVIOUS
<1>1. SamplesInv
  BY NoSamples DEF SignalInit, SamplesInv
<1>2. QED
  BY <1>1 DEF SignalInit, SignalInv, Half, NoIntent

LEMMA SignalStep ==
  ASSUME SignalInv, [SignalNext]_signalVars
  PROVE  SignalInv'
<1>1. SamplesInv /\ p_yes \in Int /\ \A buy \in intent : Decided(buy)
  BY DEF SignalInv
<1>2. Delays \subseteq Int /\ now \in Int /\ STRIKE \in Int
  BY <1>1, SignalAssumption DEF SignalAssumption, SamplesInv
<1>3. ASSUME NEW s \in {0, STRIKE}, set_strike(s) PROVE SignalInv'
  <2>1. SamplesInv'
    BY <1>1, <1>3, NoSamples DEF SamplesInv, set_strike, reset_window
  <2>2. QED
    BY <1>3, <2>1 DEF SignalInv, set_strike, NoIntent, Half
<1>4. CASE AnchorResolved
  BY <1>3, <1>4 DEF AnchorResolved
<1>5. CASE Rotated
  BY <1>3, <1>5 DEF Rotated
<1>6. ASSUME NEW b \in Books, NEW delay \in Delays, NEW update_id,
             SampleUnquoted(b, delay, update_id)
      PROVE  SignalInv'
  <2>1. now - delay \in Int
    BY <1>2
  <2>2. SamplesInv'
    BY <1>1, <1>6, <2>1, PushKeepsSamples DEF SampleUnquoted
  <2>3. p_yes' \in Int /\ intent' = {}
    BY <1>6, ProbsType DEF SampleUnquoted, NoIntent
  <2>4. QED
    BY <2>2, <2>3 DEF SignalInv
<1>7. ASSUME NEW b \in Books, NEW delay \in Delays, NEW update_id, NEW quote \in Quotes,
             on_sample(b, delay, update_id, quote)
      PROVE  SignalInv'
  <2>1. now - delay \in Int
    BY <1>2
  <2>2. /\ SamplesInv'
        /\ Accepts(b, now - delay, update_id) =>
             samples' # <<>> /\ Last(samples').recv_ts_us = now
    BY <1>1, <1>2, <1>7, <2>1, PushKeepsSamples DEF on_sample
  <2>3. p_yes' \in Int /\ now' = now /\ strike' = strike
    BY <1>7, ProbsType DEF on_sample
  <2>4. ASSUME NEW buy \in intent' PROVE Decided(buy)'
    <3>1. /\ Accepts(b, now - delay, update_id)
          /\ buy \in decide_latest(samples', quote, p_yes')
      BY <1>7, <2>4 DEF on_sample, NoIntent
    <3>2. /\ strike > 0 /\ tte > 0 /\ latest_window(samples')
          /\ EdgeCovers(buy, quote)
          /\ \E side \in OutcomeSide : Pressure(samples', side) /\ buy = BuyIntent(side, quote, p_yes')
      BY <3>1 DEF decide_latest, NoIntent
    <3>3. /\ buy.side \in OutcomeSide /\ Pressure(samples', buy.side)
          /\ buy = BuyIntent(buy.side, quote, p_yes')
      BY <3>2 DEF BuyIntent
    <3>4. Last(samples').recv_ts_us = now
      BY <2>2, <3>1
    <3>5. tte' > 0
      BY <2>3, <3>2 DEF tte
    <3>6. QED
      BY <2>3, <3>2, <3>3, <3>4, <3>5 DEF Decided, latest_window, Pressure, BuyIntent, EdgeCovers, Window, Since, Span, Move, ofi_sum, OldestOf, Last
  <2>5. QED
    BY <2>2, <2>3, <2>4 DEF SignalInv
<1>8. CASE SignalTick
  <2>1. SamplesInv'
    BY <1>1, <1>2, <1>8 DEF SignalTick, SamplesInv
  <2>2. p_yes' \in Int /\ intent' = {}
    BY <1>8, ProbsType DEF SignalTick, NoIntent
  <2>3. QED
    BY <2>1, <2>2 DEF SignalInv
<1>9. CASE UNCHANGED signalVars
  <2>1. UNCHANGED <<now, strike, samples, last, p_yes, intent, seen>>
    BY <1>9 DEF signalVars
  <2>2. SamplesInv'
    BY <1>1, <2>1 DEF SamplesInv
  <2>3. ASSUME NEW buy \in intent' PROVE Decided(buy)'
    <3>1. Decided(buy)
      BY <1>1, <2>1, <2>3
    <3>2. QED
      BY <2>1, <3>1 DEF Decided, tte, latest_window, Pressure, BuyIntent, EdgeCovers
  <2>4. QED
    BY <1>1, <2>1, <2>2, <2>3 DEF SignalInv
<1>10. QED
  BY <1>4, <1>5, <1>6, <1>7, <1>8, <1>9 DEF SignalNext

LEMMA SignalHolds == SignalSpec => []SignalInv
<1>1. SignalInit => SignalInv
  BY StartHasSignalInv
<1>2. SignalInv /\ [SignalNext]_signalVars => SignalInv'
  BY SignalStep
<1>3. QED
  BY <1>1, <1>2, PTL DEF SignalSpec

-----------------------------------------------------------------------------
(* WindowIsOfStrike, of every order of arrival and every size of the ring: *)
(* the ring is the end of what SignalEngine accepted since set_strike, in  *)
(* the order of the exchange, each flow between neighbours.                *)
THEOREM RingIsOfStrike == SignalSpec => []WindowIsOfStrike
<1>1. SamplesInv => WindowIsOfStrike
  <2> SUFFICES ASSUME SamplesInv PROVE WindowIsOfStrike
    OBVIOUS
  <2>1. IsRing(samples, seen)
    BY DEF SamplesInv
  <2>2. PICK n \in Nat, m \in Nat : RingOf(samples, seen, n, m)
    BY <2>1, RingFacts
  <2>3. /\ n <= m /\ n = Len(samples) /\ m = Len(seen)
        /\ DOMAIN samples = 1..n /\ DOMAIN seen = 1..m
    BY <2>2 DEF RingOf
  <2>4. \A i \in 1..n : /\ m - n + i \in 1..m
                        /\ samples[i].ts_us = seen[m - n + i].ts_us
                        /\ samples[i].microprice = microprice(seen[m - n + i].book)
                        /\ samples[i].ofi = FlowAt(m - n + i)
                        /\ samples[i].ts_us \in Int
    BY <2>2 DEF RingOf, FlowIn, FlowAt, SignalPoint
  <2>5. ASSUME NEW i \in 1..n, NEW j \in 1..n, i < j
        PROVE  samples[i].ts_us < samples[j].ts_us
    <3>1. m - n + i < m - n + j
      BY <2>5
    <3>2. QED
      BY <2>1, <2>3, <2>4, <3>1 DEF IsRing, InOrder
  <2>6. QED
    BY <2>3, <2>4, <2>5 DEF WindowIsOfStrike
<1>2. QED
  BY <1>1, SignalHolds, PTL DEF SignalInv

(* A BUY was decided on readings that are whole numbers and on its side.   *)
LEMMA PressureSigned ==
  ASSUME SignalInv, NEW buy \in intent
  PROVE  /\ samples # <<>> /\ Window(samples) # {} /\ IsRing(samples, seen)
         /\ Span(samples) >= MIN_WINDOW
         /\ Move(samples) \in Int
         /\ Sign(buy.side) * Move(samples) >= MIN_MOVE
         /\ Sign(buy.side) * ofi_sum(samples) >= MIN_ABS_OFI
         /\ MIN_MOVE > 0 => Sign(buy.side) * Move(samples) > 0
<1>1. Decided(buy) /\ IsRing(samples, seen)
  BY DEF SignalInv, SamplesInv
<1>2. /\ samples # <<>> /\ Window(samples) # {} /\ Span(samples) >= MIN_WINDOW
      /\ Pressure(samples, buy.side)
  BY <1>1 DEF Decided, latest_window
<1>3. Move(samples) \in Int
  BY <1>1, <1>2, ReadingsOfEnd
<1>4. MIN_MOVE \in Nat
  BY SignalAssumption DEF SignalAssumption
<1>5. /\ Magnitude(Move(samples)) >= MIN_MOVE
      /\ buy.side = SideOf(Move(samples))
      /\ Sign(buy.side) * ofi_sum(samples) >= MIN_ABS_OFI
  BY <1>2 DEF Pressure
<1>6. Sign(buy.side) * Move(samples) = Magnitude(Move(samples))
  <2>1. CASE Move(samples) > 0
    <3>1. Sign(buy.side) = 1
      BY <1>5, <2>1 DEF SideOf, Sign
    <3>2. Magnitude(Move(samples)) = Move(samples)
      BY <1>3, <2>1 DEF Magnitude
    <3>3. QED
      BY <1>3, <3>1, <3>2
  <2>2. CASE ~(Move(samples) > 0)
    <3>1. Sign(buy.side) = 0 - 1
      BY <1>5, <2>2 DEF SideOf, Sign
    <3>2. Magnitude(Move(samples)) = 0 - Move(samples)
      BY <1>3, <2>2 DEF Magnitude
    <3>3. QED
      BY <1>3, <3>1, <3>2
  <2>3. QED
    BY <2>1, <2>2
<1>7. Magnitude(Move(samples)) \in Int
  BY <1>3 DEF Magnitude
<1>8. QED
  BY <1>1, <1>2, <1>3, <1>4, <1>5, <1>6, <1>7

(* BuyFollowsPressure for every ring, window and book: decide_latest buys  *)
(* on a move and a flow it measured over all the market did in the window, *)
(* or over the last of it where the window outgrew the ring.               *)
THEOREM EveryBuyFollowsPressure == SignalSpec => []BuyFollowsPressure
<1>1. SignalInv => BuyFollowsPressure
  <2> SUFFICES ASSUME SignalInv, NEW buy \in intent
               PROVE  /\ Last(seen).ts_us - OldestOf(seen, WithinReach(seen)).ts_us >= MIN_WINDOW
                      /\ Sign(buy.side) * (microprice(Last(seen).book)
                                           - microprice(OldestOf(seen, WithinReach(seen)).book)) >= MIN_MOVE
                      /\ Sign(buy.side) * SumFunctionOnSet([i \in DOMAIN seen |-> FlowAt(i)], WithinReach(seen))
                           >= MIN_ABS_OFI
    BY DEF BuyFollowsPressure
  <2>1. /\ samples # <<>> /\ Window(samples) # {} /\ IsRing(samples, seen)
        /\ Span(samples) >= MIN_WINDOW
        /\ Sign(buy.side) * Move(samples) >= MIN_MOVE
        /\ Sign(buy.side) * ofi_sum(samples) >= MIN_ABS_OFI
    BY PressureSigned
  <2>2. /\ Span(samples) = Last(seen).ts_us - OldestOf(seen, WithinReach(seen)).ts_us
        /\ Move(samples) = microprice(Last(seen).book) - microprice(OldestOf(seen, WithinReach(seen)).book)
        /\ ofi_sum(samples) = SumFunctionOnSet([i \in DOMAIN seen |-> FlowIn(seen, i)], WithinReach(seen))
    BY <2>1, ReadingsOfEnd
  <2>3. [i \in DOMAIN seen |-> FlowIn(seen, i)] = [i \in DOMAIN seen |-> FlowAt(i)]
    BY DEF FlowIn, FlowAt
  <2>4. QED
    BY <2>1, <2>2, <2>3
<1>2. QED
  BY <1>1, SignalHolds, PTL

(* EntryAgreesWithExit for every configuration that is as the hypotheses   *)
(* say: what fair_ticks_for_side and opposes_side tell the exit task where *)
(* decide_latest has just bought.                                          *)
THEOREM ExitReadsWhatEntryBought ==
  ASSUME MIN_MOVE > 0, MIN_EDGE >= ENTRY_SLIPPAGE \div 2
  PROVE  SignalSpec => []EntryAgreesWithExit
<1>1. SignalInv => EntryAgreesWithExit
  <2> SUFFICES ASSUME SignalInv, NEW buy \in intent
               PROVE  /\ fair_ticks_for_side(buy.side) = {buy.edge_price + buy.edge_ticks}
                      /\ opposes_side(buy.side) = {FALSE}
                      /\ buy.edge_price + buy.edge_ticks >= buy.limit
    BY DEF EntryAgreesWithExit
  <2>1. Decided(buy)
    BY DEF SignalInv
  <2>2. PICK quote \in Quotes : buy = BuyIntent(buy.side, quote, p_yes) /\ EdgeCovers(buy, quote)
    BY <2>1 DEF Decided
  <2>3. /\ now \in Int /\ p_yes \in Int /\ quote.cutoff \in Int /\ ENTRY_SLIPPAGE \in Nat
        /\ MIN_EDGE \in Int /\ MAX_LAG \in Int /\ MIN_MOVE \in Nat
    BY SignalAssumption DEF SignalInv, SamplesInv, SignalAssumption
  <2>4. latest_window(samples) /\ Fresh(samples)
    BY <2>1, <2>3 DEF Decided, Fresh
  <2>5. prob_yes(strike) = {p_yes}
    BY <2>1 DEF Decided, prob_yes
  <2>6. side_ticks(buy.side, p_yes) \in Int
    BY <2>3 DEF side_ticks, Half
  <2> DEFINE half == (ENTRY_SLIPPAGE + 1) \div 2
             fair == side_ticks(buy.side, p_yes)
  <2>7. /\ half \in Nat /\ ENTRY_SLIPPAGE \div 2 \in Nat
        /\ half + ENTRY_SLIPPAGE \div 2 = ENTRY_SLIPPAGE
    BY <2>3
  <2>8. /\ buy.limit = quote.cutoff + ENTRY_SLIPPAGE
        /\ buy.edge_price = quote.cutoff + half
        /\ buy.edge_ticks = fair - buy.edge_price
        /\ buy.edge_ticks >= MIN_EDGE
    BY <2>2 DEF BuyIntent, EdgeCovers
  <2>9. fair_ticks_for_side(buy.side) = {fair}
    BY <2>4, <2>5 DEF fair_ticks_for_side
  <2> HIDE DEF half, fair
  <2>10. fair \in Int
    BY <2>6 DEF fair
  <2>11. /\ buy.edge_price + buy.edge_ticks = fair
         /\ buy.edge_price + buy.edge_ticks >= buy.limit
    BY <2>3, <2>7, <2>8, <2>10
  <2>12. opposes_side(buy.side) = {FALSE}
    <3>1. Sign(buy.side) * Move(samples) >= MIN_MOVE /\ Move(samples) \in Int
      BY PressureSigned
    <3>2. Sign(buy.side) * Move(samples) \in Int
      BY <3>1 DEF Sign
    <3>3. ~(Sign(buy.side) * Move(samples) <= -MIN_MOVE)
      BY <2>3, <3>1, <3>2
    <3>4. QED
      BY <2>4, <3>3 DEF opposes_side
  <2>13. QED
    BY <2>9, <2>11, <2>12
<1>2. QED
  BY <1>1, SignalHolds, PTL

=============================================================================
