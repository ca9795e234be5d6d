----------------------------- MODULE EntryGates -----------------------------
(***************************************************************************)
(* From a Binance sample to a BUY: the market channel's quotes and their   *)
(* history (state.rs), the gates a BuyIntent must pass (runtime.rs) and    *)
(* the round-trip average that the submits themselves feed.                *)
(*                                                                         *)
(* Which samples make an intent, and at what edge, is SignalEngine's       *)
(* choice, left open here; what it reads of the quote is not.  The tokens  *)
(* are the two sides of whatever market is active.  Of a quote and of a    *)
(* history sample only the ask and the time matter to the gates.           *)
(***************************************************************************)
EXTENDS Decision, Sequences, FiniteSets

CONSTANTS
  Tokens,              \* the sides of the active market
  Asks,                \* asks in ticks, NoAsk if the update has none
  Edges,               \* edge_ticks an intent may carry
  Rtts,                \* round trips measured; not positive if the clock steps
  QUOTE_HISTORY_CAP,
  POLY_DRIFT_WINDOW, BLOCK_UP_TICKS, BLOCK_DOWN_TICKS,
  SAFETY_BPS, BPS,     \* the safety factor is SAFETY_BPS / BPS
  MIN_CLEAN_EDGE_TICKS,
  RTT_CEILING,
  RTT_WEIGHT,          \* 2^RTT_EWMA_SHIFT
  UpdatesPerWindow,    \* bound: updates of a token within a drift window
  MaxInFlight          \* bound: submits without an outcome

NoAsk == 0

ASSUME GatesAssumption ==
  /\ Asks \subseteq Nat /\ Edges \subseteq Int /\ Rtts \subseteq Int
  /\ {MAX_QUOTE_AGE, POLY_DRIFT_WINDOW, BLOCK_UP_TICKS, BLOCK_DOWN_TICKS,
      SAFETY_BPS, MIN_CLEAN_EDGE_TICKS, RTT_CEILING, MaxInFlight, MaxTime} \subseteq Nat
  /\ {QUOTE_HISTORY_CAP, BPS, RTT_WEIGHT, UpdatesPerWindow} \subseteq Nat \ {0}

VARIABLES
  trading_active,
  quotes,          \* token -> its last update, for the tokens that have one
  quote_history,   \* token -> its ring
  claims,          \* tokens whose entry claim blocks them
  in_flight,       \* submits without an outcome
  rtt_ewma_us,     \* 0: no sample yet
  book,            \* history: token -> every update of the active market
  rtts             \* history: the positive round trips recorded

stateVars == <<trading_active, quotes, quote_history, book>>
vars == <<now, stateVars, claims, in_flight, rtt_ewma_us, rtts>>

Sample == [ask : Asks, ts_us : 0..MaxTime]
NoHistory == [token \in Tokens |-> <<>>]

Init ==
  /\ now = 0
  /\ trading_active = FALSE
  /\ quotes = [token \in {} |-> 0]
  /\ quote_history = NoHistory
  /\ book = NoHistory
  /\ claims = {}
  /\ in_flight = 0
  /\ rtt_ewma_us = 0
  /\ rtts = {}

-----------------------------------------------------------------------------
(* RuntimeState.                                                           *)
Cleared ==
  /\ quotes' = [token \in {} |-> 0]
  /\ quote_history' = NoHistory
  /\ book' = NoHistory

set_market ==
  /\ trading_active' = TRUE
  /\ Cleared
  /\ claims' = {}
  /\ UNCHANGED <<now, in_flight, rtt_ewma_us, rtts>>

mark_market_inactive ==
  /\ trading_active
  /\ trading_active' = FALSE
  /\ Cleared
  /\ UNCHANGED <<now, claims, in_flight, rtt_ewma_us, rtts>>

(* QuoteRing::push.  The mutant makes room one sample too early.           *)
PushedEarly(ring, sample) ==
  Append(IF Len(ring) >= QUOTE_HISTORY_CAP - 1 THEN Tail(ring) ELSE ring, sample)

Pushed(ring, sample) ==
  Append(IF Len(ring) >= QUOTE_HISTORY_CAP THEN Tail(ring) ELSE ring, sample)

InWindow(samples) ==
  {i \in DOMAIN samples : samples[i].ts_us >= now - POLY_DRIFT_WINDOW}

update_quote(token, ask) ==
  LET sample == [ask |-> ask, ts_us |-> now] IN
  /\ trading_active
  /\ Cardinality(InWindow(book[token])) < UpdatesPerWindow
  /\ quotes' = [t \in DOMAIN quotes \cup {token} |-> IF t = token THEN sample ELSE quotes[t]]
  /\ quote_history' = [quote_history EXCEPT ![token] = Pushed(@, sample)]
  /\ book' = [book EXCEPT ![token] = Append(@, sample)]
  /\ UNCHANGED <<now, trading_active, claims, in_flight, rtt_ewma_us, rtts>>

-----------------------------------------------------------------------------
(* RuntimeCore::record_rtt: `>>` floors.  Its mutant has no first sample.  *)
blended_from_zero(rtt) == rtt_ewma_us + ((rtt - rtt_ewma_us) \div RTT_WEIGHT)

ewma_after(rtt) ==
  IF rtt_ewma_us = 0 THEN rtt ELSE rtt_ewma_us + ((rtt - rtt_ewma_us) \div RTT_WEIGHT)

record_rtt(rtt) ==
  IF rtt > 0
  THEN rtt_ewma_us' = ewma_after(rtt) /\ rtts' = rtts \cup {rtt}
  ELSE UNCHANGED <<rtt_ewma_us, rtts>>

(* The submit task has its outcome.  A rejected BUY releases its token at  *)
(* once, another one later; an old market's claim is gone already.         *)
SubmitOutcome(rtt) ==
  /\ in_flight > 0
  /\ in_flight' = in_flight - 1
  /\ claims' \in {claims} \cup {claims \ {token} : token \in claims}
  /\ record_rtt(rtt)
  /\ UNCHANGED <<now, stateVars>>

-----------------------------------------------------------------------------
(* entry_gate_block.  Its mutant forgets the ceiling.                      *)
rtt_ewma_high == RTT_CEILING > 0 /\ rtt_ewma_us > RTT_CEILING

FirstOf(samples) ==
  {samples[i] : i \in {j \in InWindow(samples) : \A k \in InWindow(samples) : j <= k}}

(* quote_history_oldest_since, the samples that have an ask: none or one.  *)
oldest_since(token) == {past \in FirstOf(quote_history[token]) : past.ask # NoAsk}

poly_drift(drift_ticks) ==
  \/ BLOCK_UP_TICKS > 0 /\ drift_ticks >= BLOCK_UP_TICKS
  \/ BLOCK_DOWN_TICKS > 0 /\ drift_ticks <= -BLOCK_DOWN_TICKS

(* Ticks the ask moves in flight at the speed seen, rounded up; the mutant *)
(* rounds down.                                                            *)
drift_rounded_down(drift_ticks, dt_us) ==
  (Magnitude(drift_ticks) * rtt_ewma_us * SAFETY_BPS) \div (dt_us * BPS)

required_drift(drift_ticks, dt_us) ==
  (Magnitude(drift_ticks) * rtt_ewma_us * SAFETY_BPS + dt_us * BPS - 1) \div (dt_us * BPS)

edge_insufficient(edge_ticks, drift_ticks, dt_us) ==
  /\ SAFETY_BPS > 0 /\ rtt_ewma_us > 0 /\ dt_us > 0
  /\ edge_ticks < required_drift(drift_ticks, dt_us) + MIN_CLEAN_EDGE_TICKS

drift_gates(token, edge_ticks) ==
  /\ POLY_DRIFT_WINDOW > 0
  /\ \E past \in oldest_since(token) :
       LET drift_ticks == quotes[token].ask - past.ask IN
       \/ poly_drift(drift_ticks)
       \/ edge_insufficient(edge_ticks, drift_ticks, now - past.ts_us)

entry_gate_block(token, edge_ticks) == rtt_ewma_high \/ drift_gates(token, edge_ticks)

(* The Binance callback: both sides quoted, an intent on a fresh ask, no   *)
(* exposure, no gate; then the claim, in the same lock scope.              *)
BuySignal(token, edge_ticks) ==
  /\ trading_active
  /\ DOMAIN quotes = Tokens
  /\ quotes[token].ask # NoAsk
  /\ now - quotes[token].ts_us <= MAX_QUOTE_AGE
  /\ token \notin claims
  /\ ~entry_gate_block(token, edge_ticks)
  /\ in_flight < MaxInFlight
  /\ in_flight' = in_flight + 1
  /\ claims' = claims \cup {token}
  /\ UNCHANGED <<now, stateVars, rtt_ewma_us, rtts>>

Tick ==
  /\ now < MaxTime
  /\ now' = now + 1
  /\ UNCHANGED <<stateVars, claims, in_flight, rtt_ewma_us, rtts>>

Next ==
  \/ set_market \/ mark_market_inactive
  \/ \E token \in Tokens, ask \in Asks : update_quote(token, ask)
  \/ \E token \in Tokens, edge_ticks \in Edges : BuySignal(token, edge_ticks)
  \/ \E rtt \in Rtts : SubmitOutcome(rtt)
  \/ Tick

Spec == Init /\ [][Next]_vars

-----------------------------------------------------------------------------
(* The average lies among the round trips it is made of, whatever their    *)
(* order and however the shift rounds, and never falls back to the 0 that  *)
(* means "no samples yet" to every gate.                                   *)
EwmaAmongSamples ==
  /\ rtts = {} => rtt_ewma_us = 0
  /\ rtts # {} => /\ rtt_ewma_us > 0
                  /\ \E rtt \in rtts : rtt <= rtt_ewma_us
                  /\ \E rtt \in rtts : rtt >= rtt_ewma_us

(* Only a submit measures a round trip, and the ceiling stops the submits: *)
(* once the average is above it with no submit in flight, no BUY is made   *)
(* and the average never comes down again, over rotations too.             *)
Latched == rtt_ewma_high /\ in_flight = 0

CeilingLatches == [][Latched => Latched']_vars

(* The first update of the window or, in a busy one, the first of its last *)
(* QUOTE_HISTORY_CAP: what a ring of that many slots can know of it.       *)
FirstWithinReach(token) ==
  LET all == book[token]
      recent == {i \in InWindow(all) : i > Len(all) - QUOTE_HISTORY_CAP}
  IN  {all[i] : i \in {j \in recent : \A k \in recent : j <= k}}

(* "Compares the current ask against the oldest ask at-or-after now -      *)
(* window": no BUY is claimed on a token whose ask moved by the blocking   *)
(* distance since the first update of the window, as far back as the ring  *)
(* reaches.                                                                *)
DriftSinceFirstBlocks ==
  [][\A token \in Tokens :
       token \in claims' \ claims =>
         \A first \in FirstWithinReach(token) :
           first.ask # NoAsk => ~poly_drift(quotes[token].ask - first.ask)]_vars

(* "If the signal edge does not cover that drift plus a clean-profit floor,*)
(* the entry is suppressed": the edge left after the floor is at least the *)
(* distance the ask runs in flight at the speed it ran since that update.  *)
EdgeCoversFlight ==
  [][\A token \in Tokens, edge_ticks \in Edges :
       BuySignal(token, edge_ticks) =>
         \A first \in FirstWithinReach(token) :
           LET dt_us == now - first.ts_us
               drift_ticks == Magnitude(quotes[token].ask - first.ask)
           IN  first.ask # NoAsk /\ dt_us > 0 /\ SAFETY_BPS > 0 /\ rtt_ewma_us > 0 =>
                 (edge_ticks - MIN_CLEAN_EDGE_TICKS) * dt_us * BPS
                   >= drift_ticks * rtt_ewma_us * SAFETY_BPS]_vars

=============================================================================
