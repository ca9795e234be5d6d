--------------------------- MODULE MarketRotation ---------------------------
(***************************************************************************)
(* The maintenance task's discovery and rotation (main.rs), Gamma's answer *)
(* (gamma.rs) and the strike the Binance callback resolves (anchor.rs).    *)
(*                                                                         *)
(* A market is its slug timestamp; a window lasts WINDOW ticks of one      *)
(* clock.  A rotation takes core (Answered), releases it and takes anchor  *)
(* and core for SetPending; the Binance callback takes anchor, and core    *)
(* inside it once the strike is known.  Between any two of these the other *)
(* task may run.  Every other user of core takes it alone and waits for    *)
(* nothing while it has it.  A strike is the set of the timestamps of the  *)
(* samples it is the median of, {} the strike 0.0 that decides nothing.    *)
(***************************************************************************)
EXTENDS Integers, FiniteSets

CONSTANTS
  WINDOW,          \* length of a market
  PREFETCH,        \* ticks before its end at which the next one is asked for
  RETRY,           \* ticks before a failed rotation is tried again
  PERIOD,          \* ticks between two periodic wake-ups
  GAMMA_LATENCY,   \* ticks within which Gamma answers or the request fails
  PUBLISHED_AHEAD, \* ticks before its start from which Gamma lists a market
  MAX_OUTAGE,      \* ticks Gamma may stay out of reach
  ANCHOR_WINDOW, LATE_DISCOVERY, MAX_LATE,
  HORIZON, MIN_ANCHOR_SAMPLES,   \* of anchor.rs
  LAGS,            \* ticks a Binance sample may be old on arrival
  START,           \* when the program starts
  MaxTime          \* bound: the last tick

NoMarket == -1
Locks == {"anchor", "core"}

ASSUME LengthsAssumption ==
  /\ {WINDOW, PERIOD, RETRY, MIN_ANCHOR_SAMPLES} \subseteq Nat \ {0}
  /\ {PREFETCH, GAMMA_LATENCY, PUBLISHED_AHEAD, MAX_OUTAGE, ANCHOR_WINDOW,
      LATE_DISCOVERY, MAX_LATE, HORIZON, START, MaxTime} \subseteq Nat
  /\ LAGS \subseteq Nat
  /\ LATE_DISCOVERY <= MAX_LATE
(* 300 s - 5 s against 0.3 s + 30 s.                                       *)
ASSUME AnchorEndsBeforeRotation == ANCHOR_WINDOW + MAX_LATE < WINDOW - PREFETCH

VARIABLES
  now,
  market,             \* slug_ts of the active market
  rotation_deadline,  \* when the next rotation query is due
  periodic,           \* when the next periodic wake-up is due
  maint,              \* where the maintenance task is
  query,              \* the query it awaits: [slug, scheduled, since]
  gamma_up,           \* is Gamma reachable
  gamma_for,          \* for how many ticks, counted to 2 * WINDOW + MAX_OUTAGE
  pending_slug_ts,    \* AnchorBuffer
  samples,
  max_ts_seen,
  strike,             \* SignalEngine
  holder,             \* lock -> "callback", "maint" or "none"
  callback,           \* the Binance sample in the callback's hands: none or one
  resolved            \* the strike it resolved and has not set yet, {} if none

maintVars == <<market, rotation_deadline, periodic, maint, query>>
gammaVars == <<gamma_up, gamma_for>>
anchorVars == <<pending_slug_ts, samples, max_ts_seen>>
callbackVars == <<callback, resolved>>
lockVars == <<holder, callbackVars>>
vars == <<now, maintVars, gammaVars, anchorVars, strike, lockVars>>

end_ts(slug) == slug + WINDOW
NoQuery == [slug |-> NoMarket, scheduled |-> FALSE, since |-> 0]

Init ==
  /\ now = START
  /\ market = NoMarket
  /\ rotation_deadline = START
  /\ periodic = START + PERIOD
  /\ maint = "waiting"
  /\ query = NoQuery
  /\ gamma_up = TRUE
  /\ gamma_for = WINDOW
  /\ pending_slug_ts = NoMarket
  /\ samples = {}
  /\ max_ts_seen = -1
  /\ strike = {}
  /\ holder = [lock \in Locks |-> "none"]
  /\ callback = {} /\ resolved = {}

-----------------------------------------------------------------------------
(* The maintenance task wakes: periodic maintenance must not rediscover    *)
(* while a market is active; the mutant does.                              *)
always_discovers(is_rotation) == TRUE

discovers(is_rotation) == is_rotation \/ market = NoMarket

(* GammaClient::slug_ts.                                                   *)
slug_ts(server_ts) == server_ts - (server_ts % WINDOW)

Asks(is_rotation) ==
  IF discovers(is_rotation)
  THEN /\ maint' = "discovering"
       /\ query' = [slug |-> IF is_rotation /\ market # NoMarket
                             THEN end_ts(market) ELSE slug_ts(now),
                    scheduled |-> is_rotation /\ market # NoMarket,
                    since |-> now]
  ELSE UNCHANGED <<maint, query>>

PeriodicTick ==
  /\ maint = "waiting"
  /\ now >= periodic
  /\ periodic' = periodic + PERIOD
  /\ Asks(FALSE)
  /\ UNCHANGED <<now, market, rotation_deadline, gammaVars, anchorVars, strike, lockVars>>

RotationDue ==
  /\ maint = "waiting"
  /\ now >= rotation_deadline
  /\ Asks(TRUE)
  /\ UNCHANGED <<now, market, rotation_deadline, periodic, gammaVars, anchorVars, strike, lockVars>>

(* try_discover_slug: listed, and not expired by the clock of the answer.  *)
(* A market is listed from some time before its start until it closes.     *)
Discoverable(slug) ==
  /\ gamma_up
  /\ now >= slug - PUBLISHED_AHEAD
  /\ now < end_ts(slug)

(* Mutants of NextDeadline: the next market is asked for at once; only     *)
(* when the window after it is over, which is too late for Gamma.          *)
DeadlineLate(slug) == end_ts(slug) + WINDOW

DeadlineAtOnce(slug) == now + 1

NextDeadline(slug) ==
  now + (IF end_ts(slug) - PREFETCH - now > 1 THEN end_ts(slug) - PREFETCH - now ELSE 1)

(* Under the core lock: scope, strike and market change together.  What    *)
(* was asked for is never the active market, so is_new always holds.       *)
Answered ==
  /\ maint = "discovering"
  /\ Discoverable(query.slug)
  /\ market' = query.slug
  /\ rotation_deadline' = NextDeadline(query.slug)
  /\ strike' = {}
  /\ maint' = "rotated"
  /\ query' = NoQuery
  /\ UNCHANGED <<now, periodic, gammaVars, anchorVars, lockVars>>

NotAnswered ==
  /\ maint = "discovering"
  /\ ~Discoverable(query.slug)
  /\ rotation_deadline' = IF query.scheduled THEN now + RETRY ELSE rotation_deadline
  /\ maint' = "waiting"
  /\ query' = NoQuery
  /\ UNCHANGED <<now, market, periodic, gammaVars, anchorVars, strike, lockVars>>

(* Step 4 of the rotation: a lock at a time, anchor before core.           *)
Takes(lock, who) ==
  /\ holder[lock] = "none"
  /\ holder' = [holder EXCEPT ![lock] = who]

Held(who) == {lock \in Locks : holder[lock] = who}
ReleasesAll(who) == holder' = [lock \in Locks |-> IF holder[lock] = who THEN "none" ELSE holder[lock]]

maint_order == <<"anchor", "core">>
MaintNext == {maint_order[Cardinality(Held("maint")) + 1]}

MaintLocks ==
  /\ maint = "rotated" /\ Held("maint") # Locks
  /\ \E lock \in MaintNext : Takes(lock, "maint")
  /\ UNCHANGED <<now, maintVars, gammaVars, anchorVars, strike, callbackVars>>

SetPending ==
  /\ maint = "rotated" /\ Held("maint") = Locks
  /\ pending_slug_ts' = market
  /\ maint' = "waiting"
  /\ ReleasesAll("maint")
  /\ UNCHANGED <<now, market, rotation_deadline, periodic, query, gammaVars,
                 samples, max_ts_seen, strike, callbackVars>>

-----------------------------------------------------------------------------
(* AnchorBuffer.                                                           *)
Pushed(ts) ==
  IF ts <= max_ts_seen THEN samples
  ELSE {s \in samples \cup {ts} : s >= ts - HORIZON}

window_end(slug) == slug + ANCHOR_WINDOW
late_discovery(slug) == now > window_end(slug) + LATE_DISCOVERY

(* Mutant of too_late: a strike may be taken at any later time.            *)
never_too_late(slug) == FALSE

too_late(slug) == late_discovery(slug) /\ now > window_end(slug) + MAX_LATE

(* The samples try_resolve takes the median of.                            *)
Eligible(slug, held) ==
  IF too_late(slug) THEN {}
  ELSE IF late_discovery(slug) THEN {s \in held : s >= slug}
  ELSE {s \in held : s >= slug /\ s <= window_end(slug)}

(* The anchor part of the Binance callback: it takes the anchor lock,      *)
(* pushes its sample and tries to resolve; only a strike needs the core    *)
(* lock too.  Mutant of callback_first: the callback holds core throughout.*)
core_first == "core"

callback_first == "anchor"

CallbackStarts ==
  /\ callback = {}
  /\ Takes(callback_first, "callback")
  /\ \E lag \in LAGS : lag <= now /\ callback' = {now - lag}
  /\ UNCHANGED <<now, maintVars, gammaVars, anchorVars, strike, resolved>>

BinanceTick(ts) ==
  LET held == Pushed(ts)
      chosen == Eligible(pending_slug_ts, held)
      resolves == pending_slug_ts # NoMarket /\ Cardinality(chosen) >= MIN_ANCHOR_SAMPLES
      fails == now > window_end(pending_slug_ts)
  IN  /\ samples' = held
      /\ max_ts_seen' = IF ts > max_ts_seen THEN ts ELSE max_ts_seen
      /\ pending_slug_ts' = IF resolves \/ fails THEN NoMarket ELSE pending_slug_ts
      /\ IF resolves THEN resolved' = chosen /\ UNCHANGED <<callback, holder>>
         ELSE callback' = {} /\ ReleasesAll("callback") /\ UNCHANGED resolved
      /\ UNCHANGED <<now, maintVars, gammaVars, strike>>

PushAndResolve ==
  /\ resolved = {}
  /\ holder["anchor"] \in {"none", "callback"}
  /\ \E ts \in callback : BinanceTick(ts)

SetStrike ==
  /\ resolved # {}
  /\ holder["core"] \in {"none", "callback"}
  /\ strike' = resolved
  /\ callback' = {} /\ resolved' = {}
  /\ ReleasesAll("callback")
  /\ UNCHANGED <<now, maintVars, gammaVars, anchorVars>>

-----------------------------------------------------------------------------
(* Gamma drops out and comes back, outside the repository: for MAX_OUTAGE  *)
(* at most, and a window at least after the last time.                     *)
GammaFails ==
  /\ MAX_OUTAGE > 0
  /\ gamma_up /\ gamma_for >= WINDOW
  /\ gamma_up' = FALSE
  /\ gamma_for' = 0
  /\ UNCHANGED <<now, maintVars, anchorVars, strike, lockVars>>

GammaReturns ==
  /\ ~gamma_up
  /\ gamma_up' = TRUE
  /\ gamma_for' = 0
  /\ UNCHANGED <<now, maintVars, anchorVars, strike, lockVars>>

(* Time passes when nothing is due: a timer that has fired wakes its task, *)
(* a request answers within its latency, an outage ends, and a lock is     *)
(* held for less than a tick.                                              *)
Tick ==
  /\ now < MaxTime
  /\ maint = "waiting" => now < rotation_deadline /\ now < periodic
  /\ maint = "discovering" => now < query.since + GAMMA_LATENCY
  /\ maint # "rotated" /\ callback = {}
  /\ ~gamma_up => gamma_for < MAX_OUTAGE
  /\ now' = now + 1
  /\ gamma_for' = IF gamma_for < 2 * WINDOW + MAX_OUTAGE THEN gamma_for + 1 ELSE gamma_for
  /\ UNCHANGED <<gamma_up, maintVars, anchorVars, strike, lockVars>>

Next ==
  \/ PeriodicTick \/ RotationDue \/ Answered \/ NotAnswered \/ MaintLocks \/ SetPending
  \/ CallbackStarts \/ PushAndResolve \/ SetStrike
  \/ GammaFails \/ GammaReturns
  \/ Tick

Spec == Init /\ [][Next]_vars

-----------------------------------------------------------------------------
(* "Prevents using mid-window (stale) samples": a strike in force is the   *)
(* active market's own, taken from samples at its opening.  It outlives    *)
(* neither its market, nor the gap in a rotation where an unresolved       *)
(* anchor of the old market is still pending, nor the one in the callback  *)
(* where a strike is known and the market changes before core is taken.    *)
StrikeIsOfMarketOpen ==
  \A ts \in strike :
    /\ market # NoMarket
    /\ market <= ts
    /\ ts <= window_end(market) + MAX_LATE

(* "No early next-window promotion": a market is active at the earliest    *)
(* PREFETCH before it opens.                                               *)
NoEarlyPromotion == market # NoMarket => now >= market - PREFETCH

(* "Periodic maintenance must not rediscover while a market is active":    *)
(* the market never goes back to a window that was left, in particular not *)
(* to the current one in the last seconds before the promoted one opens.   *)
MarketOnlyAdvances == [][market' # market => market' > market]_vars

(* "Only trades the current 5-minute window", "no rotation blocker": once  *)
(* Gamma has answered for a whole window again there is a market, and it   *)
(* is not an expired one but for the answer of its own rotation.  A first  *)
(* market may take two answers more: the window a query asks for may end   *)
(* before the answer comes.                                                *)
Recovered ==
  gamma_up /\ gamma_for > WINDOW + 2 * GAMMA_LATENCY =>
    market # NoMarket /\ now <= end_ts(market) + GAMMA_LATENCY

(* "When both anchor and core mutexes must be held simultaneously, ALWAYS  *)
(* acquire anchor first": callback and rotation never wait for each other. *)
Waits(who) ==
  IF who = "maint" THEN IF maint = "rotated" /\ Held("maint") # Locks THEN MaintNext ELSE {}
  ELSE IF callback = {} THEN {} ELSE IF resolved = {} THEN {"anchor"} ELSE {"core"}

NeverBothWait ==
  ~ /\ \E lock \in Waits("maint") : holder[lock] = "callback"
    /\ \E lock \in Waits("callback") : holder[lock] = "maint"

=============================================================================
