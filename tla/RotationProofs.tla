--------------------------- MODULE RotationProofs ---------------------------
(***************************************************************************)
(* Theorems about MarketRotation, for every length, lag and outage, and    *)
(* about UserFeed, which follows its rotations.                            *)
(*                                                                         *)
(* The first follow from the clock: the task leaves a market only in its   *)
(* last PREFETCH ticks, and a strike is resolved before them.  Leaves says *)
(* the one, PendingIsMarket and ResolvesInTime the other, the latter of    *)
(* the strike between the two locks of the callback.  Recovery is the next *)
(* part: RecoveryInv bounds when the next query is asked by the end of the *)
(* market and by Gamma's return.                                           *)
(***************************************************************************)
EXTENDS MarketRotation, UserFeed, FiniteSetTheorems, SequenceTheorems, TLAPS

ClockType ==
  /\ now \in Nat
  /\ market \in Nat \cup {NoMarket}
  /\ rotation_deadline \in Int
  /\ query.slug \in Int
  /\ maint \in {"waiting", "discovering", "rotated"}
  /\ pending_slug_ts \in Nat \cup {NoMarket}
  /\ samples \in SUBSET Int /\ max_ts_seen \in Int
  /\ callback \in SUBSET Int
  /\ \A ts \in callback \cup samples : ts <= now

(* A market is left in its last PREFETCH ticks, for the next one.          *)
Closing == now >= end_ts(market) - PREFETCH

Leaves ==
  /\ market # NoMarket => rotation_deadline >= end_ts(market) - PREFETCH
  /\ maint = "discovering" =>
       /\ query.slug \in Nat /\ now >= query.slug - PREFETCH
       /\ market # NoMarket => Closing /\ query.slug = end_ts(market)

(* The anchor pending is the active market's, or no strike's any more.     *)
PendingIsMarket ==
  pending_slug_ts # NoMarket =>
    pending_slug_ts = market \/ now >= end_ts(pending_slug_ts) - PREFETCH

OfOpening(ts) == market # NoMarket /\ market <= ts /\ ts <= window_end(market) + MAX_LATE

ResolvesInTime ==
  resolved # {} =>
    /\ callback # {} /\ market # NoMarket
    /\ now <= window_end(market) + MAX_LATE
    /\ \A ts \in resolved : OfOpening(ts)

(* The callback never has core to itself while it waits for anything.      *)
CoreIsFree ==
  /\ holder \in [Locks -> {"callback", "maint", "none"}]
  /\ holder["core"] # "callback"

RotationInv ==
  /\ ClockType /\ Leaves /\ PendingIsMarket /\ ResolvesInTime /\ CoreIsFree
  /\ StrikeIsOfMarketOpen /\ NoEarlyPromotion

-----------------------------------------------------------------------------
(* The lengths, one by one.                                                *)
LEMMA Lengths ==
  /\ WINDOW \in Nat /\ WINDOW > 0 /\ PREFETCH \in Nat /\ RETRY \in Nat /\ PERIOD \in Nat
  /\ ANCHOR_WINDOW \in Nat /\ LATE_DISCOVERY \in Nat /\ MAX_LATE \in Nat /\ START \in Nat
  /\ LATE_DISCOVERY <= MAX_LATE
  /\ ANCHOR_WINDOW + MAX_LATE < WINDOW - PREFETCH
  /\ LAGS \subseteq Nat
<1>1. QED
  BY LengthsAssumption, AnchorEndsBeforeRotation

(* GammaClient::slug_ts: the window the clock is in, which has begun.      *)
LEMMA SlugBegins ==
  ASSUME NEW t \in Nat
  PROVE  slug_ts(t) \in Nat /\ slug_ts(t) <= t
<1>1. WINDOW \in Nat /\ WINDOW > 0
  BY Lengths
<1>2. t = WINDOW * (t \div WINDOW) + (t % WINDOW) /\ t \div WINDOW \in Nat /\ t % WINDOW \in Nat
  BY <1>1
<1>3. WINDOW * (t \div WINDOW) \in Nat
  BY <1>1, <1>2
<1>4. QED
  BY <1>2, <1>3 DEF slug_ts

(* What a query asks for can be active at once.                            *)
LEMMA AsksInTime ==
  ASSUME RotationInv, maint = "waiting",
         \/ Asks(TRUE) /\ now >= rotation_deadline
         \/ Asks(FALSE),
         now' = now, market' = market, rotation_deadline' = rotation_deadline
  PROVE  /\ Leaves'
         /\ maint' \in {"waiting", "discovering"} /\ query'.slug \in Int
<1> USE Lengths DEF Leaves, Closing, end_ts, NoMarket
<1>1. /\ now \in Nat /\ market \in Nat \cup {NoMarket} /\ rotation_deadline \in Int
      /\ query.slug \in Int /\ Leaves
  BY DEF RotationInv, ClockType
<1>2. slug_ts(now) \in Nat /\ slug_ts(now) <= now
  BY <1>1, SlugBegins
<1>3. CASE Asks(TRUE) /\ now >= rotation_deadline /\ market # NoMarket
  <2>1. maint' = "discovering" /\ query' = [slug |-> end_ts(market), scheduled |-> TRUE, since |-> now]
    BY <1>3 DEF Asks, discovers
  <2>2. query'.slug = market + WINDOW
    BY <2>1
  <2>3. QED
    BY <1>1, <1>3, <2>1, <2>2
<1>4. CASE market = NoMarket
  <2>1. /\ maint' = "discovering"
        /\ query' = [slug |-> slug_ts(now), scheduled |-> FALSE, since |-> now]
    BY <1>4 DEF Asks, discovers
  <2>2. query'.slug = slug_ts(now)
    BY <2>1
  <2>3. QED
    BY <1>1, <1>2, <1>4, <2>1, <2>2
<1>5. CASE Asks(FALSE) /\ market # NoMarket
  <2>1. maint' = maint /\ query' = query
    BY <1>5 DEF Asks, discovers
  <2>2. QED
    BY <1>1, <1>5, <2>1
<1>6. QED
  BY <1>3, <1>4, <1>5

(* try_resolve: what it takes of the samples held is of the opening, and   *)
(* only while the opening is.                                              *)
LEMMA EligibleIsOpening ==
  ASSUME NEW slug \in Nat, NEW held \in SUBSET Int, now \in Nat,
         \A ts \in held : ts <= now, NEW ts \in Eligible(slug, held)
  PROVE  /\ ts \in Int /\ slug <= ts /\ ts <= window_end(slug) + MAX_LATE
         /\ now <= window_end(slug) + MAX_LATE
<1> USE Lengths DEF window_end
<1>1. /\ ~too_late(slug) /\ ts \in held /\ ts >= slug
      /\ ~late_discovery(slug) => ts <= window_end(slug)
  BY DEF Eligible
<1>2. CASE late_discovery(slug)
  BY <1>1, <1>2 DEF late_discovery, too_late
<1>3. CASE ~late_discovery(slug)
  BY <1>1, <1>3 DEF late_discovery
<1>4. QED
  BY <1>2, <1>3

-----------------------------------------------------------------------------
(* The invariant holds at the start.                                       *)
LEMMA RotationStart == Init => RotationInv
<1> SUFFICES ASSUME Init PROVE RotationInv
  OBVIOUS
<1> USE Lengths DEF Init, NoMarket
<1>1. ClockType
  BY DEF ClockType, NoQuery
<1>2. Leaves /\ PendingIsMarket /\ ResolvesInTime
  BY DEF Leaves, PendingIsMarket, ResolvesInTime
<1>3. CoreIsFree
  BY DEF CoreIsFree, Locks
<1>4. StrikeIsOfMarketOpen /\ NoEarlyPromotion
  BY DEF StrikeIsOfMarketOpen, NoEarlyPromotion
<1>5. QED
  BY <1>1, <1>2, <1>3, <1>4 DEF RotationInv

(* A step that changes neither lock keeps who may hold core.               *)
LEMMA LocksStep == RotationInv /\ [Next]_vars => CoreIsFree'
<1> SUFFICES ASSUME RotationInv, [Next]_vars PROVE CoreIsFree'
  OBVIOUS
<1> USE DEF RotationInv, CoreIsFree, Locks
<1>1. CASE UNCHANGED holder
  BY <1>1
<1>2. CASE MaintLocks
  BY <1>2 DEF MaintLocks, Takes
<1>3. CASE CallbackStarts
  BY <1>3 DEF CallbackStarts, Takes, callback_first
<1>4. CASE SetPending
  BY <1>4 DEF SetPending, ReleasesAll
<1>5. CASE PushAndResolve
  BY <1>5 DEF PushAndResolve, BinanceTick, ReleasesAll
<1>6. CASE SetStrike
  BY <1>6 DEF SetStrike, ReleasesAll
<1>7. QED
  BY <1>1, <1>2, <1>3, <1>4, <1>5, <1>6
     DEF Next, vars, lockVars, PeriodicTick, RotationDue, Answered, NotAnswered,
         GammaFails, GammaReturns, Tick

(* What the parts of the invariant other than the clock's own are made of. *)
Clock == <<now, market, rotation_deadline, query, maint, pending_slug_ts, samples, max_ts_seen,
           callback, resolved, strike>>

LEMMA ClockStutter ==
  ASSUME RotationInv, UNCHANGED Clock, CoreIsFree'
  PROVE  RotationInv'
<1> USE DEF RotationInv, Clock
<1>1. ClockType' /\ Leaves' /\ PendingIsMarket'
  BY DEF ClockType, Leaves, Closing, PendingIsMarket
<1>2. ResolvesInTime' /\ StrikeIsOfMarketOpen' /\ NoEarlyPromotion'
  BY DEF ResolvesInTime, OfOpening, StrikeIsOfMarketOpen, NoEarlyPromotion
<1>3. QED
  BY <1>1, <1>2

(* The task wakes and asks, or goes back to sleep.                         *)
LEMMA WakesStep ==
  ASSUME RotationInv, CoreIsFree', PeriodicTick \/ RotationDue
  PROVE  RotationInv'
<1>1. /\ UNCHANGED <<now, market, rotation_deadline, pending_slug_ts, samples, max_ts_seen,
                     callback, resolved, strike>>
      /\ maint = "waiting"
      /\ (Asks(TRUE) /\ now >= rotation_deadline) \/ Asks(FALSE)
  BY DEF PeriodicTick, RotationDue, anchorVars, lockVars, callbackVars
<1>2. /\ Leaves' /\ maint' \in {"waiting", "discovering"} /\ query'.slug \in Int
  BY <1>1, AsksInTime
<1>3. ClockType'
  BY <1>1, <1>2 DEF RotationInv, ClockType
<1>4. PendingIsMarket' /\ ResolvesInTime'
  BY <1>1 DEF RotationInv, PendingIsMarket, ResolvesInTime, OfOpening
<1>5. StrikeIsOfMarketOpen' /\ NoEarlyPromotion'
  BY <1>1 DEF RotationInv, StrikeIsOfMarketOpen, NoEarlyPromotion
<1>6. QED
  BY <1>2, <1>3, <1>4, <1>5 DEF RotationInv

(* A promotion: only a market in its last ticks is left, so no strike is   *)
(* on its way to it, and its anchor is out of time.                        *)
LEMMA AnsweredStep ==
  ASSUME RotationInv, CoreIsFree', Answered
  PROVE  /\ RotationInv'
         /\ market' # market => market' > market
<1> USE Lengths DEF end_ts, NoMarket
<1>1. /\ now \in Nat /\ market \in Nat \cup {NoMarket} /\ pending_slug_ts \in Nat \cup {NoMarket}
      /\ maint = "discovering"
      /\ market' = query.slug /\ strike' = {} /\ maint' = "rotated" /\ query' = NoQuery
      /\ rotation_deadline' = NextDeadline(query.slug)
      /\ UNCHANGED <<now, pending_slug_ts, samples, max_ts_seen, callback, resolved>>
  BY DEF RotationInv, ClockType, Answered, anchorVars, lockVars, callbackVars
<1>2. /\ query.slug \in Nat /\ now >= query.slug - PREFETCH
      /\ market # NoMarket => now >= market + WINDOW - PREFETCH /\ query.slug = market + WINDOW
  BY <1>1 DEF RotationInv, Leaves, Closing
<1>3. rotation_deadline' \in Int /\ rotation_deadline' >= market' + WINDOW - PREFETCH
  BY <1>1, <1>2 DEF NextDeadline
<1>4. query'.slug = NoMarket
  BY <1>1 DEF NoQuery
<1>5. ClockType'
  <2>1. market' \in Nat /\ maint' = "rotated" /\ query'.slug \in Int
    BY <1>1, <1>2, <1>4
  <2>2. QED
    BY <1>1, <1>3, <2>1 DEF RotationInv, ClockType
<1>6. Leaves'
  <2>1. maint' # "discovering"
    BY <1>1
  <2>2. QED
    BY <1>1, <1>2, <1>3, <2>1 DEF Leaves, Closing
<1>7. PendingIsMarket'
  BY <1>1, <1>2 DEF RotationInv, PendingIsMarket
<1>8. resolved = {}
  BY <1>1, <1>2 DEF RotationInv, ResolvesInTime, window_end
<1>9. ResolvesInTime' /\ StrikeIsOfMarketOpen'
  BY <1>1, <1>8 DEF ResolvesInTime, StrikeIsOfMarketOpen
<1>10. NoEarlyPromotion'
  BY <1>1, <1>2 DEF NoEarlyPromotion
<1>11. market' # market => market' > market
  BY <1>1, <1>2
<1>12. QED
  BY <1>5, <1>6, <1>7, <1>9, <1>10, <1>11 DEF RotationInv

(* A failed query delays the next one.                                     *)
LEMMA NotAnsweredStep ==
  ASSUME RotationInv, CoreIsFree', NotAnswered
  PROVE  RotationInv'
<1> USE Lengths DEF end_ts, NoMarket
<1>1. /\ now \in Nat /\ market \in Nat \cup {NoMarket} /\ rotation_deadline \in Int
      /\ maint = "discovering" /\ maint' = "waiting" /\ query' = NoQuery
      /\ rotation_deadline' = IF query.scheduled THEN now + RETRY ELSE rotation_deadline
      /\ UNCHANGED <<now, market, pending_slug_ts, samples, max_ts_seen, callback, resolved, strike>>
  BY DEF RotationInv, ClockType, NotAnswered, anchorVars, lockVars, callbackVars
<1>2. /\ rotation_deadline' \in Int
      /\ market # NoMarket => rotation_deadline' >= market + WINDOW - PREFETCH
  <2>1. market # NoMarket => /\ now >= market + WINDOW - PREFETCH
                             /\ rotation_deadline >= market + WINDOW - PREFETCH
    BY <1>1 DEF RotationInv, Leaves, Closing
  <2>2. rotation_deadline' = now + RETRY \/ rotation_deadline' = rotation_deadline
    BY <1>1
  <2>3. QED
    BY <1>1, <2>1, <2>2
<1>3. query'.slug = NoMarket
  BY <1>1 DEF NoQuery
<1>4. ClockType' /\ Leaves'
  <2>1. maint' = "waiting" /\ query'.slug \in Int
    BY <1>1, <1>3
  <2>2. ClockType'
    BY <1>1, <1>2, <2>1 DEF RotationInv, ClockType
  <2>3. Leaves'
    BY <1>1, <1>2, <2>1 DEF Leaves, Closing
  <2>4. QED
    BY <2>2, <2>3
<1>5. PendingIsMarket' /\ ResolvesInTime'
  BY <1>1 DEF RotationInv, PendingIsMarket, ResolvesInTime, OfOpening
<1>6. StrikeIsOfMarketOpen' /\ NoEarlyPromotion'
  BY <1>1 DEF RotationInv, StrikeIsOfMarketOpen, NoEarlyPromotion
<1>7. QED
  BY <1>4, <1>5, <1>6 DEF RotationInv

(* The anchor is told of the market the promotion set.                     *)
LEMMA SetPendingStep ==
  ASSUME RotationInv, CoreIsFree', SetPending
  PROVE  RotationInv'
<1>1. /\ pending_slug_ts' = market /\ maint' = "waiting"
      /\ UNCHANGED <<now, market, rotation_deadline, query, samples, max_ts_seen, callback,
                     resolved, strike>>
  BY DEF SetPending, gammaVars, callbackVars
<1>2. ClockType' /\ Leaves'
  BY <1>1 DEF RotationInv, ClockType, Leaves
<1>3. PendingIsMarket' /\ ResolvesInTime'
  BY <1>1 DEF RotationInv, PendingIsMarket, ResolvesInTime, OfOpening
<1>4. StrikeIsOfMarketOpen' /\ NoEarlyPromotion'
  BY <1>1 DEF RotationInv, StrikeIsOfMarketOpen, NoEarlyPromotion
<1>5. QED
  BY <1>2, <1>3, <1>4 DEF RotationInv

-----------------------------------------------------------------------------
(* A sample arrives, no younger than the clock.                            *)
LEMMA CallbackStartsStep ==
  ASSUME RotationInv, CoreIsFree', CallbackStarts
  PROVE  RotationInv'
<1>1. /\ callback = {}
      /\ UNCHANGED <<now, market, rotation_deadline, query, maint, pending_slug_ts, samples,
                     max_ts_seen, resolved, strike>>
  BY DEF CallbackStarts, maintVars, gammaVars, anchorVars
<1>2. PICK lag \in LAGS : lag <= now /\ callback' = {now - lag}
  BY DEF CallbackStarts
<1>3. resolved = {}
  BY <1>1 DEF RotationInv, ResolvesInTime
<1>4. callback' \in SUBSET Int /\ \A ts \in callback' : ts <= now
  BY <1>2, LengthsAssumption DEF RotationInv, ClockType
<1>5. ClockType' /\ Leaves'
  BY <1>1, <1>4 DEF RotationInv, ClockType, Leaves, Closing
<1>6. PendingIsMarket' /\ ResolvesInTime'
  BY <1>1, <1>3 DEF RotationInv, PendingIsMarket, ResolvesInTime
<1>7. StrikeIsOfMarketOpen' /\ NoEarlyPromotion'
  BY <1>1 DEF RotationInv, StrikeIsOfMarketOpen, NoEarlyPromotion
<1>8. QED
  BY <1>5, <1>6, <1>7 DEF RotationInv

(* The anchor takes the sample; what it resolves is the active market's,   *)
(* as the opening of the one pending is not over.                          *)
LEMMA PushStep ==
  ASSUME RotationInv, CoreIsFree', PushAndResolve
  PROVE  RotationInv'
<1> USE Lengths DEF NoMarket
<1>1. PICK ts \in callback : BinanceTick(ts)
  BY DEF PushAndResolve
<1>2. /\ resolved = {}
      /\ UNCHANGED <<now, market, rotation_deadline, query, maint, strike>>
      /\ samples' = Pushed(ts)
      /\ max_ts_seen' = IF ts > max_ts_seen THEN ts ELSE max_ts_seen
      /\ pending_slug_ts' \in {NoMarket, pending_slug_ts}
  BY <1>1 DEF PushAndResolve, BinanceTick, maintVars, gammaVars
<1>3. /\ now \in Nat /\ ts \in Int /\ ts <= now /\ samples \in SUBSET Int /\ callback \in SUBSET Int
      /\ max_ts_seen \in Int /\ pending_slug_ts \in Nat \cup {NoMarket}
      /\ \A s \in callback \cup samples : s <= now
  BY <1>1 DEF RotationInv, ClockType
<1>4. Pushed(ts) \in SUBSET Int /\ \A s \in Pushed(ts) : s <= now
  BY <1>3 DEF Pushed
<1>5. \/ callback' = {} /\ resolved' = {}
      \/ /\ callback' = callback /\ pending_slug_ts # NoMarket
         /\ resolved' = Eligible(pending_slug_ts, Pushed(ts))
         /\ Cardinality(resolved') >= MIN_ANCHOR_SAMPLES
  BY <1>1, <1>2 DEF BinanceTick
<1>6. ClockType'
  <2>1. callback' \in SUBSET Int /\ \A s \in callback' : s <= now'
    BY <1>2, <1>3, <1>5
  <2>2. samples' \in SUBSET Int /\ \A s \in samples' : s <= now'
    BY <1>2, <1>4
  <2>3. max_ts_seen' \in Int /\ pending_slug_ts' \in Nat \cup {NoMarket}
    BY <1>2, <1>3
  <2>4. QED
    BY <1>2, <2>1, <2>2, <2>3 DEF RotationInv, ClockType
<1>7. Leaves' /\ PendingIsMarket'
  BY <1>2 DEF RotationInv, Leaves, Closing, PendingIsMarket
<1>8. ResolvesInTime'
  <2> SUFFICES ASSUME resolved' # {} PROVE ResolvesInTime'
    BY DEF ResolvesInTime
  <2>1. /\ callback' = callback /\ pending_slug_ts \in Nat
        /\ resolved' = Eligible(pending_slug_ts, Pushed(ts))
    BY <1>3, <1>5
  <2>2. /\ now <= window_end(pending_slug_ts) + MAX_LATE
        /\ \A s \in resolved' : /\ pending_slug_ts <= s
                                /\ s <= window_end(pending_slug_ts) + MAX_LATE
    BY <1>3, <1>4, <2>1, EligibleIsOpening
  <2>3. ~ (now >= end_ts(pending_slug_ts) - PREFETCH)
    BY <1>3, <2>1, <2>2 DEF window_end, end_ts
  <2>4. pending_slug_ts = market
    BY <2>1, <2>3 DEF RotationInv, PendingIsMarket
  <2>5. market' = pending_slug_ts /\ market' # NoMarket /\ now' = now /\ callback' # {}
    BY <1>1, <1>2, <2>1, <2>4
  <2>6. QED
    BY <2>2, <2>5 DEF ResolvesInTime, OfOpening, window_end
<1>9. StrikeIsOfMarketOpen' /\ NoEarlyPromotion'
  BY <1>2 DEF RotationInv, StrikeIsOfMarketOpen, NoEarlyPromotion
<1>10. QED
  BY <1>6, <1>7, <1>8, <1>9 DEF RotationInv

(* The strike set is the one resolved, and the market has not changed.     *)
LEMMA SetStrikeStep ==
  ASSUME RotationInv, CoreIsFree', SetStrike
  PROVE  RotationInv'
<1>1. /\ resolved # {} /\ strike' = resolved /\ callback' = {} /\ resolved' = {}
      /\ UNCHANGED <<now, market, rotation_deadline, query, maint, pending_slug_ts, samples,
                     max_ts_seen>>
  BY DEF SetStrike, maintVars, gammaVars, anchorVars
<1>2. ClockType' /\ Leaves'
  BY <1>1 DEF RotationInv, ClockType, Leaves, Closing
<1>3. PendingIsMarket' /\ ResolvesInTime'
  BY <1>1 DEF RotationInv, PendingIsMarket, ResolvesInTime
<1>4. StrikeIsOfMarketOpen' /\ NoEarlyPromotion'
  BY <1>1 DEF RotationInv, ResolvesInTime, OfOpening, StrikeIsOfMarketOpen, NoEarlyPromotion
<1>5. QED
  BY <1>2, <1>3, <1>4 DEF RotationInv

(* Time passes with no strike between the two locks.                       *)
LEMMA TickStep ==
  ASSUME RotationInv, CoreIsFree', Tick
  PROVE  RotationInv'
<1> USE Lengths DEF NoMarket, end_ts
<1>1. /\ callback = {} /\ now' = now + 1
      /\ UNCHANGED <<market, rotation_deadline, query, maint, pending_slug_ts, samples,
                     max_ts_seen, callback, resolved, strike>>
  BY DEF Tick, maintVars, anchorVars, lockVars, callbackVars
<1>2. /\ now \in Nat /\ market \in Nat \cup {NoMarket} /\ query.slug \in Int
      /\ pending_slug_ts \in Nat \cup {NoMarket} /\ samples \in SUBSET Int
      /\ \A ts \in samples : ts <= now
  BY DEF RotationInv, ClockType
<1>3. now' \in Nat /\ (\A ts \in samples' : ts <= now') /\ resolved = {}
  <2>1. resolved = {}
    BY <1>1 DEF RotationInv, ResolvesInTime
  <2>2. QED
    BY <1>1, <1>2, <2>1
<1>4. ClockType'
  BY <1>1, <1>3 DEF RotationInv, ClockType
<1>5. Leaves'
  BY <1>1, <1>2 DEF RotationInv, Leaves, Closing
<1>6. PendingIsMarket' /\ ResolvesInTime'
  BY <1>1, <1>2, <1>3 DEF RotationInv, PendingIsMarket, ResolvesInTime
<1>7. StrikeIsOfMarketOpen'
  BY <1>1 DEF RotationInv, StrikeIsOfMarketOpen
<1>8. NoEarlyPromotion'
  BY <1>1, <1>2 DEF RotationInv, NoEarlyPromotion
<1>9. QED
  BY <1>4, <1>5, <1>6, <1>7, <1>8 DEF RotationInv

-----------------------------------------------------------------------------
(* Every step keeps the invariant, and only a promotion moves the market,  *)
(* onwards.                                                                *)
LEMMA RotationStep ==
  ASSUME RotationInv, [Next]_vars
  PROVE  /\ RotationInv'
         /\ market' # market => market' > market
<1>1. CoreIsFree'
  BY LocksStep
<1>2. CASE PeriodicTick \/ RotationDue
  BY <1>1, <1>2, WakesStep DEF PeriodicTick, RotationDue
<1>3. CASE Answered
  BY <1>1, <1>3, AnsweredStep
<1>4. CASE NotAnswered
  BY <1>1, <1>4, NotAnsweredStep DEF NotAnswered
<1>5. CASE SetPending
  BY <1>1, <1>5, SetPendingStep DEF SetPending
<1>6. CASE CallbackStarts
  BY <1>1, <1>6, CallbackStartsStep DEF CallbackStarts, maintVars
<1>7. CASE PushAndResolve
  BY <1>1, <1>7, PushStep DEF PushAndResolve, BinanceTick, maintVars
<1>8. CASE SetStrike
  BY <1>1, <1>8, SetStrikeStep DEF SetStrike, maintVars
<1>9. CASE Tick
  BY <1>1, <1>9, TickStep DEF Tick, maintVars
<1>10. CASE MaintLocks \/ GammaFails \/ GammaReturns \/ UNCHANGED vars
  <2>1. UNCHANGED Clock
    BY <1>10 DEF MaintLocks, GammaFails, GammaReturns, vars, maintVars, anchorVars, lockVars,
                 callbackVars, Clock
  <2>2. QED
    BY <1>1, <2>1, ClockStutter DEF Clock
<1>11. QED
  BY <1>2, <1>3, <1>4, <1>5, <1>6, <1>7, <1>8, <1>9, <1>10 DEF Next

LEMMA RotationInvariant == Spec => []RotationInv
<1>1. RotationInv /\ [Next]_vars => RotationInv'
  BY RotationStep
<1>2. QED
  BY RotationStart, <1>1, PTL DEF Spec

(* The strike in force is the active market's, of samples at its opening:  *)
(* neither a slow rotation nor a strike caught between the two locks of    *)
(* the callback gives a market the strike of another.                      *)
THEOREM StrikeAlwaysOfMarketOpen == Spec => []StrikeIsOfMarketOpen
<1>1. RotationInv => StrikeIsOfMarketOpen
  BY DEF RotationInv
<1>2. QED
  BY RotationInvariant, <1>1, PTL

(* No market is promoted more than PREFETCH before it opens, whichever     *)
(* wake-up asked for it and however late the answer is.                    *)
THEOREM NeverPromotedEarly == Spec => []NoEarlyPromotion
<1>1. RotationInv => NoEarlyPromotion
  BY DEF RotationInv
<1>2. QED
  BY RotationInvariant, <1>1, PTL

(* The active market is never one that was left.                           *)
THEOREM MarketAlwaysAdvances == Spec => MarketOnlyAdvances
<1>1. RotationInv /\ [Next]_vars => [market' # market => market' > market]_vars
  BY RotationStep
<1>2. QED
  BY RotationInvariant, <1>1, PTL DEF Spec, MarketOnlyAdvances

(* The lock order keeps the callback and the rotation from waiting for     *)
(* each other: who has core has or needs nothing else.                     *)
THEOREM NoDeadlockOfLocks == Spec => []NeverBothWait
<1>1. RotationInv => NeverBothWait
  <2> SUFFICES ASSUME RotationInv,
                      NEW mine \in Waits("maint"), holder[mine] = "callback",
                      NEW theirs \in Waits("callback"), holder[theirs] = "maint"
               PROVE  FALSE
    BY DEF NeverBothWait
  <2>1. /\ holder \in [Locks -> {"callback", "maint", "none"}]
        /\ holder["core"] # "callback"
    BY DEF RotationInv, CoreIsFree
  <2>2. mine \in MaintNext /\ Held("maint") # Locks
    BY DEF Waits
  <2>3. theirs \in Held("maint") /\ Held("maint") \subseteq Locks
    BY DEF Held, Waits, Locks
  <2>4. Held("maint") = {theirs}
    BY <2>2, <2>3 DEF Locks
  <2>5. Cardinality(Held("maint")) = 1
    BY <2>4, FS_Singleton
  <2>6. mine = "core"
    BY <2>2, <2>5 DEF MaintNext, maint_order
  <2>7. QED
    BY <2>1, <2>6
<1>2. QED
  BY RotationInvariant, <1>1, PTL

-----------------------------------------------------------------------------
(* Recovery.  A rotation asks for one slug, the window after the active    *)
(* market's, until it is listed no more: Gamma must be back, and one retry *)
(* answered, before that window ends (ShortOutage).                        *)
ShortOutage ==
  /\ MAX_OUTAGE + RETRY + 2 * GAMMA_LATENCY < WINDOW
  /\ PREFETCH <= PUBLISHED_AHEAD

QueryClock ==
  /\ gamma_up \in BOOLEAN /\ gamma_for \in Nat /\ query.since \in Int
  /\ ~gamma_up => gamma_for <= MAX_OUTAGE
  /\ maint = "discovering" => query.since <= now /\ now <= query.since + GAMMA_LATENCY

(* Without a market each answer is followed by the next query.  Since      *)
(* Gamma is back one of them may be answered after its window; the next    *)
(* one is asked so early in a window that it is not.                       *)
EarlyInWindow(t) == t - slug_ts(t) < GAMMA_LATENCY

Soon(up_when_asked, t) ==
  \/ up_when_asked <= WINDOW
  \/ up_when_asked <= WINDOW + GAMMA_LATENCY /\ EarlyInWindow(t)

FirstMarket ==
  market = NoMarket =>
    /\ rotation_deadline <= now
    /\ maint # "rotated"
    /\ maint = "discovering" => query.slug = slug_ts(query.since) /\ ~query.scheduled
    /\ gamma_up => IF maint = "discovering" THEN Soon(gamma_for - (now - query.since), query.since)
                   ELSE Soon(gamma_for, now)

(* With a market the next query is asked, or will be, before its end or    *)
(* one retry after Gamma's return; and no outage begins when the market    *)
(* has been over for longer than an answer takes.                          *)
AskedBy(t) ==
  LET end == end_ts(market)
  IN  /\ gamma_up =>
           \/ t <= end
           \/ /\ t <= end + GAMMA_LATENCY + MAX_OUTAGE + RETRY
              /\ t + gamma_for <= now + RETRY
      /\ ~gamma_up =>
           /\ t <= end \/ t <= now + RETRY
           /\ now <= end + GAMMA_LATENCY + gamma_for

NextMarket ==
  market # NoMarket =>
    IF maint = "discovering" THEN query.scheduled /\ AskedBy(query.since)
    ELSE now <= rotation_deadline /\ AskedBy(rotation_deadline)

RecoveryInv == RotationInv /\ QueryClock /\ FirstMarket /\ NextMarket

(* What recovery needs of the lengths.                                     *)
LEMMA OutageLengths ==
  ASSUME ShortOutage
  PROVE  /\ GAMMA_LATENCY \in Nat /\ MAX_OUTAGE \in Nat /\ PUBLISHED_AHEAD \in Nat /\ RETRY \in Nat
         /\ RETRY > 0 /\ WINDOW \in Nat /\ WINDOW > 0 /\ PREFETCH \in Nat /\ START \in Nat
         /\ MAX_OUTAGE + RETRY + 2 * GAMMA_LATENCY < WINDOW
         /\ PREFETCH <= PUBLISHED_AHEAD
         /\ PREFETCH < WINDOW
<1>1. ANCHOR_WINDOW + MAX_LATE < WINDOW - PREFETCH /\ ANCHOR_WINDOW \in Nat /\ MAX_LATE \in Nat
  BY Lengths
<1>2. QED
  BY <1>1, LengthsAssumption DEF ShortOutage

(* GammaClient::slug_ts: the clock is in its window.                       *)
LEMMA SlugContains ==
  ASSUME NEW t \in Int
  PROVE  /\ slug_ts(t) \in Int /\ slug_ts(t) <= t /\ t < slug_ts(t) + WINDOW
         /\ \E k \in Int : slug_ts(t) = WINDOW * k
<1>1. WINDOW \in Nat /\ WINDOW > 0
  BY Lengths
<1>2. /\ t = WINDOW * (t \div WINDOW) + (t % WINDOW)
      /\ t \div WINDOW \in Int /\ t % WINDOW \in 0 .. (WINDOW - 1)
  BY <1>1
<1>3. slug_ts(t) = WINDOW * (t \div WINDOW)
  BY <1>1, <1>2 DEF slug_ts
<1>4. QED
  BY <1>1, <1>2, <1>3 DEF slug_ts

(* Once a window is over the clock is in a later one.                      *)
LEMMA SlugAfter ==
  ASSUME NEW s \in Int, NEW t \in Int, t >= slug_ts(s) + WINDOW
  PROVE  slug_ts(t) >= slug_ts(s) + WINDOW
<1>1. WINDOW \in Nat /\ WINDOW > 0
  BY Lengths
<1>2. PICK j \in Int : slug_ts(s) = WINDOW * j
  BY SlugContains
<1>3. PICK k \in Int : slug_ts(t) = WINDOW * k
  BY SlugContains
<1>4. t < WINDOW * k + WINDOW
  BY <1>3, SlugContains
<1>5. WINDOW * j < WINDOW * k
  <2>1. WINDOW * j \in Int /\ WINDOW * k \in Int
    BY <1>1, <1>2, <1>3
  <2>2. QED
    BY <1>1, <1>2, <1>4, <2>1
<1>6. k >= j + 1
  <2> SUFFICES ASSUME k <= j PROVE FALSE
    BY <1>2, <1>3
  <2>1. WINDOW * k <= WINDOW * j
    BY <1>1
  <2>2. QED
    BY <1>1, <1>5, <2>1
<1>7. WINDOW * k >= WINDOW * (j + 1)
  BY <1>1, <1>6
<1>8. WINDOW * (j + 1) = WINDOW * j + WINDOW
  BY <1>1
<1>9. QED
  BY <1>2, <1>3, <1>7, <1>8

LEMMA RecoveryStart == ShortOutage /\ Init => RecoveryInv
<1> SUFFICES ASSUME ShortOutage, Init PROVE RecoveryInv
  OBVIOUS
<1> USE OutageLengths DEF Init, NoMarket
<1>1. QueryClock
  BY DEF QueryClock, NoQuery
<1>2. FirstMarket /\ NextMarket
  BY DEF FirstMarket, NextMarket, Soon
<1>3. QED
  BY <1>1, <1>2, RotationStart DEF RecoveryInv

(* Who asks, asks at once.                                                 *)
LEMMA RecoveryWakes ==
  ASSUME ShortOutage, RecoveryInv, RotationInv', PeriodicTick \/ RotationDue
  PROVE  RecoveryInv'
<1> USE OutageLengths DEF NoMarket
<1>1. /\ UNCHANGED <<now, market, rotation_deadline, gamma_up, gamma_for>>
      /\ maint = "waiting"
      /\ (Asks(TRUE) /\ now >= rotation_deadline) \/ Asks(FALSE)
  BY DEF PeriodicTick, RotationDue, gammaVars
<1>2. /\ now \in Nat /\ gamma_for \in Nat /\ rotation_deadline \in Int
      /\ market \in Nat \cup {NoMarket}
      /\ QueryClock
  BY DEF RecoveryInv, QueryClock, RotationInv, ClockType
<1>3. CASE market = NoMarket
  <2>1. /\ maint' = "discovering"
        /\ query' = [slug |-> slug_ts(now), scheduled |-> FALSE, since |-> now]
    BY <1>1, <1>3 DEF Asks, discovers
  <2>2. query'.slug = slug_ts(now) /\ ~query'.scheduled /\ query'.since = now
    BY <2>1
  <2>3. QueryClock'
    BY <1>1, <1>2, <2>1, <2>2 DEF QueryClock
  <2>4. rotation_deadline <= now /\ (gamma_up => Soon(gamma_for, now))
    BY <1>1, <1>3 DEF RecoveryInv, FirstMarket
  <2>5. gamma_for' - (now' - query'.since) = gamma_for
    BY <1>1, <1>2, <2>2
  <2>6. gamma_up' => Soon(gamma_for' - (now' - query'.since), query'.since)
    BY <1>1, <2>2, <2>4, <2>5
  <2>7. FirstMarket'
    BY <1>1, <2>1, <2>2, <2>4, <2>6 DEF FirstMarket
  <2>8. NextMarket'
    BY <1>1, <1>3 DEF NextMarket
  <2>9. QED
    BY <2>3, <2>7, <2>8 DEF RecoveryInv
<1>4. CASE market # NoMarket /\ Asks(TRUE) /\ now >= rotation_deadline
  <2>1. /\ maint' = "discovering"
        /\ query' = [slug |-> end_ts(market), scheduled |-> TRUE, since |-> now]
    BY <1>4 DEF Asks, discovers
  <2>2. query'.scheduled /\ query'.since = now
    BY <2>1
  <2>3. QueryClock'
    BY <1>1, <1>2, <2>1, <2>2 DEF QueryClock
  <2>4. now <= rotation_deadline /\ AskedBy(rotation_deadline)
    BY <1>1, <1>4 DEF RecoveryInv, NextMarket
  <2>5. query'.since = rotation_deadline
    BY <1>2, <1>4, <2>2, <2>4
  <2>6. NextMarket'
    BY <1>1, <2>1, <2>2, <2>4, <2>5 DEF NextMarket, AskedBy
  <2>7. FirstMarket'
    BY <1>1, <1>4 DEF FirstMarket
  <2>8. QED
    BY <2>3, <2>6, <2>7 DEF RecoveryInv
<1>5. CASE market # NoMarket /\ Asks(FALSE)
  <2>1. maint' = maint /\ query' = query
    BY <1>5 DEF Asks, discovers
  <2>2. QED
    BY <1>1, <2>1 DEF RecoveryInv, QueryClock, FirstMarket, NextMarket, AskedBy
<1>6. QED
  BY <1>1, <1>3, <1>4, <1>5

(* A market just promoted is not over, and its rotation is due before its  *)
(* end.                                                                    *)
LEMMA RecoveryAnswered ==
  ASSUME ShortOutage, RecoveryInv, RotationInv', Answered
  PROVE  RecoveryInv'
<1> USE OutageLengths DEF NoMarket
<1>1. /\ UNCHANGED <<now, gamma_up, gamma_for>>
      /\ gamma_up /\ maint = "discovering"
      /\ now < end_ts(query.slug)
      /\ market' = query.slug /\ maint' = "rotated" /\ query' = NoQuery
      /\ rotation_deadline' = NextDeadline(query.slug)
  BY DEF Answered, Discoverable, gammaVars
<1>2. now \in Nat /\ gamma_for \in Nat /\ query.slug \in Nat /\ gamma_up \in BOOLEAN
  BY <1>1 DEF RecoveryInv, QueryClock, RotationInv, ClockType, Leaves
<1>3. now < query.slug + WINDOW
  BY <1>1 DEF end_ts
<1>4. rotation_deadline' >= now /\ rotation_deadline' <= query.slug + WINDOW
  BY <1>1, <1>2, <1>3 DEF NextDeadline, end_ts
<1>5. now' <= rotation_deadline' /\ rotation_deadline' <= end_ts(market')
  BY <1>1, <1>4 DEF end_ts
<1>6. NextMarket'
  <2>1. maint' # "discovering"
    BY <1>1
  <2>2. QED
    BY <1>1, <1>5, <2>1 DEF NextMarket, AskedBy
<1>7. FirstMarket'
  BY <1>1, <1>2 DEF FirstMarket
<1>8. QueryClock'
  <2>1. query'.since = 0
    BY <1>1 DEF NoQuery
  <2>2. QED
    BY <1>1, <1>2, <2>1 DEF QueryClock
<1>9. QED
  BY <1>6, <1>7, <1>8 DEF RecoveryInv

(* An answer that comes after its window is followed by a query early in   *)
(* the next one.                                                           *)
LEMMA LateAnswer ==
  ASSUME ShortOutage, NEW s \in Int, NEW t \in Int, NEW g \in Int,
         s <= t, t <= s + GAMMA_LATENCY, t >= slug_ts(s) + WINDOW,
         Soon(g - (t - s), s)
  PROVE  Soon(g, t)
<1> USE OutageLengths
<1>1. slug_ts(s) \in Int /\ slug_ts(t) \in Int /\ s < slug_ts(s) + WINDOW
  BY SlugContains
<1>2. slug_ts(t) >= slug_ts(s) + WINDOW
  BY SlugAfter
<1>3. ~EarlyInWindow(s)
  BY <1>1 DEF EarlyInWindow
<1>4. g - (t - s) <= WINDOW
  BY <1>3 DEF Soon
<1>5. g <= WINDOW + GAMMA_LATENCY
  BY <1>4
<1>6. t - slug_ts(t) < GAMMA_LATENCY
  BY <1>1, <1>2
<1>7. QED
  BY <1>5, <1>6 DEF Soon, EarlyInWindow

(* While Gamma is up the window a rotation asks for is listed.             *)
LEMMA RotationIsAnswered ==
  ASSUME ShortOutage, RecoveryInv, maint = "discovering", market # NoMarket, gamma_up
  PROVE  Discoverable(query.slug)
<1> USE OutageLengths DEF NoMarket
<1>1. /\ now \in Nat /\ market \in Nat /\ gamma_for \in Nat /\ query.since \in Int
      /\ now <= query.since + GAMMA_LATENCY
  BY DEF RecoveryInv, QueryClock, RotationInv, ClockType
<1>2. /\ query.slug \in Nat /\ now >= query.slug - PREFETCH
      /\ query.slug = market + WINDOW
  BY DEF RecoveryInv, RotationInv, Leaves, end_ts
<1>3. \/ query.since <= market + WINDOW
      \/ query.since <= market + WINDOW + GAMMA_LATENCY + MAX_OUTAGE + RETRY
  BY DEF RecoveryInv, NextMarket, AskedBy, end_ts
<1>4. now < query.slug + WINDOW
  BY <1>1, <1>2, <1>3
<1>5. now >= query.slug - PUBLISHED_AHEAD
  BY <1>1, <1>2
<1>6. QED
  BY <1>4, <1>5 DEF Discoverable, end_ts

LEMMA RecoveryNotAnswered ==
  ASSUME ShortOutage, RecoveryInv, RotationInv', NotAnswered
  PROVE  RecoveryInv'
<1> USE OutageLengths DEF NoMarket
<1>1. /\ UNCHANGED <<now, market, gamma_up, gamma_for>>
      /\ maint = "discovering" /\ ~Discoverable(query.slug)
      /\ rotation_deadline' = IF query.scheduled THEN now + RETRY ELSE rotation_deadline
      /\ maint' = "waiting" /\ query' = NoQuery
  BY DEF NotAnswered, gammaVars
<1>2. /\ now \in Nat /\ gamma_for \in Nat /\ query.since \in Int /\ query.slug \in Int
      /\ market \in Nat \cup {NoMarket} /\ QueryClock
      /\ query.since <= now /\ now <= query.since + GAMMA_LATENCY
  BY <1>1 DEF RecoveryInv, QueryClock, RotationInv, ClockType
<1>3. QueryClock'
  <2>1. query'.since = 0 /\ maint' # "discovering"
    BY <1>1 DEF NoQuery
  <2>2. QED
    BY <1>1, <1>2, <2>1 DEF QueryClock
<1>4. CASE market = NoMarket
  <2>1. /\ rotation_deadline <= now /\ query.slug = slug_ts(query.since) /\ ~query.scheduled
        /\ gamma_up => Soon(gamma_for - (now - query.since), query.since)
    BY <1>1, <1>4 DEF RecoveryInv, FirstMarket
  <2>2. ASSUME gamma_up PROVE Soon(gamma_for, now)
    <3>1. slug_ts(query.since) <= query.since
      BY <1>2, SlugContains
    <3>2. now >= query.slug - PUBLISHED_AHEAD
      BY <1>2, <2>1, <3>1
    <3>3. now >= slug_ts(query.since) + WINDOW
      BY <1>1, <1>2, <2>1, <2>2, <3>2 DEF Discoverable, end_ts
    <3>4. QED
      BY <1>2, <2>1, <2>2, <3>3, LateAnswer
  <2>3. FirstMarket'
    BY <1>1, <2>1, <2>2 DEF FirstMarket
  <2>4. NextMarket'
    BY <1>1, <1>4 DEF NextMarket
  <2>5. QED
    BY <1>3, <2>3, <2>4 DEF RecoveryInv
<1>5. CASE market # NoMarket
  <2>1. ~gamma_up
    BY <1>1, <1>5, RotationIsAnswered
  <2>2. query.scheduled /\ now <= end_ts(market) + GAMMA_LATENCY + gamma_for
    BY <1>1, <1>5, <2>1 DEF RecoveryInv, NextMarket, AskedBy
  <2>3. rotation_deadline' = now + RETRY
    BY <1>1, <2>2
  <2>4. now' <= rotation_deadline' /\ rotation_deadline' <= now' + RETRY
    BY <1>1, <1>2, <2>3
  <2>5. NextMarket'
    <3>1. maint' # "discovering"
      BY <1>1
    <3>2. QED
      BY <1>1, <2>1, <2>2, <2>4, <3>1 DEF NextMarket, AskedBy, end_ts
  <2>6. FirstMarket'
    BY <1>1, <1>5 DEF FirstMarket
  <2>7. QED
    BY <1>3, <2>5, <2>6 DEF RecoveryInv
<1>6. QED
  BY <1>4, <1>5

(* An outage begins soon after the end of the market at the latest: the    *)
(* query due since Gamma's return has long been answered.                  *)
LEMMA RecoveryFails ==
  ASSUME ShortOutage, RecoveryInv, RotationInv', GammaFails
  PROVE  RecoveryInv'
<1> USE OutageLengths DEF NoMarket
<1>1. /\ UNCHANGED <<now, market, rotation_deadline, maint, query>>
      /\ gamma_up /\ gamma_for >= WINDOW
      /\ gamma_up' = FALSE /\ gamma_for' = 0
  BY DEF GammaFails, maintVars
<1>2. /\ now \in Nat /\ gamma_for \in Nat /\ query.since \in Int /\ rotation_deadline \in Int
      /\ market \in Nat \cup {NoMarket} /\ QueryClock
  BY DEF RecoveryInv, QueryClock, RotationInv, ClockType
<1>3. QueryClock'
  <2>1. gamma_for' \in Nat /\ gamma_for' <= MAX_OUTAGE /\ gamma_up' \in BOOLEAN
    <3>1. gamma_for' = 0
      BY <1>1
    <3>2. gamma_up' \in BOOLEAN
      BY <1>1, Zenon
    <3>3. QED
      BY <3>1, <3>2
  <2>2. QED
    BY <1>1, <1>2, <2>1 DEF QueryClock
<1>4. FirstMarket'
  BY <1>1 DEF RecoveryInv, FirstMarket
<1>5. ASSUME NEW t \in Int, market \in Nat, AskedBy(t), now <= t + GAMMA_LATENCY
      PROVE  AskedBy(t)'
  <2>1. \/ t <= market + WINDOW
        \/ t + gamma_for <= now + RETRY
    BY <1>1, <1>5 DEF AskedBy, end_ts
  <2>2. t <= market + WINDOW
    BY <1>1, <1>2, <1>5, <2>1
  <2>3. t <= end_ts(market') /\ now' <= end_ts(market') + GAMMA_LATENCY + gamma_for'
    BY <1>1, <1>2, <1>5, <2>2 DEF end_ts
  <2>4. QED
    BY <1>1, <2>3 DEF AskedBy
<1>6. NextMarket'
  <2> SUFFICES ASSUME market # NoMarket PROVE NextMarket'
    BY <1>1 DEF NextMarket
  <2>1. market \in Nat
    BY <1>2
  <2>2. CASE maint = "discovering"
    <3>1. query.scheduled /\ AskedBy(query.since) /\ now <= query.since + GAMMA_LATENCY
      BY <1>2, <2>2 DEF RecoveryInv, NextMarket, QueryClock
    <3>2. AskedBy(query.since)'
      BY <1>2, <1>5, <2>1, <3>1, <1>1 DEF AskedBy, end_ts
    <3>3. QED
      BY <1>1, <2>2, <3>1, <3>2 DEF NextMarket
  <2>3. CASE maint # "discovering"
    <3>1. now <= rotation_deadline /\ AskedBy(rotation_deadline)
      BY <2>3 DEF RecoveryInv, NextMarket
    <3>2. now <= rotation_deadline + GAMMA_LATENCY
      BY <1>2, <3>1
    <3>3. AskedBy(rotation_deadline)'
      BY <1>2, <1>5, <2>1, <3>1, <3>2, <1>1 DEF AskedBy, end_ts
    <3>4. QED
      BY <1>1, <2>3, <3>1, <3>3 DEF NextMarket
  <2>4. QED
    BY <2>2, <2>3
<1>7. QED
  BY <1>3, <1>4, <1>6 DEF RecoveryInv

LEMMA RecoveryReturns ==
  ASSUME ShortOutage, RecoveryInv, RotationInv', GammaReturns
  PROVE  RecoveryInv'
<1> USE OutageLengths DEF NoMarket
<1>1. /\ UNCHANGED <<now, market, rotation_deadline, maint, query>>
      /\ ~gamma_up /\ gamma_up' = TRUE /\ gamma_for' = 0
  BY DEF GammaReturns, maintVars
<1>2. /\ now \in Nat /\ gamma_for \in Nat /\ query.since \in Int /\ rotation_deadline \in Int
      /\ market \in Nat \cup {NoMarket} /\ QueryClock
      /\ gamma_for <= MAX_OUTAGE
  BY <1>1 DEF RecoveryInv, QueryClock, RotationInv, ClockType
<1>3. QueryClock'
  <2>1. gamma_up' \in BOOLEAN
    BY <1>1, Zenon
  <2>2. gamma_for' \in Nat /\ gamma_up'
    BY <1>1
  <2>3. QED
    BY <1>1, <1>2, <2>1, <2>2 DEF QueryClock
<1>4. FirstMarket'
  <2> SUFFICES ASSUME market = NoMarket PROVE FirstMarket'
    BY <1>1 DEF FirstMarket
  <2>1. CASE maint = "discovering"
    <3>1. query.since <= now
      BY <1>2, <2>1 DEF QueryClock
    <3>2. gamma_for' - (now' - query'.since) <= WINDOW
      BY <1>1, <1>2, <3>1
    <3>3. QED
      BY <1>1, <2>1, <3>2 DEF RecoveryInv, FirstMarket, Soon
  <2>2. CASE maint # "discovering"
    <3>1. gamma_for' <= WINDOW
      BY <1>1
    <3>2. QED
      BY <1>1, <2>2, <3>1 DEF RecoveryInv, FirstMarket, Soon
  <2>3. QED
    BY <2>1, <2>2
<1>5. ASSUME NEW t \in Int, market \in Nat, AskedBy(t)
      PROVE  /\ t <= market + WINDOW \/ t <= market + WINDOW + GAMMA_LATENCY + MAX_OUTAGE + RETRY
             /\ t <= market + WINDOW \/ t <= now + RETRY
  <2>1. /\ t <= market + WINDOW \/ t <= now + RETRY
        /\ now <= market + WINDOW + GAMMA_LATENCY + gamma_for
    BY <1>1, <1>5 DEF AskedBy, end_ts
  <2>2. QED
    BY <1>2, <1>5, <2>1
<1>6. NextMarket'
  <2> SUFFICES ASSUME market # NoMarket PROVE NextMarket'
    BY <1>1 DEF NextMarket
  <2>1. market \in Nat /\ market' = market /\ now' = now /\ gamma_up' /\ gamma_for' = 0
    BY <1>1, <1>2
  <2>2. CASE maint = "discovering"
    <3>1. query.scheduled /\ AskedBy(query.since)
      BY <2>2 DEF RecoveryInv, NextMarket
    <3>2. AskedBy(query.since)'
      BY <1>1, <1>2, <1>5, <2>1, <3>1 DEF AskedBy, end_ts
    <3>3. QED
      BY <1>1, <2>2, <3>1, <3>2 DEF NextMarket
  <2>3. CASE maint # "discovering"
    <3>1. now <= rotation_deadline /\ AskedBy(rotation_deadline)
      BY <2>3 DEF RecoveryInv, NextMarket
    <3>2. AskedBy(rotation_deadline)'
      BY <1>1, <1>2, <1>5, <2>1, <3>1 DEF AskedBy, end_ts
    <3>3. QED
      BY <1>1, <2>3, <3>1, <3>2 DEF NextMarket
  <2>4. QED
    BY <2>2, <2>3
<1>7. QED
  BY <1>3, <1>4, <1>6 DEF RecoveryInv

(* Time passes while a query is in flight, or with a market, before the    *)
(* next is due.                                                            *)
LEMMA RecoveryTick ==
  ASSUME ShortOutage, RecoveryInv, RotationInv', Tick
  PROVE  RecoveryInv'
<1> USE OutageLengths DEF NoMarket
<1>1. /\ UNCHANGED <<gamma_up, market, rotation_deadline, maint, query>>
      /\ now' = now + 1
      /\ gamma_for' = IF gamma_for < 2 * WINDOW + MAX_OUTAGE THEN gamma_for + 1 ELSE gamma_for
      /\ maint = "waiting" => now < rotation_deadline
      /\ maint = "discovering" => now < query.since + GAMMA_LATENCY
      /\ maint # "rotated"
      /\ ~gamma_up => gamma_for < MAX_OUTAGE
  BY DEF Tick, maintVars
<1>2. /\ now \in Nat /\ gamma_for \in Nat /\ query.since \in Int /\ rotation_deadline \in Int
      /\ market \in Nat \cup {NoMarket} /\ QueryClock
      /\ maint \in {"waiting", "discovering", "rotated"}
  BY DEF RecoveryInv, QueryClock, RotationInv, ClockType
<1>3. /\ gamma_for' \in Nat /\ gamma_for' <= gamma_for + 1
      /\ gamma_for <= MAX_OUTAGE => gamma_for' = gamma_for + 1
  BY <1>1, <1>2
<1>4. QueryClock'
  <2>1. ~gamma_up => gamma_for' <= MAX_OUTAGE
    BY <1>1, <1>2, <1>3
  <2>2. maint = "discovering" => query.since <= now' /\ now' <= query.since + GAMMA_LATENCY
    BY <1>1, <1>2 DEF QueryClock
  <2>3. QED
    BY <1>1, <1>2, <1>3, <2>1, <2>2 DEF QueryClock
<1>5. FirstMarket'
  <2> SUFFICES ASSUME market = NoMarket PROVE FirstMarket'
    BY <1>1 DEF FirstMarket
  <2>1. rotation_deadline <= now
    BY DEF RecoveryInv, FirstMarket
  <2>2. maint = "discovering"
    BY <1>1, <1>2, <2>1
  <2>3. /\ query.slug = slug_ts(query.since) /\ ~query.scheduled
        /\ gamma_up => Soon(gamma_for - (now - query.since), query.since)
    BY <2>2 DEF RecoveryInv, FirstMarket
  <2>4. gamma_for' - (now' - query.since) <= gamma_for - (now - query.since)
    BY <1>1, <1>2, <1>3
  <2>5. gamma_up => Soon(gamma_for' - (now' - query.since), query.since)
    <3> SUFFICES ASSUME gamma_up PROVE Soon(gamma_for' - (now' - query.since), query.since)
      OBVIOUS
    <3>1. /\ gamma_for' - (now' - query.since) \in Int
          /\ gamma_for - (now - query.since) \in Int
      BY <1>1, <1>2, <1>3
    <3>2. QED
      BY <2>3, <2>4, <3>1 DEF Soon
  <2>6. rotation_deadline <= now'
    BY <1>1, <1>2, <2>1
  <2>7. QED
    BY <1>1, <2>2, <2>3, <2>5, <2>6 DEF FirstMarket
<1>6. ASSUME NEW t \in Int, market \in Nat, AskedBy(t)
      PROVE  /\ gamma_up => \/ t <= market + WINDOW
                            \/ /\ t <= market + WINDOW + GAMMA_LATENCY + MAX_OUTAGE + RETRY
                               /\ t + gamma_for' <= now' + RETRY
             /\ ~gamma_up => /\ t <= market + WINDOW \/ t <= now' + RETRY
                             /\ now' <= market + WINDOW + GAMMA_LATENCY + gamma_for'
  <2>1. CASE gamma_up
    <3>1. \/ t <= market + WINDOW
          \/ /\ t <= market + WINDOW + GAMMA_LATENCY + MAX_OUTAGE + RETRY
             /\ t + gamma_for <= now + RETRY
      BY <1>6, <2>1 DEF AskedBy, end_ts
    <3>2. t + gamma_for <= now + RETRY => t + gamma_for' <= now' + RETRY
      BY <1>1, <1>2, <1>3, <1>6
    <3>3. QED
      BY <2>1, <3>1, <3>2
  <2>2. CASE ~gamma_up
    <3>1. /\ t <= market + WINDOW \/ t <= now + RETRY
          /\ now <= market + WINDOW + GAMMA_LATENCY + gamma_for
      BY <1>6, <2>2 DEF AskedBy, end_ts
    <3>2. gamma_for' = gamma_for + 1
      BY <1>1, <1>2, <1>3, <2>2
    <3>3. QED
      BY <1>1, <1>2, <1>6, <2>2, <3>1, <3>2
  <2>3. QED
    BY <2>1, <2>2
<1>7. NextMarket'
  <2> SUFFICES ASSUME market # NoMarket PROVE NextMarket'
    BY <1>1 DEF NextMarket
  <2>1. market \in Nat /\ market' = market
    BY <1>1, <1>2
  <2>2. CASE maint = "discovering"
    <3>1. query.scheduled /\ AskedBy(query.since)
      BY <2>2 DEF RecoveryInv, NextMarket
    <3>2. AskedBy(query.since)'
      BY <1>1, <1>2, <1>6, <2>1, <3>1 DEF AskedBy, end_ts
    <3>3. QED
      BY <1>1, <2>2, <3>1, <3>2 DEF NextMarket
  <2>3. CASE maint # "discovering"
    <3>1. now <= rotation_deadline /\ AskedBy(rotation_deadline)
      BY <2>3 DEF RecoveryInv, NextMarket
    <3>2. AskedBy(rotation_deadline)'
      BY <1>1, <1>2, <1>6, <2>1, <3>1 DEF AskedBy, end_ts
    <3>3. now' <= rotation_deadline
      BY <1>1, <1>2, <2>3
    <3>4. QED
      BY <1>1, <2>3, <3>2, <3>3 DEF NextMarket
  <2>4. QED
    BY <2>2, <2>3
<1>8. QED
  BY <1>4, <1>5, <1>7 DEF RecoveryInv

(* What the anchor, the strike and the locks do leaves the query alone.    *)
LEMMA RecoveryStutter ==
  ASSUME ShortOutage, RecoveryInv, RotationInv',
         UNCHANGED <<now, market, rotation_deadline, query, gamma_up, gamma_for>>,
         maint' = maint \/ (maint = "rotated" /\ maint' = "waiting")
  PROVE  RecoveryInv'
<1>1. QueryClock'
  BY DEF RecoveryInv, QueryClock
<1>2. FirstMarket'
  BY DEF RecoveryInv, FirstMarket
<1>3. NextMarket'
  BY DEF RecoveryInv, NextMarket, AskedBy
<1>4. QED
  BY <1>1, <1>2, <1>3 DEF RecoveryInv

LEMMA RecoveryStep ==
  ASSUME ShortOutage, RecoveryInv, [Next]_vars
  PROVE  RecoveryInv'
<1>1. RotationInv'
  BY RotationStep DEF RecoveryInv
<1>2. CASE PeriodicTick \/ RotationDue
  BY <1>1, <1>2, RecoveryWakes DEF PeriodicTick, RotationDue
<1>3. CASE Answered
  BY <1>1, <1>3, RecoveryAnswered
<1>4. CASE NotAnswered
  BY <1>1, <1>4, RecoveryNotAnswered
<1>5. CASE GammaFails
  BY <1>1, <1>5, RecoveryFails
<1>6. CASE GammaReturns
  BY <1>1, <1>6, RecoveryReturns
<1>7. CASE Tick
  BY <1>1, <1>7, RecoveryTick
<1>8. CASE SetPending
  BY <1>1, <1>8, RecoveryStutter DEF SetPending, gammaVars
<1>9. CASE MaintLocks \/ CallbackStarts \/ PushAndResolve \/ SetStrike \/ UNCHANGED vars
  <2>1. UNCHANGED <<now, market, rotation_deadline, query, maint, gamma_up, gamma_for>>
    BY <1>9 DEF MaintLocks, CallbackStarts, PushAndResolve, BinanceTick, SetStrike, vars,
                maintVars, gammaVars
  <2>2. QED
    BY <1>1, <2>1, RecoveryStutter
<1>10. QED
  BY <1>2, <1>3, <1>4, <1>5, <1>6, <1>7, <1>8, <1>9 DEF Next

(* A rotation needs no operator: if Gamma never stays away so long that    *)
(* the window a rotation asks for is over before one retry is answered,    *)
(* the active market is never over by more than an answer once Gamma has   *)
(* been back for a window.  Without that bound the run RotationOutage      *)
(* shows the rotation stuck for ever.                                      *)
THEOREM RotationRecovers ==
  ASSUME ShortOutage
  PROVE  Spec => []Recovered
<1>1. Init => RecoveryInv
  BY RecoveryStart
<1>2. RecoveryInv /\ [Next]_vars => RecoveryInv'
  BY RecoveryStep
<1>3. RecoveryInv => Recovered
  <2> USE OutageLengths DEF NoMarket
  <2> SUFFICES ASSUME RecoveryInv, gamma_up, gamma_for > WINDOW + 2 * GAMMA_LATENCY
               PROVE  market # NoMarket /\ now <= end_ts(market) + GAMMA_LATENCY
    BY DEF Recovered
  <2>1. /\ now \in Nat /\ gamma_for \in Nat /\ query.since \in Int /\ rotation_deadline \in Int
        /\ market \in Nat \cup {NoMarket} /\ QueryClock
    BY DEF RecoveryInv, QueryClock, RotationInv, ClockType
  <2>2. market # NoMarket
    <3> SUFFICES ASSUME market = NoMarket PROVE FALSE
      OBVIOUS
    <3>1. CASE maint = "discovering"
      <4>1. now <= query.since + GAMMA_LATENCY
        BY <2>1, <3>1 DEF QueryClock
      <4>2. gamma_for - (now - query.since) <= WINDOW + GAMMA_LATENCY
        BY <2>1, <3>1 DEF RecoveryInv, FirstMarket, Soon
      <4>3. QED
        BY <2>1, <4>1, <4>2
    <3>2. CASE maint # "discovering"
      <4>1. gamma_for <= WINDOW + GAMMA_LATENCY
        BY <2>1, <3>2 DEF RecoveryInv, FirstMarket, Soon
      <4>2. QED
        BY <2>1, <4>1
    <3>3. QED
      BY <3>1, <3>2
  <2>3. ASSUME NEW t \in Int, AskedBy(t), now <= t + GAMMA_LATENCY
        PROVE  now <= market + WINDOW + GAMMA_LATENCY
    <3>1. t <= market + WINDOW \/ t + gamma_for <= now + RETRY
      BY <2>3 DEF AskedBy, end_ts
    <3>2. QED
      BY <2>1, <2>2, <2>3, <3>1
  <2>4. CASE maint = "discovering"
    <3>1. AskedBy(query.since) /\ now <= query.since + GAMMA_LATENCY
      BY <2>1, <2>2, <2>4 DEF RecoveryInv, NextMarket, QueryClock
    <3>2. QED
      BY <2>1, <2>2, <2>3, <3>1 DEF end_ts
  <2>5. CASE maint # "discovering"
    <3>1. AskedBy(rotation_deadline) /\ now <= rotation_deadline
      BY <2>2, <2>5 DEF RecoveryInv, NextMarket
    <3>2. now <= rotation_deadline + GAMMA_LATENCY
      BY <2>1, <3>1
    <3>3. QED
      BY <2>1, <2>2, <2>3, <3>1, <3>2 DEF end_ts
  <2>6. QED
    BY <2>2, <2>4, <2>5
<1>4. QED
  BY <1>1, <1>2, <1>3, PTL DEF Spec

-----------------------------------------------------------------------------
(* How a rotation reaches the user connection (UserFeed), for any number   *)
(* of markets and failures.  That a settled connection is subscribed to    *)
(* the active market is not inductive: while the auth frame is being sent, *)
(* or a frame is queued, the active market is on its way.  Reaches adds    *)
(* those ways, RotatesTo that only a rotation to some market is ever in    *)
(* progress.                                                               *)
Queued(m) == \E i \in 1..Len(outgoing) : outgoing[i] = m

RotatesTo == rotating => active # 0

(* The active market is with the connection, in its auth frame or queued,  *)
(* or its rotation has not queued it yet.                                  *)
Reaches ==
  active # 0 /\ ~rotating =>
    /\ feed = "up" => active \in subscribed \/ Queued(active)
    /\ feed = "authenticating" => active \in auth_markets \/ Queued(active)

FeedInv == TypeOK /\ RotatesTo /\ TrustedIsLive /\ Reaches

(* What every way out of the read loop leaves is well typed.               *)
LEMMA NothingSubscribed == {} \in SUBSET (1..Markets)
OBVIOUS

(* A frame appended to the queue is queued, with those that were.          *)
LEMMA AppendQueues ==
  ASSUME TypeOK, NEW m \in 1..Markets, outgoing' = Append(outgoing, m)
  PROVE  /\ outgoing' \in Seq(1..Markets)
         /\ Queued(m)'
         /\ \A k : Queued(k) => Queued(k)'
<1>1. /\ outgoing' \in Seq(1..Markets)
      /\ Len(outgoing') = Len(outgoing) + 1
      /\ outgoing'[Len(outgoing) + 1] = m
      /\ \A i \in 1..Len(outgoing) : outgoing'[i] = outgoing[i]
  BY AppendProperties DEF TypeOK
<1>2. Len(outgoing) \in Nat
  BY DEF TypeOK
<1>3. QED
  BY <1>1, <1>2 DEF Queued

(* A frame taken from the queue is a market, the only one that leaves it.  *)
LEMMA TailKeeps ==
  ASSUME TypeOK, outgoing # <<>>, outgoing' = Tail(outgoing)
  PROVE  /\ Head(outgoing) \in 1..Markets
         /\ outgoing' \in Seq(1..Markets)
         /\ \A k : Queued(k) => k = Head(outgoing) \/ Queued(k)'
<1>1. /\ outgoing' \in Seq(1..Markets)
      /\ Len(outgoing') = Len(outgoing) - 1
      /\ \A i \in 1..Len(outgoing') : outgoing'[i] = outgoing[i + 1]
      /\ Head(outgoing) = outgoing[1]
      /\ Head(outgoing) \in 1..Markets
  <2>1. outgoing \in Seq(1..Markets)
    BY DEF TypeOK
  <2>2. Head(outgoing) = outgoing[1]
    BY <2>1
  <2>3. /\ Tail(outgoing) \in Seq(1..Markets)
        /\ Len(Tail(outgoing)) = Len(outgoing) - 1
        /\ \A i \in 1..Len(Tail(outgoing)) : Tail(outgoing)[i] = outgoing[i + 1]
        /\ Head(outgoing) \in 1..Markets
    BY <2>1, HeadTailProperties
  <2>4. QED
    BY <2>2, <2>3
<1>2. Len(outgoing) \in Nat
  BY DEF TypeOK
<1>3. ASSUME NEW k, NEW i \in 1..Len(outgoing), outgoing[i] = k, k # Head(outgoing)
      PROVE  Queued(k)'
  <2>1. i - 1 \in 1..Len(outgoing') /\ outgoing'[i - 1] = k
    BY <1>1, <1>2, <1>3
  <2>2. QED
    BY <2>1 DEF Queued
<1>4. QED
  BY <1>1, <1>3 DEF Queued

(* The invariant holds at the start.                                       *)
LEMMA FeedStart == FeedInit => FeedInv
<1> SUFFICES ASSUME FeedInit PROVE FeedInv
  OBVIOUS
<1>1. <<>> \in Seq(1..Markets)
  BY EmptySeq
<1>2. TypeOK
  <2>1. 0 \in 0..Markets /\ 0 \in 0..MaxDrops
    BY MarketsAssumption
  <2>2. outgoing \in Seq(1..Markets)
    BY <1>1 DEF FeedInit
  <2>3. auth_markets \in SUBSET (1..Markets) /\ subscribed \in SUBSET (1..Markets)
    BY NothingSubscribed DEF FeedInit
  <2>4. QED
    BY <2>1, <2>2, <2>3 DEF FeedInit, TypeOK
<1>3. RotatesTo /\ TrustedIsLive /\ Reaches
  BY DEF FeedInit, RotatesTo, TrustedIsLive, Reaches
<1>4. QED
  BY <1>2, <1>3 DEF FeedInv

(* Every step of either task, and of the venue, keeps it.                  *)
LEMMA FeedStep == FeedInv /\ [FeedNext]_feedVars => FeedInv'
<1> SUFFICES ASSUME FeedInv, [FeedNext]_feedVars PROVE FeedInv'
  OBVIOUS
<1> USE MarketsAssumption DEF FeedInv, TypeOK, RotatesTo, TrustedIsLive, Reaches
<1>1. CASE SetMarket
  BY <1>1 DEF SetMarket
<1>2. CASE QueueSubscribe
  <2>1. PICK m \in 1..Markets : m = active /\ outgoing' = Append(outgoing, m)
    BY <1>2 DEF QueueSubscribe
  <2>2. outgoing' \in Seq(1..Markets) /\ Queued(m)'
    BY <2>1, AppendQueues
  <2>3. active' = m
    BY <1>2, <2>1 DEF QueueSubscribe
  <2>4. QED
    BY <1>2, <2>2, <2>3 DEF QueueSubscribe, Queued
<1>3. CASE WsConnected
  BY <1>3 DEF WsConnected, current_markets, Queued
<1>4. CASE AuthSent
  BY <1>4 DEF AuthSent, Queued
<1>5. CASE AuthSendFails
  BY <1>5 DEF AuthSendFails
<1>6. CASE SubscribeSent
  <2>1. /\ Head(outgoing) \in 1..Markets
        /\ outgoing' \in Seq(1..Markets)
        /\ \A k : Queued(k) => k = Head(outgoing) \/ Queued(k)'
    BY <1>6, TailKeeps DEF SubscribeSent
  <2>2. QED
    BY <1>6, <2>1 DEF SubscribeSent, Queued
<1>7. CASE SubscribeFails
  <2>1. outgoing' \in Seq(1..Markets)
    BY <1>7, TailKeeps DEF SubscribeFails
  <2>2. /\ feed' = "connecting" /\ subscribed' = {} /\ user_wss_trusted' = FALSE
        /\ drops' \in 0..MaxDrops
        /\ UNCHANGED <<active, rotating, auth_markets>>
    BY <1>7 DEF SubscribeFails, Left
  <2>3. QED
    BY <2>1, <2>2, NothingSubscribed
<1>8. CASE Closed
  <2>1. /\ feed' = "connecting" /\ subscribed' = {} /\ user_wss_trusted' = FALSE
        /\ drops' \in 0..MaxDrops
        /\ UNCHANGED <<active, rotating, outgoing, auth_markets>>
    BY <1>8 DEF Closed, Left
  <2>2. QED
    BY <2>1, NothingSubscribed
<1>9. CASE AuthErrorRead
  BY <1>9 DEF AuthErrorRead, Queued
<1>10. CASE UNCHANGED feedVars
  BY <1>10 DEF feedVars, Queued
<1>11. QED
  BY <1>1, <1>2, <1>3, <1>4, <1>5, <1>6, <1>7, <1>8, <1>9, <1>10 DEF FeedNext

(* So the invariant holds in every state.                                  *)
LEMMA FeedInvariance == FeedSpec => []FeedInv
<1>1. QED
  BY FeedStart, FeedStep, PTL DEF FeedSpec

(* The state of the user feed is always well typed.                        *)
THEOREM TypeCorrect == FeedSpec => []TypeOK
<1>1. FeedInv => TypeOK
  BY DEF FeedInv
<1>2. QED
  BY <1>1, FeedInvariance, PTL

(* user_feed_loop: whichever of connect, rotation and failed write comes   *)
(* first, a connection with nothing left to send is subscribed to the      *)
(* active market.                                                          *)
THEOREM SettledIsSubscribed == FeedSpec => []SettledMeansSubscribed
<1>1. FeedInv => SettledMeansSubscribed
  <2>1. outgoing = <<>> => ~Queued(active)
    BY DEF Queued
  <2>2. QED
    BY <2>1 DEF FeedInv, Reaches, SettledMeansSubscribed
<1>2. QED
  BY <1>1, FeedInvariance, PTL

(* user_feed_loop: no way out of the read loop leaves the trust behind.    *)
THEOREM TrustNeedsConnection == FeedSpec => []TrustedIsLive
<1>1. FeedInv => TrustedIsLive
  BY DEF FeedInv
<1>2. QED
  BY <1>1, FeedInvariance, PTL

=============================================================================
