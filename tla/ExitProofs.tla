----------------------------- MODULE ExitProofs -----------------------------
(***************************************************************************)
(* Theorems about ExitFlow, for any tokens, books, prices, thresholds and  *)
(* sizes and any number of orders, requests, losses and repetitions.       *)
(*                                                                         *)
(* What is posted reads the quotes and the balances; what is tracked       *)
(* follows the trade events.  The invariant says of each that it belongs   *)
(* to what it was taken from: the quotes to the active market's tokens     *)
(* (MarketInv), an event on the channel and a record of the inventory to a *)
(* fill of the venue (InventoryProofs' VenueInv).                        *)
(***************************************************************************)
EXTENDS ExitFlow, InventoryProofs

Plan == [token : Tokens, price : Int, units : Int]

MarketInv ==
  /\ market \in 0..Len(Books)
  /\ DOMAIN quotes \subseteq ActiveTokens
  /\ \A token \in DOMAIN quotes : quotes[token] \in Ticks

SellsType ==
  /\ DOMAIN sells = Requests
  /\ \A r \in Requests : sells[r] = NoPlan \/ sells[r] \in Plan

ExitInv == VenueInv /\ MarketInv /\ SellsType

LEMMA ActiveAreTokens == MarketInv => ActiveTokens \subseteq Tokens
BY BooksAssumption DEF MarketInv, ActiveTokens, ActiveBook, TokensOf

-----------------------------------------------------------------------------
(* The parts of the invariant step by step.                                *)
LEMMA MarketKept ==
  ASSUME MarketInv, UNCHANGED <<market, quotes>>
  PROVE  MarketInv'
BY DEF MarketInv, ActiveTokens, ActiveBook, TokensOf

LEMMA SellsKept == SellsType /\ UNCHANGED sells => SellsType'
BY DEF SellsType

(* Nothing in sells' changes but that a request gets its answer.           *)
LEMMA AnsweredKeepsSells ==
  ASSUME SellsType, NEW r \in Requests, sells' = [sells EXCEPT ![r] = NoPlan]
  PROVE  SellsType'
BY DEF SellsType

LEMMA RotateKeeps == ExitInv /\ RotateMarket => ExitInv'
<1> SUFFICES ASSUME ExitInv, RotateMarket PROVE ExitInv'
  OBVIOUS
<1>1. VenueInv'
  BY ScopeKeepsVenue DEF ExitInv, RotateMarket
<1>2. MarketInv'
  <2>1. market' \in 0..Len(Books) /\ quotes' = NoQuotes
    BY BooksAssumption DEF ExitInv, MarketInv, RotateMarket
  <2>2. QED
    BY <2>1 DEF MarketInv, NoQuotes
<1>3. QED
  BY <1>1, <1>2, SellsKept DEF ExitInv, RotateMarket

LEMMA BookKeeps ==
  ASSUME ExitInv,
         MarketResolves \/ \E token \in Tokens, bid \in Ticks \cup {NoTick} : BookMoves(token, bid)
  PROVE  ExitInv'
<1>1. UNCHANGED <<inventoryVars, venueVars, market, sells>>
  BY DEF MarketResolves, BookMoves
<1>2. VenueInv' /\ SellsType'
  BY <1>1, VenueKept, SellsKept DEF ExitInv, inventoryVars, venueVars
<1>3. MarketInv'
  <2>1. ActiveTokens' = ActiveTokens
    BY <1>1 DEF ActiveTokens, ActiveBook, TokensOf
  <2>2. DOMAIN quotes' \subseteq ActiveTokens /\ \A token \in DOMAIN quotes' : quotes'[token] \in Ticks
    <3>1. CASE MarketResolves
      BY <3>1 DEF MarketResolves, NoQuotes
    <3>2. CASE \E token \in Tokens, bid \in Ticks \cup {NoTick} : BookMoves(token, bid)
      <4>1. PICK token \in Tokens, bid \in Ticks \cup {NoTick} : BookMoves(token, bid)
        BY <3>2
      <4>2. CASE bid # NoTick
        BY <4>1, <4>2 DEF BookMoves, ExitInv, MarketInv
      <4>3. CASE bid = NoTick
        BY <4>1, <4>3 DEF BookMoves, Restrict, ExitInv, MarketInv
      <4>4. QED
        BY <4>2, <4>3
    <3>3. QED
      BY <3>1, <3>2
  <2>3. QED
    BY <1>1, <2>1, <2>2 DEF ExitInv, MarketInv
<1>4. QED
  BY <1>2, <1>3 DEF ExitInv

(* What signing posts is the plan of this moment.                          *)
LEMMA PostedIsPlan ==
  ASSUME ExitInv, SignSell, ~UNCHANGED sells
  PROVE  \E r \in Requests, token \in DOMAIN quotes :
           /\ sells' = [sells EXCEPT ![r] = plan_sell_at_bid(token)]
           /\ plan_sell_at_bid(token) \in Plan
<1>1. PICK plan \in refresh_sell_plan(Head(exits)), r \in Requests :
        sells' = [sells EXCEPT ![r] = plan]
  BY DEF SignSell
<1> DEFINE token == Head(exits).token
<1>2. plan = plan_sell_at_bid(token) /\ token \in DOMAIN quotes
  BY <1>1 DEF refresh_sell_plan, Sellable, Quoted
<1> HIDE DEF token
<1>3. token \in Tokens /\ quotes[token] \in Nat /\ owned_by_token[token] \in Nat
  BY <1>2, ActiveAreTokens, TicksAssumption DEF ExitInv, MarketInv, VenueInv
<1>4. sellable(token) \in Int
  BY <1>3, QuantumIsPositive DEF sellable
<1>5. TickMax(quotes[token] - SLIPPAGE_TICKS, 1) \in Int
  BY <1>3, TicksAssumption DEF TickMax
<1>6. plan_sell_at_bid(token) \in Plan
  BY <1>3, <1>4, <1>5 DEF plan_sell_at_bid, Plan
<1>7. QED
  BY <1>1, <1>2, <1>6

LEMMA PlanKeeps == ExitInv /\ (PlanExits \/ SignSell) => ExitInv'
<1> SUFFICES ASSUME ExitInv, PlanExits \/ SignSell PROVE ExitInv'
  OBVIOUS
<1>1. UNCHANGED <<inventoryVars, venueVars, market, quotes>>
  BY DEF PlanExits, plan_exits, SignSell
<1>2. VenueInv' /\ MarketInv'
  BY <1>1, VenueKept, MarketKept DEF ExitInv, inventoryVars, venueVars
<1>3. SellsType'
  <2>1. CASE UNCHANGED sells
    BY <2>1, SellsKept DEF ExitInv
  <2>2. CASE ~UNCHANGED sells
    <3>1. SignSell
      BY <2>2 DEF PlanExits, plan_exits
    <3>2. PICK r \in Requests, token \in DOMAIN quotes :
            /\ sells' = [sells EXCEPT ![r] = plan_sell_at_bid(token)]
            /\ plan_sell_at_bid(token) \in Plan
      BY <2>2, <3>1, PostedIsPlan
    <3>3. QED
      BY <3>2 DEF ExitInv, SellsType
  <2>3. QED
    BY <2>1, <2>2
<1>4. QED
  BY <1>2, <1>3 DEF ExitInv

LEMMA SellFillsKeeps ==
  ASSUME ExitInv, NEW r \in Requests, SellFills(r)
  PROVE  ExitInv'
<1>1. PICK units \in 1..sells[r].units, o \in SellOrders \ DOMAIN fills :
        Fill(o, sells[r].token, "SELL", units * QUANTUM)
  BY DEF SellFills
<1>2. sells[r].token \in Tokens
  <2>1. sells[r] \in Plan
    BY DEF SellFills, ExitInv, SellsType
  <2>2. QED
    BY <2>1 DEF Plan
<1>3. units * QUANTUM \in Nat
  BY QuantumIsPositive
<1>4. o \in OrderIds /\ o \notin DOMAIN fills /\ "SELL" \in OrderSide
  BY BooksAssumption DEF OrderSide
<1>5. VenueInv'
  BY <1>1, <1>2, <1>3, <1>4, FillKeepsVenue DEF ExitInv
<1>6. MarketInv' /\ SellsType'
  BY MarketKept, AnsweredKeepsSells DEF ExitInv, SellFills
<1>7. QED
  BY <1>5, <1>6 DEF ExitInv

LEMMA BuyFillsKeeps ==
  ASSUME ExitInv, NEW token \in Tokens, NEW price \in Ticks, BuyFills(token, price)
  PROVE  ExitInv'
<1>1. PICK o \in BuyOrders \ DOMAIN fills : Fill(o, token, "BUY", FillSize)
  BY DEF BuyFills
<1>2. o \in OrderIds /\ "BUY" \in OrderSide /\ FillSize \in Nat
  BY BooksAssumption, SizesAssumption DEF OrderSide
<1>3. VenueInv'
  BY <1>1, <1>2, FillKeepsVenue DEF ExitInv
<1>4. QED
  BY <1>3, MarketKept, SellsKept DEF ExitInv, BuyFills

LEMMA ExitStep == ExitInv /\ [ExitNext]_vars => ExitInv'
<1> SUFFICES ASSUME ExitInv, [ExitNext]_vars PROVE ExitInv'
  OBVIOUS
<1>1. CASE RotateMarket
  BY <1>1, RotateKeeps
<1>2. CASE MarketResolves \/ \E token \in Tokens, bid \in Ticks \cup {NoTick} : BookMoves(token, bid)
  BY <1>2, BookKeeps
<1>3. CASE UserTradeArrives
  <2>1. VenueInv'
    BY <1>3, ReadKeepsVenue DEF ExitInv, UserTradeArrives
  <2>2. QED
    BY <1>3, <2>1, MarketKept, SellsKept DEF ExitInv, UserTradeArrives
<1>4. CASE ChannelUp \/ ChannelDown \/ FrameRefused
  <2>1. VenueInv'
    BY <1>4, ConnectionKeepsVenue, RefusalKeepsVenue DEF ExitInv, ChannelUp, ChannelDown, FrameRefused
  <2>2. QED
    BY <1>4, <2>1, MarketKept, SellsKept DEF ExitInv, ChannelUp, ChannelDown, FrameRefused, exitVars
<1>5. CASE PlanExits \/ SignSell
  BY <1>5, PlanKeeps
<1>6. ASSUME NEW r \in Requests, SellFills(r) PROVE ExitInv'
  BY <1>6, SellFillsKeeps
<1>7. ASSUME NEW r \in Requests, SellKilled(r) PROVE ExitInv'
  BY <1>7, VenueKept, MarketKept, AnsweredKeepsSells DEF ExitInv, SellKilled, inventoryVars, venueVars
<1>8. ASSUME NEW token \in Tokens, NEW price \in Ticks, BuyFills(token, price) PROVE ExitInv'
  BY <1>8, BuyFillsKeeps
<1>9. CASE SettleTrade \/ RepeatEvent
  <2>1. VenueInv'
    <3>1. CASE SettleTrade
      <4>1. PICK o \in DOMAIN fills, status \in Interim \cup {"CONFIRMED", "FAILED"} : Settle(o, status)
        BY <3>1 DEF SettleTrade
      <4>2. QED
        BY <4>1, SettleKeepsVenue DEF ExitInv
    <3>2. CASE RepeatEvent
      BY <3>2, RepeatKeepsVenue DEF RepeatEvent, ExitInv
    <3>3. QED
      BY <1>9, <3>1, <3>2
  <2>2. QED
    BY <1>9, <2>1, MarketKept, SellsKept DEF ExitInv, SettleTrade, RepeatEvent, exitVars
<1>10. CASE Tick \/ UNCHANGED vars
  <2>1. UNCHANGED <<inventoryVars, venueVars, market, quotes, sells>>
    BY <1>10 DEF Tick, vars, exitVars
  <2>2. QED
    BY <2>1, VenueKept, MarketKept, SellsKept DEF ExitInv, inventoryVars, venueVars
<1>11. QED
  BY <1>1, <1>2, <1>3, <1>4, <1>5, <1>6, <1>7, <1>8, <1>9, <1>10 DEF ExitNext

LEMMA ExitStart == ExitInit => ExitInv
<1> SUFFICES ASSUME ExitInit PROVE ExitInv
  OBVIOUS
<1> USE DEF ExitInit, Init, VenueInit
<1>1. VenueInv
  <2>1. <<>> \in Seq(Notice) /\ DOMAIN <<>> = {}
    OBVIOUS
  <2>2. QED
    BY <2>1 DEF VenueInv, FillsType, ChannelOfFills, TradesOfFills
<1>2. MarketInv
  BY BooksAssumption DEF MarketInv, NoQuotes
<1>3. SellsType
  BY DEF SellsType
<1>4. QED
  BY <1>1, <1>2, <1>3 DEF ExitInv

LEMMA ExitInvariant == ExitSpec => []ExitInv
<1>1. QED
  BY ExitStart, ExitStep, PTL DEF ExitSpec

-----------------------------------------------------------------------------
(* Whole units of a balance: never more than it, and some exactly from one *)
(* unit on.                                                                *)
LEMMA UnitsOfBalance ==
  ASSUME NEW balance \in Nat
  PROVE  /\ (balance \div QUANTUM) * QUANTUM <= balance
         /\ balance \div QUANTUM > 0 <=> balance >= QUANTUM
<1> DEFINE units == balance \div QUANTUM
<1>1. units \in Int /\ QUANTUM \in Nat /\ QUANTUM > 0
  BY QuantumIsPositive
<1>2. QUANTUM * units <= balance /\ balance < QUANTUM * (units + 1)
  BY QuantumIsPositive
<1> HIDE DEF units
<1>3. units * QUANTUM <= balance
  BY <1>1, <1>2
<1>4. units > 0 => balance >= QUANTUM
  <2> SUFFICES ASSUME units > 0 PROVE balance >= QUANTUM
    OBVIOUS
  <2>1. QUANTUM * units >= QUANTUM
    BY <1>1
  <2>2. QED
    BY <1>1, <1>2, <2>1
<1>5. balance >= QUANTUM => units > 0
  <2> SUFFICES ASSUME units <= 0 PROVE balance < QUANTUM
    BY <1>1
  <2>1. QUANTUM * (units + 1) <= QUANTUM
    BY <1>1
  <2>2. QED
    BY <1>1, <1>2, <2>1
<1>6. QED
  BY <1>1, <1>3, <1>4, <1>5 DEF units

(* Whatever happened since the decision, a SELL posted is of the active    *)
(* market, of shares owned and at a limit the current bid meets.           *)
THEOREM SellsAlwaysCurrent == ExitSpec => SellsAreCurrent
<1> DEFINE Current(r) ==
      sells'[r] # sells[r] /\ sells'[r] # NoPlan =>
        /\ sells'[r].token \in ActiveTokens /\ Quoted(sells'[r].token)
        /\ sells'[r].units * QUANTUM <= owned_by_token[sells'[r].token]
        /\ sells'[r].price <= quotes[sells'[r].token]
<1>1. ExitInv /\ [ExitNext]_vars => [\A r \in Requests : Current(r)]_vars
  <2> SUFFICES ASSUME ExitInv, [ExitNext]_vars, NEW r \in Requests PROVE Current(r)
    OBVIOUS
  <2>1. CASE UNCHANGED sells
    BY <2>1
  <2>2. CASE \E q \in Requests : sells' = [sells EXCEPT ![q] = NoPlan]
    BY <2>2 DEF ExitInv, SellsType
  <2>3. CASE SignSell /\ ~UNCHANGED sells
    <3>1. PICK q \in Requests, token \in DOMAIN quotes :
            sells' = [sells EXCEPT ![q] = plan_sell_at_bid(token)]
      BY <2>3, PostedIsPlan
    <3>2. q = r \/ sells'[r] = sells[r]
      BY <3>1
    <3>3. sells'[q] = plan_sell_at_bid(token)
      BY <3>1 DEF ExitInv, SellsType
    <3>4. /\ token \in ActiveTokens /\ quotes[token] \in Nat /\ quotes[token] >= 1
          /\ owned_by_token[token] \in Nat
      <4>1. token \in ActiveTokens /\ quotes[token] \in Ticks
        BY DEF ExitInv, MarketInv
      <4>2. token \in Tokens /\ owned_by_token \in [Tokens -> Nat]
        BY <4>1, ActiveAreTokens DEF ExitInv, VenueInv
      <4>3. quotes[token] \in Nat /\ quotes[token] # 0
        BY <4>1, TicksAssumption DEF NoTick
      <4>4. QED
        BY <4>1, <4>2, <4>3
    <3>5. TickMax(quotes[token] - SLIPPAGE_TICKS, 1) <= quotes[token]
      BY <3>4, TicksAssumption DEF TickMax
    <3>6. sellable(token) * QUANTUM <= owned_by_token[token]
      BY <3>4, UnitsOfBalance DEF sellable
    <3>7. QED
      BY <3>2, <3>3, <3>4, <3>5, <3>6 DEF plan_sell_at_bid, Quoted
  <2>4. QED
    BY <2>1, <2>2, <2>3
    DEF ExitNext, vars, exitVars, RotateMarket, MarketResolves, BookMoves, UserTradeArrives, ChannelUp,
        ChannelDown, FrameRefused, PlanExits, plan_exits, SellFills, SellKilled, BuyFills, SettleTrade, RepeatEvent, Tick
<1>2. QED
  BY <1>1, ExitInvariant, PTL DEF ExitSpec, SellsAreCurrent

-----------------------------------------------------------------------------
(* Every token with a unit to sell is tracked, the active market's or not. *)
Tracking == \A token \in Tokens : owned_by_token[token] >= QUANTUM => token \in DOMAIN exit_trackers

(* If no SELL fails, a trade event that leaves something to sell either    *)
(* starts a tracker or leaves less than there was.                         *)
LEMMA TradeKeepsTracking ==
  ASSUME "SELL" \notin MayFail, ExitInv, Tracking, UserTradeArrives
  PROVE  Tracking'
<1> DEFINE r == Record(Arriving(now))
<1>1. PICK price : exit_trackers' = Tracked(Arriving(now), price)
  BY DEF UserTradeArrives, Arriving
<1>2. channel # <<>> /\ owned_by_token' = OwnedAfter(Arriving(now))
  BY DEF UserTradeArrives, Read, apply_user_trade, Arriving
<1>3. /\ r \in Counted /\ r.side = Arriving(now).side
      /\ Arriving(now).status = "FAILED" => r.side \in MayFail
  BY <1>2, ArrivingIsOfFill DEF ExitInv
<1>4. /\ r.token \in Tokens /\ r.side \in {"BUY", "SELL"} /\ r.size_atoms \in Nat
      /\ Arriving(now).status = "FAILED" => r.side = "BUY"
      /\ owned_by_token \in [Tokens -> Nat] /\ OwnedAfter(Arriving(now)) \in [Tokens -> Nat]
  <2>1. OwnedAfter(Arriving(now)) \in [Tokens -> Nat]
    BY <1>2, ExitStep DEF ExitInv, VenueInv, ExitNext
  <2>2. QED
    BY <1>3, <2>1 DEF Counted, OrderSide, ExitInv, VenueInv
<1> HIDE DEF r
<1>5. \A token \in Tokens : token # r.token => owned_by_token'[token] = owned_by_token[token]
  BY <1>2, <1>4 DEF OwnedAfter, r
<1>6. \A token \in DOMAIN exit_trackers : token # r.token => token \in DOMAIN exit_trackers'
  BY <1>1 DEF Tracked, Restrict, r
<1>7. owned_by_token'[r.token] >= QUANTUM => r.token \in DOMAIN exit_trackers'
  <2> SUFFICES ASSUME owned_by_token'[r.token] >= QUANTUM PROVE r.token \in DOMAIN exit_trackers'
    OBVIOUS
  <2>1. OwnedAfter(Arriving(now))[r.token] \div QUANTUM > 0
    BY <1>2, <1>4, UnitsOfBalance
  <2>2. ~(OwnedAfter(Arriving(now))[r.token] \div QUANTUM <= 0)
    BY <1>4, <2>1, QuantumIsPositive
  <2>3. CASE ~inventory_changed(Arriving(now))
    <3>1. exit_trackers' = exit_trackers
      BY <1>1, <2>3 DEF Tracked
    <3>2. owned_by_token' = owned_by_token
      BY <1>2, <2>3 DEF inventory_changed, OwnedAfter
    <3>3. QED
      BY <1>4, <3>1, <3>2 DEF Tracking
  <2>4. CASE inventory_changed(Arriving(now)) /\ r.side = "BUY" /\ Arriving(now).status \in {"MATCHED", "CONFIRMED"}
    BY <1>1, <2>1, <2>4 DEF Tracked, r
  <2>5. CASE /\ inventory_changed(Arriving(now))
             /\ ~(r.side = "BUY" /\ Arriving(now).status \in {"MATCHED", "CONFIRMED"})
    <3>1. exit_trackers' = exit_trackers
      BY <1>1, <2>2, <2>5 DEF Tracked, r
    <3>2. owned_by_token'[r.token] = apply_inventory_delta(owned_by_token[r.token], "SELL", r.size_atoms)
      <4>1. CASE Applies(Arriving(now))
        <5>1. r.side = "SELL"
          BY <1>4, <2>5, <4>1 DEF Applies
        <5>2. QED
          BY <1>2, <1>4, <4>1, <5>1 DEF OwnedAfter, r
      <4>2. CASE ~Applies(Arriving(now)) /\ Reverses(Arriving(now))
        <5>1. Opposite(r.side) = "SELL"
          BY <1>4, <4>2 DEF Reverses, Opposite
        <5>2. QED
          BY <1>2, <1>4, <4>2, <5>1 DEF OwnedAfter, r
      <4>3. QED
        BY <2>5, <4>1, <4>2 DEF inventory_changed
    <3>3. owned_by_token[r.token] \in Nat /\ QUANTUM \in Nat /\ QUANTUM > 0
      BY <1>4, QuantumIsPositive
    <3>4. owned_by_token[r.token] >= QUANTUM
      BY <1>4, <3>2, <3>3 DEF apply_inventory_delta
    <3>5. QED
      BY <1>4, <3>1, <3>4 DEF Tracking
  <2>6. QED
    BY <2>3, <2>4, <2>5
<1>8. QED
  BY <1>5, <1>6, <1>7 DEF Tracking

LEMMA TrackingStep ==
  ASSUME "SELL" \notin MayFail, ExitInv, Tracking, [ExitNext]_vars
  PROVE  Tracking'
<1>1. CASE UserTradeArrives
  BY <1>1, TradeKeepsTracking
<1>2. CASE RotateMarket
  BY <1>2, QuantumIsPositive
  DEF RotateMarket, release_market_scope, OwnedInScope, Restrict, Tracking, ExitInv, VenueInv
<1>3. CASE PlanExits
  <2>1. UNCHANGED owned_by_token /\ DOMAIN exit_trackers' = TrackersKept
    BY <1>3 DEF PlanExits, plan_exits, TrackersRaised, inventoryVars
  <2>2. \A token \in Tokens : owned_by_token[token] >= QUANTUM => sellable(token) > 0
    BY UnitsOfBalance DEF sellable, ExitInv, VenueInv
  <2>3. QED
    BY <2>1, <2>2 DEF Tracking, TrackersKept
<1>4. CASE UNCHANGED <<owned_by_token, exit_trackers>>
  BY <1>4 DEF Tracking
<1>5. QED
  BY <1>1, <1>2, <1>3, <1>4
  DEF ExitNext, vars, exitVars, inventoryVars, venueVars, MarketResolves, BookMoves, ChannelUp, ChannelDown,
      FrameRefused, MalformedFrame,
      SignSell, SellFills, SellKilled, BuyFills, SettleTrade, RepeatEvent, Tick, Fill, Settle, Repeat,
      Connect, Disconnect, set_user_wss_trusted

(* Sellable inventory is always tracked, through failed BUYs, lost and     *)
(* repeated events, rotations and overlapping SELLs, if no SELL that       *)
(* matched fails; that it may is the finding of run ExitSellFails.         *)
THEOREM SellableAlwaysTracked ==
  ASSUME "SELL" \notin MayFail
  PROVE  ExitSpec => []SellableIsTracked
<1>1. ExitInit => Tracking
  BY QuantumIsPositive DEF ExitInit, Init, Tracking
<1>2. ExitInv /\ Tracking /\ [ExitNext]_vars => Tracking'
  BY TrackingStep
<1>3. ExitInv /\ Tracking => SellableIsTracked
  BY ActiveAreTokens, UnitsOfBalance DEF ExitInv, VenueInv, Tracking, SellableIsTracked, sellable
<1>4. QED
  BY <1>1, <1>2, <1>3, ExitInvariant, PTL DEF ExitSpec

-----------------------------------------------------------------------------
(* While the model supports a side, no tracker, bid or hold time gives a   *)
(* reason to sell it: what each of the four conditions asks of the fair    *)
(* value excludes the support, at every threshold.                         *)
THEOREM SupportedAlwaysHeld == ExitSpec => []SupportedIsHeld
<1>1. SupportedIsHeld
  <2> SUFFICES ASSUME NEW token \in DOMAIN exit_trackers, NEW bid \in Ticks, NEW fair \in Fairs,
                      NEW pressure \in Pressures, fair_supports_hold(bid, fair, pressure)
               PROVE  exit_reason(exit_trackers[token], bid, fair, pressure, now) = "none"
    BY DEF SupportedIsHeld
  <2>1. bid \in Nat /\ fair \in Nat /\ EXIT_EDGE_TICKS \in Nat
    BY TicksAssumption, ExitConfigAssumption
  <2>2. fair # NoTick /\ ~(fair <= bid + EXIT_EDGE_TICKS)
    BY <2>1 DEF fair_supports_hold
  <2>3. ~fair_value_exit(bid, fair, pressure) /\ ~fair_boundary_exit(bid, fair)
    BY <2>2 DEF fair_value_exit, fair_boundary_exit
  <2>4. QED
    BY <2>3 DEF exit_reason
<1>2. QED
  BY <1>1, PTL

=============================================================================
