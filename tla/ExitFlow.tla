------------------------------ MODULE ExitFlow ------------------------------
(***************************************************************************)
(* The exit side of RuntimeCore and the 50 ms exit task: a BUY the user    *)
(* channel reports starts a tracker of its token; plan_exits decides under *)
(* the core lock, then each plan is rebuilt at the current bid under a     *)
(* second lock, signed and posted by a task of its own, whose HTTP answer  *)
(* is only logged.  Between the two locks quotes move, trades arrive and   *)
(* the market rotates.                                                     *)
(*                                                                         *)
(* What the signal engine says of a side (fair value, opposing pressure)   *)
(* is any of Fairs and Pressures at each decision.  A SELL that fails to   *)
(* sign is one the venue kills.                                            *)
(***************************************************************************)
EXTENDS UserChannel

CONSTANTS
  Books,            \* the markets' tokens, <<yes, no>>, in rotation order
  Ticks,            \* bids and fill prices, in ticks
  Fairs,            \* fair values in ticks; NoTick is None
  Pressures,        \* what opposes_side answers: "opposes", "not", "unknown"
  SLIPPAGE_TICKS, EXIT_DROP_TICKS, EXIT_ARM_TICKS,
  EXIT_STOP_TICKS, EXIT_EDGE_TICKS,
  EXIT_HOLD,        \* clock ticks a position is held before the hold boundary
  FillSize,         \* atoms a BUY brings when it executes
  MaxBuys,          \* bound: BUY trades
  BuysInOrder,      \* bound: BUY orders execute in the order of their numbers
  MaxSells,         \* bound: SELL trades
  MaxInFlight,      \* bound: SELL requests running at once
  MaxTime,          \* bound: the last clock tick
  LastBuy           \* bound: the last clock tick at which a BUY executes and,
                    \* since the clock then waits for its event, is read

NoTick == 0
BuyOrders == 1..MaxBuys
SellOrders == MaxBuys + 1 .. MaxBuys + MaxSells
Requests == 1..MaxInFlight

ASSUME TicksAssumption ==
  /\ Ticks \subseteq Nat \ {NoTick}
  /\ Fairs \subseteq Nat
  /\ SLIPPAGE_TICKS \in Nat
ASSUME ExitConfigAssumption ==
  /\ {EXIT_DROP_TICKS, EXIT_STOP_TICKS, EXIT_HOLD} \subseteq Nat \ {0}
  /\ {EXIT_ARM_TICKS, EXIT_EDGE_TICKS} \subseteq Nat
ASSUME BooksAssumption ==
  /\ Books \in Seq(Seq(Tokens))
  /\ FillSize \in Sizes
  /\ BuyOrders \cup SellOrders \subseteq OrderIds \cap TradeIds
  /\ 0..MaxTime \subseteq Stamps

VARIABLES
  now,             \* the wall clock
  market,          \* index of the active market, 0 before the first discovery
  trading_active,  \* has the active market not resolved yet
  quotes,          \* token -> bid of the active market's book, if it has one
  paid,            \* BUY order -> its fill price
  exit_trackers,   \* token -> ExitTracker
  exits,           \* decisions of this cycle not yet signed, in order
  sells            \* request -> the SELL plan posted, NoPlan when answered

exitVars == <<now, market, trading_active, quotes, paid, exit_trackers, exits, sells>>
vars == <<inventoryVars, venueVars, exitVars>>

ActiveBook == IF market = 0 THEN <<>> ELSE Books[market]
TokensOf(book) == {book[i] : i \in DOMAIN book}
ActiveTokens == TokensOf(ActiveBook)
NoPlan == [token |-> "none"]
NoQuotes == [token \in {} |-> NoTick]

TickMax(a, b) == IF a >= b THEN a ELSE b

ExitInit ==
  /\ Init
  /\ VenueInit
  /\ now = 0
  /\ market = 0
  /\ trading_active = FALSE
  /\ quotes = NoQuotes
  /\ paid = [o \in {} |-> NoTick]
  /\ exit_trackers = [token \in {} |-> 0]
  /\ exits = <<>>
  /\ sells = [r \in Requests |-> NoPlan]

-----------------------------------------------------------------------------
(* RuntimeState: set_market, update_quote, mark_market_inactive.           *)
RotateMarket ==
  /\ market < Len(Books)
  /\ market' = market + 1
  /\ trading_active' = TRUE
  /\ quotes' = NoQuotes
  /\ LET active == TokensOf(Books[market + 1]) IN
       /\ release_market_scope(active)
       /\ exit_trackers' = Restrict(exit_trackers, DOMAIN exit_trackers \cap active)
  /\ UNCHANGED <<venueVars, now, paid, exits, sells>>

Quoted(token) == token \in DOMAIN quotes

(* The bid of a token changes, or goes: NoTick.                            *)
BookMoves(token, bid) ==
  /\ trading_active
  /\ token \in ActiveTokens
  /\ IF Quoted(token) THEN bid # quotes[token] ELSE bid # NoTick
  /\ LET bids == [t \in DOMAIN quotes \cup {token} |-> IF t = token THEN bid ELSE quotes[t]] IN
       quotes' = IF bid # NoTick THEN bids ELSE Restrict(quotes, DOMAIN quotes \ {token})
  /\ UNCHANGED <<inventoryVars, venueVars, now, market, trading_active, paid,
                 exit_trackers, exits, sells>>

(* Mutant of MarketResolves: the resolution releases the market's scope.   *)
ResolvesAndForgets ==
  /\ trading_active
  /\ trading_active' = FALSE
  /\ quotes' = NoQuotes
  /\ release_market_scope({})
  /\ UNCHANGED <<venueVars, now, market, paid, exit_trackers, exits, sells>>

MarketResolves ==
  /\ trading_active
  /\ trading_active' = FALSE
  /\ quotes' = NoQuotes
  /\ UNCHANGED <<inventoryVars, venueVars, now, market, paid, exit_trackers, exits, sells>>

-----------------------------------------------------------------------------
(* track_user_trade_for_exit, after apply_user_trade and in its lock.      *)
ExitTracker ==
  [entry_price : Ticks, entry_bid : Ticks, peak_bid : Ticks, fill_ts_us : Stamps]

EntryBid(token, price) == IF Quoted(token) THEN quotes[token] ELSE price

Tracked(trade, price) ==
  LET r == Record(trade)
      sellable_after == OwnedAfter(trade)[r.token] \div QUANTUM
      current_bid == EntryBid(r.token, price)
      tracker == [entry_price |-> price, entry_bid |-> current_bid,
                  peak_bid |-> TickMax(current_bid, price), fill_ts_us |-> trade.ts_us]
      starts == /\ r.side = "BUY"
                /\ trade.status \in {"MATCHED", "CONFIRMED"}
                /\ sellable_after > 0
      ends == r.side = "SELL" /\ sellable_after <= 0
  IN  IF ~inventory_changed(trade) THEN exit_trackers
      ELSE IF starts
      THEN [token \in DOMAIN exit_trackers \cup {r.token} |->
              IF token = r.token THEN tracker ELSE exit_trackers[token]]
      ELSE IF ends THEN Restrict(exit_trackers, DOMAIN exit_trackers \ {r.token})
      ELSE exit_trackers

UserTradeArrives ==
  /\ Read(now)
  /\ LET e == Head(channel) IN
       exit_trackers' = Tracked(Event(e, now), IF e.order \in DOMAIN paid THEN paid[e.order] ELSE NoTick)
  /\ UNCHANGED <<now, market, trading_active, quotes, paid, exits, sells>>

ChannelUp == Connect /\ UNCHANGED exitVars

ChannelDown == Disconnect /\ UNCHANGED exitVars

FrameRefused == MalformedFrame /\ UNCHANGED exitVars

-----------------------------------------------------------------------------
(* plan_exits: the reason to sell a tracked token at this bid, or "none".  *)
fair_supports_hold(bid, fair, pressure) ==
  fair # NoTick /\ fair > bid + EXIT_EDGE_TICKS /\ pressure # "opposes"

fair_value_exit(bid, fair, pressure) ==
  fair # NoTick /\ fair <= bid + EXIT_EDGE_TICKS /\ pressure = "opposes"

(* Mutants of fair_boundary_exit: the hold boundary sells whatever is      *)
(* fair; it does not sell when the model is unavailable.                   *)
boundary_always(bid, fair) == TRUE

boundary_if_known(bid, fair) == fair # NoTick /\ fair <= bid + EXIT_EDGE_TICKS

fair_boundary_exit(bid, fair) == fair = NoTick \/ fair <= bid + EXIT_EDGE_TICKS

exit_reason(tracker, bid, fair, pressure, now_ts_us) ==
  LET peak == TickMax(tracker.peak_bid, bid) IN
  IF /\ tracker.entry_bid - bid >= EXIT_STOP_TICKS
     /\ ~fair_supports_hold(bid, fair, pressure)
  THEN "stop"
  ELSE IF fair_value_exit(bid, fair, pressure)
  THEN IF /\ peak - tracker.entry_price >= EXIT_ARM_TICKS
          /\ peak - bid >= EXIT_DROP_TICKS
       THEN "drop" ELSE "value"
  ELSE IF /\ now_ts_us - tracker.fill_ts_us >= EXIT_HOLD
          /\ fair_boundary_exit(bid, fair)
  THEN "hold"
  ELSE "none"

(* plan_sell_at_bid, when there is a bid and something to sell.            *)
plan_sell_at_bid(token) ==
  [token |-> token,
   price |-> TickMax(quotes[token] - SLIPPAGE_TICKS, 1),
   units |-> sellable(token)]

Sellable(token) == Quoted(token) /\ sellable(token) > 0

(* The trackers left by plan_exits, their peaks raised to the bid.  The    *)
(* mutant drops a tracker whose book has no bid.                           *)
TrackersWithBid ==
  {token \in DOMAIN exit_trackers : token \in ActiveTokens => Sellable(token)}

TrackersKept ==
  {token \in DOMAIN exit_trackers : token \in ActiveTokens => sellable(token) > 0}

TrackersRaised ==
  [token \in TrackersKept |->
     IF token \in ActiveTokens /\ Quoted(token)
     THEN [exit_trackers[token] EXCEPT !.peak_bid = TickMax(@, quotes[token])]
     ELSE exit_trackers[token]]

plan_exits(fair, pressure) ==
  /\ exits = <<>>
  /\ market # 0
  /\ LET Fires(token) ==
           /\ token \in TrackersKept
           /\ Sellable(token)
           /\ exit_reason(exit_trackers[token], quotes[token],
                          fair[token], pressure[token], now) # "none"
         fired == SelectSeq(ActiveBook, Fires)
     IN  exits' = [i \in DOMAIN fired |-> plan_sell_at_bid(fired[i])]
  /\ exit_trackers' = TrackersRaised
  /\ UNCHANGED <<inventoryVars, venueVars, now, market, trading_active, quotes, paid, sells>>

PlanExits ==
  \E fair \in [ActiveTokens -> Fairs], pressure \in [ActiveTokens -> Pressures] :
    plan_exits(fair, pressure)

(* The plans refresh_sell_plan may return for a decision: none or one.     *)
(* Its mutant signs what was decided.                                      *)
unrefreshed_sell_plan(decided) == {decided}

refresh_sell_plan(decided) ==
  IF Sellable(decided.token) THEN {plan_sell_at_bid(decided.token)} ELSE {}

SignSell ==
  /\ exits # <<>>
  /\ exits' = Tail(exits)
  /\ LET plans == refresh_sell_plan(Head(exits)) IN
       \/ plans = {} /\ UNCHANGED sells
       \/ \E plan \in plans, r \in Requests :
            /\ sells[r] = NoPlan
            /\ \A q \in Requests : sells[q] = NoPlan => r <= q
            /\ sells' = [sells EXCEPT ![r] = plan]
  /\ UNCHANGED <<inventoryVars, venueVars, now, market, trading_active, quotes, paid, exit_trackers>>

-----------------------------------------------------------------------------
(* The venue: a FAK SELL fills, in part or in full, from the shares it     *)
(* holds, or is killed; a BUY posted while its market was active executes. *)
SellFills(r) ==
  /\ sells[r] # NoPlan
  /\ \E units \in 1..(VenueBalance(sells[r].token) \div QUANTUM), o \in SellOrders \ DOMAIN fills :
       /\ units <= sells[r].units
       /\ \A p \in SellOrders : p < o => p \in DOMAIN fills
       /\ Fill(o, sells[r].token, "SELL", units * QUANTUM)
  /\ sells' = [sells EXCEPT ![r] = NoPlan]
  /\ UNCHANGED <<now, market, trading_active, quotes, paid, exit_trackers, exits>>

SellKilled(r) ==
  /\ sells[r] # NoPlan
  /\ sells' = [sells EXCEPT ![r] = NoPlan]
  /\ UNCHANGED <<inventoryVars, venueVars, now, market, trading_active, quotes, paid,
                 exit_trackers, exits>>

(* A claim blocks the token until its BUY is over (EntryFlow.tla).         *)
OpenBuy(token) ==
  \E o \in BuyOrders \cap DOMAIN fills :
    fills[o].token = token /\ ~(o \in DOMAIN trades /\ trades[o].finalized)

BuyFills(token, price) ==
  /\ now <= LastBuy
  /\ user_wss_trusted
  /\ \E m \in 1..market : token \in TokensOf(Books[m])
  /\ owned_by_token[token] < QUANTUM
  /\ ~OpenBuy(token)
  /\ \E o \in BuyOrders \ DOMAIN fills :
       /\ BuysInOrder => \A p \in BuyOrders \ DOMAIN fills : o <= p
       /\ Fill(o, token, "BUY", FillSize)
       /\ paid' = [p \in DOMAIN paid \cup {o} |-> IF p = o THEN price ELSE paid[p]]
  /\ UNCHANGED <<now, market, trading_active, quotes, exit_trackers, exits, sells>>

SettleTrade ==
  /\ \E o \in DOMAIN fills, status \in Interim \cup {"CONFIRMED", "FAILED"} : Settle(o, status)
  /\ UNCHANGED exitVars

RepeatEvent == (\E o \in DOMAIN fills : Repeat(o)) /\ UNCHANGED exitVars

Tick ==
  /\ now < MaxTime
  /\ now >= LastBuy => channel = <<>>
  /\ now' = now + 1
  /\ UNCHANGED <<inventoryVars, venueVars, market, trading_active, quotes, paid,
                 exit_trackers, exits, sells>>

ExitNext ==
  \/ RotateMarket \/ MarketResolves
  \/ \E token \in Tokens, bid \in Ticks \cup {NoTick} : BookMoves(token, bid)
  \/ UserTradeArrives \/ ChannelUp \/ ChannelDown \/ FrameRefused
  \/ PlanExits \/ SignSell
  \/ \E r \in Requests : SellFills(r) \/ SellKilled(r)
  \/ \E token \in Tokens, price \in Ticks : BuyFills(token, price)
  \/ SettleTrade \/ RepeatEvent
  \/ Tick

ExitSpec == ExitInit /\ [][ExitNext]_vars

-----------------------------------------------------------------------------
(* "Exit refreshes the SELL limit at sign time": what is posted is a token *)
(* of the active market, no more of it than is owned at that moment, at a  *)
(* limit its current bid meets, whatever happened since the decision.      *)
SellsAreCurrent ==
  [][\A r \in Requests : sells'[r] # sells[r] /\ sells'[r] # NoPlan =>
       /\ sells'[r].token \in ActiveTokens /\ Quoted(sells'[r].token)
       /\ sells'[r].units * QUANTUM <= owned_by_token[sells'[r].token]
       /\ sells'[r].price <= quotes[sells'[r].token]]_vars

(* "The 50ms exit loop retries while WSS-owned inventory remains           *)
(* sellable": sellable inventory of the active market always has the       *)
(* tracker without which plan_exits passes it over.                        *)
SellableIsTracked ==
  \A token \in ActiveTokens : sellable(token) > 0 => token \in DOMAIN exit_trackers

(* "It no longer forces out supported winners": while the model values the *)
(* side above the bid and nothing opposes it, no tracker the run produces  *)
(* gives a reason to sell, whichever of the four reasons is tried.         *)
SupportedIsHeld ==
  \A token \in DOMAIN exit_trackers, bid \in Ticks, fair \in Fairs, pressure \in Pressures :
    fair_supports_hold(bid, fair, pressure) =>
      exit_reason(exit_trackers[token], bid, fair, pressure, now) = "none"

=============================================================================
