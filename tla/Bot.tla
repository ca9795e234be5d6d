--------------------------------- MODULE Bot ---------------------------------
(***************************************************************************)
(* The entry and the exit flow of one process, over one RuntimeCore and    *)
(* one account at the venue.  EntryFlow and ExitFlow each stand for the    *)
(* other by an environment: EntryFlow sells whatever the venue holds,      *)
(* ExitFlow is given BUYs when its token is flat.  Here a SELL is one the  *)
(* exit task has posted and a BUY one the Binance callback has claimed;    *)
(* the rotation, the clock and a trade event are steps of both.            *)
(*                                                                         *)
(* The module extends EntryFlow, so that what is said of its state is said *)
(* of the whole process, and instantiates ExitFlow without the claims,     *)
(* which only the entry side reads.  Tasks do not die and the channel      *)
(* stays up: what those faults do to either flow is in the runs of the two.*)
(***************************************************************************)
EXTENDS EntryFlow

CONSTANTS
  Books, Ticks, Fairs, Pressures,                           \* as in ExitFlow
  SLIPPAGE_TICKS, EXIT_DROP_TICKS, EXIT_ARM_TICKS, EXIT_STOP_TICKS, EXIT_EDGE_TICKS,
  EXIT_HOLD, MaxInFlight

VARIABLES
  trading_active, quotes, paid, exit_trackers, exits, sells \* ExitFlow's

entryVars == <<task, order, next_submit_id, pending>>
exitVars == <<trading_active, quotes, paid, exit_trackers, exits, sells>>
botVars == <<vars, exitVars>>

Exit == INSTANCE ExitFlow WITH
  MaxBuys <- MaxSubmits, LastBuy <- LastClaim + REQUEST_TIMEOUT, BuysInOrder <- FALSE,
  pending <- [id \in {} |-> 0], next_submit_id <- 0

ASSUME MarketsOfBooks == Markets = [m \in DOMAIN Books |-> Exit!TokensOf(Books[m])]

BotInit == FlowInit /\ Exit!ExitInit

-----------------------------------------------------------------------------
(* The callback asks nothing of a market that has resolved                 *)
(* (runtime::on_binance_sample).                                           *)
Entry(token) ==
  /\ trading_active
  /\ BinanceTick(token)
  /\ UNCHANGED exitVars

Submit(id) == SubmitTask(id) /\ UNCHANGED exitVars

BuyExecutes(id, price) ==
  /\ Execute(id)
  /\ paid' = [o \in DOMAIN paid \cup {id} |-> IF o = id THEN price ELSE paid[o]]
  /\ UNCHANGED <<trading_active, quotes, exit_trackers, exits, sells>>

Expiry == Maintain /\ UNCHANGED exitVars

ExitTask == (Exit!PlanExits \/ Exit!SignSell) /\ UNCHANGED entryVars

MarketFeed ==
  /\ \/ \E token \in Tokens, bid \in Ticks \cup {Exit!NoTick} : Exit!BookMoves(token, bid)
     \/ Exit!MarketResolves
  /\ UNCHANGED entryVars

SellFills(r) == Exit!SellFills(r) /\ UNCHANGED entryVars
SellKilled(r) == Exit!SellKilled(r) /\ UNCHANGED entryVars

UserTradeArrives == Deliver /\ Exit!UserTradeArrives

Channel == (Exit!ChannelUp \/ Exit!SettleTrade \/ Exit!RepeatEvent) /\ UNCHANGED entryVars

Rotation == RotateMarket /\ Exit!RotateMarket

Clock == Tick /\ Exit!Tick

BotNext ==
  \/ \E token \in Tokens : Entry(token)
  \/ \E id \in BuyOrders : Submit(id) \/ \E price \in Ticks : BuyExecutes(id, price)
  \/ Expiry \/ Rotation \/ Clock
  \/ ExitTask \/ MarketFeed
  \/ \E r \in Exit!Requests : SellFills(r) \/ SellKilled(r)
  \/ UserTradeArrives \/ Channel

BotSpec == BotInit /\ [][BotNext]_botVars

(* Of the program: its tasks run, a request ends with its timeout.  Of its *)
(* surroundings: what was sent is read, time passes, and a venue offered a *)
(* SELL of shares it holds again and again fills one of them.              *)
FairBotSpec ==
  /\ BotSpec
  /\ \A id \in BuyOrders : WF_botVars(Submit(id))
  /\ WF_botVars(ExitTask) /\ WF_botVars(UserTradeArrives) /\ WF_botVars(Clock)
  /\ \A r \in Exit!Requests : WF_botVars(SellKilled(r)) /\ SF_botVars(SellFills(r))

-----------------------------------------------------------------------------
(* The exit side does to inventory, venue and market only what EntryFlow   *)
(* lets its environment do: its properties hold of the whole program.      *)
ImplementsEntryFlow == FlowSpec

(* The entry side executes a BUY only of a token that is flat and has no   *)
(* other BUY open, which is what ExitFlow assumes of it: the claim made    *)
(* with the decision outlives every step until the trade is over.          *)
ImplementsExitFlow == Exit!ExitSpec

(* "BUY inventory becomes locally sellable on MATCHED ... the 50ms exit    *)
(* loop keeps submitting FAK SELLs": what the venue holds for the account  *)
(* in the active market, whichever task bought it, is sold down to dust,   *)
(* through kills, failed BUYs and repeated events, while there is a bid.   *)
(* The runs fail no SELL: SellableIsTracked shows what becomes of one.     *)
HeldIsCleared ==
  \A token \in Tokens :
    []<>(\/ VenueBalance(token) < QUANTUM
         \/ token \notin ActiveTokens
         \/ ~Exit!Quoted(token))

=============================================================================
