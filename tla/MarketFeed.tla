----------------------------- MODULE MarketFeed -----------------------------
(***************************************************************************)
(* The market channel: market_feed_loop (feed.rs), what its messages do to *)
(* RuntimeState (market.rs, state.rs), and the maintenance task's part in  *)
(* it, a new market and the subscription it queues.                        *)
(*                                                                         *)
(* A market is its place in the order of rotation and stands for its two   *)
(* tokens; a quote is the top of its book.  Subscribing makes the venue    *)
(* send the book, which may have one side or none.                         *)
(***************************************************************************)
EXTENDS Integers, Sequences

CONSTANTS
  Markets,           \* bound: markets
  Tops,              \* the tops a book has
  MaxDrops,          \* bound: connections lost
  MaxMoves           \* bound: changes of the venue's books

NoMarket == 0
None == 0                                                   \* no price
EmptyTop == [bid |-> None, ask |-> None]
NoQuote == [market |-> NoMarket, top |-> EmptyTop]

ASSUME FeedAssumption ==
  /\ Markets \in Nat \ {0} /\ MaxDrops \in Nat /\ MaxMoves \in Nat
  /\ Tops # {} /\ Tops \subseteq [bid : Nat, ask : Nat]

VARIABLES
  market,            \* the market of RuntimeState
  trading_active,
  quote,             \* its quote, and (history) the market it was sent for
  unannounced,       \* a market whose subscription is not queued yet
  outgoing,          \* the queue of subscriptions to send
  phase,             \* the connection: "down", "connected" or "subscribed"
  assets,            \* current_tokens, read when the connection was made
  subscribed,        \* the venue: markets subscribed on this connection
  channel,           \* messages sent and not read
  book,              \* the venue: the top of each market's book
  resolved,          \* the venue: markets resolved
  drops, moves

stateVars == <<market, trading_active, quote>>
feedVars == <<outgoing, phase, assets, subscribed, channel, drops>>
venueVars == <<book, resolved, moves>>
vars == <<stateVars, unannounced, feedVars, venueVars>>

Quoted(m) == [type |-> "quote", market |-> m, top |-> book[m]]
Resolution(m) == [type |-> "resolved", market |-> m]

Init ==
  /\ market = NoMarket /\ trading_active = FALSE /\ quote = NoQuote
  /\ unannounced = NoMarket
  /\ outgoing = <<>> /\ channel = <<>>
  /\ phase = "down" /\ assets = NoMarket /\ subscribed = {} /\ drops = 0
  /\ book \in {[m \in 1..Markets |-> top] : top \in Tops}
  /\ resolved = {} /\ moves = 0

-----------------------------------------------------------------------------
(* The maintenance task: the market under the lock, the subscription after *)
(* it.  Clearing forgets the old market's quote; the mutant does not.      *)
QuoteKept == UNCHANGED quote
QuotesCleared == quote' = NoQuote

SetMarket ==
  /\ unannounced = NoMarket /\ market < Markets
  /\ market' = market + 1
  /\ trading_active' = TRUE
  /\ QuotesCleared
  /\ unannounced' = market + 1
  /\ UNCHANGED <<feedVars, venueVars>>

QueueSubscribe ==
  /\ unannounced # NoMarket
  /\ outgoing' = Append(outgoing, unannounced)
  /\ unannounced' = NoMarket
  /\ UNCHANGED <<stateVars, phase, assets, subscribed, channel, drops, venueVars>>

-----------------------------------------------------------------------------
(* The loop.  Its mutant asks for the tokens known when it started.        *)
tokens_at_start == NoMarket
current_tokens == market

WsConnected ==
  /\ phase = "down"
  /\ phase' = "connected"
  /\ assets' = current_tokens
  /\ UNCHANGED <<stateVars, unannounced, outgoing, subscribed, channel, drops, venueVars>>

(* No tokens, no subscription.                                             *)
Subscribed(m) ==
  /\ subscribed' = subscribed \cup ({m} \ {NoMarket})
  /\ channel' = IF m = NoMarket THEN channel ELSE Append(channel, Quoted(m))

SubscribeSent ==
  /\ phase = "connected"
  /\ phase' = "subscribed"
  /\ Subscribed(assets)
  /\ UNCHANGED <<stateVars, unannounced, outgoing, assets, drops, venueVars>>

OutgoingSent ==
  /\ phase = "subscribed" /\ outgoing # <<>>
  /\ outgoing' = Tail(outgoing)
  /\ Subscribed(Head(outgoing))
  /\ UNCHANGED <<stateVars, unannounced, phase, assets, drops, venueVars>>

(* on_disconnect does nothing: the quotes stay.                            *)
Down ==
  /\ drops < MaxDrops
  /\ drops' = drops + 1
  /\ phase' = "down" /\ assets' = NoMarket /\ subscribed' = {} /\ channel' = <<>>
  /\ UNCHANGED <<stateVars, unannounced, venueVars>>

(* A close or a ping that cannot be sent; or a subscription that cannot,   *)
(* which is then gone from the queue.                                      *)
Closed == phase # "down" /\ Down /\ UNCHANGED outgoing

OutgoingFails ==
  /\ phase = "subscribed" /\ outgoing # <<>>
  /\ Down
  /\ outgoing' = Tail(outgoing)

-----------------------------------------------------------------------------
(* apply_market_events: a token that is not the market's is ignored, and   *)
(* so is a resolution that is not.                                         *)
any_resolution(m) == TRUE
resolution_matches_active_market(m) == m = market

(* A message with neither price is no quote: it is dropped, and the quote  *)
(* of before stays.  One price is enough; the mutant asks for both.        *)
both_sides(top) == top.bid # None /\ top.ask # None
executable(top) == top.bid # None \/ top.ask # None

update_quote(m, top) ==
  quote' = IF executable(top) /\ trading_active /\ m = market
           THEN [market |-> m, top |-> top] ELSE quote

apply_market_events(message) ==
  \/ /\ message.type = "quote"
     /\ update_quote(message.market, message.top)
     /\ UNCHANGED trading_active
  \/ /\ message.type = "resolved" /\ resolution_matches_active_market(message.market)
     /\ trading_active' = FALSE
     /\ QuotesCleared
  \/ /\ message.type = "resolved" /\ ~resolution_matches_active_market(message.market)
     /\ UNCHANGED <<trading_active, quote>>

Read ==
  /\ phase = "subscribed" /\ channel # <<>>
  /\ apply_market_events(Head(channel))
  /\ channel' = Tail(channel)
  /\ UNCHANGED <<market, unannounced, outgoing, phase, assets, subscribed, drops, venueVars>>

-----------------------------------------------------------------------------
(* The venue.                                                              *)
SentTo(m, message) == IF m \in subscribed THEN Append(channel, message) ELSE channel

BookMoves(m, top) ==
  /\ moves < MaxMoves /\ m \notin resolved /\ top # book[m]
  /\ moves' = moves + 1
  /\ book' = [book EXCEPT ![m] = top]
  /\ channel' = SentTo(m, [Quoted(m) EXCEPT !.top = top])
  /\ UNCHANGED <<stateVars, unannounced, outgoing, phase, assets, subscribed, drops, resolved>>

MarketResolves(m) ==
  /\ m <= market /\ m \notin resolved
  /\ resolved' = resolved \cup {m}
  /\ channel' = SentTo(m, Resolution(m))
  /\ UNCHANGED <<stateVars, unannounced, outgoing, phase, assets, subscribed, drops, book, moves>>

Loop == WsConnected \/ SubscribeSent \/ OutgoingSent \/ Read

Next ==
  \/ SetMarket \/ QueueSubscribe
  \/ WsConnected \/ SubscribeSent \/ OutgoingSent \/ OutgoingFails \/ Closed
  \/ Read
  \/ \E m \in 1..Markets : MarketResolves(m) \/ \E top \in Tops : BookMoves(m, top)

Spec == Init /\ [][Next]_vars

(* The loop and the maintenance task keep running; nothing else must.      *)
FairSpec == Spec /\ WF_vars(Loop) /\ WF_vars(QueueSubscribe)

-----------------------------------------------------------------------------
(* No decision reads a quote of another market, whatever was in the        *)
(* channel, on the wire or in the queue when the market changed, and none  *)
(* after the market resolved.                                              *)
QuoteIsOfMarket == quote # NoQuote => trading_active /\ quote.market = market

(* "Can't verify which market resolved -- don't kill the active one": only *)
(* its own resolution ends a market's trading, not one of the market       *)
(* before it that arrives after the rotation.                              *)
ActiveUntilResolved == market # NoMarket /\ ~trading_active => market \in resolved

(* With the market subscribed and no message of it on the way, the quote   *)
(* is the venue's, both prices or the one there is, over reconnections and *)
(* over what was missed in between -- unless the book is empty, which is   *)
(* never a quote: the one of before then stays.                            *)
QuoteIsVenues ==
  /\ phase = "subscribed" /\ market \in subscribed /\ trading_active
  /\ \A i \in DOMAIN channel : channel[i].market # market
  /\ book[market] # EmptyTop
  => quote = [market |-> market, top |-> book[market]]

(* Every market is quoted, and a quote that outlived its connection is the *)
(* venue's again, whichever of the rotation, the reading of the tokens and *)
(* the loss of the connection came first, unless the market resolves, is   *)
(* rotated away or its book is empty.                                      *)
EveryMarketIsQuoted ==
  \A m \in 1..Markets :
    market = m /\ book[m] # EmptyTop
    ~> \/ quote = [market |-> m, top |-> book[m]]
       \/ m \in resolved \/ market # m \/ book[m] = EmptyTop

=============================================================================
