-------------------------- MODULE MarketFeedProofs --------------------------
(***************************************************************************)
(* Theorems about MarketFeed, for any number of markets, lost connections  *)
(* and moves of the books.                                                 *)
(*                                                                         *)
(* None of the three properties is inductive: they follow from what is in  *)
(* the channel.  A market unknown to the bot is never subscribed           *)
(* (AsksForKnown), a resolution on the way has happened (TellsResolved),   *)
(* and unless the book is empty the last quote on the way is the venue's   *)
(* (Fresh).                                                                *)
(***************************************************************************)
EXTENDS MarketFeed, TLAPS

Message ==
  [type : {"quote"}, market : 1..Markets, top : Tops] \cup [type : {"resolved"}, market : 1..Markets]

FeedType ==
  /\ market \in 0..Markets /\ trading_active \in BOOLEAN
  /\ unannounced \in Int /\ outgoing \in Seq(Int) /\ assets \in Int /\ subscribed \in SUBSET Int
  /\ channel \in Seq(Message)
  /\ book \in [1..Markets -> Tops]

AsksForKnown ==
  /\ unannounced \in 0..market /\ assets \in 0..market /\ subscribed \subseteq 1..market
  /\ \A i \in DOMAIN outgoing : outgoing[i] \in 1..market
  /\ phase # "subscribed" => subscribed = {} /\ channel = <<>>

TellsResolved ==
  \A i \in DOMAIN channel : channel[i].type = "resolved" => channel[i].market \in resolved

(* A message that sets the quote.                                          *)
Quotes(message) ==
  message.type = "quote" /\ message.market = market /\ message.top # EmptyTop

Fresh ==
  market \in subscribed /\ trading_active /\ book[market] # EmptyTop =>
    \/ /\ \A i \in DOMAIN channel : ~Quotes(channel[i])
       /\ quote = [market |-> market, top |-> book[market]]
    \/ \E i \in DOMAIN channel :
         /\ Quotes(channel[i]) /\ channel[i].top = book[market]
         /\ \A j \in DOMAIN channel : j > i => ~Quotes(channel[j])

FeedInv ==
  /\ FeedType /\ AsksForKnown /\ TellsResolved /\ Fresh
  /\ QuoteIsOfMarket /\ ActiveUntilResolved

-----------------------------------------------------------------------------
LEMMA FeedStart == Init => FeedInv
<1> SUFFICES ASSUME Init PROVE FeedInv
  OBVIOUS
<1> USE FeedAssumption DEF Init, NoMarket
<1>1. FeedType /\ AsksForKnown
  <2>1. book \in [1..Markets -> Tops]
    OBVIOUS
  <2>2. /\ 0 \in 0..Markets /\ 0 \in 0..0 /\ <<>> \in Seq(Int) /\ <<>> \in Seq(Message)
        /\ DOMAIN <<>> = {}
    OBVIOUS
  <2>3. FeedType
    <3>1. trading_active \in BOOLEAN
      OBVIOUS
    <3>2. QED
      BY <2>1, <2>2, <3>1 DEF FeedType
  <2>4. AsksForKnown
    BY <2>2 DEF AsksForKnown
  <2>5. QED
    BY <2>3, <2>4
<1>2. TellsResolved /\ Fresh
  BY DEF TellsResolved, Fresh
<1>3. QuoteIsOfMarket /\ ActiveUntilResolved
  BY DEF QuoteIsOfMarket, ActiveUntilResolved
<1>4. QED
  BY <1>1, <1>2, <1>3 DEF FeedInv

(* A new market is one no connection has asked for.                        *)
LEMMA SetMarketStep == FeedInv /\ SetMarket => FeedInv'
<1> SUFFICES ASSUME FeedInv, SetMarket PROVE FeedInv'
  OBVIOUS
<1> USE FeedAssumption DEF NoMarket, stateVars, feedVars, venueVars
<1>1. /\ market \in 0..Markets /\ market < Markets /\ market' = market + 1 /\ trading_active' = TRUE
      /\ quote' = NoQuote /\ unannounced' = market + 1
      /\ UNCHANGED <<outgoing, phase, assets, subscribed, channel, book, resolved>>
  BY DEF FeedInv, FeedType, SetMarket, QuotesCleared
<1>2. FeedType'
  BY <1>1 DEF FeedInv, FeedType
<1>3. AsksForKnown'
  BY <1>1 DEF FeedInv, FeedType, AsksForKnown
<1>4. TellsResolved'
  BY <1>1 DEF FeedInv, TellsResolved
<1>5. Fresh'
  <2>1. market' \notin subscribed'
    BY <1>1 DEF FeedInv, AsksForKnown
  <2>2. QED
    BY <2>1 DEF Fresh
<1>6. QuoteIsOfMarket' /\ ActiveUntilResolved'
  BY <1>1 DEF QuoteIsOfMarket, ActiveUntilResolved
<1>7. QED
  BY <1>2, <1>3, <1>4, <1>5, <1>6 DEF FeedInv

(* The subscription of a known market is queued; a connection is made with *)
(* the market known; neither touches what is on the way.                   *)
LEMMA QuietStep == FeedInv /\ (QueueSubscribe \/ WsConnected) => FeedInv'
<1> SUFFICES ASSUME FeedInv, QueueSubscribe \/ WsConnected PROVE FeedInv'
  OBVIOUS
<1> USE FeedAssumption DEF NoMarket, stateVars, venueVars
<1>1. UNCHANGED <<market, trading_active, quote, subscribed, channel, book, resolved>>
  BY DEF QueueSubscribe, WsConnected
<1>2. FeedType' /\ AsksForKnown'
  <2>1. CASE QueueSubscribe
    <3>1. /\ unannounced \in 1..market /\ outgoing' = Append(outgoing, unannounced)
          /\ unannounced' = NoMarket /\ UNCHANGED <<assets, phase>>
          /\ outgoing \in Seq(Int) /\ market \in Nat
      BY <2>1 DEF FeedInv, FeedType, AsksForKnown, QueueSubscribe
    <3>2. outgoing' \in Seq(Int) /\ \A i \in DOMAIN outgoing' : outgoing'[i] \in 1..market
      BY <3>1 DEF FeedInv, AsksForKnown
    <3>3. FeedType'
      BY <1>1, <3>1, <3>2 DEF FeedInv, FeedType
    <3>4. AsksForKnown'
      BY <1>1, <3>1, <3>2 DEF FeedInv, AsksForKnown
    <3>5. QED
      BY <3>3, <3>4
  <2>2. CASE WsConnected
    BY <1>1, <2>2 DEF FeedInv, FeedType, AsksForKnown, WsConnected, current_tokens
  <2>3. QED
    BY <2>1, <2>2
<1>3. TellsResolved' /\ Fresh'
  BY <1>1 DEF FeedInv, TellsResolved, Fresh, Quotes
<1>4. QuoteIsOfMarket' /\ ActiveUntilResolved'
  BY <1>1 DEF FeedInv, QuoteIsOfMarket, ActiveUntilResolved
<1>5. QED
  BY <1>2, <1>3, <1>4 DEF FeedInv

(* A top that is not empty has one price at least.                         *)
LEMMA ExecutableIsNotEmpty == \A top \in Tops : executable(top) <=> top # EmptyTop
<1>1. \A top \in Tops : top = [bid |-> top.bid, ask |-> top.ask]
  BY FeedAssumption
<1>2. QED
  BY <1>1 DEF executable, EmptyTop

(* What is sent next leaves the last quote the venue's, if it is a quote of*)
(* the active market with the venue's top or no quote of it.               *)
LEMMA SentIsFresh ==
  ASSUME FeedInv, NEW message \in Message, channel' = Append(channel, message),
         UNCHANGED <<market, trading_active, quote>>,
         Quotes(message) => message.top = book'[market],
         ~Quotes(message) => \/ book'[market] = EmptyTop
                             \/ /\ book'[market] = book[market]
                                /\ market \in subscribed' => market \in subscribed,
         message.type = "resolved" => message.market \in resolved', resolved \subseteq resolved'
  PROVE  channel' \in Seq(Message) /\ TellsResolved' /\ Fresh'
<1>1. /\ channel \in Seq(Message) /\ channel' \in Seq(Message)
      /\ Len(channel') = Len(channel) + 1 /\ channel'[Len(channel) + 1] = message
      /\ \A i \in DOMAIN channel : channel'[i] = channel[i]
      /\ DOMAIN channel = 1..Len(channel) /\ DOMAIN channel' = 1..(Len(channel) + 1)
      /\ Len(channel) \in Nat
  BY DEF FeedInv, FeedType
<1>2. TellsResolved'
  BY <1>1 DEF FeedInv, TellsResolved
<1>3. Fresh'
  <2>1. CASE Quotes(message)
    <3>1. /\ Len(channel) + 1 \in DOMAIN channel' /\ channel'[Len(channel) + 1] = message
          /\ \A j \in DOMAIN channel' : ~(j > Len(channel) + 1)
      BY <1>1
    <3>2. /\ message.type = "quote" /\ message.market = market' /\ message.top # EmptyTop
          /\ message.top = book'[market']
      BY <2>1 DEF Quotes
    <3>3. QED
      BY <3>1, <3>2 DEF Fresh, Quotes
  <2>2. CASE ~Quotes(message) /\ market \in subscribed' /\ trading_active /\ book'[market] # EmptyTop
    <3>1. \/ /\ \A i \in DOMAIN channel : ~Quotes(channel[i])
             /\ quote = [market |-> market, top |-> book[market]]
          \/ \E i \in DOMAIN channel :
               /\ Quotes(channel[i]) /\ channel[i].top = book[market]
               /\ \A j \in DOMAIN channel : j > i => ~Quotes(channel[j])
      BY <2>2 DEF FeedInv, Fresh
    <3>2. CASE /\ \A i \in DOMAIN channel : ~Quotes(channel[i])
               /\ quote = [market |-> market, top |-> book[market]]
      <4>1. \A i \in DOMAIN channel' : ~Quotes(channel'[i])
        BY <1>1, <2>2, <3>2
      <4>2. quote' = [market |-> market', top |-> book'[market']]
        BY <2>2, <3>2
      <4>3. QED
        BY <4>1, <4>2 DEF Fresh, Quotes
    <3>3. CASE \E i \in DOMAIN channel :
                 /\ Quotes(channel[i]) /\ channel[i].top = book[market]
                 /\ \A j \in DOMAIN channel : j > i => ~Quotes(channel[j])
      <4>1. PICK i \in DOMAIN channel :
              /\ Quotes(channel[i]) /\ channel[i].top = book[market]
              /\ \A j \in DOMAIN channel : j > i => ~Quotes(channel[j])
        BY <3>3
      <4>2. /\ i \in DOMAIN channel' /\ Quotes(channel'[i]) /\ channel'[i].top = book'[market']
            /\ \A j \in DOMAIN channel' : j > i => ~Quotes(channel'[j])
        BY <1>1, <2>2, <4>1
      <4>3. QED
        BY <4>2 DEF Fresh, Quotes
    <3>4. QED
      BY <3>1, <3>2, <3>3
  <2>3. CASE ~(market \in subscribed' /\ trading_active /\ book'[market] # EmptyTop)
    BY <2>3 DEF Fresh
  <2>4. QED
    BY <2>1, <2>2, <2>3
<1>4. QED
  BY <1>1, <1>2, <1>3

(* The parts of the invariant that only state and venue decide.            *)
LEMMA StateKept ==
  ASSUME FeedInv, UNCHANGED <<market, trading_active, quote>>, resolved \subseteq resolved'
  PROVE  QuoteIsOfMarket' /\ ActiveUntilResolved'
<1>1. QuoteIsOfMarket'
  BY DEF FeedInv, QuoteIsOfMarket
<1>2. ActiveUntilResolved'
  BY DEF FeedInv, ActiveUntilResolved
<1>3. QED
  BY <1>1, <1>2

(* What is left of the queue of subscriptions asks for known markets.      *)
LEMMA TailKeepsKnown ==
  ASSUME outgoing \in Seq(Int), outgoing # <<>>, \A i \in DOMAIN outgoing : outgoing[i] \in 1..market
  PROVE  Tail(outgoing) \in Seq(Int) /\ \A i \in DOMAIN Tail(outgoing) : Tail(outgoing)[i] \in 1..market
<1>1. /\ Tail(outgoing) \in Seq(Int) /\ Len(Tail(outgoing)) = Len(outgoing) - 1 /\ Len(outgoing) \in Nat
      /\ DOMAIN Tail(outgoing) = 1..(Len(outgoing) - 1) /\ DOMAIN outgoing = 1..Len(outgoing)
      /\ \A i \in DOMAIN Tail(outgoing) : Tail(outgoing)[i] = outgoing[i + 1]
  OBVIOUS
<1>2. QED
  BY <1>1

(* A subscription makes the venue send the book.                           *)
LEMMA SubscribesStep == FeedInv /\ (SubscribeSent \/ OutgoingSent) => FeedInv'
<1> SUFFICES ASSUME FeedInv, SubscribeSent \/ OutgoingSent PROVE FeedInv'
  OBVIOUS
<1> USE FeedAssumption DEF NoMarket, stateVars, venueVars
<1>1. PICK m \in 0..market : Subscribed(m)
  <2>1. CASE SubscribeSent
    BY <2>1 DEF SubscribeSent, FeedInv, AsksForKnown
  <2>2. CASE OutgoingSent
    <3>1. Head(outgoing) \in 0..market
      BY <2>2 DEF OutgoingSent, FeedInv, FeedType, AsksForKnown
    <3>2. QED
      BY <2>2, <3>1 DEF OutgoingSent
  <2>3. QED
    BY <2>1, <2>2
<1>2. /\ UNCHANGED <<market, trading_active, quote, unannounced, assets, book, resolved>>
      /\ phase' = "subscribed"
  BY DEF SubscribeSent, OutgoingSent
<1>3. /\ outgoing' \in Seq(Int) /\ \A i \in DOMAIN outgoing' : outgoing'[i] \in 1..market
  BY TailKeepsKnown DEF SubscribeSent, OutgoingSent, FeedInv, FeedType, AsksForKnown
<1>4. market \in 0..Markets /\ book \in [1..Markets -> Tops] /\ subscribed \subseteq 1..market
  BY DEF FeedInv, FeedType, AsksForKnown
<1>5. channel' \in Seq(Message) /\ TellsResolved' /\ Fresh'
  <2>1. CASE m = NoMarket
    <3>1. UNCHANGED <<channel, subscribed>>
      BY <1>1, <2>1 DEF Subscribed
    <3>2. QED
      BY <1>2, <3>1 DEF FeedInv, FeedType, TellsResolved, Fresh, Quotes
  <2>2. CASE m # NoMarket
    <3>1. /\ channel' = Append(channel, Quoted(m)) /\ subscribed' = subscribed \cup {m}
          /\ m \in 1..Markets
      BY <1>1, <1>4, <2>2 DEF Subscribed
    <3>2. /\ Quoted(m) \in Message /\ Quoted(m).type = "quote" /\ Quoted(m).market = m
          /\ Quoted(m).top = book[m]
      BY <1>4, <3>1 DEF Quoted, Message
    <3>3. QED
      BY <1>2, <3>1, <3>2, SentIsFresh DEF Quotes
  <2>3. QED
    BY <2>1, <2>2
<1>6. subscribed' \subseteq 1..market /\ subscribed' \in SUBSET Int
  BY <1>1, <1>4 DEF Subscribed
<1>7. FeedType'
  BY <1>2, <1>3, <1>5, <1>6 DEF FeedInv, FeedType
<1>8. AsksForKnown'
  BY <1>2, <1>3, <1>6 DEF FeedInv, AsksForKnown
<1>9. QED
  BY <1>2, <1>5, <1>7, <1>8, StateKept DEF FeedInv

(* A lost connection loses what was on the way, and the subscriptions.     *)
LEMMA DownStep == FeedInv /\ (Closed \/ OutgoingFails) => FeedInv'
<1> SUFFICES ASSUME FeedInv, Closed \/ OutgoingFails PROVE FeedInv'
  OBVIOUS
<1> USE FeedAssumption DEF NoMarket, stateVars, venueVars
<1>1. /\ UNCHANGED <<market, trading_active, quote, unannounced, book, resolved>>
      /\ phase' = "down" /\ assets' = NoMarket /\ subscribed' = {} /\ channel' = <<>>
  BY DEF Closed, OutgoingFails, Down
<1>2. outgoing' \in Seq(Int) /\ \A i \in DOMAIN outgoing' : outgoing'[i] \in 1..market
  BY TailKeepsKnown DEF Closed, OutgoingFails, FeedInv, FeedType, AsksForKnown
<1>3. FeedType' /\ AsksForKnown'
  BY <1>1, <1>2 DEF FeedInv, FeedType, AsksForKnown
<1>4. TellsResolved' /\ Fresh'
  BY <1>1 DEF TellsResolved, Fresh
<1>5. QED
  BY <1>1, <1>3, <1>4, StateKept DEF FeedInv

(* A message is read: a quote of the active market sets the quote, its     *)
(* resolution ends the trading, any other is ignored.                      *)
LEMMA ReadStep == FeedInv /\ Read => FeedInv'
<1> SUFFICES ASSUME FeedInv, Read PROVE FeedInv'
  OBVIOUS
<1> USE FeedAssumption DEF NoMarket, venueVars
<1>1. /\ UNCHANGED <<market, unannounced, outgoing, phase, assets, subscribed, book, resolved>>
      /\ phase = "subscribed" /\ channel # <<>> /\ channel' = Tail(channel)
      /\ apply_market_events(channel[1])
  BY DEF Read
<1>2. /\ channel \in Seq(Message) /\ channel' \in Seq(Message)
      /\ Len(channel') = Len(channel) - 1 /\ Len(channel) \in Nat /\ Len(channel) > 0
      /\ DOMAIN channel = 1..Len(channel) /\ DOMAIN channel' = 1..(Len(channel) - 1)
      /\ \A i \in DOMAIN channel' : channel'[i] = channel[i + 1]
      /\ channel[1] \in Message
  BY <1>1 DEF FeedInv, FeedType
<1>3. trading_active' \in BOOLEAN /\ (trading_active' => trading_active)
  <2>1. trading_active' = trading_active \/ trading_active' = FALSE
    BY <1>1 DEF apply_market_events
  <2>2. trading_active \in BOOLEAN
    BY DEF FeedInv, FeedType
  <2>3. CASE trading_active' = FALSE
    BY <2>3, Zenon
  <2>4. CASE trading_active' = trading_active
    BY <2>2, <2>4, Zenon
  <2>5. QED
    BY <2>1, <2>3, <2>4
<1>4. FeedType' /\ AsksForKnown'
  BY <1>1, <1>2, <1>3 DEF FeedInv, FeedType, AsksForKnown
<1>5. TellsResolved'
  BY <1>1, <1>2 DEF FeedInv, TellsResolved
<1>6. QuoteIsOfMarket'
  <2>1. CASE channel[1].type = "quote"
    <3>1. /\ trading_active' = trading_active
          /\ quote' = IF executable(channel[1].top) /\ trading_active /\ channel[1].market = market
                      THEN [market |-> channel[1].market, top |-> channel[1].top] ELSE quote
      BY <1>1, <2>1 DEF apply_market_events, update_quote
    <3>2. QED
      BY <1>1, <3>1 DEF FeedInv, QuoteIsOfMarket
  <2>2. CASE channel[1].type = "resolved"
    BY <1>1, <2>2 DEF apply_market_events, QuotesCleared, FeedInv, QuoteIsOfMarket
  <2>3. QED
    BY <1>1, <2>1, <2>2 DEF apply_market_events
<1>7. ActiveUntilResolved'
  <2>1. CASE channel[1].type = "resolved" /\ channel[1].market = market
    BY <1>1, <1>2, <2>1 DEF FeedInv, TellsResolved, ActiveUntilResolved
  <2>2. CASE ~(channel[1].type = "resolved" /\ channel[1].market = market)
    <3>1. trading_active' = trading_active
      BY <1>1, <2>2 DEF apply_market_events, resolution_matches_active_market
    <3>2. QED
      BY <1>1, <3>1 DEF FeedInv, ActiveUntilResolved
  <2>3. QED
    BY <2>1, <2>2
<1>8. Fresh'
  <2> SUFFICES ASSUME market \in subscribed, trading_active, trading_active', book[market] # EmptyTop
               PROVE  Fresh'
    BY <1>1, <1>3 DEF Fresh
  <2>1. \/ /\ \A i \in DOMAIN channel : ~Quotes(channel[i])
           /\ quote = [market |-> market, top |-> book[market]]
        \/ \E i \in DOMAIN channel :
             /\ Quotes(channel[i]) /\ channel[i].top = book[market]
             /\ \A j \in DOMAIN channel : j > i => ~Quotes(channel[j])
    BY DEF FeedInv, Fresh
  <2>2. CASE \A i \in DOMAIN channel : ~Quotes(channel[i])
    <3>1. ~Quotes(channel[1]) /\ \A i \in DOMAIN channel' : ~Quotes(channel'[i])
      BY <1>2, <2>2
    <3>2. quote' = quote
      BY <1>1, <1>2, <3>1, ExecutableIsNotEmpty
      DEF apply_market_events, update_quote, Quotes, resolution_matches_active_market, Message
    <3>3. QED
      BY <1>1, <2>1, <2>2, <3>1, <3>2 DEF Fresh, Quotes
  <2>3. CASE \E i \in DOMAIN channel :
               /\ Quotes(channel[i]) /\ channel[i].top = book[market]
               /\ \A j \in DOMAIN channel : j > i => ~Quotes(channel[j])
    <3>1. PICK i \in DOMAIN channel :
            /\ Quotes(channel[i]) /\ channel[i].top = book[market]
            /\ \A j \in DOMAIN channel : j > i => ~Quotes(channel[j])
      BY <2>3
    <3>2. CASE i = 1
      <4>1. quote' = [market |-> market, top |-> book[market]]
        <5>1. /\ channel[1].type = "quote" /\ channel[1].market = market /\ channel[1].top = book[market]
              /\ executable(channel[1].top)
          <6>1. book[market] \in Tops
            BY <1>2, <3>1, <3>2 DEF Quotes, Message
          <6>2. QED
            BY <3>1, <3>2, <6>1, ExecutableIsNotEmpty DEF Quotes
        <5>2. update_quote(channel[1].market, channel[1].top)
          BY <1>1, <5>1 DEF apply_market_events
        <5>3. QED
          BY <5>1, <5>2 DEF update_quote
      <4>2. ASSUME NEW j \in DOMAIN channel' PROVE ~Quotes(channel'[j])
        <5>1. j + 1 \in DOMAIN channel /\ j + 1 > 1 /\ channel'[j] = channel[j + 1]
          BY <1>2
        <5>2. QED
          BY <3>1, <3>2, <5>1
      <4>3. QED
        BY <1>1, <4>1, <4>2 DEF Fresh, Quotes
    <3>3. CASE i # 1
      <4>1. /\ i - 1 \in DOMAIN channel' /\ Quotes(channel'[i - 1])
            /\ channel'[i - 1].top = book[market]
            /\ \A j \in DOMAIN channel' : j > i - 1 => ~Quotes(channel'[j])
        <5>1. i - 1 \in DOMAIN channel' /\ channel'[i - 1] = channel[i]
          BY <1>2, <3>3
        <5>2. ASSUME NEW j \in DOMAIN channel', j > i - 1 PROVE ~Quotes(channel'[j])
          <6>1. j + 1 \in DOMAIN channel /\ j + 1 > i /\ channel'[j] = channel[j + 1]
            BY <1>2, <5>2
          <6>2. QED
            BY <3>1, <6>1
        <5>3. QED
          BY <3>1, <5>1, <5>2
      <4>2. QED
        BY <1>1, <4>1 DEF Fresh, Quotes
    <3>4. QED
      BY <3>2, <3>3
  <2>4. QED
    BY <2>1, <2>2, <2>3
<1>9. QED
  BY <1>4, <1>5, <1>6, <1>7, <1>8 DEF FeedInv

(* The venue moves a book or resolves a market, and tells who subscribed.  *)
LEMMA VenueStep ==
  ASSUME FeedInv, NEW m \in 1..Markets, MarketResolves(m) \/ \E top \in Tops : BookMoves(m, top)
  PROVE  FeedInv'
<1> USE FeedAssumption DEF NoMarket, stateVars
<1>1. /\ UNCHANGED <<market, trading_active, quote, unannounced, outgoing, phase, assets, subscribed>>
      /\ resolved \subseteq resolved'
  BY DEF MarketResolves, BookMoves
<1>2. /\ market \in 0..Markets /\ book \in [1..Markets -> Tops] /\ subscribed \subseteq 1..market
      /\ channel \in Seq(Message)
  BY DEF FeedInv, FeedType, AsksForKnown
<1>3. PICK message \in Message :
        /\ channel' = SentTo(m, message) /\ message.market = m
        /\ message.type = "quote" => message.top = book'[m]
        /\ message.type = "resolved" => m \in resolved' /\ book' = book
  <2>1. CASE MarketResolves(m)
    <3>1. Resolution(m) \in Message /\ Resolution(m).market = m /\ Resolution(m).type = "resolved"
      BY DEF Resolution, Message
    <3>2. QED
      BY <2>1, <3>1 DEF MarketResolves
  <2>2. CASE \E top \in Tops : BookMoves(m, top)
    <3>1. PICK top \in Tops : BookMoves(m, top)
      BY <2>2
    <3> DEFINE message == [type |-> "quote", market |-> m, top |-> top]
    <3>2. channel' = SentTo(m, message) /\ book'[m] = top
      BY <1>2, <3>1 DEF BookMoves, Quoted
    <3>3. message \in Message
      BY DEF Message
    <3>4. QED
      BY <3>2, <3>3
  <2>3. QED
    BY <2>1, <2>2
<1>4. book' \in [1..Markets -> Tops] /\ \A n \in 1..Markets : n # m => book'[n] = book[n]
  BY <1>2 DEF MarketResolves, BookMoves
<1>5. channel' \in Seq(Message) /\ TellsResolved' /\ Fresh'
  <2>1. CASE m \in subscribed
    <3>1. channel' = Append(channel, message)
      BY <1>3, <2>1 DEF SentTo
    <3>2. Quotes(message) => message.top = book'[market]
      BY <1>3 DEF Quotes
    <3>3. CASE Quotes(message)
      BY <1>1, <1>3, <3>1, <3>2, <3>3, SentIsFresh DEF Quotes
    <3>4. CASE ~Quotes(message) /\ market \in 1..Markets
      <4>1. book'[market] = EmptyTop \/ book'[market] = book[market]
        BY <1>3, <1>4, <3>4 DEF Quotes, Message
      <4>2. QED
        BY <1>1, <1>3, <3>1, <3>4, <4>1, SentIsFresh
    <3>5. market \in 1..Markets
      BY <1>2, <2>1
    <3>6. QED
      BY <3>3, <3>4, <3>5
  <2>2. CASE m \notin subscribed
    <3>1. channel' = channel
      BY <1>3, <2>2 DEF SentTo
    <3>2. market \in subscribed => book'[market] = book[market]
      BY <1>2, <1>4, <2>2
    <3>3. TellsResolved'
      BY <1>1, <3>1 DEF FeedInv, TellsResolved
    <3>4. Fresh'
      BY <1>1, <3>1, <3>2 DEF FeedInv, Fresh, Quotes
    <3>5. QED
      BY <1>2, <3>1, <3>3, <3>4
  <2>3. QED
    BY <2>1, <2>2
<1>6. FeedType'
  BY <1>1, <1>4, <1>5 DEF FeedInv, FeedType
<1>7. AsksForKnown'
  <2>1. phase' # "subscribed" => channel' = <<>>
    BY <1>1, <1>3 DEF FeedInv, AsksForKnown, SentTo
  <2>2. QED
    BY <1>1, <2>1 DEF FeedInv, AsksForKnown
<1>8. QED
  BY <1>1, <1>5, <1>6, <1>7, StateKept DEF FeedInv

LEMMA FeedStep == FeedInv /\ [Next]_vars => FeedInv'
<1> SUFFICES ASSUME FeedInv, [Next]_vars PROVE FeedInv'
  OBVIOUS
<1>1. CASE SetMarket
  BY <1>1, SetMarketStep
<1>2. CASE QueueSubscribe \/ WsConnected
  BY <1>2, QuietStep
<1>3. CASE SubscribeSent \/ OutgoingSent
  BY <1>3, SubscribesStep
<1>4. CASE OutgoingFails \/ Closed
  BY <1>4, DownStep
<1>5. CASE Read
  BY <1>5, ReadStep
<1>6. CASE \E m \in 1..Markets : MarketResolves(m) \/ \E top \in Tops : BookMoves(m, top)
  BY <1>6, VenueStep
<1>7. CASE UNCHANGED vars
  <2>1. UNCHANGED <<market, trading_active, quote, unannounced, outgoing, phase, assets,
                    subscribed, channel, book, resolved>>
    BY <1>7 DEF vars, stateVars, feedVars, venueVars
  <2>2. FeedType' /\ AsksForKnown' /\ TellsResolved'
    BY <2>1 DEF FeedInv, FeedType, AsksForKnown, TellsResolved
  <2>3. Fresh' /\ QuoteIsOfMarket' /\ ActiveUntilResolved'
    BY <2>1 DEF FeedInv, Fresh, Quotes, QuoteIsOfMarket, ActiveUntilResolved
  <2>4. QED
    BY <2>2, <2>3 DEF FeedInv
<1>8. QED
  BY <1>1, <1>2, <1>3, <1>4, <1>5, <1>6, <1>7 DEF Next

LEMMA FeedInvariant == Spec => []FeedInv
<1>1. QED
  BY FeedStart, FeedStep, PTL DEF Spec

(* No quote outlives its market or its trading.                            *)
THEOREM QuoteAlwaysOfMarket == Spec => []QuoteIsOfMarket
<1>1. FeedInv => QuoteIsOfMarket
  BY DEF FeedInv
<1>2. QED
  BY FeedInvariant, <1>1, PTL

(* Only its own resolution ends a market's trading.                        *)
THEOREM EndsByOwnResolution == Spec => []ActiveUntilResolved
<1>1. FeedInv => ActiveUntilResolved
  BY DEF FeedInv
<1>2. QED
  BY FeedInvariant, <1>1, PTL

(* With nothing on the way and a price in the book, the quote is the       *)
(* venue's: no loss of connections, order of rotation and reconnection,    *)
(* change missed or empty book in between leaves a stale one.              *)
THEOREM QuoteAlwaysVenues == Spec => []QuoteIsVenues
<1>1. FeedInv => QuoteIsVenues
  BY DEF FeedInv, Fresh, Quotes, QuoteIsVenues
<1>2. QED
  BY FeedInvariant, <1>1, PTL

=============================================================================
