------------------------------ MODULE UserFeed ------------------------------
(***************************************************************************)
(* user_feed_loop (feed.rs) with its closures (main.rs), against the       *)
(* rotation of the maintenance task: which markets the user connection is  *)
(* subscribed to, and when it is trusted.  The loop awaits between reading *)
(* the active market for its auth frame and sending it; the rotation sets  *)
(* the market under the core lock and queues its subscribe frame later.    *)
(*                                                                         *)
(* The venue closes the connection at any time, and may refuse the         *)
(* credentials first.                                                      *)
(***************************************************************************)
EXTENDS Naturals, Sequences

CONSTANTS
  Markets,   \* bound: the rotation goes through markets 1..Markets
  MaxDrops   \* bound: failures of the connection

ASSUME MarketsAssumption == Markets \in Nat \ {0} /\ MaxDrops \in Nat

VARIABLES
  active,            \* the active market, 0 before the first discovery
  rotating,          \* is the maintenance task between its steps 3 and 4
  outgoing,          \* user_tx: markets whose subscribe frame is queued
  feed,              \* where user_feed_loop is
  auth_markets,      \* the markets of the auth frame being sent
  subscribed,        \* the markets the live connection is subscribed to
  user_wss_trusted,
  drops              \* failures so far

feedVars == <<active, rotating, outgoing, feed, auth_markets, subscribed, user_wss_trusted, drops>>

FeedInit ==
  /\ active = 0
  /\ rotating = FALSE
  /\ outgoing = <<>>
  /\ feed = "connecting"
  /\ auth_markets = {}
  /\ subscribed = {}
  /\ user_wss_trusted = FALSE
  /\ drops = 0

-----------------------------------------------------------------------------
(* main.rs, maintenance task, step 3: set_market under the core lock.      *)
SetMarket ==
  /\ ~rotating
  /\ active < Markets
  /\ active' = active + 1
  /\ rotating' = TRUE
  /\ UNCHANGED <<outgoing, feed, auth_markets, subscribed, user_wss_trusted, drops>>

(* Step 4: the market is read again and its frame queued.                  *)
QueueSubscribe ==
  /\ rotating
  /\ outgoing' = Append(outgoing, active)
  /\ rotating' = FALSE
  /\ UNCHANGED <<active, feed, auth_markets, subscribed, user_wss_trusted, drops>>

-----------------------------------------------------------------------------
(* The closure current_markets, called on every connect.  Its mutants keep *)
(* what the first connect was told; name a market before there is one.     *)
markets_at_start == {}

markets_unchecked == {active}

current_markets == IF active = 0 THEN {} ELSE {active}

WsConnected ==
  /\ feed = "connecting"
  /\ feed' = "authenticating"
  /\ auth_markets' = current_markets
  /\ UNCHANGED <<active, rotating, outgoing, subscribed, user_wss_trusted, drops>>

(* on_authenticated: no answer of the venue is awaited.                    *)
AuthSent ==
  /\ feed = "authenticating"
  /\ feed' = "up"
  /\ subscribed' = auth_markets
  /\ user_wss_trusted' = TRUE
  /\ UNCHANGED <<active, rotating, outgoing, auth_markets, drops>>

(* This way out of the loop is the one that does not call on_disconnect.   *)
AuthSendFails ==
  /\ feed = "authenticating"
  /\ drops < MaxDrops
  /\ drops' = drops + 1
  /\ feed' = "connecting"
  /\ UNCHANGED <<active, rotating, outgoing, auth_markets, subscribed, user_wss_trusted>>

SubscribeSent ==
  /\ feed = "up"
  /\ outgoing # <<>>
  /\ subscribed' = subscribed \cup {Head(outgoing)}
  /\ outgoing' = Tail(outgoing)
  /\ UNCHANGED <<active, rotating, feed, auth_markets, user_wss_trusted, drops>>

(* Leaving the read loop: on_disconnect, then a new connection.  Its       *)
(* mutant keeps the trust of the connection that is gone.                  *)
LeftTrusted == feed' = "connecting" /\ subscribed' = {} /\ UNCHANGED user_wss_trusted

Left == feed' = "connecting" /\ subscribed' = {} /\ user_wss_trusted' = FALSE

(* A frame whose write fails is gone from the queue.                       *)
SubscribeFails ==
  /\ feed = "up"
  /\ outgoing # <<>>
  /\ drops < MaxDrops
  /\ drops' = drops + 1
  /\ outgoing' = Tail(outgoing)
  /\ Left
  /\ UNCHANGED <<active, rotating, auth_markets>>

Closed ==
  /\ feed = "up"
  /\ drops < MaxDrops
  /\ drops' = drops + 1
  /\ Left
  /\ UNCHANGED <<active, rotating, outgoing, auth_markets>>

(* UserMessage::AuthError: trust is revoked, the connection stays.         *)
AuthErrorRead ==
  /\ feed = "up"
  /\ user_wss_trusted' = FALSE
  /\ UNCHANGED <<active, rotating, outgoing, feed, auth_markets, subscribed, drops>>

FeedNext ==
  \/ SetMarket \/ QueueSubscribe
  \/ WsConnected \/ AuthSent \/ AuthSendFails
  \/ SubscribeSent \/ SubscribeFails \/ Closed \/ AuthErrorRead

FeedSpec == FeedInit /\ [][FeedNext]_feedVars

(* Both tasks keep running: the loop retries for ever, the queue is read   *)
(* while the connection is up.                                             *)
FairFeedSpec ==
  /\ FeedSpec
  /\ WF_feedVars(QueueSubscribe)
  /\ WF_feedVars(WsConnected) /\ WF_feedVars(AuthSent) /\ WF_feedVars(SubscribeSent)

-----------------------------------------------------------------------------
(* Types of the state.                                                     *)
TypeOK ==
  /\ active \in 0..Markets
  /\ rotating \in BOOLEAN
  /\ outgoing \in Seq(1..Markets)
  /\ feed \in {"connecting", "authenticating", "up"}
  /\ auth_markets \in SUBSET (1..Markets)
  /\ subscribed \in SUBSET (1..Markets)
  /\ user_wss_trusted \in BOOLEAN
  /\ drops \in 0..MaxDrops

(* "The market context feeds both channels on startup and rotation": when  *)
(* the rotation has queued its frame and the loop has sent what is queued, *)
(* the live connection is subscribed to the active market, whichever of    *)
(* connect, rotation and failed write came first.                          *)
SettledMeansSubscribed ==
  /\ feed = "up"
  /\ ~rotating
  /\ outgoing = <<>>
  /\ active # 0
  => active \in subscribed

(* "Revoked on disconnect/error": every way out of the read loop revokes,  *)
(* so a trusted channel is a live one that has sent its auth frame.        *)
TrustedIsLive == user_wss_trusted => feed = "up"

(* The active market is subscribed to, or replaced, in the end.            *)
EveryMarketIsReached ==
  \A m \in 1..Markets : active = m ~> (m \in subscribed \/ active # m)

=============================================================================
