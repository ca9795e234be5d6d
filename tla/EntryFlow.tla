------------------------------ MODULE EntryFlow ------------------------------
(***************************************************************************)
(* The life of a live-mode BUY: the Binance callback claims and spawns,    *)
(* the submit task prepares, posts and records the outcome, the venue      *)
(* executes and settles, the user channel reports, the maintenance task    *)
(* expires and rotates.  Every step that touches Inventory holds the core  *)
(* mutex; between the steps anything may happen.                           *)
(*                                                                         *)
(* The venue and its channel are UserChannel's.  The exit task is here     *)
(* only as the SELL it makes; ExitFlow.tla has the rest.                   *)
(***************************************************************************)
EXTENDS UserChannel

CONSTANTS
  Markets,                \* the token sets of the markets, in rotation order
  FillSize,               \* atoms a BUY brings when it executes
  UNKNOWN_SUBMIT_EXPIRE,  \* ticks after which an Unknown submit stops blocking
  PENDING_SUBMIT_EXPIRE,  \* ticks after which a Pending claim is taken for dead
  REQUEST_TIMEOUT,        \* ticks within which a submit task has its outcome
  MayBeUnknown,           \* may an HTTP answer be ambiguous
  MayPanic,               \* may a submit task die before it records
  MaxSells,               \* bound: SELL orders
  MaxTime,                \* bound: the last tick
  LastClaim               \* bound: the last tick at which a claim is made

BuyOrders == 1..MaxSubmits
SellOrders == MaxSubmits + 1 .. MaxSubmits + MaxSells

ASSUME TimeoutAssumption ==
  /\ {UNKNOWN_SUBMIT_EXPIRE, PENDING_SUBMIT_EXPIRE, REQUEST_TIMEOUT} \subseteq Nat
  /\ REQUEST_TIMEOUT < PENDING_SUBMIT_EXPIRE
ASSUME BoundsAssumption == {MaxTime, LastClaim} \subseteq Nat
ASSUME MarketsAssumption ==
  /\ Markets \in Seq(SUBSET Tokens)
  /\ FillSize \in Sizes
  /\ BuyOrders \cup SellOrders \subseteq OrderIds \cap TradeIds
  /\ 0..MaxTime \subseteq Stamps

VARIABLES
  now,       \* the wall clock
  market,    \* index of the active market, 0 before the first discovery
  task,      \* submit id -> its task: [token, pc, since]
  order      \* submit id -> its order at the venue

flowVars == <<now, market, task, order>>
vars == <<inventoryVars, venueVars, flowVars>>

ActiveTokens == IF market = 0 THEN {} ELSE Markets[market]
InFlight(id) == id \in DOMAIN task /\ task[id].pc \in {"spawned", "posted"}

FlowInit ==
  /\ Init
  /\ VenueInit
  /\ now = 0
  /\ market = 0
  /\ task = [id \in {} |-> 0]
  /\ order = [id \in {} |-> 0]

-----------------------------------------------------------------------------
(* The Binance callback: a signal on an active token that passes the       *)
(* exposure check claims and spawns in one lock scope.  Which ticks signal *)
(* is SignalEngine's choice, left open here.                               *)
BinanceTick(token) ==
  /\ token \in ActiveTokens
  /\ ~has_entry_exposure_or_pending(token)
  /\ now <= LastClaim
  /\ claim_entry(token, "BUY", now)
  /\ task' = [id \in DOMAIN task \cup {next_submit_id'} |->
                IF id = next_submit_id'
                THEN [token |-> token, pc |-> "spawned", since |-> now]
                ELSE task[id]]
  /\ UNCHANGED <<now, market, order, venueVars>>

(* prepare_buy_submit fails: the claim is released, nothing is posted.     *)
PrepareFails(id) ==
  /\ InFlight(id) /\ task[id].pc = "spawned"
  /\ release_claim(id)
  /\ task' = [task EXCEPT ![id].pc = "done"]
  /\ UNCHANGED <<now, market, order, venueVars>>

Post(id) ==
  /\ InFlight(id) /\ task[id].pc = "spawned"
  /\ task' = [task EXCEPT ![id].pc = "posted"]
  /\ order' = [o \in DOMAIN order \cup {id} |-> IF o = id THEN "open" ELSE order[o]]
  /\ UNCHANGED <<inventoryVars, venueVars, now, market>>

(* submit_order and classify: an answer is its HTTP status, 0 when there is *)
(* none, the success flag and the error text of its body, and whether the  *)
(* body carries an order id.                                               *)
Answer ==
  [http : {0, 200, 400, 500}, success : {"true", "false", "absent"},
   error : {"none", "transport_error", "transport", "other"}, order_id : BOOLEAN]

classify(r) ==
  IF r.http = 0 \/ r.error = "transport_error" THEN "Unknown"
  ELSE IF r.http >= 500
  THEN IF r.success = "false" /\ r.error = "other" THEN "Rejected" ELSE "Unknown"
  ELSE IF r.http >= 400 \/ r.success = "false" THEN "Rejected"
  ELSE IF r.order_id THEN "Accepted" ELSE "Unknown"

(* What the venue says, outside the repository: that it placed no order;   *)
(* that it did; or nothing that can be relied on.                          *)
Refusals == {r \in Answer : r.http = 400 \/ (r.http # 0 /\ r.success = "false" /\ r.error = "other")}
Confirmations == {r \in Answer : r.http = 200 /\ r.success # "false" /\ r.error = "none"}
Failures == {r \in Answer : r.http = 0 \/ (r.http = 500 /\ r \notin Refusals)}

record_buy_submit_outcome(id, outcome) ==
  \/ outcome = "Accepted" /\ mark_submit_accepted(id, id, now)
  \/ outcome = "Unknown" /\ mark_submit_unknown(id, now)
  \/ outcome = "Rejected" /\ release_claim(id)

(* An answer arrives; its outcome is recorded under the core lock.         *)
RefusalOutcomes == {classify(r) : r \in Refusals}
ConfirmationOutcomes == {classify(r) : r \in Confirmations}
FailureOutcomes == {classify(r) : r \in Failures}

Posted(id) == id \in DOMAIN task /\ task[id].pc = "posted"

Outcome(id, outcome) ==
  /\ MayBeUnknown \/ outcome # "Unknown"
  /\ record_buy_submit_outcome(id, outcome)
  /\ task' = [task EXCEPT ![id].pc = "done"]
  /\ UNCHANGED <<now, market, venueVars>>

AnswerRefuses(id) ==
  /\ Posted(id) /\ order[id] = "open"
  /\ \E outcome \in RefusalOutcomes : Outcome(id, outcome)
  /\ order' = [order EXCEPT ![id] = "refused"]

AnswerConfirms(id) ==
  /\ Posted(id) /\ order[id] = "executed"
  /\ \E outcome \in ConfirmationOutcomes : Outcome(id, outcome)
  /\ UNCHANGED order

AnswerFails(id) ==
  /\ Posted(id) /\ MayBeUnknown
  /\ \E outcome \in FailureOutcomes : Outcome(id, outcome)
  /\ UNCHANGED order

(* The task dies between the claim and the outcome.                        *)
TaskPanics(id) ==
  /\ MayPanic
  /\ InFlight(id)
  /\ task' = [task EXCEPT ![id].pc = "dead"]
  /\ UNCHANGED <<inventoryVars, now, market, order, venueVars>>

SubmitTask(id) ==
  \/ PrepareFails(id) \/ Post(id)
  \/ AnswerRefuses(id) \/ AnswerConfirms(id) \/ AnswerFails(id)

-----------------------------------------------------------------------------
(* The venue.                                                              *)
Execute(id) ==
  /\ id \in DOMAIN order /\ order[id] = "open"
  /\ order' = [order EXCEPT ![id] = "executed"]
  /\ Fill(id, task[id].token, "BUY", FillSize)
  /\ UNCHANGED <<now, market, task>>

(* A SELL the exit task has posted fills, in part or in full, from the     *)
(* shares the venue holds; its size is of an earlier moment (ExitFlow),    *)
(* after some BUY of the token was counted.                                *)
Sell(token) ==
  /\ \E tid \in DOMAIN trades : trades[tid].token = token /\ trades[tid].side = "BUY"
  /\ \E units \in 1..(VenueBalance(token) \div QUANTUM), o \in SellOrders \ DOMAIN fills :
       /\ \A p \in SellOrders : p < o => p \in DOMAIN fills
       /\ Fill(o, token, "SELL", units * QUANTUM)
  /\ UNCHANGED flowVars

SettleTrade ==
  /\ \E o \in DOMAIN fills, status \in Interim \cup {"CONFIRMED", "FAILED"} : Settle(o, status)
  /\ UNCHANGED flowVars

RepeatEvent == (\E o \in DOMAIN fills : Repeat(o)) /\ UNCHANGED flowVars

(* The user task.                                                          *)
Deliver == Read(now) /\ UNCHANGED flowVars

ChannelUp == Connect /\ UNCHANGED flowVars

ChannelDown == Disconnect /\ UNCHANGED flowVars

FrameRefused == MalformedFrame /\ UNCHANGED flowVars

-----------------------------------------------------------------------------
(* The maintenance task.                                                   *)
(* Mutant of expire_stale_entry_claims: the two timeouts swapped.          *)
expire_swapped(p, now_ts_us) ==
  PendingExpired(UnknownsExpired(p, now_ts_us - PENDING_SUBMIT_EXPIRE),
                 now_ts_us - UNKNOWN_SUBMIT_EXPIRE)

expire_stale_entry_claims(p, now_ts_us) ==
  PendingExpired(UnknownsExpired(p, now_ts_us - UNKNOWN_SUBMIT_EXPIRE),
                 now_ts_us - PENDING_SUBMIT_EXPIRE)

Maintain ==
  /\ pending' = expire_stale_entry_claims(pending, now)
  /\ UNCHANGED <<user_wss_trusted, next_submit_id, owned_by_token, trades, venueVars, flowVars>>

RotateMarket ==
  /\ market < Len(Markets)
  /\ market' = market + 1
  /\ release_market_scope(Markets[market + 1])
  /\ UNCHANGED <<now, task, order, venueVars>>

(* Time passes, but not beyond the timeout of a running request.           *)
Tick ==
  /\ now < MaxTime
  /\ \A id \in DOMAIN task : InFlight(id) => now - task[id].since < REQUEST_TIMEOUT
  /\ now' = now + 1
  /\ UNCHANGED <<inventoryVars, venueVars, market, task, order>>

FlowNext ==
  \/ \E token \in Tokens : BinanceTick(token) \/ Sell(token)
  \/ \E id \in BuyOrders : SubmitTask(id) \/ TaskPanics(id) \/ Execute(id)
  \/ SettleTrade \/ RepeatEvent
  \/ Deliver \/ ChannelUp \/ ChannelDown \/ FrameRefused
  \/ Maintain \/ RotateMarket \/ Tick

FlowSpec == FlowInit /\ [][FlowNext]_vars

(* tokio runs a spawned task to its outcome (the client times out) unless  *)
(* it panics, the maintenance loop wakes at least every 10 s, and time     *)
(* passes.                                                                 *)
FairFlowSpec ==
  /\ FlowSpec
  /\ WF_vars(Tick) /\ WF_vars(Maintain)
  /\ \A id \in BuyOrders : WF_vars(SubmitTask(id))

-----------------------------------------------------------------------------
(* Expiry never takes the claim of a submit that is still running: the 60 s*)
(* of expire_pending outlast the request timeout, and no other status is   *)
(* removed for its age.                                                    *)
ExpiryLeavesLiveSubmits ==
  [][Maintain => \A id \in DOMAIN pending : InFlight(id) => id \in DOMAIN pending']_vars

(* "Ambiguous HTTP submits must remain matchable by later WSS trades": the *)
(* claim of an ambiguous outcome, or of an order the venue has executed,   *)
(* leaves the map only for a terminal trade event or with its market,      *)
(* whatever is answered or expires meanwhile; one whose task died before   *)
(* any outcome may also expire.                                            *)
AmbiguousStaysMatchable ==
  [][\A id \in DOMAIN pending :
       /\ \/ pending[id].status \in {"Unknown", "ExpiredUnknown"}
          \/ id \in DOMAIN order /\ order[id] = "executed"
       /\ id \notin DOMAIN pending'
       => \/ Deliver /\ terminal(Head(channel).status)
          \/ RotateMarket
          \/ Maintain /\ task[id].pc = "dead" /\ pending[id].status = "Pending"]_vars

(* "Pending stays alive until CONFIRMED (blocks same-token re-entry)": a   *)
(* BUY whose trade is not over, posted or about to be, keeps a claim of    *)
(* its own that blocks its token while the market lasts.                   *)
Unresolved(id) ==
  /\ id \in DOMAIN task
  /\ task[id].token \in ActiveTokens
  /\ InFlight(id) \/ (task[id].pc = "done" /\ id \in DOMAIN fills)
  /\ id \in DOMAIN trades => ~trades[id].finalized

OpenSubmitBlocks ==
  \A id \in BuyOrders :
    Unresolved(id) => id \in DOMAIN pending /\ blocks_entry(pending[id].status)

(* "User WSS trades are inventory truth": when every event the venue sent  *)
(* has been read, the balance is what the trades that have not failed      *)
(* leave.                                                                  *)
BalanceIsVenueTruth ==
  channel = <<>> /\ user_wss_trusted =>
    \A token \in ActiveTokens :
      (\E o \in DOMAIN fills : fills[o].token = token) =>
        owned_by_token[token] =
          IF VenueBalance(token) < 0 THEN 0 ELSE VenueBalance(token)

(* No claim waits for ever on an answer: a Pending claim is resolved by    *)
(* its task or expired when the task died, an Unknown one stops blocking.  *)
ClaimsSettle ==
  \A id \in BuyOrders :
    (id \in DOMAIN pending /\ pending[id].status \in {"Pending", "Unknown"})
      ~> ~(id \in DOMAIN pending /\ pending[id].status \in {"Pending", "Unknown"})

=============================================================================
