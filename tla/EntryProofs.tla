---------------------------- MODULE EntryProofs ----------------------------
(***************************************************************************)
(* The claims of EntryFlow, for any markets, tokens, sizes and timeouts    *)
(* and any number of claims and SELLs: first, OpenSubmitBlocks.            *)
(*                                                                         *)
(* A claim is found again by its order id or, before the answer, by token  *)
(* and side alone, so that nothing in an event says whose claim it is.     *)
(* That it is its own rests on the whole flow: at most one claim per       *)
(* token, made only while none blocks it (ClaimsOfTasks); every fill is of *)
(* a task (OrdersOfTasks); a trade has no event after its end (EndsOnce);  *)
(* and a claim whose task runs is too young to expire (InTime).            *)
(*                                                                         *)
(* That takes the faults of run EntryClean: answers are definite, no task  *)
(* dies, no event is repeated.  The channel may drop.                      *)
(*                                                                         *)
(* What expiry leaves (LiveSubmitsAreLeft), what an ambiguous answer keeps *)
(* (AmbiguousIsKept), the ledger and the claims that stay gone are shown   *)
(* under every fault of the model, from SubmitInv.                         *)
(*                                                                         *)
(* The balances (BalanceIsVenueTruth) need a channel that loses nothing;   *)
(* it may repeat anything.  BalanceInv has the balances that the events on *)
(* the way will make, one after the other (Mirror), and says which of them *)
(* are news (Told, OneEnd).                                                *)
(*                                                                         *)
(* Last, Bot, which extends EntryFlow: each step of the process is a step  *)
(* of EntryFlow (every SELL it makes had a BUY: BoughtInv) and of ExitFlow *)
(* (a token stays flat from its claim to its execution: FlatInv).          *)
(***************************************************************************)
EXTENDS Bot, InventoryProofs

CleanRun == ~MayBeUnknown /\ ~MayPanic /\ MaxRepeats = 0

(* A token is of one market: its condition is.                             *)
MarketsDisjoint ==
  \A m \in DOMAIN Markets, n \in DOMAIN Markets : m # n => Markets[m] \cap Markets[n] = {}

Task == [token : Tokens, pc : {"spawned", "posted", "done"}, since : Nat]
Claim ==
  [token : Tokens, side : {"BUY"}, order_id : OrderIds \cup {NoOrder},
   status : {"Pending", "Accepted"}, created_ts_us : Nat, updated_ts_us : Nat]

TasksType ==
  /\ now \in Nat /\ market \in 0..Len(Markets)
  /\ next_submit_id \in Nat /\ next_submit_id <= MaxSubmits
  /\ DOMAIN task = 1..next_submit_id
  /\ \A id \in DOMAIN task :
       /\ task[id] \in Task
       /\ \E m \in 1..market : task[id].token \in Markets[m]

OrdersOfTasks ==
  /\ DOMAIN order \subseteq DOMAIN task
  /\ \A id \in DOMAIN task :
       /\ task[id].pc = "spawned" => id \notin DOMAIN order
       /\ task[id].pc = "posted" => id \in DOMAIN order
  /\ \A id \in DOMAIN order :
       /\ order[id] = "open" => task[id].pc = "posted" /\ id \notin DOMAIN fills
       /\ order[id] = "refused" => id \notin DOMAIN fills
  /\ \A o \in DOMAIN fills :
       IF o \in BuyOrders
       THEN /\ o \in DOMAIN order /\ fills[o].side = "BUY" /\ fills[o].token = task[o].token
       ELSE fills[o].side = "SELL"

ClaimsOfTasks ==
  /\ DOMAIN pending \subseteq DOMAIN task
  /\ \A id \in DOMAIN pending :
       /\ pending[id] \in Claim
       /\ pending[id].token = task[id].token /\ pending[id].token \in ActiveTokens
       /\ pending[id].order_id \in {NoOrder, id}
       /\ pending[id].status = "Pending" => /\ InFlight(id)
                                            /\ pending[id].created_ts_us = task[id].since
  /\ \A i \in DOMAIN pending, j \in DOMAIN pending : pending[i].token = pending[j].token => i = j

InTime == \A id \in DOMAIN task : InFlight(id) => now - task[id].since <= REQUEST_TIMEOUT

OpenIsClaimed == \A id \in BuyOrders : Unresolved(id) => id \in DOMAIN pending

EntryInv ==
  /\ VenueInv /\ EndsOnce /\ repeats = 0
  /\ TasksType /\ OrdersOfTasks /\ ClaimsOfTasks /\ InTime /\ OpenIsClaimed

-----------------------------------------------------------------------------
LEMMA EntryAssumptions ==
  /\ MaxSubmits \in Nat /\ BuyOrders = 1..MaxSubmits /\ BuyOrders \subseteq OrderIds
  /\ SellOrders \subseteq OrderIds /\ SellOrders \cap BuyOrders = {}
  /\ NoOrder \notin OrderIds /\ FillSize \in Nat
  /\ REQUEST_TIMEOUT \in Nat /\ PENDING_SUBMIT_EXPIRE \in Nat
  /\ REQUEST_TIMEOUT < PENDING_SUBMIT_EXPIRE
<1>1. SellOrders \cap BuyOrders = {} /\ MaxSubmits \in Nat
  BY BoundAssumption DEF SellOrders, BuyOrders
<1>2. QED
  BY <1>1, NoOrderAssumption, SizesAssumption, TimeoutAssumption, MarketsAssumption DEF BuyOrders

LEMMA ActiveTokensType == TasksType => ActiveTokens \subseteq Tokens
BY MarketsAssumption DEF TasksType, ActiveTokens

(* Definite answers: a refusal is a rejection, a confirmation an acceptance*)
LEMMA DefiniteOutcomes ==
  /\ \A outcome \in RefusalOutcomes : outcome # "Accepted"
  /\ \A outcome \in ConfirmationOutcomes : outcome # "Rejected"
<1>1. \A r \in Refusals : classify(r) # "Accepted"
  BY DEF Refusals, Answer, classify
<1>2. \A r \in Confirmations : classify(r) # "Rejected"
  BY DEF Confirmations, Answer, classify
<1>3. QED
  BY <1>1, <1>2 DEF RefusalOutcomes, ConfirmationOutcomes

LEMMA EntryStart == FlowInit => EntryInv
<1> SUFFICES ASSUME FlowInit PROVE EntryInv
  OBVIOUS
<1> USE DEF FlowInit, Init, VenueInit
<1>1. <<>> \in Seq(Notice) /\ DOMAIN <<>> = {} /\ 0 \in Nat /\ 1..0 = {}
  OBVIOUS
<1>2. VenueInv /\ EndsOnce
  BY <1>1 DEF VenueInv, FillsType, ChannelOfFills, TradesOfFills, EndsOnce
<1>3. TasksType
  BY <1>1, BoundAssumption, MarketsAssumption DEF TasksType
<1>4. OrdersOfTasks /\ ClaimsOfTasks /\ InTime
  BY DEF OrdersOfTasks, ClaimsOfTasks, InTime
<1>5. OpenIsClaimed
  BY DEF OpenIsClaimed, Unresolved
<1>6. QED
  BY <1>2, <1>3, <1>4, <1>5 DEF EntryInv

-----------------------------------------------------------------------------
(* The callback claims a token no claim is of: all claims block.           *)
LEMMA BinanceTickKeeps ==
  ASSUME EntryInv, NEW token \in Tokens, BinanceTick(token)
  PROVE  EntryInv'
<1> DEFINE id == next_submit_id + 1
           claim == [token |-> token, side |-> "BUY", order_id |-> NoOrder, status |-> "Pending",
                     created_ts_us |-> now, updated_ts_us |-> now]
           fresh == [token |-> token, pc |-> "spawned", since |-> now]
<1>1. /\ token \in ActiveTokens /\ next_submit_id < MaxSubmits /\ next_submit_id' = id
      /\ DOMAIN pending' = DOMAIN pending \cup {id} /\ pending'[id] = claim
      /\ \A i \in DOMAIN pending : i # id => pending'[i] = pending[i]
      /\ DOMAIN task' = DOMAIN task \cup {id} /\ task'[id] = fresh
      /\ \A i \in DOMAIN task : i # id => task'[i] = task[i]
      /\ UNCHANGED <<now, market, order, owned_by_token, trades, fills, channel, repeats>>
  BY DEF BinanceTick, claim_entry, venueVars
<1>2. now \in Nat /\ market \in 0..Len(Markets) /\ next_submit_id \in Nat /\ DOMAIN task = 1..next_submit_id
  BY DEF EntryInv, TasksType
<1>3. id \in Nat /\ id \notin DOMAIN task /\ DOMAIN task' = 1..id /\ id <= MaxSubmits
  BY <1>1, <1>2, EntryAssumptions
<1>4. \A i \in DOMAIN pending : pending[i].token # token
  <2>1. \A i \in DOMAIN pending : blocks_entry(pending[i].status)
    BY DEF EntryInv, ClaimsOfTasks, Claim, blocks_entry
  <2>2. QED
    BY <2>1 DEF BinanceTick, has_entry_exposure_or_pending
<1>5. claim \in Claim /\ claim.token = token /\ claim.order_id = NoOrder /\ claim.created_ts_us = now
  BY <1>2 DEF Claim
<1>6. fresh \in Task /\ fresh.token = token /\ fresh.pc = "spawned" /\ fresh.since = now
  BY <1>2 DEF Task
<1> HIDE DEF claim, fresh, id
<1>7. VenueInv' /\ EndsOnce'
  BY <1>1, VenueKept, OnceKept DEF EntryInv
<1>8. ActiveTokens' = ActiveTokens
  BY <1>1 DEF ActiveTokens
<1>9. TasksType'
  <2>1. market >= 1 /\ token \in Markets[market]
    BY <1>1, <1>2 DEF ActiveTokens
  <2>2. \E m \in 1..market : token \in Markets[m]
    BY <1>2, <2>1
  <2>3. QED
    BY <1>1, <1>2, <1>3, <1>6, <2>2 DEF EntryInv, TasksType
<1>10. OrdersOfTasks'
  BY <1>1, <1>3, <1>6 DEF EntryInv, OrdersOfTasks
<1>11. ClaimsOfTasks'
  <2>1. DOMAIN pending' \subseteq DOMAIN task'
    BY <1>1 DEF EntryInv, ClaimsOfTasks
  <2>2. ASSUME NEW i \in DOMAIN pending'
        PROVE  /\ pending'[i] \in Claim
               /\ pending'[i].token = task'[i].token /\ pending'[i].token \in ActiveTokens'
               /\ pending'[i].order_id \in {NoOrder, i}
               /\ pending'[i].status = "Pending" => /\ InFlight(i)'
                                                    /\ pending'[i].created_ts_us = task'[i].since
    <3>1. CASE i = id
      BY <1>1, <1>5, <1>6, <1>8, <3>1 DEF InFlight
    <3>2. CASE i # id
      BY <1>1, <1>8, <3>2 DEF EntryInv, ClaimsOfTasks, InFlight
    <3>3. QED
      BY <3>1, <3>2
  <2>3. \A i \in DOMAIN pending', j \in DOMAIN pending' : pending'[i].token = pending'[j].token => i = j
    BY <1>1, <1>4, <1>5 DEF EntryInv, ClaimsOfTasks
  <2>4. QED
    BY <2>1, <2>2, <2>3 DEF ClaimsOfTasks
<1>12. InTime'
  <2>1. now - now <= REQUEST_TIMEOUT
    BY <1>2, EntryAssumptions
  <2>2. QED
    BY <1>1, <1>6, <2>1 DEF EntryInv, InTime, InFlight
<1>13. OpenIsClaimed'
  <2>1. \A i \in BuyOrders : i # id /\ Unresolved(i)' => Unresolved(i)
    BY <1>1, <1>8 DEF Unresolved, InFlight
  <2>2. QED
    BY <1>1, <2>1 DEF EntryInv, OpenIsClaimed
<1>14. QED
  BY <1>1, <1>7, <1>9, <1>10, <1>11, <1>12, <1>13 DEF EntryInv

-----------------------------------------------------------------------------
(* A step of the task: its pc moves, its token and time do not.            *)
LEMMA TaskMoves ==
  ASSUME TasksType, NEW id \in DOMAIN task, NEW pc \in {"posted", "done"},
         task' = [task EXCEPT ![id].pc = pc], UNCHANGED <<now, market, next_submit_id>>
  PROVE  /\ TasksType' /\ DOMAIN task' = DOMAIN task
         /\ \A i \in DOMAIN task : /\ task'[i].token = task[i].token /\ task'[i].since = task[i].since
                                   /\ task'[i].pc = IF i = id THEN pc ELSE task[i].pc
<1>1. DOMAIN task' = DOMAIN task
  OBVIOUS
<1>2. ASSUME NEW i \in DOMAIN task
      PROVE  /\ task'[i] \in Task
             /\ task'[i].token = task[i].token /\ task'[i].since = task[i].since
             /\ task'[i].pc = IF i = id THEN pc ELSE task[i].pc
  <2>1. task[i] \in Task
    BY DEF TasksType
  <2>2. QED
    BY <2>1 DEF Task
<1>3. TasksType'
  BY <1>1, <1>2 DEF TasksType
<1>4. QED
  BY <1>1, <1>2, <1>3

(* A task that ends with nothing executed releases its claim and no other. *)
LEMMA ReleaseKeeps ==
  ASSUME EntryInv, NEW id \in BuyOrders, InFlight(id), id \notin DOMAIN fills,
         release_claim(id), task' = [task EXCEPT ![id].pc = "done"],
         UNCHANGED <<now, market, venueVars>>
  PROVE  /\ VenueInv' /\ EndsOnce' /\ repeats' = 0
         /\ TasksType' /\ ClaimsOfTasks' /\ InTime' /\ OpenIsClaimed'
<1>1. /\ id \in DOMAIN task /\ DOMAIN pending' = DOMAIN pending \ {id}
      /\ \A i \in DOMAIN pending' : pending'[i] = pending[i]
      /\ UNCHANGED <<owned_by_token, trades, fills, channel, repeats, next_submit_id>>
  BY DEF InFlight, release_claim, Released, Restrict, venueVars
<1>2. /\ TasksType' /\ DOMAIN task' = DOMAIN task
      /\ \A i \in DOMAIN task : /\ task'[i].token = task[i].token /\ task'[i].since = task[i].since
                                /\ task'[i].pc = IF i = id THEN "done" ELSE task[i].pc
  BY <1>1, TaskMoves DEF EntryInv
<1>3. VenueInv' /\ EndsOnce'
  BY <1>1, VenueKept, OnceKept DEF EntryInv
<1>4. ActiveTokens' = ActiveTokens
  BY DEF ActiveTokens
<1>5. ClaimsOfTasks'
  BY <1>1, <1>2, <1>4 DEF EntryInv, ClaimsOfTasks, InFlight
<1>6. InTime'
  BY <1>2 DEF EntryInv, InTime, InFlight
<1>7. OpenIsClaimed'
  <2>1. \A i \in BuyOrders : Unresolved(i)' => i # id /\ Unresolved(i)
    BY <1>1, <1>2, <1>4 DEF Unresolved, InFlight
  <2>2. QED
    BY <1>1, <2>1 DEF EntryInv, OpenIsClaimed
<1>8. QED
  BY <1>1, <1>2, <1>3, <1>5, <1>6, <1>7 DEF EntryInv

LEMMA PrepareFailsKeeps ==
  ASSUME EntryInv, NEW id \in BuyOrders, PrepareFails(id)
  PROVE  EntryInv'
<1>1. id \in DOMAIN task /\ id \notin DOMAIN order /\ id \notin DOMAIN fills
  BY DEF PrepareFails, InFlight, EntryInv, OrdersOfTasks
<1>2. /\ VenueInv' /\ EndsOnce' /\ repeats' = 0
      /\ TasksType' /\ ClaimsOfTasks' /\ InTime' /\ OpenIsClaimed'
  BY <1>1, ReleaseKeeps DEF PrepareFails
<1>3. OrdersOfTasks'
  <2>1. /\ DOMAIN task' = DOMAIN task
        /\ \A i \in DOMAIN task : /\ task'[i].token = task[i].token
                                  /\ task'[i].pc = IF i = id THEN "done" ELSE task[i].pc
    BY <1>1, TaskMoves DEF PrepareFails, release_claim, EntryInv
  <2>2. UNCHANGED <<order, fills>>
    BY DEF PrepareFails, venueVars
  <2>3. QED
    BY <1>1, <2>1, <2>2 DEF EntryInv, OrdersOfTasks
<1>4. QED
  BY <1>2, <1>3 DEF EntryInv

LEMMA PostKeeps ==
  ASSUME EntryInv, NEW id \in BuyOrders, Post(id)
  PROVE  EntryInv'
<1>1. /\ id \in DOMAIN task /\ id \notin DOMAIN order /\ id \notin DOMAIN fills /\ InFlight(id)
      /\ DOMAIN order' = DOMAIN order \cup {id} /\ order'[id] = "open"
      /\ \A i \in DOMAIN order : order'[i] = order[i]
      /\ UNCHANGED <<now, market, pending, next_submit_id, owned_by_token, trades, fills, channel, repeats>>
  BY DEF Post, InFlight, EntryInv, OrdersOfTasks, inventoryVars, venueVars
<1>2. /\ TasksType' /\ DOMAIN task' = DOMAIN task
      /\ \A i \in DOMAIN task : /\ task'[i].token = task[i].token /\ task'[i].since = task[i].since
                                /\ task'[i].pc = IF i = id THEN "posted" ELSE task[i].pc
  BY <1>1, TaskMoves DEF Post, EntryInv
<1>3. VenueInv' /\ EndsOnce'
  BY <1>1, VenueKept, OnceKept DEF EntryInv
<1>4. ActiveTokens' = ActiveTokens /\ \A i \in DOMAIN task : InFlight(i)' <=> InFlight(i)
  BY <1>1, <1>2 DEF ActiveTokens, InFlight
<1>5. OrdersOfTasks'
  BY <1>1, <1>2 DEF EntryInv, OrdersOfTasks
<1>6. ClaimsOfTasks'
  BY <1>1, <1>2, <1>4 DEF EntryInv, ClaimsOfTasks
<1>7. InTime'
  BY <1>1, <1>2, <1>4 DEF EntryInv, InTime
<1>8. OpenIsClaimed'
  <2>1. \A i \in BuyOrders : Unresolved(i)' => Unresolved(i)
    BY <1>1, <1>2, <1>4 DEF Unresolved, InFlight
  <2>2. QED
    BY <1>1, <2>1 DEF EntryInv, OpenIsClaimed
<1>9. QED
  BY <1>1, <1>2, <1>3, <1>5, <1>6, <1>7, <1>8 DEF EntryInv

LEMMA RefusalKeeps ==
  ASSUME CleanRun, EntryInv, NEW id \in BuyOrders, AnswerRefuses(id)
  PROVE  EntryInv'
<1>1. /\ id \in DOMAIN task /\ InFlight(id) /\ id \in DOMAIN order /\ order[id] = "open"
      /\ id \notin DOMAIN fills /\ order' = [order EXCEPT ![id] = "refused"]
  BY DEF AnswerRefuses, Posted, InFlight, EntryInv, OrdersOfTasks
<1>2. release_claim(id) /\ task' = [task EXCEPT ![id].pc = "done"] /\ UNCHANGED <<now, market, venueVars>>
  BY DefiniteOutcomes DEF CleanRun, AnswerRefuses, Outcome, record_buy_submit_outcome
<1>3. /\ VenueInv' /\ EndsOnce' /\ repeats' = 0
      /\ TasksType' /\ ClaimsOfTasks' /\ InTime' /\ OpenIsClaimed'
  BY <1>1, <1>2, ReleaseKeeps
<1>4. OrdersOfTasks'
  <2>1. /\ DOMAIN task' = DOMAIN task
        /\ \A i \in DOMAIN task : /\ task'[i].token = task[i].token
                                  /\ task'[i].pc = IF i = id THEN "done" ELSE task[i].pc
    BY <1>1, <1>2, TaskMoves DEF release_claim, EntryInv
  <2>2. UNCHANGED fills
    BY <1>2 DEF venueVars
  <2>3. QED
    BY <1>1, <2>1, <2>2 DEF EntryInv, OrdersOfTasks
<1>5. QED
  BY <1>3, <1>4 DEF EntryInv

LEMMA ConfirmationKeeps ==
  ASSUME CleanRun, EntryInv, NEW id \in BuyOrders, AnswerConfirms(id)
  PROVE  EntryInv'
<1>1. /\ id \in DOMAIN task /\ InFlight(id)
      /\ mark_submit_accepted(id, id, now) /\ task' = [task EXCEPT ![id].pc = "done"]
      /\ UNCHANGED <<now, market, order, venueVars>>
  BY DefiniteOutcomes DEF CleanRun, AnswerConfirms, Posted, InFlight, Outcome, record_buy_submit_outcome
<1>2. UNCHANGED <<next_submit_id, owned_by_token, trades, fills, channel, repeats>>
  BY <1>1 DEF mark_submit_accepted, venueVars
<1>3. /\ TasksType' /\ DOMAIN task' = DOMAIN task
      /\ \A i \in DOMAIN task : /\ task'[i].token = task[i].token /\ task'[i].since = task[i].since
                                /\ task'[i].pc = IF i = id THEN "done" ELSE task[i].pc
  BY <1>1, <1>2, TaskMoves DEF EntryInv
<1>4. VenueInv' /\ EndsOnce'
  BY <1>2, VenueKept, OnceKept DEF EntryInv
<1>5. ActiveTokens' = ActiveTokens
  BY <1>1 DEF ActiveTokens
<1>6. /\ DOMAIN pending' = DOMAIN pending
      /\ \A i \in DOMAIN pending : i # id => pending'[i] = pending[i]
      /\ id \in DOMAIN pending => /\ pending'[id] \in Claim /\ pending'[id].token = pending[id].token
                                  /\ pending'[id].order_id = id /\ pending'[id].status = "Accepted"
  <2>1. pending' = Accepted(pending, id, id, now)
    BY <1>1 DEF mark_submit_accepted
  <2>2. CASE id \notin DOMAIN pending
    BY <2>1, <2>2 DEF Accepted
  <2>3. CASE id \in DOMAIN pending
    <3>1. pending[id] \in Claim /\ now \in Nat /\ id \in OrderIds
      BY <2>3, EntryAssumptions DEF EntryInv, ClaimsOfTasks, TasksType
    <3>2. pending' = [pending EXCEPT ![id] = [pending[id] EXCEPT !.order_id = id, !.status = "Accepted",
                                                                 !.updated_ts_us = now]]
      BY <2>1, <2>3 DEF Accepted
    <3>3. pending'[id] = [pending[id] EXCEPT !.order_id = id, !.status = "Accepted", !.updated_ts_us = now]
      BY <2>3, <3>2
    <3>4. /\ pending'[id] \in Claim /\ pending'[id].token = pending[id].token
          /\ pending'[id].order_id = id /\ pending'[id].status = "Accepted"
      BY <3>1, <3>3 DEF Claim
    <3>5. QED
      BY <3>2, <3>4
  <2>4. QED
    BY <2>2, <2>3
<1>7. OrdersOfTasks'
  <2>1. order[id] = "executed"
    BY DEF AnswerConfirms
  <2>2. QED
    BY <1>1, <1>2, <1>3, <2>1 DEF EntryInv, OrdersOfTasks
<1>8. ClaimsOfTasks'
  <2>1. ASSUME NEW i \in DOMAIN pending'
        PROVE  /\ pending'[i] \in Claim
               /\ pending'[i].token = task'[i].token /\ pending'[i].token \in ActiveTokens'
               /\ pending'[i].order_id \in {NoOrder, i}
               /\ pending'[i].status = "Pending" => /\ InFlight(i)'
                                                    /\ pending'[i].created_ts_us = task'[i].since
    <3>1. CASE i = id
      BY <1>3, <1>5, <1>6, <3>1 DEF EntryInv, ClaimsOfTasks
    <3>2. CASE i # id
      BY <1>3, <1>5, <1>6, <3>2 DEF EntryInv, ClaimsOfTasks, InFlight
    <3>3. QED
      BY <3>1, <3>2
  <2>2. \A i \in DOMAIN pending : pending'[i].token = pending[i].token
    BY <1>6
  <2>3. QED
    BY <1>3, <1>6, <2>1, <2>2 DEF EntryInv, ClaimsOfTasks
<1>9. InTime'
  BY <1>1, <1>3 DEF EntryInv, InTime, InFlight
<1>10. OpenIsClaimed'
  <2>1. \A i \in BuyOrders : Unresolved(i)' => Unresolved(i)
    BY <1>1, <1>2, <1>3, <1>5 DEF Unresolved, InFlight
  <2>2. QED
    BY <1>6, <2>1 DEF EntryInv, OpenIsClaimed
<1>11. QED
  BY <1>2, <1>3, <1>4, <1>7, <1>8, <1>9, <1>10 DEF EntryInv

-----------------------------------------------------------------------------
(* The venue and the channel touch neither task nor claim: what they do    *)
(* keeps the invariant if every fill stays its order's.                    *)
LEMMA VenueSideKeeps ==
  ASSUME EntryInv, UNCHANGED <<now, market, task, pending, next_submit_id, trades, repeats>>,
         VenueInv', EndsOnce', OrdersOfTasks',
         \A id \in BuyOrders : id \in DOMAIN fills' => id \in DOMAIN fills \/ InFlight(id)
  PROVE  EntryInv'
<1>1. ActiveTokens' = ActiveTokens /\ \A id : InFlight(id)' <=> InFlight(id)
  BY DEF ActiveTokens, InFlight
<1>2. TasksType' /\ InTime'
  BY <1>1 DEF EntryInv, TasksType, InTime
<1>3. ClaimsOfTasks'
  BY <1>1 DEF EntryInv, ClaimsOfTasks
<1>4. OpenIsClaimed'
  <2>1. \A id \in BuyOrders : Unresolved(id)' => Unresolved(id)
    BY <1>1 DEF Unresolved
  <2>2. QED
    BY <2>1 DEF EntryInv, OpenIsClaimed
<1>5. QED
  BY <1>2, <1>3, <1>4 DEF EntryInv

LEMMA ExecuteKeeps ==
  ASSUME EntryInv, NEW id \in BuyOrders, Execute(id)
  PROVE  EntryInv'
<1>1. /\ id \in DOMAIN order /\ id \in DOMAIN task /\ id \notin DOMAIN fills /\ InFlight(id)
      /\ order' = [order EXCEPT ![id] = "executed"] /\ Fill(id, task[id].token, "BUY", FillSize)
      /\ UNCHANGED <<now, market, task>>
  BY DEF Execute, InFlight, EntryInv, OrdersOfTasks
<1>2. id \in OrderIds /\ task[id].token \in Tokens /\ FillSize \in Nat /\ "BUY" \in OrderSide
  BY <1>1, EntryAssumptions DEF EntryInv, TasksType, Task, OrderSide
<1>3. /\ DOMAIN fills' = DOMAIN fills \cup {id}
      /\ fills'[id].side = "BUY" /\ fills'[id].token = task[id].token
      /\ \A o \in DOMAIN fills : fills'[o] = fills[o]
      /\ UNCHANGED <<pending, next_submit_id, trades, repeats>>
  BY <1>1 DEF Fill, inventoryVars
<1>4. VenueInv' /\ EndsOnce'
  BY <1>1, <1>2, FillKeepsVenue, FillKeepsOnce DEF EntryInv
<1>5. OrdersOfTasks'
  BY <1>1, <1>3 DEF EntryInv, OrdersOfTasks
<1>6. QED
  BY <1>1, <1>3, <1>4, <1>5, VenueSideKeeps

LEMMA SellKeeps ==
  ASSUME EntryInv, NEW token \in Tokens, Sell(token)
  PROVE  EntryInv'
<1>1. PICK units \in 1..(VenueBalance(token) \div QUANTUM), o \in SellOrders \ DOMAIN fills :
        Fill(o, token, "SELL", units * QUANTUM)
  BY DEF Sell
<1>2. o \in OrderIds /\ o \notin BuyOrders /\ units * QUANTUM \in Nat /\ "SELL" \in OrderSide
  BY EntryAssumptions, QuantumIsPositive DEF OrderSide
<1>3. /\ DOMAIN fills' = DOMAIN fills \cup {o} /\ fills'[o].side = "SELL"
      /\ \A f \in DOMAIN fills : fills'[f] = fills[f]
      /\ UNCHANGED <<pending, next_submit_id, trades, repeats>>
  BY <1>1 DEF Fill, inventoryVars
<1>4. UNCHANGED <<now, market, task, order>>
  BY DEF Sell, flowVars
<1>5. VenueInv' /\ EndsOnce'
  BY <1>1, <1>2, FillKeepsVenue, FillKeepsOnce DEF EntryInv
<1>6. OrdersOfTasks'
  <2>1. \A i \in DOMAIN order : i \in BuyOrders
    BY EntryAssumptions DEF EntryInv, OrdersOfTasks, TasksType
  <2>2. QED
    BY <1>2, <1>3, <1>4, <2>1 DEF EntryInv, OrdersOfTasks
<1>7. QED
  BY <1>2, <1>3, <1>4, <1>5, <1>6, VenueSideKeeps

LEMMA SettleTradeKeeps ==
  ASSUME EntryInv, SettleTrade
  PROVE  EntryInv'
<1>1. PICK o \in DOMAIN fills, status \in Interim \cup {"CONFIRMED", "FAILED"} : Settle(o, status)
  BY DEF SettleTrade
<1>2. UNCHANGED <<now, market, task, order, pending, next_submit_id, trades, repeats>>
  BY <1>1 DEF SettleTrade, Settle, flowVars, inventoryVars
<1>3. /\ DOMAIN fills' = DOMAIN fills
      /\ \A f \in DOMAIN fills : fills'[f].side = fills[f].side /\ fills'[f].token = fills[f].token
  BY <1>1 DEF Settle, EntryInv, VenueInv, FillsType, FillRecord
<1>4. VenueInv' /\ EndsOnce'
  BY <1>1, SettleKeepsVenue, SettleKeepsOnce DEF EntryInv
<1>5. OrdersOfTasks'
  BY <1>2, <1>3 DEF EntryInv, OrdersOfTasks
<1>6. QED
  BY <1>2, <1>3, <1>4, <1>5, VenueSideKeeps

LEMMA ChannelKeeps ==
  ASSUME EntryInv, ChannelUp \/ ChannelDown \/ FrameRefused
  PROVE  EntryInv'
<1>1. UNCHANGED <<now, market, task, order, pending, next_submit_id, trades, fills, repeats>>
  BY DEF ChannelUp, ChannelDown, FrameRefused, Connect, Disconnect, MalformedFrame, set_user_wss_trusted,
         flowVars, inventoryVars, venueVars
<1>2. VenueInv' /\ EndsOnce'
  BY ConnectionKeepsVenue, ConnectionKeepsOnce, RefusalKeepsVenue, RefusalKeepsOnce
  DEF EntryInv, ChannelUp, ChannelDown, FrameRefused
<1>3. OrdersOfTasks'
  BY <1>1 DEF EntryInv, OrdersOfTasks
<1>4. QED
  BY <1>1, <1>2, <1>3, VenueSideKeeps

-----------------------------------------------------------------------------
(* An event finds the claim of its own order, or none: an unresolved BUY   *)
(* has the one claim of its token, a SELL and a token of an old market     *)
(* have none.                                                              *)
LEMMA MatchIsOwn ==
  ASSUME EntryInv, channel # <<>>, NEW id \in match_pending_submit(Arriving(now))
  PROVE  id = Arriving(now).trade_id /\ id \in DOMAIN pending
<1> DEFINE trade == Arriving(now)
           o == trade.trade_id
<1>1. /\ o \in DOMAIN fills /\ trade.side = fills[o].side /\ trade.token = fills[o].token
      /\ trade.taker_order_id = o /\ o \in OrderIds
  BY ArrivingIsOfFill DEF EntryInv, VenueInv, FillsType, Arriving, Event
<1>2. ~(o \in DOMAIN trades /\ trades[o].finalized)
  <2>1. 1 \in DOMAIN channel /\ o = channel[1].order
    BY DEF EntryInv, VenueInv, ChannelOfFills, Arriving, Event
  <2>2. QED
    BY <2>1 DEF EntryInv, EndsOnce
<1> HIDE DEF trade, o
<1>3. id \in DOMAIN pending /\ (id \in ByOrder(trade) \/ id \in ByTokenSide(trade))
  BY DEF match_pending_submit, ByOrder, ByTokenSide, trade
<1>4. CASE id \in ByOrder(trade)
  BY <1>1, <1>3, <1>4, EntryAssumptions DEF ByOrder, EntryInv, ClaimsOfTasks, o, trade
<1>5. CASE id \in ByTokenSide(trade)
  <2>1. pending[id].token = fills[o].token /\ fills[o].side = "BUY"
    BY <1>1, <1>3, <1>5 DEF ByTokenSide, EntryInv, ClaimsOfTasks, Claim
  <2>2. o \in BuyOrders /\ o \in DOMAIN order /\ fills[o].token = task[o].token
    BY <1>1, <2>1 DEF EntryInv, OrdersOfTasks
  <2>3. o \in DOMAIN task /\ task[o].token \in ActiveTokens
    BY <1>3, <2>1, <2>2 DEF EntryInv, OrdersOfTasks, ClaimsOfTasks
  <2>4. task[o].pc \in {"posted", "done"}
    BY <2>2, <2>3 DEF EntryInv, OrdersOfTasks, TasksType, Task
  <2>5. Unresolved(o)
    BY <1>1, <1>2, <2>3, <2>4 DEF Unresolved, InFlight
  <2>6. o \in DOMAIN pending /\ pending[o].token = pending[id].token
    BY <2>1, <2>2, <2>5 DEF EntryInv, OpenIsClaimed, ClaimsOfTasks
  <2>7. QED
    BY <1>3, <2>6 DEF EntryInv, ClaimsOfTasks, o, trade
<1>6. QED
  BY <1>3, <1>4, <1>5

(* The event of an order binds or ends its own claim.                      *)
LEMMA DeliverKeeps ==
  ASSUME EntryInv, Deliver
  PROVE  EntryInv'
<1> DEFINE trade == Arriving(now)
           o == trade.trade_id
<1>1. /\ channel # <<>> /\ Read(now) /\ apply_user_trade(trade)
      /\ UNCHANGED <<now, market, task, order, fills, repeats, next_submit_id>>
  BY DEF Deliver, Read, apply_user_trade, Arriving, flowVars
<1>2. VenueInv' /\ EndsOnce'
  BY <1>1, ReadKeepsVenue, ReadKeepsOnce DEF EntryInv
<1>3. /\ Record(trade) \in Counted /\ trade.taker_order_id = o /\ o \in OrderIds /\ trade.ts_us = now
      /\ DOMAIN trades' = DOMAIN trades \cup {o} /\ trades'[o] = RecordAfter(trade)
      /\ \A tid \in DOMAIN trades : tid # o => trades'[tid] = trades[tid]
  BY <1>1, ArrivingIsOfFill DEF EntryInv, VenueInv, FillsType, apply_user_trade, Arriving, Event
<1>4. terminal(trade.status) => trades'[o].finalized
  BY <1>3, Zenon DEF RecordAfter, Counted
<1>5. Record(trade).finalized => trades'[o].finalized
  BY <1>3, Zenon DEF RecordAfter, Counted
<1>6. \/ pending' = pending
      \/ o \in DOMAIN pending /\ pending' = PendingAfter(trade, o)
  BY <1>1, MatchIsOwn DEF apply_user_trade
<1> HIDE DEF trade, o
<1>7. /\ DOMAIN pending' \subseteq DOMAIN pending
      /\ \A id \in DOMAIN pending : id # o => id \in DOMAIN pending' /\ pending'[id] = pending[id]
      /\ o \in DOMAIN pending /\ ~terminal(trade.status) => o \in DOMAIN pending'
      /\ o \in DOMAIN pending' =>
           \/ pending'[o] = pending[o]
           \/ /\ pending'[o] \in Claim /\ pending'[o].token = pending[o].token
              /\ pending'[o].order_id \in {NoOrder, o} /\ pending'[o].status = "Accepted"
  <2>1. CASE pending' = pending
    BY <2>1
  <2>2. CASE o \in DOMAIN pending /\ pending' = PendingAfter(trade, o) /\ terminal(trade.status)
    BY <2>2 DEF PendingAfter, Released, Restrict
  <2>3. CASE o \in DOMAIN pending /\ pending' = PendingAfter(trade, o) /\ ~terminal(trade.status)
    <3>1. pending' = [pending EXCEPT ![o] = Bind(pending[o], trade)]
      BY <2>3 DEF PendingAfter
    <3>2. pending[o] \in Claim /\ pending[o].order_id \in {NoOrder, o} /\ now \in Nat
      BY <2>3 DEF EntryInv, ClaimsOfTasks, TasksType
    <3>3. /\ Bind(pending[o], trade) \in Claim /\ Bind(pending[o], trade).token = pending[o].token
          /\ Bind(pending[o], trade).order_id \in {NoOrder, o}
          /\ Bind(pending[o], trade).status = "Accepted"
      BY <1>3, <3>2 DEF Bind, Claim
    <3>4. QED
      BY <2>3, <3>1, <3>3
  <2>4. QED
    BY <1>6, <2>1, <2>2, <2>3
<1>8. ActiveTokens' = ActiveTokens /\ \A id : InFlight(id)' <=> InFlight(id)
  BY <1>1 DEF ActiveTokens, InFlight
<1>9. TasksType' /\ InTime' /\ OrdersOfTasks'
  BY <1>1, <1>8 DEF EntryInv, TasksType, InTime, OrdersOfTasks
<1>10. ClaimsOfTasks'
  <2>1. DOMAIN pending' \subseteq DOMAIN task'
    BY <1>1, <1>7 DEF EntryInv, ClaimsOfTasks
  <2>2. ASSUME NEW i \in DOMAIN pending'
        PROVE  /\ pending'[i] \in Claim
               /\ pending'[i].token = task'[i].token /\ pending'[i].token \in ActiveTokens'
               /\ pending'[i].order_id \in {NoOrder, i}
               /\ pending'[i].status = "Pending" => /\ InFlight(i)'
                                                    /\ pending'[i].created_ts_us = task'[i].since
    <3>1. CASE pending'[i] = pending[i]
      BY <1>1, <1>7, <1>8, <3>1 DEF EntryInv, ClaimsOfTasks
    <3>2. CASE i = o /\ pending'[i] # pending[i]
      BY <1>1, <1>7, <1>8, <3>2 DEF EntryInv, ClaimsOfTasks
    <3>3. QED
      BY <1>7, <3>1, <3>2
  <2>3. \A i \in DOMAIN pending' : i \in DOMAIN pending /\ pending'[i].token = pending[i].token
    BY <1>7
  <2>4. QED
    BY <2>1, <2>2, <2>3 DEF EntryInv, ClaimsOfTasks
<1>11. OpenIsClaimed'
  <2> SUFFICES ASSUME NEW id \in BuyOrders, Unresolved(id)' PROVE id \in DOMAIN pending'
    BY DEF OpenIsClaimed
  <2>1. CASE id # o
    <3>1. Unresolved(id)
      BY <1>1, <1>3, <1>8, <2>1 DEF Unresolved
    <3>2. QED
      BY <1>7, <2>1, <3>1 DEF EntryInv, OpenIsClaimed
  <2>2. CASE id = o
    <3>1. ~trades'[o].finalized
      BY <1>3, <2>2 DEF Unresolved
    <3>2. ~(o \in DOMAIN trades /\ trades[o].finalized)
      BY <1>5, <3>1 DEF Record, o
    <3>3. Unresolved(o)
      BY <1>1, <1>8, <2>2, <3>2 DEF Unresolved
    <3>4. QED
      BY <1>4, <1>7, <2>2, <3>1, <3>3 DEF EntryInv, OpenIsClaimed
  <2>3. QED
    BY <2>1, <2>2
<1>12. QED
  BY <1>1, <1>2, <1>9, <1>10, <1>11 DEF EntryInv

-----------------------------------------------------------------------------
(* The maintenance task expires nothing: a Pending claim's task is running *)
(* and was started within the request timeout.                             *)
LEMMA MaintainKeeps ==
  ASSUME EntryInv, Maintain
  PROVE  EntryInv'
<1>1. UNCHANGED <<now, market, task, order, next_submit_id, owned_by_token, trades, fills, channel, repeats>>
  BY DEF Maintain, venueVars, flowVars
<1> DEFINE settled == UnknownsExpired(pending, now - UNKNOWN_SUBMIT_EXPIRE)
<1>2. DOMAIN settled = DOMAIN pending /\ \A id \in DOMAIN pending : settled[id] = pending[id]
  <2>1. \A id \in DOMAIN pending : pending[id].status # "Unknown"
    BY DEF EntryInv, ClaimsOfTasks, Claim
  <2>2. QED
    BY <2>1 DEF UnknownsExpired
<1>3. \A id \in DOMAIN pending :
        ~(pending[id].status = "Pending" /\ pending[id].created_ts_us <= now - PENDING_SUBMIT_EXPIRE)
  <2> SUFFICES ASSUME NEW id \in DOMAIN pending, pending[id].status = "Pending"
               PROVE  ~(pending[id].created_ts_us <= now - PENDING_SUBMIT_EXPIRE)
    OBVIOUS
  <2>1. InFlight(id) /\ pending[id].created_ts_us = task[id].since /\ id \in DOMAIN task
    BY DEF EntryInv, ClaimsOfTasks
  <2>2. now - task[id].since <= REQUEST_TIMEOUT /\ task[id].since \in Nat /\ now \in Nat
    BY <2>1 DEF EntryInv, InTime, TasksType, Task
  <2>3. QED
    BY <2>1, <2>2, EntryAssumptions
<1>4. pending' = PendingExpired(settled, now - PENDING_SUBMIT_EXPIRE)
  BY DEF Maintain, expire_stale_entry_claims
<1> HIDE DEF settled
<1>5. DOMAIN pending' = DOMAIN pending /\ \A id \in DOMAIN pending : pending'[id] = pending[id]
  BY <1>2, <1>3, <1>4 DEF PendingExpired, Restrict
<1>6. VenueInv' /\ EndsOnce'
  BY <1>1, VenueKept, OnceKept DEF EntryInv
<1>7. ActiveTokens' = ActiveTokens /\ \A id : InFlight(id)' <=> InFlight(id)
  BY <1>1 DEF ActiveTokens, InFlight
<1>8. TasksType' /\ OrdersOfTasks' /\ InTime'
  BY <1>1, <1>7 DEF EntryInv, TasksType, OrdersOfTasks, InTime
<1>9. ClaimsOfTasks'
  BY <1>1, <1>5, <1>7 DEF EntryInv, ClaimsOfTasks
<1>10. OpenIsClaimed'
  <2>1. \A id \in BuyOrders : Unresolved(id)' => Unresolved(id)
    BY <1>1, <1>7 DEF Unresolved
  <2>2. QED
    BY <1>5, <2>1 DEF EntryInv, OpenIsClaimed
<1>11. QED
  BY <1>1, <1>6, <1>8, <1>9, <1>10 DEF EntryInv

(* A rotation leaves no claim, and no BUY of the new market.               *)
LEMMA RotateMarketKeeps ==
  ASSUME MarketsDisjoint, EntryInv, RotateMarket
  PROVE  EntryInv'
<1>1. /\ market < Len(Markets) /\ market' = market + 1
      /\ release_market_scope(Markets[market + 1])
      /\ UNCHANGED <<now, task, order, next_submit_id, trades, fills, channel, repeats, venueVars>>
  BY DEF RotateMarket, release_market_scope, venueVars
<1>2. VenueInv' /\ EndsOnce'
  BY <1>1, ScopeKeepsVenue, OnceKept DEF EntryInv
<1>3. market \in 0..Len(Markets) /\ Len(Markets) \in Nat /\ DOMAIN Markets = 1..Len(Markets)
  BY MarketsAssumption DEF EntryInv, TasksType
<1>4. ActiveTokens' = Markets[market + 1]
  BY <1>1, <1>3 DEF ActiveTokens
<1>5. \A id \in DOMAIN task : task[id].token \notin ActiveTokens'
  <2> SUFFICES ASSUME NEW id \in DOMAIN task PROVE task[id].token \notin Markets[market + 1]
    BY <1>4
  <2>1. PICK m \in 1..market : task[id].token \in Markets[m]
    BY DEF EntryInv, TasksType
  <2>2. m \in DOMAIN Markets /\ market + 1 \in DOMAIN Markets /\ m # market + 1
    BY <1>1, <1>3
  <2>3. QED
    BY <2>1, <2>2 DEF MarketsDisjoint
<1>6. DOMAIN pending' = {}
  BY <1>1, <1>4, <1>5 DEF release_market_scope, PendingInScope, Restrict, EntryInv, ClaimsOfTasks
<1>7. \A id : InFlight(id)' <=> InFlight(id)
  BY <1>1 DEF InFlight
<1>8. TasksType'
  <2>1. market' \in 0..Len(Markets) /\ 1..market \subseteq 1..market'
    BY <1>1, <1>3
  <2>2. QED
    BY <1>1, <2>1 DEF EntryInv, TasksType
<1>9. OrdersOfTasks' /\ InTime'
  BY <1>1, <1>7 DEF EntryInv, OrdersOfTasks, InTime
<1>10. ClaimsOfTasks'
  BY <1>6 DEF ClaimsOfTasks
<1>11. OpenIsClaimed'
  BY <1>1, <1>5 DEF OpenIsClaimed, Unresolved
<1>12. QED
  BY <1>1, <1>2, <1>8, <1>9, <1>10, <1>11 DEF EntryInv

LEMMA TickKeeps ==
  ASSUME EntryInv, Tick
  PROVE  EntryInv'
<1>1. /\ now \in Nat /\ now' = now + 1
      /\ UNCHANGED <<market, task, order, pending, next_submit_id, owned_by_token, trades, fills, channel,
                     repeats>>
  BY DEF Tick, EntryInv, TasksType, inventoryVars, venueVars
<1>2. VenueInv' /\ EndsOnce'
  BY <1>1, VenueKept, OnceKept DEF EntryInv
<1>3. ActiveTokens' = ActiveTokens /\ \A id : InFlight(id)' <=> InFlight(id)
  BY <1>1 DEF ActiveTokens, InFlight
<1>4. TasksType' /\ OrdersOfTasks'
  BY <1>1 DEF EntryInv, TasksType, OrdersOfTasks
<1>5. ClaimsOfTasks' /\ OpenIsClaimed'
  BY <1>1, <1>3 DEF EntryInv, ClaimsOfTasks, OpenIsClaimed, Unresolved
<1>6. InTime'
  <2>1. ASSUME NEW id \in DOMAIN task, InFlight(id)
        PROVE  now' - task[id].since <= REQUEST_TIMEOUT
    <3>1. now - task[id].since < REQUEST_TIMEOUT
      BY <2>1 DEF Tick
    <3>2. task[id].since \in Nat
      BY DEF EntryInv, TasksType, Task
    <3>3. QED
      BY <1>1, <3>1, <3>2, EntryAssumptions
  <2>2. task' = task /\ \A id \in DOMAIN task : InFlight(id)' => InFlight(id)
    BY <1>1, <1>3
  <2>3. QED
    BY <2>1, <2>2 DEF InTime
<1>7. QED
  BY <1>1, <1>2, <1>4, <1>5, <1>6 DEF EntryInv

LEMMA EntryStep ==
  ASSUME CleanRun, MarketsDisjoint, EntryInv, [FlowNext]_vars
  PROVE  EntryInv'
<1>1. ASSUME NEW token \in Tokens, BinanceTick(token) \/ Sell(token) PROVE EntryInv'
  BY <1>1, BinanceTickKeeps, SellKeeps
<1>2. ASSUME NEW id \in BuyOrders, SubmitTask(id) PROVE EntryInv'
  BY <1>2, PrepareFailsKeeps, PostKeeps, RefusalKeeps, ConfirmationKeeps
  DEF SubmitTask, CleanRun, AnswerFails
<1>3. ASSUME NEW id \in BuyOrders, TaskPanics(id) \/ Execute(id) PROVE EntryInv'
  BY <1>3, ExecuteKeeps DEF CleanRun, TaskPanics
<1>4. CASE RepeatEvent
  BY <1>4 DEF CleanRun, RepeatEvent, Repeat, EntryInv
<1>5. CASE SettleTrade \/ Deliver \/ ChannelUp \/ ChannelDown \/ FrameRefused
  BY <1>5, SettleTradeKeeps, DeliverKeeps, ChannelKeeps
<1>6. CASE Maintain \/ RotateMarket \/ Tick
  BY <1>6, MaintainKeeps, RotateMarketKeeps, TickKeeps
<1>7. CASE UNCHANGED vars
  <2>1. UNCHANGED <<now, market, task, order, pending, next_submit_id, owned_by_token, trades, fills,
                    channel, repeats>>
    BY <1>7 DEF vars, flowVars, inventoryVars, venueVars
  <2>2. VenueInv' /\ EndsOnce' /\ OrdersOfTasks'
    BY <2>1, VenueKept, OnceKept DEF EntryInv, OrdersOfTasks
  <2>3. QED
    BY <2>1, <2>2, VenueSideKeeps
<1>8. QED
  BY <1>1, <1>2, <1>3, <1>4, <1>5, <1>6, <1>7 DEF FlowNext

(* No BUY whose trade is not over is ever without a claim that blocks its  *)
(* token, while its market lasts: the bot never holds two of one token.    *)
THEOREM OpenSubmitAlwaysBlocks ==
  ASSUME CleanRun, MarketsDisjoint
  PROVE  FlowSpec => []OpenSubmitBlocks
<1>1. EntryInv /\ [FlowNext]_vars => EntryInv'
  BY EntryStep
<1>2. EntryInv => OpenSubmitBlocks
  BY DEF EntryInv, OpenIsClaimed, ClaimsOfTasks, Claim, OpenSubmitBlocks, blocks_entry
<1>3. QED
  BY <1>1, <1>2, EntryStart, PTL DEF FlowSpec

-----------------------------------------------------------------------------
(* The two properties of expiry, for every behaviour of the flow: tasks    *)
(* may die, answers may be ambiguous, events may be lost or repeated.      *)
(* Nothing then ties a claim to its own order, so EntryInv is gone; what   *)
(* is left is the age of a claim, which is its task's, and how far the     *)
(* task got: a Pending claim's has no outcome, an Unknown one's has.       *)
AnySubmit == [token : Tokens, pc : {"spawned", "posted", "done", "dead"}, since : Nat]
AnyClaim ==
  [token : Tokens, side : {"BUY"}, order_id : OrderIds \cup {NoOrder},
   status : SubmitStatus, created_ts_us : Nat, updated_ts_us : Nat]

SubmitsType ==
  /\ now \in Nat /\ market \in 0..Len(Markets)
  /\ next_submit_id \in Nat /\ next_submit_id <= MaxSubmits
  /\ DOMAIN task = 1..next_submit_id
  /\ \A id \in DOMAIN task : task[id] \in AnySubmit

OrdersOfSubmits ==
  /\ DOMAIN order \subseteq DOMAIN task
  /\ \A id \in DOMAIN task : task[id].pc = "spawned" => id \notin DOMAIN order
  /\ \A id \in DOMAIN order : order[id] = "open" => id \notin DOMAIN fills
  /\ BuyOrders \cap DOMAIN fills \subseteq DOMAIN order
  /\ DOMAIN fills \subseteq BuyOrders \cup SellOrders

ClaimsOfSubmits ==
  /\ DOMAIN pending \subseteq DOMAIN task
  /\ \A id \in DOMAIN pending :
       /\ pending[id] \in AnyClaim
       /\ pending[id].created_ts_us = task[id].since
       /\ pending[id].status = "Pending" => task[id].pc # "done"
       /\ pending[id].status \in {"Unknown", "ExpiredUnknown"} => task[id].pc = "done"

SubmitInv == VenueInv /\ SubmitsType /\ OrdersOfSubmits /\ ClaimsOfSubmits /\ InTime

LEMMA SubmitsStart == FlowInit => SubmitInv
<1> SUFFICES ASSUME FlowInit PROVE SubmitInv
  OBVIOUS
<1> USE DEF FlowInit, Init, VenueInit
<1>1. <<>> \in Seq(Notice) /\ DOMAIN <<>> = {} /\ 0 \in Nat /\ 1..0 = {}
  OBVIOUS
<1>2. VenueInv
  BY <1>1 DEF VenueInv, FillsType, ChannelOfFills, TradesOfFills
<1>3. SubmitsType
  BY <1>1, BoundAssumption, MarketsAssumption DEF SubmitsType
<1>4. OrdersOfSubmits /\ ClaimsOfSubmits /\ InTime
  BY DEF OrdersOfSubmits, ClaimsOfSubmits, InTime
<1>5. QED
  BY <1>2, <1>3, <1>4 DEF SubmitInv

(* Failures and confirmations leave the claim; a refusal is never of an    *)
(* order that was executed.                                                *)
LEMMA OutcomesByAnswer ==
  /\ \A outcome \in RefusalOutcomes : outcome # "Accepted"
  /\ \A outcome \in ConfirmationOutcomes : outcome # "Rejected"
  /\ \A outcome \in FailureOutcomes : outcome = "Unknown"
<1>1. \A r \in Failures : classify(r) = "Unknown"
  <2> SUFFICES ASSUME NEW r \in Failures PROVE classify(r) = "Unknown"
    OBVIOUS
  <2>1. CASE r.http = 0
    BY <2>1 DEF classify
  <2>2. CASE r.http = 500 /\ r \notin Refusals
    BY <2>2 DEF classify, Refusals, Failures
  <2>3. QED
    BY <2>1, <2>2 DEF Failures
<1>2. QED
  BY <1>1, DefiniteOutcomes DEF FailureOutcomes

(* A claim is made with its task, of the same age.                         *)
LEMMA BinanceTickKeepsSubmits ==
  ASSUME SubmitInv, NEW token \in Tokens, BinanceTick(token)
  PROVE  SubmitInv'
<1> DEFINE id == next_submit_id + 1
           claim == [token |-> token, side |-> "BUY", order_id |-> NoOrder, status |-> "Pending",
                     created_ts_us |-> now, updated_ts_us |-> now]
           fresh == [token |-> token, pc |-> "spawned", since |-> now]
<1>1. /\ next_submit_id < MaxSubmits /\ next_submit_id' = id
      /\ DOMAIN pending' = DOMAIN pending \cup {id} /\ pending'[id] = claim
      /\ \A i \in DOMAIN pending : i # id => pending'[i] = pending[i]
      /\ DOMAIN task' = DOMAIN task \cup {id} /\ task'[id] = fresh
      /\ \A i \in DOMAIN task : i # id => task'[i] = task[i]
      /\ UNCHANGED <<now, market, order, owned_by_token, trades, fills, channel>>
  BY DEF BinanceTick, claim_entry, venueVars
<1>2. now \in Nat /\ next_submit_id \in Nat /\ DOMAIN task = 1..next_submit_id
  BY DEF SubmitInv, SubmitsType
<1>3. id \in Nat /\ id \notin DOMAIN task /\ DOMAIN task' = 1..id /\ id <= MaxSubmits
  BY <1>1, <1>2, EntryAssumptions
<1>4. claim \in AnyClaim /\ claim.created_ts_us = now /\ claim.status = "Pending"
  BY <1>2 DEF AnyClaim, SubmitStatus
<1>5. fresh \in AnySubmit /\ fresh.pc = "spawned" /\ fresh.since = now
  BY <1>2 DEF AnySubmit
<1> HIDE DEF claim, fresh, id
<1>6. VenueInv'
  BY <1>1, VenueKept DEF SubmitInv
<1>7. SubmitsType'
  BY <1>1, <1>3, <1>5 DEF SubmitInv, SubmitsType
<1>8. OrdersOfSubmits'
  BY <1>1, <1>3, <1>5 DEF SubmitInv, OrdersOfSubmits
<1>9. ClaimsOfSubmits'
  <2>1. ASSUME NEW i \in DOMAIN pending'
        PROVE  /\ i \in DOMAIN task' /\ pending'[i] \in AnyClaim
               /\ pending'[i].created_ts_us = task'[i].since
               /\ pending'[i].status = "Pending" => task'[i].pc # "done"
               /\ pending'[i].status \in {"Unknown", "ExpiredUnknown"} => task'[i].pc = "done"
    <3>1. CASE i = id
      BY <1>1, <1>4, <1>5, <3>1
    <3>2. CASE i # id
      BY <1>1, <3>2 DEF SubmitInv, ClaimsOfSubmits
    <3>3. QED
      BY <3>1, <3>2
  <2>2. QED
    BY <2>1 DEF ClaimsOfSubmits
<1>10. InTime'
  <2>1. now - now <= REQUEST_TIMEOUT
    BY <1>2, EntryAssumptions
  <2>2. QED
    BY <1>1, <1>5, <2>1 DEF SubmitInv, InTime, InFlight
<1>11. QED
  BY <1>6, <1>7, <1>8, <1>9, <1>10 DEF SubmitInv

(* A step of a running task: its pc moves, its age does not.               *)
LEMMA SubmitMoves ==
  ASSUME SubmitInv, NEW id, InFlight(id), NEW pc \in {"posted", "done", "dead"},
         task' = [task EXCEPT ![id].pc = pc], UNCHANGED <<now, market, next_submit_id>>
  PROVE  /\ SubmitsType' /\ InTime' /\ DOMAIN task' = DOMAIN task /\ id \in DOMAIN task
         /\ \A i \in DOMAIN task : /\ task'[i].since = task[i].since
                                   /\ task'[i].pc = IF i = id THEN pc ELSE task[i].pc
<1>1. DOMAIN task' = DOMAIN task /\ id \in DOMAIN task
  BY DEF InFlight
<1>2. ASSUME NEW i \in DOMAIN task
      PROVE  /\ task'[i] \in AnySubmit /\ task'[i].since = task[i].since
             /\ task'[i].pc = IF i = id THEN pc ELSE task[i].pc
  <2>1. task[i] \in AnySubmit
    BY DEF SubmitInv, SubmitsType
  <2>2. QED
    BY <2>1 DEF AnySubmit
<1>3. SubmitsType'
  BY <1>1, <1>2 DEF SubmitInv, SubmitsType
<1>4. InTime'
  BY <1>1, <1>2 DEF SubmitInv, InTime, InFlight
<1>5. QED
  BY <1>1, <1>2, <1>3, <1>4

(* A task ends without an order executed: it releases its claim.           *)
LEMMA ReleaseKeepsSubmits ==
  ASSUME SubmitInv, NEW id, InFlight(id), release_claim(id),
         task' = [task EXCEPT ![id].pc = "done"], UNCHANGED <<now, market, venueVars>>,
         DOMAIN order' = DOMAIN order,
         \A i \in DOMAIN order : order'[i] = "open" => order[i] = "open"
  PROVE  SubmitInv'
<1>1. /\ DOMAIN pending' = DOMAIN pending \ {id}
      /\ \A i \in DOMAIN pending' : pending'[i] = pending[i]
      /\ UNCHANGED <<owned_by_token, trades, fills, channel, next_submit_id>>
  BY DEF release_claim, Released, Restrict, venueVars
<1>2. /\ SubmitsType' /\ InTime' /\ DOMAIN task' = DOMAIN task /\ id \in DOMAIN task
      /\ \A i \in DOMAIN task : /\ task'[i].since = task[i].since
                                /\ task'[i].pc = IF i = id THEN "done" ELSE task[i].pc
  BY <1>1, SubmitMoves
<1>3. VenueInv'
  BY <1>1, VenueKept DEF SubmitInv
<1>4. OrdersOfSubmits' /\ ClaimsOfSubmits'
  BY <1>1, <1>2 DEF SubmitInv, OrdersOfSubmits, ClaimsOfSubmits
<1>5. QED
  BY <1>2, <1>3, <1>4 DEF SubmitInv

(* A task ends with its outcome known or not: the claim, if it is still    *)
(* there, says so and keeps its age.                                       *)
LEMMA MarkKeepsSubmits ==
  ASSUME SubmitInv, NEW id, InFlight(id),
         mark_submit_accepted(id, id, now) \/ mark_submit_unknown(id, now),
         task' = [task EXCEPT ![id].pc = "done"], UNCHANGED <<now, market, venueVars>>,
         DOMAIN order' = DOMAIN order,
         \A i \in DOMAIN order : order'[i] = "open" => order[i] = "open"
  PROVE  SubmitInv'
<1>1. UNCHANGED <<owned_by_token, trades, fills, channel, next_submit_id>>
  BY DEF mark_submit_accepted, mark_submit_unknown, venueVars
<1>2. /\ SubmitsType' /\ InTime' /\ DOMAIN task' = DOMAIN task /\ id \in DOMAIN task
      /\ \A i \in DOMAIN task : /\ task'[i].since = task[i].since
                                /\ task'[i].pc = IF i = id THEN "done" ELSE task[i].pc
  BY <1>1, SubmitMoves
<1>3. VenueInv'
  BY <1>1, VenueKept DEF SubmitInv
<1>4. OrdersOfSubmits'
  BY <1>1, <1>2 DEF SubmitInv, OrdersOfSubmits
<1>5. pending' = Accepted(pending, id, id, now) \/ pending' = MarkedUnknown(pending, id, now)
  BY DEF mark_submit_accepted, mark_submit_unknown
<1>6. /\ DOMAIN pending' = DOMAIN pending
      /\ \A i \in DOMAIN pending : i # id => pending'[i] = pending[i]
      /\ id \in DOMAIN pending => /\ pending'[id] \in AnyClaim
                                  /\ pending'[id].created_ts_us = pending[id].created_ts_us
                                  /\ pending'[id].status \in {"Accepted", "Unknown"}
  <2>1. CASE id \notin DOMAIN pending
    BY <1>5, <2>1 DEF Accepted, MarkedUnknown
  <2>2. CASE id \in DOMAIN pending
    <3>1. pending[id] \in AnyClaim /\ now \in Nat /\ id \in OrderIds
      BY <1>2, <2>2, EntryAssumptions DEF SubmitInv, ClaimsOfSubmits, SubmitsType
    <3> DEFINE accepted == [pending[id] EXCEPT !.order_id = id, !.status = "Accepted", !.updated_ts_us = now]
               unknown == [pending[id] EXCEPT !.status = "Unknown", !.updated_ts_us = now]
    <3>2. \/ pending' = [pending EXCEPT ![id] = accepted]
          \/ pending' = [pending EXCEPT ![id] = unknown]
      BY <1>5, <2>2 DEF Accepted, MarkedUnknown
    <3>3. \A claim \in {accepted, unknown} :
            /\ claim \in AnyClaim /\ claim.created_ts_us = pending[id].created_ts_us
            /\ claim.status \in {"Accepted", "Unknown"}
      BY <3>1 DEF AnyClaim, SubmitStatus
    <3> HIDE DEF accepted, unknown
    <3>4. QED
      BY <2>2, <3>2, <3>3
  <2>3. QED
    BY <2>1, <2>2
<1>7. ClaimsOfSubmits'
  <2>1. ASSUME NEW i \in DOMAIN pending'
        PROVE  /\ i \in DOMAIN task' /\ pending'[i] \in AnyClaim
               /\ pending'[i].created_ts_us = task'[i].since
               /\ pending'[i].status = "Pending" => task'[i].pc # "done"
               /\ pending'[i].status \in {"Unknown", "ExpiredUnknown"} => task'[i].pc = "done"
    <3>1. CASE i = id
      BY <1>2, <1>6, <3>1 DEF SubmitInv, ClaimsOfSubmits
    <3>2. CASE i # id
      BY <1>2, <1>6, <3>2 DEF SubmitInv, ClaimsOfSubmits
    <3>3. QED
      BY <3>1, <3>2
  <2>2. QED
    BY <2>1 DEF ClaimsOfSubmits
<1>8. QED
  BY <1>2, <1>3, <1>4, <1>7 DEF SubmitInv

LEMMA SubmitTaskKeepsSubmits ==
  ASSUME SubmitInv, NEW id \in BuyOrders, SubmitTask(id)
  PROVE  SubmitInv'
<1>1. CASE PrepareFails(id)
  BY <1>1, ReleaseKeepsSubmits DEF PrepareFails
<1>2. CASE Post(id)
  <2>1. /\ InFlight(id) /\ id \in DOMAIN task /\ task[id].pc = "spawned"
        /\ task' = [task EXCEPT ![id].pc = "posted"]
        /\ DOMAIN order' = DOMAIN order \cup {id} /\ \A i \in DOMAIN order : i # id => order'[i] = order[i]
        /\ UNCHANGED <<now, market, next_submit_id, pending, owned_by_token, trades, fills, channel>>
    BY <1>2 DEF Post, InFlight, inventoryVars, venueVars
  <2>2. /\ SubmitsType' /\ InTime' /\ DOMAIN task' = DOMAIN task
        /\ \A i \in DOMAIN task : /\ task'[i].since = task[i].since
                                  /\ task'[i].pc = IF i = id THEN "posted" ELSE task[i].pc
    BY <2>1, SubmitMoves
  <2>3. VenueInv'
    BY <2>1, VenueKept DEF SubmitInv
  <2>4. id \notin DOMAIN fills
    BY <2>1 DEF SubmitInv, OrdersOfSubmits
  <2>5. OrdersOfSubmits' /\ ClaimsOfSubmits'
    BY <2>1, <2>2, <2>4 DEF SubmitInv, OrdersOfSubmits, ClaimsOfSubmits
  <2>6. QED
    BY <2>2, <2>3, <2>5 DEF SubmitInv
<1>3. CASE AnswerRefuses(id) \/ AnswerConfirms(id) \/ AnswerFails(id)
  <2>1. InFlight(id)
    BY <1>3 DEF AnswerRefuses, AnswerConfirms, AnswerFails, Posted, InFlight
  <2>2. PICK outcome : Outcome(id, outcome)
    BY <1>3 DEF AnswerRefuses, AnswerConfirms, AnswerFails
  <2>3. /\ DOMAIN order' = DOMAIN order
        /\ \A i \in DOMAIN order : order'[i] = "open" => order[i] = "open"
    BY <1>3 DEF AnswerRefuses, AnswerConfirms, AnswerFails
  <2>4. QED
    BY <2>1, <2>2, <2>3, ReleaseKeepsSubmits, MarkKeepsSubmits DEF Outcome, record_buy_submit_outcome
<1>4. QED
  BY <1>1, <1>2, <1>3 DEF SubmitTask

LEMMA TaskPanicsKeepsSubmits ==
  ASSUME SubmitInv, NEW id \in BuyOrders, TaskPanics(id)
  PROVE  SubmitInv'
<1>1. /\ InFlight(id) /\ task' = [task EXCEPT ![id].pc = "dead"]
      /\ UNCHANGED <<now, market, order, next_submit_id, pending, owned_by_token, trades, fills, channel>>
  BY DEF TaskPanics, inventoryVars, venueVars
<1>2. /\ SubmitsType' /\ InTime' /\ DOMAIN task' = DOMAIN task
      /\ \A i \in DOMAIN task : /\ task'[i].since = task[i].since
                                /\ task'[i].pc = IF i = id THEN "dead" ELSE task[i].pc
  BY <1>1, SubmitMoves
<1>3. VenueInv'
  BY <1>1, VenueKept DEF SubmitInv
<1>4. OrdersOfSubmits' /\ ClaimsOfSubmits'
  BY <1>1, <1>2 DEF SubmitInv, OrdersOfSubmits, ClaimsOfSubmits, InFlight
<1>5. QED
  BY <1>2, <1>3, <1>4 DEF SubmitInv

-----------------------------------------------------------------------------
LEMMA VenueSideKeepsSubmits ==
  ASSUME SubmitInv, UNCHANGED <<now, market, task, pending, next_submit_id>>, VenueInv', OrdersOfSubmits'
  PROVE  SubmitInv'
<1>1. SubmitsType' /\ ClaimsOfSubmits' /\ InTime'
  BY DEF SubmitInv, SubmitsType, ClaimsOfSubmits, InTime, InFlight
<1>2. QED
  BY <1>1 DEF SubmitInv

LEMMA ExecuteKeepsSubmits ==
  ASSUME SubmitInv, NEW id \in BuyOrders, Execute(id)
  PROVE  SubmitInv'
<1>1. /\ id \in DOMAIN order /\ id \in DOMAIN task /\ id \notin DOMAIN fills
      /\ order' = [order EXCEPT ![id] = "executed"] /\ Fill(id, task[id].token, "BUY", FillSize)
      /\ UNCHANGED <<now, market, task>>
  BY DEF Execute, SubmitInv, OrdersOfSubmits
<1>2. id \in OrderIds /\ task[id].token \in Tokens /\ FillSize \in Nat /\ "BUY" \in OrderSide
  BY <1>1, EntryAssumptions DEF SubmitInv, SubmitsType, AnySubmit, OrderSide
<1>3. DOMAIN fills' = DOMAIN fills \cup {id} /\ UNCHANGED <<pending, next_submit_id>>
  BY <1>1 DEF Fill, inventoryVars
<1>4. VenueInv'
  BY <1>1, <1>2, FillKeepsVenue DEF SubmitInv
<1>5. OrdersOfSubmits'
  BY <1>1, <1>3 DEF SubmitInv, OrdersOfSubmits
<1>6. QED
  BY <1>1, <1>3, <1>4, <1>5, VenueSideKeepsSubmits

LEMMA SellKeepsSubmits ==
  ASSUME SubmitInv, NEW token \in Tokens, Sell(token)
  PROVE  SubmitInv'
<1>1. PICK units \in 1..(VenueBalance(token) \div QUANTUM), o \in SellOrders \ DOMAIN fills :
        Fill(o, token, "SELL", units * QUANTUM)
  BY DEF Sell
<1>2. o \in OrderIds /\ o \notin BuyOrders /\ units * QUANTUM \in Nat /\ "SELL" \in OrderSide
  BY EntryAssumptions, QuantumIsPositive DEF OrderSide
<1>3. /\ DOMAIN fills' = DOMAIN fills \cup {o} /\ UNCHANGED <<pending, next_submit_id>>
      /\ UNCHANGED <<now, market, task, order>>
  BY <1>1 DEF Fill, Sell, inventoryVars, flowVars
<1>4. VenueInv'
  BY <1>1, <1>2, FillKeepsVenue DEF SubmitInv
<1>5. OrdersOfSubmits'
  <2>1. \A i \in DOMAIN order : i \in BuyOrders
    BY EntryAssumptions DEF SubmitInv, OrdersOfSubmits, SubmitsType
  <2>2. QED
    BY <1>2, <1>3, <2>1 DEF SubmitInv, OrdersOfSubmits
<1>6. QED
  BY <1>3, <1>4, <1>5, VenueSideKeepsSubmits

LEMMA ChannelKeepsSubmits ==
  ASSUME SubmitInv, SettleTrade \/ RepeatEvent \/ ChannelUp \/ ChannelDown \/ FrameRefused
  PROVE  SubmitInv'
<1>1. UNCHANGED <<now, market, task, order, pending, next_submit_id>> /\ DOMAIN fills' = DOMAIN fills
  BY DEF SettleTrade, RepeatEvent, ChannelUp, ChannelDown, FrameRefused, Settle, Repeat, Connect, Disconnect,
         MalformedFrame, set_user_wss_trusted, flowVars, inventoryVars, venueVars
<1>2. VenueInv'
  BY SettleKeepsVenue, RepeatKeepsVenue, ConnectionKeepsVenue, RefusalKeepsVenue
  DEF SubmitInv, SettleTrade, RepeatEvent, ChannelUp, ChannelDown, FrameRefused
<1>3. OrdersOfSubmits'
  BY <1>1 DEF SubmitInv, OrdersOfSubmits
<1>4. QED
  BY <1>1, <1>2, <1>3, VenueSideKeepsSubmits

(* The event may bind or end the claim of another order, but it makes no   *)
(* claim Pending or Unknown and no claim younger.                          *)
LEMMA DeliverKeepsSubmits ==
  ASSUME SubmitInv, Deliver
  PROVE  SubmitInv'
<1> DEFINE trade == Arriving(now)
<1>1. /\ channel # <<>> /\ Read(now) /\ apply_user_trade(trade)
      /\ UNCHANGED <<now, market, task, order, fills, next_submit_id>>
  BY DEF Deliver, Read, apply_user_trade, Arriving, flowVars
<1>2. VenueInv'
  BY <1>1, ReadKeepsVenue DEF SubmitInv
<1>3. trade.taker_order_id \in OrderIds /\ trade.ts_us = now /\ now \in Nat
  BY <1>1, ArrivingIsOfFill DEF SubmitInv, SubmitsType, VenueInv, FillsType, Arriving, Event
<1> HIDE DEF trade
<1>4. \/ pending' = pending
      \/ \E id \in DOMAIN pending : pending' = PendingAfter(trade, id)
  BY <1>1 DEF apply_user_trade, match_pending_submit, ByOrder, ByTokenSide
<1>5. ASSUME NEW i \in DOMAIN pending'
      PROVE  /\ i \in DOMAIN pending
             /\ \/ pending'[i] = pending[i]
                \/ /\ pending'[i] \in AnyClaim /\ pending'[i].status = "Accepted"
                   /\ pending'[i].created_ts_us = pending[i].created_ts_us
  <2>1. CASE pending' = pending
    BY <2>1
  <2>2. ASSUME NEW id \in DOMAIN pending, pending' = PendingAfter(trade, id)
        PROVE  /\ i \in DOMAIN pending
               /\ \/ pending'[i] = pending[i]
                  \/ /\ pending'[i] \in AnyClaim /\ pending'[i].status = "Accepted"
                     /\ pending'[i].created_ts_us = pending[i].created_ts_us
    <3>1. CASE terminal(trade.status)
      BY <2>2, <3>1 DEF PendingAfter, Released, Restrict
    <3>2. CASE ~terminal(trade.status)
      <4>1. pending' = [pending EXCEPT ![id] = Bind(pending[id], trade)]
        BY <2>2, <3>2 DEF PendingAfter
      <4>2. /\ Bind(pending[id], trade) \in AnyClaim /\ Bind(pending[id], trade).status = "Accepted"
            /\ Bind(pending[id], trade).created_ts_us = pending[id].created_ts_us
        BY <1>3 DEF Bind, AnyClaim, SubmitStatus, SubmitInv, ClaimsOfSubmits
      <4>3. QED
        BY <4>1, <4>2
    <3>3. QED
      BY <3>1, <3>2
  <2>3. QED
    BY <1>4, <2>1, <2>2
<1>6. ClaimsOfSubmits'
  BY <1>1, <1>5 DEF SubmitInv, ClaimsOfSubmits
<1>7. OrdersOfSubmits' /\ SubmitsType' /\ InTime'
  BY <1>1 DEF SubmitInv, OrdersOfSubmits, SubmitsType, InTime, InFlight
<1>8. QED
  BY <1>2, <1>6, <1>7 DEF SubmitInv

(* What the maintenance task leaves of the claims: those Pending for       *)
(* PENDING_SUBMIT_EXPIRE are gone, the others keep all but an old Unknown. *)
LEMMA MaintainExpires ==
  ASSUME SubmitInv, Maintain
  PROVE  /\ DOMAIN pending' = {id \in DOMAIN pending :
                ~(/\ pending[id].status = "Pending"
                  /\ pending[id].created_ts_us <= now - PENDING_SUBMIT_EXPIRE)}
         /\ \A id \in DOMAIN pending' :
              \/ pending'[id] = pending[id]
              \/ /\ pending'[id] \in AnyClaim /\ pending'[id].created_ts_us = pending[id].created_ts_us
                 /\ pending'[id].status = "ExpiredUnknown" /\ pending[id].status = "Unknown"
<1> DEFINE settled == UnknownsExpired(pending, now - UNKNOWN_SUBMIT_EXPIRE)
<1>1. /\ DOMAIN settled = DOMAIN pending
      /\ \A id \in DOMAIN pending :
           \/ settled[id] = pending[id]
           \/ /\ settled[id] \in AnyClaim /\ settled[id].created_ts_us = pending[id].created_ts_us
              /\ settled[id].status = "ExpiredUnknown" /\ pending[id].status = "Unknown"
  <2>1. \A id \in DOMAIN pending : pending[id] \in AnyClaim
    BY DEF SubmitInv, ClaimsOfSubmits
  <2>2. QED
    BY <2>1 DEF UnknownsExpired, AnyClaim, SubmitStatus
<1>2. pending' = PendingExpired(settled, now - PENDING_SUBMIT_EXPIRE)
  BY DEF Maintain, expire_stale_entry_claims
<1> HIDE DEF settled
<1>3. QED
  BY <1>1, <1>2 DEF PendingExpired, Restrict

LEMMA MaintainKeepsSubmits ==
  ASSUME SubmitInv, Maintain
  PROVE  SubmitInv'
<1>1. UNCHANGED <<now, market, task, order, next_submit_id, owned_by_token, trades, fills, channel>>
  BY DEF Maintain, venueVars, flowVars
<1>2. VenueInv'
  BY <1>1, VenueKept DEF SubmitInv
<1>3. OrdersOfSubmits' /\ SubmitsType' /\ InTime'
  BY <1>1 DEF SubmitInv, OrdersOfSubmits, SubmitsType, InTime, InFlight
<1>4. ClaimsOfSubmits'
  BY <1>1, MaintainExpires DEF SubmitInv, ClaimsOfSubmits
<1>5. QED
  BY <1>2, <1>3, <1>4 DEF SubmitInv

LEMMA RotateMarketKeepsSubmits ==
  ASSUME SubmitInv, RotateMarket
  PROVE  SubmitInv'
<1>1. /\ market < Len(Markets) /\ market' = market + 1 /\ release_market_scope(Markets[market + 1])
      /\ UNCHANGED <<now, task, order, next_submit_id, trades, fills, channel, venueVars>>
  BY DEF RotateMarket, release_market_scope, venueVars
<1>2. VenueInv'
  BY <1>1, ScopeKeepsVenue DEF SubmitInv
<1>3. market' \in 0..Len(Markets)
  BY <1>1, MarketsAssumption DEF SubmitInv, SubmitsType
<1>4. OrdersOfSubmits' /\ SubmitsType' /\ InTime'
  BY <1>1, <1>3 DEF SubmitInv, OrdersOfSubmits, SubmitsType, InTime, InFlight
<1>5. ClaimsOfSubmits'
  BY <1>1 DEF SubmitInv, ClaimsOfSubmits, release_market_scope, PendingInScope, Restrict
<1>6. QED
  BY <1>2, <1>4, <1>5 DEF SubmitInv

LEMMA TickKeepsSubmits ==
  ASSUME SubmitInv, Tick
  PROVE  SubmitInv'
<1>1. /\ now \in Nat /\ now' = now + 1
      /\ UNCHANGED <<market, task, order, pending, next_submit_id, owned_by_token, trades, fills, channel>>
  BY DEF Tick, SubmitInv, SubmitsType, inventoryVars, venueVars
<1>2. VenueInv'
  BY <1>1, VenueKept DEF SubmitInv
<1>3. OrdersOfSubmits' /\ SubmitsType' /\ ClaimsOfSubmits'
  BY <1>1 DEF SubmitInv, OrdersOfSubmits, SubmitsType, ClaimsOfSubmits
<1>4. InTime'
  <2>1. ASSUME NEW id \in DOMAIN task, InFlight(id)
        PROVE  now' - task[id].since <= REQUEST_TIMEOUT
    <3>1. now - task[id].since < REQUEST_TIMEOUT
      BY <2>1 DEF Tick
    <3>2. task[id].since \in Nat
      BY DEF SubmitInv, SubmitsType, AnySubmit
    <3>3. QED
      BY <1>1, <3>1, <3>2, EntryAssumptions
  <2>2. QED
    BY <1>1, <2>1 DEF InTime, InFlight
<1>5. QED
  BY <1>2, <1>3, <1>4 DEF SubmitInv

LEMMA SubmitsStep ==
  ASSUME SubmitInv, [FlowNext]_vars
  PROVE  SubmitInv'
<1>1. ASSUME NEW token \in Tokens, BinanceTick(token) \/ Sell(token) PROVE SubmitInv'
  BY <1>1, BinanceTickKeepsSubmits, SellKeepsSubmits
<1>2. ASSUME NEW id \in BuyOrders, SubmitTask(id) \/ TaskPanics(id) \/ Execute(id) PROVE SubmitInv'
  BY <1>2, SubmitTaskKeepsSubmits, TaskPanicsKeepsSubmits, ExecuteKeepsSubmits
<1>3. CASE SettleTrade \/ RepeatEvent \/ Deliver \/ ChannelUp \/ ChannelDown \/ FrameRefused
  BY <1>3, ChannelKeepsSubmits, DeliverKeepsSubmits
<1>4. CASE Maintain \/ RotateMarket \/ Tick
  BY <1>4, MaintainKeepsSubmits, RotateMarketKeepsSubmits, TickKeepsSubmits
<1>5. CASE UNCHANGED vars
  <2>1. UNCHANGED <<now, market, task, order, pending, next_submit_id, owned_by_token, trades, fills, channel>>
    BY <1>5 DEF vars, flowVars, inventoryVars, venueVars
  <2>2. VenueInv' /\ OrdersOfSubmits'
    BY <2>1, VenueKept DEF SubmitInv, OrdersOfSubmits
  <2>3. QED
    BY <2>1, <2>2, VenueSideKeepsSubmits
<1>6. QED
  BY <1>1, <1>2, <1>3, <1>4, <1>5 DEF FlowNext

LEMMA SubmitsAlways == FlowSpec => []SubmitInv
BY SubmitsStart, SubmitsStep, PTL DEF FlowSpec

-----------------------------------------------------------------------------
(* A claim whose task is still running is too young for the expiry, and    *)
(* not Unknown, so that its age is all that counts.                        *)
LEMMA RunningOutlivesExpiry ==
  ASSUME SubmitInv, Maintain, NEW id \in DOMAIN pending, InFlight(id)
  PROVE  id \in DOMAIN pending'
<1>1. id \in DOMAIN task /\ pending[id].created_ts_us = task[id].since
  BY DEF InFlight, SubmitInv, ClaimsOfSubmits
<1>2. now - task[id].since <= REQUEST_TIMEOUT /\ task[id].since \in Nat /\ now \in Nat
  BY <1>1 DEF SubmitInv, InTime, SubmitsType, AnySubmit
<1>3. ~(pending[id].created_ts_us <= now - PENDING_SUBMIT_EXPIRE)
  BY <1>1, <1>2, EntryAssumptions
<1>4. QED
  BY <1>3, MaintainExpires

(* No claim of a running submit is expired, whatever dies, is lost or is   *)
(* repeated around it: the request timeout is the shorter of the two.      *)
THEOREM LiveSubmitsAreLeft == FlowSpec => ExpiryLeavesLiveSubmits
<1>1. SubmitInv /\ [FlowNext]_vars =>
        [Maintain => \A id \in DOMAIN pending : InFlight(id) => id \in DOMAIN pending']_vars
  BY RunningOutlivesExpiry
<1>2. QED
  BY <1>1, SubmitsAlways, PTL DEF FlowSpec, ExpiryLeavesLiveSubmits

(* Who removes a claim: its own task before anything was executed, the end *)
(* of a trade, the rotation, or the expiry of a Pending one.               *)
LEMMA WhoRemoves ==
  ASSUME SubmitInv, [FlowNext]_vars, NEW id \in DOMAIN pending, id \notin DOMAIN pending'
  PROVE  \/ InFlight(id) /\ (task[id].pc = "spawned" \/ order[id] = "open")
         \/ Deliver /\ terminal(Head(channel).status)
         \/ RotateMarket
         \/ Maintain /\ pending[id].status = "Pending" /\ ~InFlight(id)
<1>1. ~(\E token \in Tokens : BinanceTick(token) \/ Sell(token))
  BY DEF BinanceTick, claim_entry, Sell, Fill, inventoryVars
<1>2. ASSUME NEW i \in BuyOrders, SubmitTask(i)
      PROVE  InFlight(id) /\ (task[id].pc = "spawned" \/ order[id] = "open")
  <2>1. ~Post(i)
    BY DEF Post, inventoryVars
  <2>2. ASSUME NEW outcome, Outcome(i, outcome)
        PROVE  outcome = "Rejected" /\ release_claim(i)
    BY <2>2 DEF Outcome, record_buy_submit_outcome, mark_submit_accepted, mark_submit_unknown, Accepted,
                MarkedUnknown
  <2>3. ~AnswerConfirms(i)
    BY <2>2, OutcomesByAnswer DEF AnswerConfirms
  <2>4. ~AnswerFails(i)
    BY <2>2, OutcomesByAnswer DEF AnswerFails
  <2>5. CASE PrepareFails(i)
    <3>1. i = id
      BY <2>5 DEF PrepareFails, release_claim, Released, Restrict
    <3>2. QED
      BY <2>5, <3>1 DEF PrepareFails
  <2>6. CASE AnswerRefuses(i)
    <3>1. release_claim(i)
      BY <2>2, <2>6 DEF AnswerRefuses
    <3>2. i = id
      BY <3>1 DEF release_claim, Released, Restrict
    <3>3. QED
      BY <2>6, <3>2 DEF AnswerRefuses, Posted, InFlight
  <2>7. QED
    BY <1>2, <2>1, <2>3, <2>4, <2>5, <2>6 DEF SubmitTask
<1>3. ~(\E i \in BuyOrders : TaskPanics(i) \/ Execute(i))
  BY DEF TaskPanics, Execute, Fill, inventoryVars
<1>4. ~(SettleTrade \/ RepeatEvent \/ ChannelUp \/ ChannelDown \/ FrameRefused \/ Tick \/ UNCHANGED vars)
  BY DEF SettleTrade, RepeatEvent, ChannelUp, ChannelDown, FrameRefused, Tick, Settle, Repeat, Connect,
         Disconnect, MalformedFrame, set_user_wss_trusted, inventoryVars, vars
<1>5. CASE Deliver
  <2> DEFINE trade == Arriving(now)
  <2>1. apply_user_trade(trade) /\ trade.status = Head(channel).status
    BY <1>5 DEF Deliver, Read, Arriving, Event
  <2> HIDE DEF trade
  <2>2. PICK i : pending' = PendingAfter(trade, i)
    BY <2>1 DEF apply_user_trade
  <2>3. terminal(trade.status)
    BY <2>2 DEF PendingAfter
  <2>4. QED
    BY <1>5, <2>1, <2>3
<1>6. CASE Maintain
  BY <1>6, MaintainExpires, RunningOutlivesExpiry
<1>7. QED
  BY <1>1, <1>2, <1>3, <1>4, <1>5, <1>6 DEF FlowNext

(* The claim of an ambiguous outcome, or of an order the venue executed,   *)
(* can still be matched by the trade that comes late: no answer and no     *)
(* expiry takes it, but the expiry of a claim whose task died.             *)
THEOREM AmbiguousIsKept == FlowSpec => AmbiguousStaysMatchable
<1>1. ASSUME SubmitInv, [FlowNext]_vars, NEW id \in DOMAIN pending, id \notin DOMAIN pending',
             \/ pending[id].status \in {"Unknown", "ExpiredUnknown"}
             \/ id \in DOMAIN order /\ order[id] = "executed"
      PROVE  \/ Deliver /\ terminal(Head(channel).status)
             \/ RotateMarket
             \/ Maintain /\ task[id].pc = "dead" /\ pending[id].status = "Pending"
  <2>1. /\ id \in DOMAIN task /\ task[id].pc \in {"spawned", "posted", "done", "dead"}
        /\ pending[id].status \in {"Unknown", "ExpiredUnknown"} => task[id].pc = "done"
        /\ pending[id].status = "Pending" => task[id].pc # "done"
        /\ task[id].pc = "spawned" => id \notin DOMAIN order
    BY <1>1 DEF SubmitInv, ClaimsOfSubmits, OrdersOfSubmits, SubmitsType, AnySubmit
  <2>2. ~(InFlight(id) /\ (task[id].pc = "spawned" \/ order[id] = "open"))
    BY <1>1, <2>1 DEF InFlight
  <2>3. QED
    BY <1>1, <2>1, <2>2, WhoRemoves DEF InFlight
<1>2. SubmitInv /\ [FlowNext]_vars =>
        [\A id \in DOMAIN pending :
           /\ \/ pending[id].status \in {"Unknown", "ExpiredUnknown"}
              \/ id \in DOMAIN order /\ order[id] = "executed"
           /\ id \notin DOMAIN pending'
           => \/ Deliver /\ terminal(Head(channel).status)
              \/ RotateMarket
              \/ Maintain /\ task[id].pc = "dead" /\ pending[id].status = "Pending"]_vars
  BY <1>1
<1>3. QED
  BY <1>2, SubmitsAlways, PTL DEF FlowSpec, AmbiguousStaysMatchable

-----------------------------------------------------------------------------
(* Every step of the flow is a call of Inventory's, or the maintenance     *)
(* task's two calls under one lock.                                        *)
LEMMA EntryCallsInventory ==
  ASSUME EveryValue, SubmitInv, [FlowNext]_vars, ~Maintain
  PROVE  [Next]_inventoryVars
<1>1. now \in Stamps /\ now \in Nat
  BY DEF EveryValue, SubmitInv, SubmitsType
<1>2. ASSUME NEW token \in Tokens, BinanceTick(token) PROVE Next
  BY <1>1, <1>2 DEF BinanceTick, Next
<1>3. ASSUME NEW id \in BuyOrders, SubmitTask(id) PROVE [Next]_inventoryVars
  <2>1. CASE Post(id)
    BY <2>1 DEF Post
  <2>2. ASSUME ~Post(id) PROVE Next
    <3>1. InFlight(id)
      BY <1>3, <2>2 DEF SubmitTask, PrepareFails, AnswerRefuses, AnswerConfirms, AnswerFails, Posted, InFlight
    <3>2. id \in 1..next_submit_id /\ id \in OrderIds
      BY <3>1, EntryAssumptions DEF InFlight, SubmitInv, SubmitsType
    <3>3. \/ release_claim(id) \/ mark_submit_accepted(id, id, now) \/ mark_submit_unknown(id, now)
      BY <1>3, <2>2 DEF SubmitTask, PrepareFails, AnswerRefuses, AnswerConfirms, AnswerFails, Outcome,
                        record_buy_submit_outcome
    <3>4. QED
      BY <1>1, <3>2, <3>3 DEF Next
  <2>3. QED
    BY <2>1, <2>2
<1>4. CASE Deliver
  <2>1. DOMAIN fills \subseteq TradeIds
    BY MarketsAssumption DEF SubmitInv, OrdersOfSubmits
  <2>2. apply_user_trade(Arriving(now)) /\ channel # <<>>
    BY <1>4 DEF Deliver, Read, Arriving
  <2>3. Arriving(now) \in UserTrade
    BY <1>1, <2>1, <2>2, ArrivingType DEF SubmitInv
  <2>4. QED
    BY <2>2, <2>3 DEF Next
<1>5. CASE ChannelUp \/ ChannelDown
  BY <1>5 DEF ChannelUp, ChannelDown, Connect, Disconnect, Next
<1>6. CASE RotateMarket
  <2>1. Markets[market + 1] \in SUBSET Tokens
    BY <1>6, MarketsAssumption DEF RotateMarket, SubmitInv, SubmitsType
  <2>2. QED
    BY <1>6, <2>1 DEF RotateMarket, Next
<1>7. CASE UNCHANGED inventoryVars
  BY <1>7
<1>8. QED
  BY <1>2, <1>3, <1>4, <1>5, <1>6, <1>7
  DEF FlowNext, vars, Sell, TaskPanics, Execute, SettleTrade, RepeatEvent, FrameRefused, Tick, Fill, Settle,
      Repeat, MalformedFrame

LEMMA EntryTypesStep ==
  ASSUME EveryValue, SubmitInv, TypeOK, [FlowNext]_vars
  PROVE  TypeOK' /\ DOMAIN pending' \subseteq DOMAIN pending \cup {next_submit_id + 1}
<1>1. CASE ~Maintain
  BY <1>1, EntryCallsInventory, NextType
<1>2. CASE Maintain
  <2> DEFINE settled == UnknownsExpired(pending, now - UNKNOWN_SUBMIT_EXPIRE)
  <2>1. next_submit_id \in Nat /\ IsClaimMap(pending, next_submit_id)
    BY DEF TypeOK, IsClaimMap
  <2>2. IsClaimMap(settled, next_submit_id) /\ DOMAIN settled = DOMAIN pending
    BY <2>1, ExpireType
  <2>3. pending' = PendingExpired(settled, now - PENDING_SUBMIT_EXPIRE)
    BY <1>2 DEF Maintain, expire_stale_entry_claims
  <2> HIDE DEF settled
  <2>4. IsClaimMap(pending', next_submit_id) /\ DOMAIN pending' \subseteq DOMAIN pending
    BY <2>1, <2>2, <2>3, ExpireType
  <2>5. UNCHANGED <<user_wss_trusted, next_submit_id, owned_by_token, trades>>
    BY <1>2 DEF Maintain
  <2>6. QED
    BY <2>4, <2>5 DEF TypeOK, IsClaimMap
<1>3. QED
  BY <1>1, <1>2

LEMMA EntryTypes == ASSUME EveryValue PROVE FlowSpec => []TypeOK
<1>1. FlowInit => TypeOK
  BY InitType DEF FlowInit
<1>2. TypeOK /\ SubmitInv /\ [FlowNext]_vars => TypeOK'
  BY EntryTypesStep
<1>3. QED
  BY <1>1, <1>2, SubmitsAlways, PTL DEF FlowSpec

(* The entry flow, with the venue and the channel around it, calls the     *)
(* inventory only as Inventory's own specification lets it be called: what *)
(* it promises of the trades is promised of the program.                   *)
THEOREM EntryKeepsLedger == ASSUME EveryValue PROVE FlowSpec => ImplementsTradeLedger
<1>1. FlowInit => Ledger!Init
  BY DEF FlowInit, Init, Ledger!Init
<1>2. TypeOK /\ SubmitInv /\ [FlowNext]_vars => [Ledger!Next]_(Ledger!vars)
  <2> SUFFICES ASSUME TypeOK, SubmitInv, [FlowNext]_vars PROVE [Ledger!Next]_(Ledger!vars)
    OBVIOUS
  <2>1. CASE ~Maintain
    BY <2>1, EntryCallsInventory, InventoryStepsLedger
  <2>2. CASE Maintain
    BY <2>2 DEF Maintain, Ledger!vars
  <2>3. QED
    BY <2>1, <2>2
<1>3. QED
  BY <1>1, <1>2, EntryTypes, SubmitsAlways, PTL DEF FlowSpec, Ledger!Spec, ImplementsTradeLedger

(* No answer, event or expiry brings back a claim that is gone, in any     *)
(* behaviour of the flow.                                                  *)
THEOREM GoneClaimsOfEntry == ASSUME EveryValue PROVE FlowSpec => GoneClaimsStayGone
<1>1. ASSUME TypeOK, SubmitInv, [FlowNext]_vars, NEW id \in 1..next_submit_id, id \notin DOMAIN pending
      PROVE  id \notin DOMAIN pending'
  <2>1. DOMAIN pending' \subseteq DOMAIN pending \cup {next_submit_id + 1}
    BY <1>1, EntryTypesStep
  <2>2. id # next_submit_id + 1
    BY <1>1 DEF TypeOK
  <2>3. QED
    BY <1>1, <2>1, <2>2
<1>2. TypeOK /\ SubmitInv /\ [FlowNext]_vars =>
        [\A id \in 1..next_submit_id : id \notin DOMAIN pending => id \notin DOMAIN pending']_inventoryVars
  BY <1>1
<1>3. QED
  BY <1>2, EntryTypes, SubmitsAlways, PTL DEF FlowSpec, GoneClaimsStayGone

-----------------------------------------------------------------------------
(* The balance.  Over an ordered channel that loses nothing but may repeat *)
(* anything, what the inventory has is what the venue has, but for what    *)
(* the events still to be read will do, one after the other.               *)
Reliable == ~MayDisconnect /\ ~MayBeMalformed /\ SettlesInOrder

(* No balance comes near the width of an i64.                              *)
NoOverflow == MaxSubmits * FillSize <= I64_MAX

(* The trade is known to the inventory, and to have ended.                 *)
Over(known, o) == o \in DOMAIN known /\ known[o].finalized

(* The first event of a trade not known yet, and the first of its failures,*)
(* are news; the others repeat them or report what counts for nothing.     *)
Opens(known, events, i) ==
  /\ events[i].status = "MATCHED" /\ events[i].order \notin DOMAIN known
  /\ \A j \in 1..(i - 1) : events[j].order # events[i].order

Undoes(known, events, i) ==
  /\ events[i].status = "FAILED" /\ ~Over(known, events[i].order)
  /\ \A j \in 1..(i - 1) : events[j].order = events[i].order => events[j].status # "FAILED"

(* What an event does to the balance of a token.                           *)
Worth(f, known, events, i, token) ==
  IF Opens(known, events, i) THEN Signed(f[events[i].order], token)
  ELSE IF Undoes(known, events, i) THEN 0 - Signed(f[events[i].order], token) ELSE 0

(* The balances of a token between what is owned and what the venue has,   *)
(* after each of the events on the way.                                    *)
MirrorOf(f, known, events, own, venue, token) ==
  \E b \in [0..Len(events) -> 0..I64_MAX] :
    /\ b[0] = own /\ b[Len(events)] = venue
    /\ \A i \in 1..Len(events) : b[i] = b[i - 1] + Worth(f, known, events, i, token)

Mirror(token) == MirrorOf(fills, trades, channel, owned_by_token[token], VenueBalance(token), token)

Past(token) == \E m \in 1..market : token \in Markets[m]

TasksOfPast ==
  /\ \A id \in DOMAIN task : Past(task[id].token)
  /\ DOMAIN task # {} => user_wss_trusted

FillsOfPast ==
  /\ IsFiniteSet(DOMAIN fills)
  /\ DOMAIN fills # {} => user_wss_trusted
  /\ \A o \in DOMAIN fills :
       /\ Past(fills[o].token)
       /\ fills[o].side = "BUY" => o \in BuyOrders /\ fills[o].size_atoms = FillSize

(* A trade is counted, or the first event of it on the way is its MATCHED. *)
Told(o) ==
  \/ o \in DOMAIN trades /\ trades[o].applied /\ trades[o].size_atoms = fills[o].size_atoms
  \/ /\ o \notin DOMAIN trades
     /\ \E i \in DOMAIN channel :
          /\ channel[i].order = o /\ channel[i].status = "MATCHED"
          /\ \A j \in DOMAIN channel : j < i => channel[j].order # o

(* A trade has one end, which is reported and then only repeated.          *)
OneEnd ==
  /\ \A o \in DOMAIN trades : trades[o].finalized => terminal(fills[o].status)
  /\ \A i \in DOMAIN channel :
       /\ terminal(channel[i].status) \/ Over(trades, channel[i].order) =>
            channel[i].status = fills[channel[i].order].status
       /\ \A j \in DOMAIN channel :
            i < j /\ channel[i].order = channel[j].order /\ terminal(channel[i].status) =>
              channel[j].status = channel[i].status
  /\ \A o \in DOMAIN fills : terminal(fills[o].status) =>
       \/ Over(trades, o)
       \/ \E i \in DOMAIN channel : channel[i].order = o /\ channel[i].status = fills[o].status

NothingOfNothing ==
  \A token \in Tokens : (\A o \in DOMAIN fills : fills[o].token # token) => owned_by_token[token] = 0

BalanceInv ==
  /\ OneEnd /\ TasksOfPast /\ FillsOfPast
  /\ \A o \in DOMAIN fills : Told(o)
  /\ NothingOfNothing
  /\ \A token \in ActiveTokens : Mirror(token)

(* What has no fill is worth nothing.                                      *)
LEMMA WorthOfOther ==
  ASSUME NEW f, NEW known, NEW events, NEW i, NEW token, f[events[i].order].token # token
  PROVE  Worth(f, known, events, i, token) = 0
<1>1. Signed(f[events[i].order], token) = 0
  BY DEF Signed
<1>2. QED
  BY <1>1 DEF Worth

LEMMA MirrorOfNone ==
  ASSUME NEW f, NEW known, NEW events \in Seq(Notice), NEW token,
         \A i \in 1..Len(events) : f[events[i].order].token # token
  PROVE  MirrorOf(f, known, events, 0, 0, token)
<1> DEFINE b == [i \in 0..Len(events) |-> 0]
<1>1. Len(events) \in Nat /\ 0 \in 0..I64_MAX
  BY WidthAssumption
<1>2. b \in [0..Len(events) -> 0..I64_MAX] /\ b[0] = 0 /\ b[Len(events)] = 0
  BY <1>1
<1>3. \A i \in 1..Len(events) : Worth(f, known, events, i, token) = 0
  BY WorthOfOther
<1>4. \A i \in 1..Len(events) : b[i] = b[i - 1] + Worth(f, known, events, i, token)
  BY <1>1, <1>3
<1> HIDE DEF b
<1>5. QED
  BY <1>2, <1>4 DEF MirrorOf

LEMMA MirrorSent ==
  ASSUME NEW f, NEW g, NEW known, NEW events \in Seq(Notice), NEW e \in Notice, NEW own, NEW v,
         NEW w \in 0..I64_MAX, NEW token, MirrorOf(f, known, events, own, v, token),
         w = v + Worth(g, known, Append(events, e), Len(events) + 1, token),
         \A i \in 1..Len(events) : Signed(g[events[i].order], token) = Signed(f[events[i].order], token)
  PROVE  MirrorOf(g, known, Append(events, e), own, w, token)
<1>1. PICK b \in [0..Len(events) -> 0..I64_MAX] :
        /\ b[0] = own /\ b[Len(events)] = v
        /\ \A i \in 1..Len(events) : b[i] = b[i - 1] + Worth(f, known, events, i, token)
  BY DEF MirrorOf
<1>2. PICK n \in Nat : n = Len(events)
  OBVIOUS
<1> DEFINE longer == Append(events, e)
           c == [i \in 0..(n + 1) |-> IF i <= n THEN b[i] ELSE w]
<1>3. Len(longer) = n + 1 /\ longer[n + 1] = e /\ \A i \in 1..n : longer[i] = events[i]
  BY <1>2
<1>4. c \in [0..(n + 1) -> 0..I64_MAX]
  BY <1>1, <1>2
<1>5. c[0] = own /\ c[n + 1] = w
  BY <1>1, <1>2
<1>6. ASSUME NEW i \in 1..n PROVE Worth(g, known, longer, i, token) = Worth(f, known, events, i, token)
  <2>1. longer[i] = events[i] /\ \A j \in 1..(i - 1) : longer[j] = events[j]
    BY <1>3
  <2>2. Signed(g[events[i].order], token) = Signed(f[events[i].order], token)
    BY <1>2
  <2> HIDE DEF longer
  <2>3. Opens(known, longer, i) <=> Opens(known, events, i)
    BY <2>1 DEF Opens
  <2>4. Undoes(known, longer, i) <=> Undoes(known, events, i)
    BY <2>1 DEF Undoes
  <2>5. QED
    BY <2>1, <2>2, <2>3, <2>4 DEF Worth
<1>7. w = v + Worth(g, known, longer, n + 1, token)
  BY <1>2
<1>8. ASSUME NEW i \in 1..(n + 1) PROVE c[i] = c[i - 1] + Worth(g, known, longer, i, token)
  <2>1. CASE i <= n
    <3>1. c[i] = b[i] /\ c[i - 1] = b[i - 1] /\ i \in 1..n
      BY <2>1, <1>2
    <3>2. b[i] = b[i - 1] + Worth(f, known, events, i, token)
      BY <3>1, <1>1, <1>2
    <3>3. QED
      BY <3>1, <3>2, <1>6
  <2>2. CASE i = n + 1
    <3>1. c[i] = w /\ c[i - 1] = b[n] /\ b[n] = v
      BY <2>2, <1>1, <1>2
    <3>2. QED
      BY <2>2, <3>1, <1>7
  <2> HIDE DEF c, longer
  <2>3. QED
    BY <2>1, <2>2
<1> HIDE DEF c, longer
<1>9. MirrorOf(g, known, longer, own, w, token)
  BY <1>3, <1>4, <1>5, <1>8 DEF MirrorOf
<1>10. QED
  BY <1>9 DEF longer

LEMMA MirrorRead ==
  ASSUME NEW f, NEW known, NEW later, NEW events \in Seq(Notice), events # <<>>, NEW own, NEW v, NEW token,
         MirrorOf(f, known, events, own, v, token),
         \A i \in 1..Len(Tail(events)) : Worth(f, later, Tail(events), i, token) = Worth(f, known, events, i + 1, token)
  PROVE  /\ own + Worth(f, known, events, 1, token) \in 0..I64_MAX
         /\ MirrorOf(f, later, Tail(events), own + Worth(f, known, events, 1, token), v, token)
<1>1. PICK b \in [0..Len(events) -> 0..I64_MAX] :
        /\ b[0] = own /\ b[Len(events)] = v
        /\ \A i \in 1..Len(events) : b[i] = b[i - 1] + Worth(f, known, events, i, token)
  BY DEF MirrorOf
<1>2. PICK n \in Nat : n + 1 = Len(events)
  OBVIOUS
<1> DEFINE rest == Tail(events)
           c == [i \in 0..n |-> b[i + 1]]
<1>3. Len(rest) = n
  BY <1>2
<1>4. c \in [0..n -> 0..I64_MAX] /\ c[0] = b[1] /\ c[n] = v
  <2>1. b \in [0..(n + 1) -> 0..I64_MAX] /\ b[n + 1] = v
    BY <1>1, <1>2
  <2>2. \A i \in 0..n : i + 1 \in 0..(n + 1)
    OBVIOUS
  <2>3. c[0] = b[0 + 1] /\ 0 + 1 = 1 /\ c[n] = b[n + 1]
    OBVIOUS
  <2>4. QED
    BY <2>1, <2>2, <2>3
<1>5. b[1] = own + Worth(f, known, events, 1, token) /\ b[1] \in 0..I64_MAX
  <2>1. 1 \in 1..Len(events) /\ 1 \in 0..Len(events) /\ 1 - 1 = 0
    BY <1>2
  <2>2. b[1] = b[1 - 1] + Worth(f, known, events, 1, token)
    BY <1>1, <2>1
  <2>3. QED
    BY <1>1, <2>1, <2>2
<1>6. ASSUME NEW i \in 1..n PROVE c[i] = c[i - 1] + Worth(f, later, rest, i, token)
  <2>1. c[i] = b[i + 1] /\ c[i - 1] = b[i] /\ i + 1 \in 1..Len(events) /\ (i + 1) - 1 = i
    BY <1>2
  <2>2. Worth(f, later, rest, i, token) = Worth(f, known, events, i + 1, token)
    BY <1>3
  <2>3. QED
    BY <2>1, <2>2, <1>1
<1> HIDE DEF c, rest
<1>7. MirrorOf(f, later, rest, b[1], v, token)
  BY <1>3, <1>4, <1>6 DEF MirrorOf
<1>8. QED
  BY <1>5, <1>7 DEF rest

-----------------------------------------------------------------------------
LEMMA BalanceStart == FlowInit => BalanceInv
<1> SUFFICES ASSUME FlowInit PROVE BalanceInv
  OBVIOUS
<1> USE DEF FlowInit, Init, VenueInit
<1>1. DOMAIN channel = {} /\ DOMAIN fills = {} /\ DOMAIN task = {} /\ DOMAIN trades = {}
  OBVIOUS
<1>2. OneEnd
  BY <1>1 DEF OneEnd
<1>3. TasksOfPast /\ FillsOfPast /\ NothingOfNothing
  BY <1>1, FS_EmptySet DEF TasksOfPast, FillsOfPast, NothingOfNothing
<1>4. ActiveTokens = {}
  BY DEF ActiveTokens
<1>5. QED
  BY <1>1, <1>2, <1>3, <1>4 DEF BalanceInv

(* Every number of sizes and widths is a natural.                          *)
LEMMA FillsSized ==
  ASSUME VenueInv
  PROVE  Sized(fills, DOMAIN fills) /\ \A o \in DOMAIN fills : fills[o] \in FillRecord
BY DEF VenueInv, FillsType, Sized, FillRecord

(* What moves nothing of inventory, venue and market.                      *)
LEMMA QuietKeeps ==
  ASSUME BalanceInv, UNCHANGED <<owned_by_token, trades, fills, channel, market>>,
         user_wss_trusted => user_wss_trusted', TasksOfPast'
  PROVE  BalanceInv'
<1>1. OneEnd'
  BY DEF BalanceInv, OneEnd, Over
<1>2. FillsOfPast' /\ NothingOfNothing'
  BY DEF BalanceInv, FillsOfPast, NothingOfNothing, Past
<1>3. \A o \in DOMAIN fills' : Told(o)'
  BY DEF BalanceInv, Told
<1>4. \A token \in ActiveTokens' : Mirror(token)'
  <2>1. \A token : VenueBalance(token)' = VenueBalance(token)
    BY BalanceOfFills
  <2>2. ActiveTokens' = ActiveTokens
    BY DEF ActiveTokens
  <2>3. QED
    BY <2>1, <2>2 DEF BalanceInv, Mirror
<1>5. QED
  BY <1>1, <1>2, <1>3, <1>4 DEF BalanceInv

(* The balance is never more than the BUYs bring.                          *)
LEMMA AccountFits ==
  ASSUME NoOverflow, NEW f, IsFiniteSet(DOMAIN f), \A o \in DOMAIN f : f[o] \in FillRecord,
         \A o \in DOMAIN f : f[o].side = "BUY" => o \in BuyOrders /\ f[o].size_atoms = FillSize,
         NEW token
  PROVE  BalanceOf(f, token) \in Int /\ BalanceOf(f, token) <= I64_MAX
<1>1. \A o \in DOMAIN f : f[o].side = "BUY" => o \in 1..MaxSubmits /\ f[o].size_atoms <= FillSize
  BY EntryAssumptions
<1>2. Sized(f, DOMAIN f)
  BY DEF Sized, FillRecord
<1>3. BalanceOf(f, token) <= MaxSubmits * FillSize
  BY <1>1, <1>2, EntryAssumptions, BalanceBound
<1>4. MaxSubmits * FillSize \in Nat /\ BalanceOf(f, token) \in Int
  <2>1. /\ IsFiniteSet(StandingOf(f, token, "BUY")) /\ Sized(f, StandingOf(f, token, "BUY"))
        /\ IsFiniteSet(StandingOf(f, token, "SELL")) /\ Sized(f, StandingOf(f, token, "SELL"))
    BY <1>2, FS_Subset DEF StandingOf, Sized
  <2>2. Total(f, StandingOf(f, token, "BUY")) \in Nat /\ Total(f, StandingOf(f, token, "SELL")) \in Nat
    BY <2>1, TotalType
  <2>3. QED
    BY <2>2, EntryAssumptions DEF BalanceOf
<1>5. QED
  BY <1>3, <1>4, WidthAssumption DEF NoOverflow

LEMMA BalanceFitsNext ==
  ASSUME NoOverflow, VenueInv', FillsOfPast', NEW token
  PROVE  VenueBalance(token)' <= I64_MAX
<1>1. /\ IsFiniteSet(DOMAIN fills') /\ \A o \in DOMAIN fills' : fills'[o] \in FillRecord
      /\ \A o \in DOMAIN fills' : fills'[o].side = "BUY" => o \in BuyOrders /\ fills'[o].size_atoms = FillSize
  BY DEF VenueInv, FillsType, FillsOfPast
<1>2. QED
  BY <1>1, AccountFits, BalanceOfFills

(* The balance the venue has now is the last of the mirror.                *)
LEMMA BalanceFits ==
  ASSUME VenueInv, NEW token, Mirror(token)
  PROVE  VenueBalance(token) \in 0..I64_MAX
<1>1. Len(channel) \in 0..Len(channel)
  BY DEF VenueInv, ChannelOfFills
<1>2. QED
  BY <1>1 DEF Mirror, MirrorOf

(* What the venue sends: the MATCHED of a new fill, the end of one that had*)
(* none, an interim status, or again the status a fill has.                *)
LEMMA SendKeeps ==
  ASSUME VenueInv, BalanceInv, NEW o \in OrderIds, NEW status \in TradeStatus,
         channel' = Append(channel, [order |-> o, status |-> status]),
         UNCHANGED <<owned_by_token, trades, market, task, user_wss_trusted>>,
         FillsOfPast', DOMAIN fills' = DOMAIN fills \cup {o},
         \A p \in DOMAIN fills : /\ fills'[p].token = fills[p].token /\ fills'[p].side = fills[p].side
                                 /\ fills'[p].size_atoms = fills[p].size_atoms
                                 /\ p # o \/ terminal(fills[p].status) => fills'[p].status = fills[p].status,
         o \notin DOMAIN fills => status = "MATCHED",
         terminal(status) \/ terminal(fills'[o].status) => status = fills'[o].status,
         \A token \in ActiveTokens :
           /\ VenueBalance(token)' = VenueBalance(token)
                                     + Worth(fills', trades, Append(channel, [order |-> o, status |-> status]),
                                             Len(channel) + 1, token)
           /\ VenueBalance(token)' \in 0..I64_MAX
  PROVE  BalanceInv'
<1> DEFINE e == [order |-> o, status |-> status]
<1>1. e \in Notice /\ e.order = o /\ e.status = status
  BY DEF Notice
<1>2. /\ channel \in Seq(Notice) /\ channel' = Append(channel, e)
  BY <1>1 DEF VenueInv, ChannelOfFills
<1>3. \A token \in ActiveTokens :
        /\ VenueBalance(token)' = VenueBalance(token)
                                  + Worth(fills', trades, Append(channel, e), Len(channel) + 1, token)
        /\ VenueBalance(token)' \in 0..I64_MAX
  OBVIOUS
<1> HIDE DEF e
<1>4. PICK n \in Nat : n = Len(channel)
  BY <1>2
<1>5. /\ DOMAIN channel = 1..n /\ DOMAIN channel' = 1..(n + 1) /\ channel'[n + 1] = e
      /\ \A i \in DOMAIN channel : channel'[i] = channel[i] /\ channel[i].order \in DOMAIN fills
  BY <1>2, <1>4 DEF VenueInv, ChannelOfFills
<1>6. TasksOfPast' /\ NothingOfNothing'
  BY DEF BalanceInv, TasksOfPast, NothingOfNothing, Past
<1>7. ASSUME NEW p \in DOMAIN fills' PROVE Told(p)'
  <2>1. CASE p \in DOMAIN trades
    <3>1. p \in DOMAIN fills
      BY <2>1 DEF VenueInv, TradesOfFills
    <3>2. QED
      BY <2>1, <3>1 DEF BalanceInv, Told
  <2>2. CASE p \notin DOMAIN trades /\ p \in DOMAIN fills
    <3>1. PICK i \in DOMAIN channel :
            /\ channel[i].order = p /\ channel[i].status = "MATCHED"
            /\ \A j \in DOMAIN channel : j < i => channel[j].order # p
      BY <2>2 DEF BalanceInv, Told
    <3>2. i \in DOMAIN channel' /\ channel'[i] = channel[i]
      BY <1>5
    <3>3. \A j \in DOMAIN channel' : j < i => channel'[j].order # p
      BY <1>5, <3>1
    <3>4. QED
      BY <2>2, <3>1, <3>2, <3>3 DEF Told
  <2>3. CASE p \notin DOMAIN fills
    <3>1. p = o /\ status = "MATCHED" /\ p \notin DOMAIN trades
      BY <2>3 DEF VenueInv, TradesOfFills
    <3>2. \A j \in DOMAIN channel' : j < n + 1 => channel'[j].order # p
      BY <1>5, <2>3
    <3>3. n + 1 \in DOMAIN channel' /\ channel'[n + 1].order = p /\ channel'[n + 1].status = "MATCHED"
      BY <1>1, <1>5, <3>1
    <3>4. QED
      BY <3>1, <3>2, <3>3 DEF Told
  <2>4. QED
    BY <2>1, <2>2, <2>3
<1>8. OneEnd'
  <2>1. \A tid \in DOMAIN trades : tid \in DOMAIN fills
    BY DEF VenueInv, TradesOfFills
  <2>2. \A tid \in DOMAIN trades' : trades'[tid].finalized => terminal(fills'[tid].status)
    BY <2>1 DEF BalanceInv, OneEnd
  <2>3. \A p : Over(trades, p) => p \in DOMAIN fills /\ terminal(fills[p].status)
    BY <2>1 DEF BalanceInv, OneEnd, Over
  <2>4. ASSUME NEW i \in DOMAIN channel', terminal(channel'[i].status) \/ Over(trades', channel'[i].order)
        PROVE  channel'[i].status = fills'[channel'[i].order].status
    <3>1. CASE i \in DOMAIN channel
      <4>1. /\ channel[i].status = fills[channel[i].order].status
            /\ terminal(fills[channel[i].order].status) /\ channel[i].order \in DOMAIN fills
        BY <1>5, <2>3, <2>4, <3>1 DEF BalanceInv, OneEnd
      <4>2. QED
        BY <1>5, <3>1, <4>1
    <3>2. CASE i = n + 1
      <4>1. terminal(fills'[o].status) \/ terminal(status)
        BY <1>1, <1>5, <2>3, <2>4, <3>2
      <4>2. QED
        BY <1>1, <1>5, <3>2, <4>1
    <3>3. QED
      BY <1>4, <1>5, <3>1, <3>2
  <2>5. ASSUME NEW i \in DOMAIN channel', NEW j \in DOMAIN channel',
               i < j, channel'[i].order = channel'[j].order, terminal(channel'[i].status)
        PROVE  channel'[j].status = channel'[i].status
    <3>1. i \in DOMAIN channel /\ channel'[i] = channel[i]
      BY <1>4, <1>5, <2>5
    <3>2. CASE j \in DOMAIN channel
      BY <1>5, <2>5, <3>1, <3>2 DEF BalanceInv, OneEnd
    <3>3. CASE j = n + 1
      <4>1. channel[i].order = o /\ o \in DOMAIN fills /\ channel'[j].status = status
        BY <1>1, <1>5, <2>5, <3>1, <3>3
      <4>2. channel[i].status = fills[o].status
        BY <2>5, <3>1, <4>1 DEF BalanceInv, OneEnd
      <4>3. fills'[o].status = fills[o].status /\ terminal(fills'[o].status)
        BY <2>5, <3>1, <4>1, <4>2
      <4>4. QED
        BY <3>1, <4>1, <4>2, <4>3
    <3>4. QED
      BY <1>4, <1>5, <3>2, <3>3
  <2>6. ASSUME NEW p \in DOMAIN fills', terminal(fills'[p].status)
        PROVE  Over(trades', p) \/ \E i \in DOMAIN channel' : channel'[i].order = p /\ channel'[i].status = fills'[p].status
    <3>1. CASE p = o
      <4>1. n + 1 \in DOMAIN channel' /\ channel'[n + 1].order = p /\ channel'[n + 1].status = fills'[p].status
        BY <1>1, <1>5, <2>6, <3>1
      <4>2. QED
        BY <4>1
    <3>2. CASE p # o
      <4>1. p \in DOMAIN fills /\ fills'[p].status = fills[p].status
        BY <3>2
      <4>2. Over(trades, p) \/ \E i \in DOMAIN channel : channel[i].order = p /\ channel[i].status = fills[p].status
        BY <2>6, <4>1 DEF BalanceInv, OneEnd
      <4>3. QED
        BY <1>4, <1>5, <4>1, <4>2
    <3>3. QED
      BY <3>1, <3>2
  <2>7. QED
    BY <2>2, <2>4, <2>5, <2>6 DEF OneEnd
<1>9. ASSUME NEW token \in ActiveTokens' PROVE Mirror(token)'
  <2>1. token \in ActiveTokens
    BY DEF ActiveTokens
  <2>2. MirrorOf(fills, trades, channel, owned_by_token[token], VenueBalance(token), token)
    BY <2>1 DEF BalanceInv, Mirror
  <2>3. \A i \in 1..Len(channel) : Signed(fills'[channel[i].order], token) = Signed(fills[channel[i].order], token)
    BY <1>4, <1>5 DEF Signed
  <2>4. MirrorOf(fills', trades, Append(channel, e), owned_by_token[token], VenueBalance(token)', token)
    BY <1>1, <1>2, <1>3, <2>1, <2>2, <2>3, MirrorSent
  <2>5. QED
    BY <1>2, <2>4 DEF Mirror
<1>10. QED
  BY <1>6, <1>7, <1>8, <1>9 DEF BalanceInv

LEMMA FillKeepsBalance ==
  ASSUME NoOverflow, VenueInv, BalanceInv, user_wss_trusted,
         NEW o \in OrderIds, o \notin DOMAIN fills, NEW token \in Tokens, Past(token),
         NEW side \in OrderSide, NEW size \in Nat, Fill(o, token, side, size),
         side = "BUY" => o \in BuyOrders /\ size = FillSize,
         side = "SELL" => size <= VenueBalance(token),
         UNCHANGED <<market, task>>
  PROVE  BalanceInv'
<1> DEFINE fill == [token |-> token, side |-> side, size_atoms |-> size, status |-> "MATCHED"]
           sent == Append(channel, [order |-> o, status |-> "MATCHED"])
<1>1. /\ DOMAIN fills' = DOMAIN fills \cup {o} /\ fills'[o] = fill
      /\ \A f \in DOMAIN fills : fills'[f] = fills[f]
      /\ channel' = sent
      /\ UNCHANGED <<owned_by_token, trades, user_wss_trusted>>
  BY DEF Fill, Sent, inventoryVars
<1>2. fill.token = token /\ fill.side = side /\ fill.size_atoms = size /\ fill.status = "MATCHED"
  OBVIOUS
<1> HIDE DEF fill
<1>3. VenueInv'
  BY FillKeepsVenue
<1>4. FillsOfPast'
  <2>1. IsFiniteSet(DOMAIN fills')
    BY <1>1, FS_AddElement DEF BalanceInv, FillsOfPast
  <2>2. \A t : Past(t) => Past(t)'
    BY DEF Past
  <2>3. QED
    BY <1>1, <1>2, <2>1, <2>2 DEF BalanceInv, FillsOfPast
<1>5. Opens(trades, sent, Len(channel) + 1) /\ sent[Len(channel) + 1].order = o
  <2>1. /\ o \notin DOMAIN trades /\ channel \in Seq(Notice) /\ Len(channel) \in Nat
        /\ \A j \in 1..Len(channel) : channel[j].order # o
    BY DEF VenueInv, TradesOfFills, ChannelOfFills
  <2>2. /\ sent[Len(channel) + 1] = [order |-> o, status |-> "MATCHED"]
        /\ \A j \in 1..((Len(channel) + 1) - 1) : j \in 1..Len(channel) /\ sent[j] = channel[j]
    BY <2>1
  <2> HIDE DEF sent
  <2>3. QED
    BY <2>1, <2>2 DEF Opens
<1>6. ASSUME NEW t \in ActiveTokens
      PROVE  /\ VenueBalance(t)' = VenueBalance(t) + Worth(fills', trades, sent, Len(channel) + 1, t)
             /\ VenueBalance(t)' \in 0..I64_MAX
  <2>1. /\ BalanceOf(fills, t) \in Int
        /\ BalanceOf(fills', t) = BalanceOf(fills, t) + Signed(fills'[o], t)
    BY <1>1, <1>2, <1>3, FillsSized, BalanceOfOneMore DEF BalanceInv, FillsOfPast
  <2> HIDE DEF sent
  <2>2. Worth(fills', trades, sent, Len(channel) + 1, t) = Signed(fills'[o], t)
    BY <1>5 DEF Worth
  <2>3. VenueBalance(t)' = VenueBalance(t) + Signed(fills'[o], t) /\ VenueBalance(t) \in Int
    BY <2>1, BalanceOfFills
  <2>4. VenueBalance(t) \in 0..I64_MAX
    BY BalanceFits DEF BalanceInv
  <2>5. VenueBalance(t)' <= I64_MAX
    BY <1>3, <1>4, BalanceFitsNext
  <2>6. VenueBalance(t)' >= 0
    BY <1>1, <1>2, <2>3, <2>4 DEF Signed, OrderSide
  <2>7. QED
    BY <2>2, <2>3, <2>4, <2>5, <2>6, <1>1, <1>2 DEF Signed, OrderSide
<1>7. "MATCHED" \in TradeStatus /\ ~terminal("MATCHED")
  BY DEF TradeStatus, terminal
<1>8. QED
  BY <1>1, <1>2, <1>4, <1>6, <1>7, SendKeeps

(* A fill that has not ended has reported no end; the next event is then   *)
(* news exactly when it reports a failure.                                 *)
LEMMA EndIsNews ==
  ASSUME VenueInv, OneEnd, NEW o \in DOMAIN fills, ~terminal(fills[o].status), NEW status, status # "MATCHED"
  PROVE  LET sent == Append(channel, [order |-> o, status |-> status])
             n == Len(channel) + 1
         IN  /\ sent[n].order = o /\ ~Opens(trades, sent, n)
             /\ Undoes(trades, sent, n) <=> status = "FAILED"
<1> DEFINE sent == Append(channel, [order |-> o, status |-> status])
           n == Len(channel) + 1
<1>1. /\ channel \in Seq(Notice) /\ Len(channel) \in Nat /\ DOMAIN channel = 1..Len(channel)
      /\ ~Over(trades, o)
      /\ \A j \in 1..Len(channel) : channel[j].order = o => ~terminal(channel[j].status)
  BY DEF VenueInv, ChannelOfFills, OneEnd, Over
<1>2. /\ sent[n] = [order |-> o, status |-> status]
      /\ \A j \in 1..(n - 1) : j \in 1..Len(channel) /\ sent[j] = channel[j]
  BY <1>1
<1>3. \A s : terminal(s) <=> s = "CONFIRMED" \/ s = "FAILED"
  BY DEF terminal
<1>4. \A j \in 1..(n - 1) : sent[j].order = o => sent[j].status # "FAILED"
  BY <1>1, <1>2, <1>3
<1>5. sent[n].order = o /\ sent[n].status = status
  BY <1>2
<1> HIDE DEF sent, n
<1>6. ~Opens(trades, sent, n) /\ (Undoes(trades, sent, n) <=> status = "FAILED")
  BY <1>1, <1>4, <1>5 DEF Opens, Undoes
<1>7. QED
  BY <1>5, <1>6 DEF sent, n

LEMMA SettleKeepsBalance ==
  ASSUME Reliable, NoOverflow, VenueInv, BalanceInv, SettleTrade
  PROVE  BalanceInv'
<1>1. PICK o \in DOMAIN fills, status \in Interim \cup {"CONFIRMED", "FAILED"} : Settle(o, status)
  BY DEF SettleTrade
<1> DEFINE sent == Append(channel, [order |-> o, status |-> status])
<1>2. /\ fills' = [fills EXCEPT ![o].status = status] /\ ~terminal(fills[o].status)
      /\ channel' = sent
      /\ UNCHANGED <<owned_by_token, trades, user_wss_trusted, market, task>>
  BY <1>1 DEF SettleTrade, Settle, Sent, inventoryVars, flowVars, BalanceInv, FillsOfPast
<1>3. VenueInv' /\ o \in OrderIds /\ status \in TradeStatus /\ status # "MATCHED"
  BY <1>1, SettleKeepsVenue, InterimAssumption DEF VenueInv, FillsType, TradeStatus
<1>4. /\ DOMAIN fills' = DOMAIN fills
      /\ \A p \in DOMAIN fills : /\ fills'[p].token = fills[p].token /\ fills'[p].side = fills[p].side
                                 /\ fills'[p].size_atoms = fills[p].size_atoms
                                 /\ p # o => fills'[p] = fills[p]
      /\ fills'[o].status = status
  BY <1>2, FillsSized DEF FillRecord
<1>5. FillsOfPast'
  BY <1>2, <1>4 DEF BalanceInv, FillsOfPast, Past
<1>6. /\ sent[Len(channel) + 1].order = o /\ ~Opens(trades, sent, Len(channel) + 1)
      /\ Undoes(trades, sent, Len(channel) + 1) <=> status = "FAILED"
  BY <1>1, <1>2, <1>3, EndIsNews DEF BalanceInv
<1> HIDE DEF sent
<1>7. ASSUME NEW t \in ActiveTokens
      PROVE  /\ VenueBalance(t)' = VenueBalance(t) + Worth(fills', trades, sent, Len(channel) + 1, t)
             /\ VenueBalance(t)' \in 0..I64_MAX
  <2>1. VenueBalance(t) \in 0..I64_MAX
    BY BalanceFits DEF BalanceInv
  <2>2. CASE status = "FAILED"
    <3>1. fills[o].side \in OrderSide /\ fills[o].size_atoms \in Nat /\ fills[o].status # "FAILED"
      BY <1>1, <1>2, FillsSized DEF FillRecord, terminal
    <3>2. /\ BalanceOf(fills', t) \in Int
          /\ BalanceOf(fills, t) = BalanceOf(fills', t) + Signed(fills[o], t)
      <4>1. IsFiniteSet(DOMAIN fills') /\ Sized(fills', DOMAIN fills')
        BY <1>4, FillsSized DEF Sized, BalanceInv, FillsOfPast
      <4>2. QED
        BY <1>1, <2>2, <3>1, <1>4, <4>1, BalanceOfOneMore
    <3>3. VenueBalance(t)' = VenueBalance(t) - Signed(fills[o], t) /\ Signed(fills[o], t) \in Int
      BY <3>1, <3>2, BalanceOfFills DEF Signed
    <3>4. Signed(fills'[o], t) = Signed(fills[o], t)
      BY <1>1, <1>4 DEF Signed
    <3>5. Worth(fills', trades, sent, Len(channel) + 1, t) = 0 - Signed(fills[o], t)
      BY <1>6, <2>2, <3>4 DEF Worth
    <3>6. VenueBalance(t)' <= I64_MAX
      BY <1>3, <1>5, BalanceFitsNext
    <3>7. Signed(fills[o], t) <= VenueBalance(t)
      <4>1. CASE fills[o].side = "BUY" /\ fills[o].token = t
        BY <1>1, <2>1, <2>2, <3>1, <4>1, InterimAssumption DEF Settle, Signed, Reliable
      <4>2. CASE ~(fills[o].side = "BUY" /\ fills[o].token = t)
        BY <2>1, <3>1, <4>2 DEF Signed
      <4>3. QED
        BY <4>1, <4>2
    <3>8. QED
      BY <2>1, <3>3, <3>5, <3>6, <3>7
  <2>3. CASE status # "FAILED"
    <3>1. fills[o].status # "FAILED"
      BY <1>2 DEF terminal
    <3>2. BalanceOf(fills', t) = BalanceOf(fills, t)
      <4>1. \A p \in DOMAIN fills : fills'[p].status = "FAILED" <=> fills[p].status = "FAILED"
        BY <1>4, <2>3, <3>1
      <4>2. QED
        BY <1>4, <4>1, FillsSized, BalanceSame DEF BalanceInv, FillsOfPast
    <3>3. Worth(fills', trades, sent, Len(channel) + 1, t) = 0
      BY <1>6, <2>3 DEF Worth
    <3>4. QED
      BY <2>1, <3>2, <3>3, BalanceOfFills
  <2>4. QED
    BY <2>2, <2>3
<1>8. o \in DOMAIN fills /\ DOMAIN fills' = DOMAIN fills \cup {o}
  BY <1>1, <1>4
<1>9. \A p \in DOMAIN fills : p # o \/ terminal(fills[p].status) => fills'[p].status = fills[p].status
  BY <1>2, <1>4
<1>10. QED
  BY <1>2, <1>3, <1>4, <1>5, <1>7, <1>8, <1>9, SendKeeps DEF sent

(* A repeat is never news.                                                 *)
LEMMA RepeatKeepsBalance ==
  ASSUME VenueInv, BalanceInv, RepeatEvent
  PROVE  BalanceInv'
<1>1. PICK o \in DOMAIN fills : Repeat(o)
  BY DEF RepeatEvent
<1> DEFINE status == fills[o].status
           sent == Append(channel, [order |-> o, status |-> status])
           n == Len(channel) + 1
<1>2. /\ channel' = sent
      /\ UNCHANGED <<fills, owned_by_token, trades, user_wss_trusted, market, task>>
  BY <1>1 DEF RepeatEvent, Repeat, Sent, inventoryVars, flowVars
<1>3. o \in DOMAIN fills /\ o \in OrderIds /\ status \in TradeStatus /\ DOMAIN fills' = DOMAIN fills \cup {o}
  BY <1>1, <1>2, FillsSized DEF VenueInv, FillsType, FillRecord
<1>4. FillsOfPast'
  BY <1>2 DEF BalanceInv, FillsOfPast, Past
<1>5. /\ channel \in Seq(Notice) /\ Len(channel) \in Nat /\ DOMAIN channel = 1..Len(channel)
      /\ sent[n] = [order |-> o, status |-> status]
      /\ \A j \in 1..Len(channel) : j \in 1..(n - 1) /\ sent[j] = channel[j]
  BY DEF VenueInv, ChannelOfFills
<1>6. sent[n].order = o /\ sent[n].status = status
  BY <1>5
<1>7. ~Opens(trades, sent, n)
  <2>1. o \in DOMAIN trades \/ \E i \in DOMAIN channel : channel[i].order = o
    BY <1>3 DEF BalanceInv, Told
  <2> HIDE DEF sent, n
  <2>2. QED
    BY <1>5, <1>6, <2>1 DEF Opens
<1>8. ~Undoes(trades, sent, n)
  <2>1. status = "FAILED" => Over(trades, o) \/ \E i \in DOMAIN channel : channel[i].order = o /\ channel[i].status = "FAILED"
    BY <1>3 DEF BalanceInv, OneEnd, terminal
  <2> HIDE DEF sent, n
  <2>2. QED
    BY <1>5, <1>6, <2>1 DEF Undoes
<1> HIDE DEF sent, n
<1>9. ASSUME NEW t \in ActiveTokens
      PROVE  /\ VenueBalance(t)' = VenueBalance(t) + Worth(fills', trades, sent, n, t)
             /\ VenueBalance(t)' \in 0..I64_MAX
  <2>1. VenueBalance(t)' = VenueBalance(t) /\ VenueBalance(t) \in 0..I64_MAX
    BY <1>2, BalanceOfFills, BalanceFits DEF BalanceInv
  <2>2. Worth(fills', trades, sent, n, t) = 0
    BY <1>7, <1>8 DEF Worth
  <2>3. QED
    BY <2>1, <2>2
<1>10. QED
  BY <1>2, <1>3, <1>4, <1>9, SendKeeps DEF sent, n

-----------------------------------------------------------------------------
(* What reading an event does: what is known of its trade.                 *)
LEMMA ReadKnows ==
  ASSUME VenueInv, OneEnd, NEW ts_us, Read(ts_us)
  PROVE  /\ Head(channel).order \in DOMAIN fills
         /\ \A p : p # Head(channel).order => /\ p \in DOMAIN trades' <=> p \in DOMAIN trades
                                              /\ p \in DOMAIN trades => trades'[p] = trades[p]
         /\ Head(channel).order \in DOMAIN trades'
         /\ trades'[Head(channel).order] = RecordAfter(Arriving(ts_us))
         /\ Over(trades', Head(channel).order) <=>
              Over(trades, Head(channel).order) \/ terminal(Head(channel).status)
<1> DEFINE h == Head(channel)
           e == Arriving(ts_us)
<1>1. channel # <<>> /\ e.trade_id = h.order /\ e.status = h.status
  BY DEF Read, Arriving, Event
<1>2. trades' = [tid \in DOMAIN trades \cup {e.trade_id} |-> IF tid = e.trade_id THEN RecordAfter(e) ELSE trades[tid]]
  BY DEF Read, apply_user_trade, Arriving
<1>3. Record(e) \in Counted /\ h.order \in DOMAIN fills
  BY <1>1, ArrivingIsOfFill
<1> HIDE DEF h, e
<1>4. RecordAfter(e).finalized = (Record(e).finalized \/ terminal(h.status))
  BY <1>1, <1>3 DEF RecordAfter, Counted
<1>5. Record(e).finalized <=> Over(trades, h.order)
  BY <1>1 DEF Record, Over
<1>6. h.order \in DOMAIN trades' /\ trades'[h.order] = RecordAfter(e)
  BY <1>1, <1>2
<1>7. Over(trades', h.order) <=> Over(trades, h.order) \/ terminal(h.status)
  BY <1>4, <1>5, <1>6, Zenon DEF Over
<1>8. \A p : p # h.order => /\ p \in DOMAIN trades' <=> p \in DOMAIN trades
                            /\ p \in DOMAIN trades => trades'[p] = trades[p]
  BY <1>1, <1>2
<1>9. QED
  BY <1>3, <1>6, <1>7, <1>8 DEF h, e

(* The next event is applied or reversed exactly when it is news, and by   *)
(* the size of the fill.                                                   *)
LEMMA ReadCounts ==
  ASSUME VenueInv, OneEnd, channel # <<>>, Told(Head(channel).order), NEW ts_us
  PROVE  /\ Applies(Arriving(ts_us)) <=> Opens(trades, channel, 1)
         /\ Reverses(Arriving(ts_us)) <=> Undoes(trades, channel, 1)
         /\ Opens(trades, channel, 1) => ~Undoes(trades, channel, 1)
         /\ Record(Arriving(ts_us)).size_atoms = fills[Head(channel).order].size_atoms
         /\ RecordAfter(Arriving(ts_us)).applied
         /\ RecordAfter(Arriving(ts_us)).size_atoms = fills[Head(channel).order].size_atoms
<1> DEFINE h == Head(channel)
           e == Arriving(ts_us)
<1>1. /\ 1 \in DOMAIN channel /\ channel[1] = h /\ DOMAIN channel = 1..Len(channel) /\ Len(channel) \in Nat
  BY DEF VenueInv, ChannelOfFills
<1>2. /\ e.trade_id = h.order /\ e.status = h.status /\ e.size_atoms = fills[h.order].size_atoms
      /\ Record(e) \in Counted
  BY ArrivingIsOfFill DEF Arriving, Event
<1>3. RecordAfter(e).applied = (Record(e).applied \/ Applies(e)) /\ RecordAfter(e).size_atoms = Record(e).size_atoms
  BY <1>2 DEF RecordAfter, Counted
<1>4. ~(\E j \in 1..(1 - 1) : TRUE)
  OBVIOUS
<1>5. /\ Opens(trades, channel, 1) <=> h.status = "MATCHED" /\ h.order \notin DOMAIN trades
      /\ Undoes(trades, channel, 1) <=> h.status = "FAILED" /\ ~Over(trades, h.order)
  BY <1>1, <1>4 DEF Opens, Undoes
<1>6. CASE h.order \in DOMAIN trades /\ trades[h.order].applied /\ trades[h.order].size_atoms = fills[h.order].size_atoms
  <2>1. Record(e) = trades[h.order]
    BY <1>2, <1>6 DEF Record
  <2> HIDE DEF h, e
  <2>2. ~Applies(e) /\ (Reverses(e) <=> h.status = "FAILED" /\ ~Over(trades, h.order))
    BY <1>2, <1>6, <2>1 DEF Applies, Reverses, Over
  <2>3. QED
    BY <1>3, <1>5, <1>6, <2>1, <2>2 DEF h, e
<1>7. CASE /\ h.order \notin DOMAIN trades
           /\ \E i \in DOMAIN channel :
                /\ channel[i].order = h.order /\ channel[i].status = "MATCHED"
                /\ \A j \in DOMAIN channel : j < i => channel[j].order # h.order
  <2>1. PICK i \in DOMAIN channel :
          /\ channel[i].order = h.order /\ channel[i].status = "MATCHED"
          /\ \A j \in DOMAIN channel : j < i => channel[j].order # h.order
    BY <1>7
  <2> HIDE DEF h, e
  <2>2. i = 1 /\ h.status = "MATCHED"
    BY <1>1, <2>1
  <2>3. Record(e).size_atoms = fills[h.order].size_atoms /\ ~Record(e).applied
    BY <1>2, <1>7 DEF Record
  <2>4. Applies(e) /\ ~Reverses(e)
    BY <1>2, <2>2, <2>3 DEF Applies, Reverses
  <2>5. QED
    BY <1>3, <1>5, <1>7, <2>2, <2>3, <2>4 DEF h, e
<1>8. QED
  BY <1>6, <1>7 DEF Told

LEMMA ReadMoves ==
  ASSUME VenueInv, OneEnd, channel # <<>>, Told(Head(channel).order), NEW ts_us, NEW token \in Tokens,
         owned_by_token[token] + Worth(fills, trades, channel, 1, token) \in 0..I64_MAX
  PROVE  OwnedAfter(Arriving(ts_us))[token] = owned_by_token[token] + Worth(fills, trades, channel, 1, token)
<1> DEFINE h == Head(channel)
           e == Arriving(ts_us)
           r == Record(e)
           worth == Worth(fills, trades, channel, 1, token)
<1>1. /\ h.order \in DOMAIN fills /\ fills[h.order] \in FillRecord
      /\ r.token = fills[h.order].token /\ r.side = fills[h.order].side
      /\ r.size_atoms = fills[h.order].size_atoms /\ r.token \in Tokens
      /\ Applies(e) <=> Opens(trades, channel, 1)
      /\ Reverses(e) <=> Undoes(trades, channel, 1)
      /\ Applies(e) => ~Reverses(e)
      /\ channel[1] = h
  BY ArrivingIsOfFill, ReadCounts, FillsSized DEF Arriving, Event, Counted, VenueInv, ChannelOfFills
<1>2. owned_by_token \in [Tokens -> Nat]
  BY DEF VenueInv
<1>3. OwnedAfter(e) = IF Applies(e) THEN [owned_by_token EXCEPT
                                            ![r.token] = apply_inventory_delta(owned_by_token[r.token], r.side, r.size_atoms)]
                      ELSE IF Reverses(e)
                      THEN [owned_by_token EXCEPT
                              ![r.token] = apply_inventory_delta(owned_by_token[r.token], Opposite(r.side), r.size_atoms)]
                      ELSE owned_by_token
  BY DEF OwnedAfter
<1>4. owned_by_token[token] + worth \in 0..I64_MAX
  OBVIOUS
<1>5. PICK s \in Nat : s = r.size_atoms /\ s = fills[h.order].size_atoms
  BY <1>1 DEF FillRecord
<1>6. r.side \in {"BUY", "SELL"}
  BY <1>1 DEF FillRecord, OrderSide
<1>7. worth = IF Applies(e) THEN Signed(fills[h.order], token)
              ELSE IF Reverses(e) THEN 0 - Signed(fills[h.order], token) ELSE 0
  BY <1>1 DEF Worth
<1> HIDE DEF h, e, r, worth
<1>8. CASE r.token # token
  <2>1. worth = 0
    BY <1>1, <1>7, <1>8 DEF Signed
  <2>2. OwnedAfter(e)[token] = owned_by_token[token]
    BY <1>1, <1>2, <1>3, <1>8
  <2>3. QED
    BY <1>2, <2>1, <2>2 DEF e, worth
<1>9. CASE r.token = token
  <2>1. CASE Applies(e)
    <3>1. worth = IF r.side = "BUY" THEN s ELSE 0 - s
      BY <1>1, <1>5, <1>6, <1>7, <1>9, <2>1 DEF Signed
    <3>2. OwnedAfter(e)[token] = apply_inventory_delta(owned_by_token[token], r.side, s)
      BY <1>1, <1>2, <1>3, <1>5, <1>9, <2>1
    <3>3. QED
      BY <1>2, <1>4, <1>5, <1>6, <3>1, <3>2, WidthAssumption DEF apply_inventory_delta, e, worth
  <2>2. CASE Reverses(e)
    <3>1. worth = IF r.side = "BUY" THEN 0 - s ELSE s
      BY <1>1, <1>5, <1>6, <1>7, <1>9, <2>2 DEF Signed
    <3>2. OwnedAfter(e)[token] = apply_inventory_delta(owned_by_token[token], Opposite(r.side), s)
      BY <1>1, <1>2, <1>3, <1>5, <1>9, <2>2
    <3>3. QED
      BY <1>2, <1>4, <1>5, <1>6, <3>1, <3>2, WidthAssumption DEF apply_inventory_delta, Opposite, e, worth
  <2>3. CASE ~Applies(e) /\ ~Reverses(e)
    <3>1. worth = 0 /\ OwnedAfter(e) = owned_by_token
      BY <1>3, <1>7, <2>3
    <3>2. QED
      BY <1>2, <3>1 DEF e, worth
  <2>4. QED
    BY <2>1, <2>2, <2>3
<1>10. QED
  BY <1>8, <1>9

LEMMA ActiveAreTokens == SubmitInv => ActiveTokens \subseteq Tokens
BY MarketsAssumption DEF SubmitInv, SubmitsType, ActiveTokens

LEMMA ReadShifts ==
  ASSUME VenueInv, NEW ts_us, Read(ts_us)
  PROVE  \E n \in Nat : /\ Len(Tail(channel)) = n /\ DOMAIN channel = 1..(n + 1) /\ DOMAIN channel' = 1..n
                        /\ channel[1] = Head(channel) /\ channel' = Tail(channel)
                        /\ \A j \in 1..n : channel'[j] = channel[j + 1]
<1>1. channel \in Seq(Notice) /\ channel # <<>> /\ channel' = Tail(channel)
  BY DEF VenueInv, ChannelOfFills, Read
<1>2. PICK n \in Nat : n = Len(channel) - 1
  BY <1>1
<1>3. /\ Len(Tail(channel)) = n /\ DOMAIN channel = 1..(n + 1) /\ DOMAIN channel' = 1..n
      /\ channel[1] = Head(channel) /\ channel' = Tail(channel)
      /\ \A j \in 1..n : channel'[j] = channel[j + 1]
  BY <1>1, <1>2
<1>4. QED
  BY <1>3

(* What is read takes nothing from what is still to be read, and adds      *)
(* nothing to it.                                                          *)
LEMMA ReadLeavesNews ==
  ASSUME VenueInv, OneEnd, NEW ts_us, Read(ts_us), NEW token, NEW i \in 1..Len(Tail(channel))
  PROVE  Worth(fills, trades', Tail(channel), i, token) = Worth(fills, trades, channel, i + 1, token)
<1> DEFINE h == Head(channel)
<1>1. PICK n \in Nat :
        /\ Len(Tail(channel)) = n /\ DOMAIN channel = 1..(n + 1) /\ DOMAIN channel' = 1..n
        /\ channel[1] = h /\ channel' = Tail(channel)
        /\ \A j \in 1..n : channel'[j] = channel[j + 1]
  BY ReadShifts
<1>2. /\ \A p : p # h.order => (p \in DOMAIN trades' <=> p \in DOMAIN trades) /\ (Over(trades', p) <=> Over(trades, p))
      /\ h.order \in DOMAIN trades'
      /\ Over(trades', h.order) <=> Over(trades, h.order) \/ terminal(h.status)
  BY ReadKnows DEF Over
<1>3. PICK later : later = channel'
  OBVIOUS
<1>4. PICK o : o = later[i].order
  OBVIOUS
<1> HIDE DEF h
<1>5. /\ i \in 1..n /\ i + 1 \in DOMAIN channel /\ 1 \in DOMAIN channel /\ later[i] = channel[i + 1]
      /\ \A j \in 1..(i - 1) : later[j] = channel[j + 1] /\ j + 1 \in 1..((i + 1) - 1)
      /\ \A j \in 1..((i + 1) - 1) : j = 1 \/ (j - 1 \in 1..(i - 1) /\ later[j - 1] = channel[j])
      /\ 1 \in 1..((i + 1) - 1)
  BY <1>1, <1>3
<1>6. Opens(trades', later, i) <=> Opens(trades, channel, i + 1)
  <2>1. CASE o = h.order
    BY <1>1, <1>2, <1>4, <1>5, <2>1 DEF Opens
  <2>2. CASE o # h.order
    <3>1. o \in DOMAIN trades' <=> o \in DOMAIN trades
      BY <1>2, <2>2
    <3>2. (\A j \in 1..(i - 1) : later[j].order # o) <=> (\A j \in 1..((i + 1) - 1) : channel[j].order # o)
      <4>1. ASSUME \A j \in 1..(i - 1) : later[j].order # o, NEW j \in 1..((i + 1) - 1)
            PROVE  channel[j].order # o
        BY <1>1, <1>5, <2>2, <4>1
      <4>2. ASSUME \A j \in 1..((i + 1) - 1) : channel[j].order # o, NEW j \in 1..(i - 1)
            PROVE  later[j].order # o
        BY <1>5, <4>2
      <4>3. QED
        BY <4>1, <4>2
    <3>3. QED
      BY <1>4, <1>5, <3>1, <3>2 DEF Opens
  <2>3. QED
    BY <2>1, <2>2
<1>7. Undoes(trades', later, i) <=> Undoes(trades, channel, i + 1)
  <2>1. (\A j \in 1..((i + 1) - 1) : channel[j].order = o => channel[j].status # "FAILED")
        <=> /\ \A j \in 1..(i - 1) : later[j].order = o => later[j].status # "FAILED"
            /\ h.order = o => h.status # "FAILED"
    BY <1>1, <1>5
  <2>2. CASE o = h.order
    <3>1. CASE h.status = "CONFIRMED"
      <4>1. channel[i + 1].status = "CONFIRMED"
        <5>1. 1 < i + 1 /\ channel[1].order = channel[i + 1].order /\ terminal(channel[1].status)
          BY <1>1, <1>4, <1>5, <2>2, <3>1 DEF terminal
        <5>2. QED
          BY <1>1, <1>5, <3>1, <5>1 DEF OneEnd
      <4>2. QED
        BY <1>5, <4>1 DEF Undoes
    <3>2. CASE h.status = "FAILED"
      BY <1>2, <1>4, <1>5, <2>1, <2>2, <3>2 DEF Undoes, terminal
    <3>3. CASE ~terminal(h.status)
      <4>1. (Over(trades', o) <=> Over(trades, o)) /\ h.status # "FAILED"
        BY <1>2, <2>2, <3>3 DEF terminal
      <4>2. QED
        BY <1>4, <1>5, <2>1, <4>1 DEF Undoes
    <3>4. QED
      BY <3>1, <3>2, <3>3 DEF terminal
  <2>3. CASE o # h.order
    BY <1>2, <1>4, <1>5, <2>1, <2>3 DEF Undoes
  <2>4. QED
    BY <2>2, <2>3
<1>8. QED
  BY <1>1, <1>3, <1>5, <1>6, <1>7 DEF Worth

LEMMA ReadKeepsTold ==
  ASSUME VenueInv, OneEnd, NEW ts_us, Read(ts_us), \A o \in DOMAIN fills : Told(o), NEW p \in DOMAIN fills
  PROVE  Told(p)'
<1> DEFINE h == Head(channel)
<1>1. PICK n \in Nat :
        /\ Len(Tail(channel)) = n /\ DOMAIN channel = 1..(n + 1) /\ DOMAIN channel' = 1..n
        /\ channel[1] = h /\ channel' = Tail(channel)
        /\ \A j \in 1..n : channel'[j] = channel[j + 1]
  BY ReadShifts
<1>2. channel # <<>> /\ UNCHANGED fills
  BY DEF Read
<1>3. /\ h.order \in DOMAIN fills
      /\ p # h.order => /\ p \in DOMAIN trades' <=> p \in DOMAIN trades
                        /\ p \in DOMAIN trades => trades'[p] = trades[p]
      /\ h.order \in DOMAIN trades' /\ trades'[h.order] = RecordAfter(Arriving(ts_us))
  BY ReadKnows
<1>4. CASE p = h.order
  <2>1. RecordAfter(Arriving(ts_us)).applied /\ RecordAfter(Arriving(ts_us)).size_atoms = fills[p].size_atoms
    BY <1>2, <1>4, ReadCounts
  <2>2. QED
    BY <1>2, <1>3, <1>4, <2>1 DEF Told
<1> HIDE DEF h
<1>5. CASE p # h.order /\ p \in DOMAIN trades
  BY <1>2, <1>3, <1>5 DEF Told
<1>6. CASE p # h.order /\ p \notin DOMAIN trades
  <2>1. PICK i \in DOMAIN channel :
          /\ channel[i].order = p /\ channel[i].status = "MATCHED"
          /\ \A j \in DOMAIN channel : j < i => channel[j].order # p
    BY <1>6 DEF Told
  <2>2. i # 1 /\ i \in 1..(n + 1)
    BY <1>1, <1>6, <2>1
  <2>3. PICK k \in 1..n : k + 1 = i
    <3>1. i - 1 \in 1..n /\ (i - 1) + 1 = i
      BY <2>2
    <3>2. QED
      BY <3>1
  <2>4. k \in DOMAIN channel' /\ channel'[k] = channel[i]
    BY <1>1, <2>3
  <2>5. ASSUME NEW j \in DOMAIN channel', j < k PROVE channel'[j].order # p
    <3>1. j \in 1..n /\ channel'[j] = channel[j + 1] /\ j + 1 \in DOMAIN channel /\ j + 1 < i
      BY <1>1, <2>3, <2>5
    <3>2. QED
      BY <2>1, <3>1
  <2>6. QED
    BY <1>3, <1>6, <2>1, <2>4, <2>5 DEF Told
<1>7. QED
  BY <1>4, <1>5, <1>6

LEMMA ReadKeepsEnd ==
  ASSUME VenueInv, OneEnd, NEW ts_us, Read(ts_us)
  PROVE  OneEnd'
<1> DEFINE h == Head(channel)
<1>1. PICK n \in Nat :
        /\ Len(Tail(channel)) = n /\ DOMAIN channel = 1..(n + 1) /\ DOMAIN channel' = 1..n
        /\ channel[1] = h /\ channel' = Tail(channel)
        /\ \A j \in 1..n : channel'[j] = channel[j + 1]
  BY ReadShifts
<1>2. UNCHANGED fills /\ 1 \in DOMAIN channel
  BY <1>1 DEF Read
<1>3. \A p : Over(trades', p) <=> Over(trades, p) \/ (p = h.order /\ terminal(h.status))
  BY ReadKnows DEF Over
<1>4. \A p : Over(trades, p) => terminal(fills[p].status)
  BY DEF OneEnd, Over
<1>5. terminal(h.status) => fills[h.order].status = h.status
  BY <1>1, <1>2 DEF OneEnd
<1> HIDE DEF h
<1>6. \A p : Over(trades', p) => terminal(fills'[p].status)
  BY <1>2, <1>3, <1>4, <1>5
<1>7. \A o \in DOMAIN trades' : trades'[o].finalized => terminal(fills'[o].status)
  BY <1>6 DEF Over
<1>8. ASSUME NEW i \in DOMAIN channel', terminal(channel'[i].status) \/ Over(trades', channel'[i].order)
      PROVE  channel'[i].status = fills'[channel'[i].order].status
  <2>1. i + 1 \in DOMAIN channel /\ channel'[i] = channel[i + 1] /\ 1 < i + 1
    BY <1>1
  <2>2. CASE terminal(channel'[i].status) \/ Over(trades, channel'[i].order)
    BY <1>2, <2>1, <2>2 DEF OneEnd
  <2>3. CASE channel'[i].order = h.order /\ terminal(h.status)
    <3>1. channel[i + 1].status = h.status
      BY <1>1, <1>2, <2>1, <2>3 DEF OneEnd
    <3>2. QED
      BY <1>2, <1>5, <2>1, <2>3, <3>1
  <2>4. QED
    BY <1>3, <1>8, <2>2, <2>3
<1>9. ASSUME NEW i \in DOMAIN channel', NEW j \in DOMAIN channel',
             i < j, channel'[i].order = channel'[j].order, terminal(channel'[i].status)
      PROVE  channel'[j].status = channel'[i].status
  <2>1. /\ i + 1 \in DOMAIN channel /\ j + 1 \in DOMAIN channel /\ i + 1 < j + 1
        /\ channel'[i] = channel[i + 1] /\ channel'[j] = channel[j + 1]
    BY <1>1, <1>9
  <2>2. QED
    BY <1>9, <2>1 DEF OneEnd
<1>10. ASSUME NEW o \in DOMAIN fills', terminal(fills'[o].status)
       PROVE  Over(trades', o) \/ \E i \in DOMAIN channel' : channel'[i].order = o /\ channel'[i].status = fills'[o].status
  <2>1. CASE Over(trades, o)
    BY <1>3, <2>1
  <2>2. CASE \E i \in DOMAIN channel : channel[i].order = o /\ channel[i].status = fills[o].status
    <3>1. PICK i \in DOMAIN channel : channel[i].order = o /\ channel[i].status = fills[o].status
      BY <2>2
    <3>2. CASE i = 1
      BY <1>1, <1>2, <1>3, <1>10, <3>1, <3>2
    <3>3. CASE i # 1
      <4>1. i - 1 \in DOMAIN channel' /\ channel'[i - 1] = channel[(i - 1) + 1] /\ (i - 1) + 1 = i
        BY <1>1, <3>3
      <4>2. QED
        BY <1>2, <3>1, <4>1
    <3>4. QED
      BY <3>2, <3>3
  <2>3. QED
    BY <1>2, <1>10, <2>1, <2>2 DEF OneEnd
<1>11. QED
  BY <1>7, <1>8, <1>9, <1>10 DEF OneEnd

LEMMA ReadKeepsBalance ==
  ASSUME SubmitInv, BalanceInv, Deliver
  PROVE  BalanceInv'
<1>1. /\ VenueInv /\ OneEnd /\ Read(now) /\ \A o \in DOMAIN fills : Told(o)
      /\ UNCHANGED <<fills, user_wss_trusted, market, task>>
  BY DEF SubmitInv, BalanceInv, Deliver, Read, apply_user_trade, flowVars
<1>2. channel # <<>> /\ channel' = Tail(channel) /\ owned_by_token' = OwnedAfter(Arriving(now))
  BY <1>1 DEF Read, apply_user_trade, Arriving
<1>3. OneEnd' /\ TasksOfPast' /\ FillsOfPast'
  BY <1>1, ReadKeepsEnd DEF BalanceInv, TasksOfPast, FillsOfPast, Past
<1>4. \A o \in DOMAIN fills' : Told(o)'
  BY <1>1, ReadKeepsTold
<1>5. Head(channel).order \in DOMAIN fills /\ channel \in Seq(Notice) /\ channel[1] = Head(channel)
  BY <1>1, <1>2 DEF VenueInv, ChannelOfFills
<1>6. NothingOfNothing'
  <2>1. ASSUME NEW token \in Tokens, \A o \in DOMAIN fills : fills[o].token # token
        PROVE  owned_by_token'[token] = 0
    <3>1. owned_by_token[token] = 0
      BY <2>1 DEF BalanceInv, NothingOfNothing
    <3>2. Worth(fills, trades, channel, 1, token) = 0
      BY <1>5, <2>1, WorthOfOther
    <3>3. owned_by_token[token] + Worth(fills, trades, channel, 1, token) \in 0..I64_MAX
      BY <3>1, <3>2, WidthAssumption
    <3>4. OwnedAfter(Arriving(now))[token] = owned_by_token[token] + Worth(fills, trades, channel, 1, token)
      BY <1>1, <1>2, <1>5, <3>3, ReadMoves
    <3>5. QED
      BY <1>2, <3>1, <3>2, <3>4
  <2>2. QED
    BY <1>1, <2>1 DEF NothingOfNothing
<1>7. ASSUME NEW token \in ActiveTokens' PROVE Mirror(token)'
  <2>1. token \in ActiveTokens /\ token \in Tokens
    BY <1>1, ActiveAreTokens DEF ActiveTokens
  <2>2. MirrorOf(fills, trades, channel, owned_by_token[token], VenueBalance(token), token)
    BY <2>1 DEF BalanceInv, Mirror
  <2>3. \A i \in 1..Len(Tail(channel)) :
          Worth(fills, trades', Tail(channel), i, token) = Worth(fills, trades, channel, i + 1, token)
    BY <1>1, ReadLeavesNews
  <2>4. /\ owned_by_token[token] + Worth(fills, trades, channel, 1, token) \in 0..I64_MAX
        /\ MirrorOf(fills, trades', Tail(channel), owned_by_token[token] + Worth(fills, trades, channel, 1, token),
                    VenueBalance(token), token)
    BY <1>2, <1>5, <2>2, <2>3, MirrorRead
  <2>5. owned_by_token'[token] = owned_by_token[token] + Worth(fills, trades, channel, 1, token)
    BY <1>1, <1>2, <1>5, <2>1, <2>4, ReadMoves
  <2>6. VenueBalance(token)' = VenueBalance(token)
    BY <1>1, BalanceOfFills
  <2>7. QED
    BY <1>1, <1>2, <2>4, <2>5, <2>6 DEF Mirror
<1>8. QED
  BY <1>3, <1>4, <1>6, <1>7 DEF BalanceInv

(* A rotation forgets what is not of the new market, of which nothing was  *)
(* bought before.                                                          *)
LEMMA RotateKeepsBalance ==
  ASSUME MarketsDisjoint, SubmitInv, BalanceInv, RotateMarket
  PROVE  BalanceInv'
<1>1. /\ market \in 0..Len(Markets) /\ market < Len(Markets) /\ market' = market + 1
      /\ owned_by_token' = OwnedInScope(Markets[market + 1])
      /\ UNCHANGED <<fills, channel, trades, user_wss_trusted, task>>
  BY DEF SubmitInv, SubmitsType, RotateMarket, release_market_scope, venueVars
<1>2. Markets \in Seq(SUBSET Tokens) /\ Len(Markets) \in Nat /\ DOMAIN Markets = 1..Len(Markets)
  BY MarketsAssumption
<1>3. OneEnd'
  BY <1>1 DEF BalanceInv, OneEnd, Over
<1>4. \A token : Past(token) => Past(token)'
  BY <1>1, <1>2 DEF Past
<1>5. TasksOfPast' /\ FillsOfPast'
  BY <1>1, <1>4 DEF BalanceInv, TasksOfPast, FillsOfPast
<1>6. \A o \in DOMAIN fills' : Told(o)'
  BY <1>1 DEF BalanceInv, Told
<1>7. NothingOfNothing'
  BY <1>1 DEF BalanceInv, NothingOfNothing, OwnedInScope
<1>8. ASSUME NEW token \in ActiveTokens' PROVE Mirror(token)'
  <2>1. token \in Markets[market + 1] /\ market + 1 \in DOMAIN Markets /\ token \in Tokens
    BY <1>1, <1>2 DEF ActiveTokens
  <2>2. ~Past(token)
    <3>1. \A m \in 1..market : m \in DOMAIN Markets /\ m # market + 1
      BY <1>1, <1>2
    <3>2. QED
      BY <2>1, <3>1 DEF Past, MarketsDisjoint
  <2>3. \A o \in DOMAIN fills : fills[o].token # token
    BY <2>2 DEF BalanceInv, FillsOfPast
  <2>4. owned_by_token'[token] = 0
    BY <1>7, <1>1, <2>1, <2>3 DEF NothingOfNothing
  <2>5. VenueBalance(token)' = 0
    <3>1. StandingOf(fills, token, "BUY") = {} /\ StandingOf(fills, token, "SELL") = {}
      BY <2>3 DEF StandingOf
    <3>2. IsFiniteSet({}) /\ Cardinality({}) = 0 /\ Sized(fills, {}) /\ Atoms(fills, {}) = {}
      BY FS_EmptySet DEF Sized, Atoms
    <3>3. Total(fills, {}) = 0
      BY <3>2, TotalIsAtoms
    <3>4. BalanceOf(fills, token) = 0
      BY <3>1, <3>3 DEF BalanceOf
    <3>5. QED
      BY <1>1, <3>4, BalanceOfFills
  <2>6. channel \in Seq(Notice) /\ \A i \in 1..Len(channel) : channel[i].order \in DOMAIN fills
    BY DEF SubmitInv, VenueInv, ChannelOfFills
  <2>7. MirrorOf(fills, trades, channel, 0, 0, token)
    BY <2>3, <2>6, MirrorOfNone
  <2>8. QED
    BY <1>1, <2>4, <2>5, <2>7 DEF Mirror
<1>9. QED
  BY <1>3, <1>5, <1>6, <1>7, <1>8 DEF BalanceInv

LEMMA BinanceTickKeepsBalance ==
  ASSUME SubmitInv, BalanceInv, NEW token \in Tokens, BinanceTick(token)
  PROVE  BalanceInv'
<1>1. /\ user_wss_trusted /\ token \in ActiveTokens
      /\ UNCHANGED <<owned_by_token, trades, fills, channel, market, user_wss_trusted>>
      /\ \A id \in DOMAIN task' : id \in DOMAIN task \/ task'[id].token = token
      /\ \A id \in DOMAIN task' : task'[id].token = token \/ (id \in DOMAIN task /\ task'[id] = task[id])
  BY DEF BinanceTick, has_entry_exposure_or_pending, claim_entry, venueVars
<1>2. Past(token)
  <2>1. market \in 1..market /\ token \in Markets[market]
    BY <1>1 DEF ActiveTokens, SubmitInv, SubmitsType
  <2>2. QED
    BY <2>1 DEF Past
<1>3. TasksOfPast'
  BY <1>1, <1>2 DEF BalanceInv, TasksOfPast, Past
<1>4. QED
  BY <1>1, <1>3, QuietKeeps

LEMMA TaskMovesKeepBalance ==
  ASSUME SubmitInv, BalanceInv, NEW id \in BuyOrders, SubmitTask(id) \/ TaskPanics(id)
  PROVE  BalanceInv'
<1>1. /\ UNCHANGED <<owned_by_token, trades, fills, channel, market, user_wss_trusted>>
      /\ \E pc \in {"posted", "done", "dead"} : task' = [task EXCEPT ![id].pc = pc]
  BY DEF SubmitTask, TaskPanics, PrepareFails, Post, AnswerRefuses, AnswerConfirms, AnswerFails, Outcome,
         record_buy_submit_outcome, release_claim, mark_submit_accepted, mark_submit_unknown,
         inventoryVars, venueVars
<1>2. DOMAIN task' = DOMAIN task /\ \A i \in DOMAIN task : task'[i].token = task[i].token
  BY <1>1 DEF SubmitInv, SubmitsType, AnySubmit
<1>3. TasksOfPast'
  BY <1>1, <1>2 DEF BalanceInv, TasksOfPast, Past
<1>4. QED
  BY <1>1, <1>3, QuietKeeps

LEMMA ExecuteKeepsBalance ==
  ASSUME NoOverflow, SubmitInv, BalanceInv, NEW id \in BuyOrders, Execute(id)
  PROVE  BalanceInv'
<1>1. /\ id \in DOMAIN task /\ id \notin DOMAIN fills /\ id \in OrderIds
      /\ Fill(id, task[id].token, "BUY", FillSize) /\ UNCHANGED <<market, task>>
  BY EntryAssumptions DEF Execute, SubmitInv, OrdersOfSubmits
<1>2. task[id].token \in Tokens /\ Past(task[id].token) /\ user_wss_trusted
  BY <1>1 DEF SubmitInv, SubmitsType, AnySubmit, BalanceInv, TasksOfPast
<1>3. FillSize \in Nat /\ "BUY" \in OrderSide /\ "BUY" # "SELL"
  BY EntryAssumptions DEF OrderSide
<1>4. QED
  BY <1>1, <1>2, <1>3, FillKeepsBalance DEF SubmitInv

(* Whole units of a balance are never more than it.                        *)
LEMMA UnitsWithin ==
  ASSUME NEW balance \in Int, NEW units \in 1..(balance \div QUANTUM)
  PROVE  units * QUANTUM \in Nat /\ units * QUANTUM <= balance
<1>1. PICK q \in Int : q = balance \div QUANTUM
  BY QuantumIsPositive
<1>2. QUANTUM * q <= balance
  BY <1>1, QuantumIsPositive
<1>3. units \in Nat /\ units <= q
  BY <1>1
<1>4. QUANTUM * units <= QUANTUM * q
  BY <1>1, <1>3, QuantumIsPositive
<1>5. QED
  BY <1>1, <1>2, <1>3, <1>4, QuantumIsPositive

LEMMA SellKeepsBalance ==
  ASSUME NoOverflow, SubmitInv, BalanceInv, NEW token \in Tokens, Sell(token)
  PROVE  BalanceInv'
<1>1. PICK units \in 1..(VenueBalance(token) \div QUANTUM), o \in SellOrders \ DOMAIN fills :
        Fill(o, token, "SELL", units * QUANTUM)
  BY DEF Sell
<1>2. o \in OrderIds /\ o \notin DOMAIN fills /\ "SELL" \in OrderSide /\ UNCHANGED <<market, task>>
  BY EntryAssumptions DEF OrderSide, Sell, flowVars
<1>3. Past(token) /\ user_wss_trusted
  BY DEF Sell, SubmitInv, VenueInv, TradesOfFills, BalanceInv, FillsOfPast
<1>4. VenueBalance(token) \in Int
  <2>1. \A p \in DOMAIN fills : fills[p] \in FillRecord
    BY DEF SubmitInv, VenueInv, FillsType
  <2>2. /\ IsFiniteSet(DOMAIN fills)
        /\ \A p \in DOMAIN fills : fills[p].side = "BUY" => p \in BuyOrders /\ fills[p].size_atoms = FillSize
    BY DEF BalanceInv, FillsOfPast
  <2>3. QED
    BY <2>1, <2>2, AccountFits, BalanceOfFills
<1>5. units * QUANTUM \in Nat /\ units * QUANTUM <= VenueBalance(token)
  BY <1>1, <1>4, UnitsWithin
<1>6. QED
  BY <1>1, <1>2, <1>3, <1>5, FillKeepsBalance DEF SubmitInv

LEMMA BalanceStep ==
  ASSUME Reliable, NoOverflow, MarketsDisjoint, SubmitInv, BalanceInv, [FlowNext]_vars
  PROVE  BalanceInv'
<1>1. ASSUME NEW token \in Tokens, BinanceTick(token) \/ Sell(token) PROVE BalanceInv'
  BY <1>1, BinanceTickKeepsBalance, SellKeepsBalance
<1>2. ASSUME NEW id \in BuyOrders, SubmitTask(id) \/ TaskPanics(id) \/ Execute(id) PROVE BalanceInv'
  BY <1>2, TaskMovesKeepBalance, ExecuteKeepsBalance
<1>3. CASE SettleTrade \/ RepeatEvent \/ Deliver \/ RotateMarket
  BY <1>3, SettleKeepsBalance, RepeatKeepsBalance, ReadKeepsBalance, RotateKeepsBalance DEF SubmitInv
<1>4. CASE ChannelDown \/ FrameRefused
  BY <1>4 DEF Reliable, ChannelDown, Disconnect, FrameRefused, MalformedFrame
<1>5. CASE ChannelUp \/ Maintain \/ Tick \/ UNCHANGED vars
  <2>1. /\ UNCHANGED <<owned_by_token, trades, fills, channel, market, task>>
        /\ user_wss_trusted => user_wss_trusted'
    BY <1>5 DEF ChannelUp, Connect, set_user_wss_trusted, Maintain, Tick, vars, flowVars, inventoryVars, venueVars
  <2>2. TasksOfPast'
    BY <2>1 DEF BalanceInv, TasksOfPast, Past
  <2>3. QED
    BY <2>1, <2>2, QuietKeeps
<1>6. QED
  BY <1>1, <1>2, <1>3, <1>4, <1>5 DEF FlowNext

LEMMA BalanceIsRead ==
  ASSUME BalanceInv
  PROVE  BalanceIsVenueTruth
<1> SUFFICES ASSUME channel = <<>>, NEW token \in ActiveTokens
             PROVE  owned_by_token[token] = IF VenueBalance(token) < 0 THEN 0 ELSE VenueBalance(token)
  BY DEF BalanceIsVenueTruth
<1>1. PICK b \in [0..Len(channel) -> 0..I64_MAX] :
        b[0] = owned_by_token[token] /\ b[Len(channel)] = VenueBalance(token)
  BY DEF BalanceInv, Mirror, MirrorOf
<1>2. Len(channel) = 0
  OBVIOUS
<1>3. QED
  BY <1>1, <1>2

(* Over an ordered channel that loses nothing, however often it repeats an *)
(* event, whatever is answered over HTTP and however many tasks die, the   *)
(* balance counted from the trade events is the venue's once the last of   *)
(* them is read.                                                           *)
THEOREM BalanceAlwaysVenueTruth ==
  ASSUME Reliable, NoOverflow, MarketsDisjoint
  PROVE  FlowSpec => []BalanceIsVenueTruth
<1>1. FlowSpec => []BalanceInv
  BY BalanceStart, BalanceStep, SubmitsAlways, PTL DEF FlowSpec
<1>2. QED
  BY <1>1, BalanceIsRead, PTL

-----------------------------------------------------------------------------
(* The whole process: Bot's steps are steps of EntryFlow.                  *)
(* ExitFlow is instantiated, so its sums over the fills are its own copies.*)
LEMMA SameBalance == ASSUME NEW token PROVE Exit!VenueBalance(token) = VenueBalance(token)
BY DEF Exit!VenueBalance, VenueBalance, Exit!SumOfSizes, SumOfSizes, Exit!Standing, Standing,
       Exit!MapThenSumSet, MapThenSumSet, Exit!MapThenFoldSet, MapThenFoldSet

(* What EntryFlow asks of a SELL: some BUY of its token was counted.       *)
Bought(token) == \E tid \in DOMAIN trades : trades[tid].token = token /\ trades[tid].side = "BUY"

BoughtInv ==
  /\ DOMAIN quotes \subseteq Tokens
  /\ \A token \in Tokens : owned_by_token[token] > 0 => Bought(token)
  /\ \A o \in DOMAIN fills : fills[o].side = "SELL" => Bought(fills[o].token)
  /\ \A r \in Exit!Requests : sells[r] # Exit!NoPlan => Bought(sells[r].token)

BotInv == SubmitInv /\ BoughtInv

(* An exit step that leaves the claims alone, and what it shares with the  *)
(* entry flow, is none of its steps.                                       *)
LEMMA ExitSideStutters ==
  ASSUME ExitTask \/ MarketFeed \/ \E r \in Exit!Requests : SellKilled(r)
  PROVE  UNCHANGED vars
BY DEF ExitTask, MarketFeed, SellKilled, Exit!PlanExits, Exit!plan_exits, Exit!SignSell, Exit!BookMoves,
       Exit!MarketResolves, Exit!SellKilled, Exit!inventoryVars, Exit!venueVars, entryVars, vars,
       inventoryVars, venueVars, flowVars

LEMMA SellFillsIsSell ==
  ASSUME BotInv, NEW r \in Exit!Requests, SellFills(r)
  PROVE  \E token \in Tokens : Sell(token)
<1> DEFINE token == sells[r].token
<1>1. sells[r] # Exit!NoPlan /\ Bought(token)
  BY DEF SellFills, Exit!SellFills, BotInv, BoughtInv
<1>2. PICK units \in 1..(Exit!VenueBalance(token) \div QUANTUM), o \in Exit!SellOrders \ DOMAIN fills :
        /\ \A p \in Exit!SellOrders : p < o => p \in DOMAIN fills
        /\ Exit!Fill(o, token, "SELL", units * QUANTUM)
  BY DEF SellFills, Exit!SellFills
<1>3. token \in Tokens
  BY <1>1 DEF Bought, BotInv, SubmitInv, VenueInv, TradesOfFills, Counted
<1>4. Exit!SellOrders = SellOrders
  BY DEF Exit!SellOrders, SellOrders
<1>5. UNCHANGED <<now, market>>
  BY DEF SellFills, Exit!SellFills
<1> HIDE DEF token
<1>6. Fill(o, token, "SELL", units * QUANTUM)
  BY <1>2 DEF Exit!Fill, Fill, Exit!Sent, Sent, Exit!inventoryVars, inventoryVars, SellFills, entryVars
<1>7. UNCHANGED flowVars
  BY <1>5 DEF SellFills, entryVars, flowVars
<1>8. units \in 1..(VenueBalance(token) \div QUANTUM)
  BY <1>2, SameBalance
<1>9. Sell(token)
  BY <1>1, <1>2, <1>4, <1>6, <1>7, <1>8 DEF Sell, Bought
<1>10. QED
  BY <1>3, <1>9

LEMMA ChannelIsEntrys ==
  ASSUME Channel
  PROVE  ChannelUp \/ SettleTrade \/ RepeatEvent
<1>1. CASE Exit!ChannelUp
  <2>1. UNCHANGED <<now, market, task, order, pending, next_submit_id>>
    BY <1>1 DEF Channel, Exit!ChannelUp, Exit!exitVars, entryVars
  <2>2. /\ ~user_wss_trusted /\ user_wss_trusted' = TRUE
        /\ UNCHANGED <<owned_by_token, trades, fills, channel, repeats>>
    BY <1>1 DEF Exit!ChannelUp, Exit!Connect, Exit!set_user_wss_trusted, Exit!venueVars
  <2>3. QED
    BY <2>1, <2>2 DEF ChannelUp, Connect, set_user_wss_trusted, venueVars, flowVars
<1>2. CASE Exit!SettleTrade
  <2>1. UNCHANGED <<now, market, task, order, pending, next_submit_id>>
    BY <1>2 DEF Channel, Exit!SettleTrade, Exit!exitVars, entryVars
  <2>2. PICK o \in DOMAIN fills, status \in Interim \cup {"CONFIRMED", "FAILED"} : Exit!Settle(o, status)
    BY <1>2 DEF Exit!SettleTrade
  <2>3. Settle(o, status)
    BY <2>1, <2>2, SameBalance
    DEF Exit!Settle, Settle, Exit!Sent, Sent, Exit!terminal, terminal, Exit!inventoryVars, inventoryVars
  <2>4. QED
    BY <2>1, <2>3 DEF SettleTrade, flowVars
<1>3. CASE Exit!RepeatEvent
  <2>1. UNCHANGED <<now, market, task, order, pending, next_submit_id>>
    BY <1>3 DEF Channel, Exit!RepeatEvent, Exit!exitVars, entryVars
  <2>2. PICK o \in DOMAIN fills : Exit!Repeat(o)
    BY <1>3 DEF Exit!RepeatEvent
  <2>3. Repeat(o)
    BY <2>1, <2>2 DEF Exit!Repeat, Repeat, Exit!Sent, Sent, Exit!inventoryVars, inventoryVars
  <2>4. QED
    BY <2>1, <2>3 DEF RepeatEvent, flowVars
<1>4. QED
  BY <1>1, <1>2, <1>3 DEF Channel

(* Every step of the process is a step of the entry flow or none of it,    *)
(* and none closes the channel.                                            *)
LEMMA BotStepsEntry ==
  ASSUME BotInv, [BotNext]_botVars
  PROVE  [FlowNext]_vars /\ (user_wss_trusted => user_wss_trusted')
<1>1. ASSUME NEW token \in Tokens, Entry(token) PROVE FlowNext /\ UNCHANGED user_wss_trusted
  BY <1>1 DEF Entry, FlowNext, BinanceTick, claim_entry
<1>2. ASSUME NEW id \in BuyOrders, Submit(id) PROVE FlowNext /\ UNCHANGED user_wss_trusted
  BY <1>2 DEF Submit, FlowNext, SubmitTask, PrepareFails, Post, AnswerRefuses, AnswerConfirms, AnswerFails,
              Outcome, record_buy_submit_outcome, release_claim, mark_submit_accepted, mark_submit_unknown,
              inventoryVars
<1>3. ASSUME NEW id \in BuyOrders, NEW price \in Ticks, BuyExecutes(id, price)
      PROVE  FlowNext /\ UNCHANGED user_wss_trusted
  BY <1>3 DEF BuyExecutes, FlowNext, Execute, Fill, inventoryVars
<1>4. CASE Expiry \/ Rotation \/ Clock
  BY <1>4 DEF Expiry, Rotation, Clock, FlowNext, Maintain, RotateMarket, release_market_scope, Tick,
              inventoryVars
<1>5. CASE ExitTask \/ MarketFeed \/ \E r \in Exit!Requests : SellKilled(r)
  <2>1. UNCHANGED vars
    BY <1>5, ExitSideStutters
  <2>2. QED
    BY <2>1 DEF vars, inventoryVars
<1>6. ASSUME NEW r \in Exit!Requests, SellFills(r) PROVE FlowNext /\ UNCHANGED user_wss_trusted
  <2>1. PICK token \in Tokens : Sell(token)
    BY <1>6, SellFillsIsSell
  <2>2. QED
    BY <2>1 DEF FlowNext, Sell, Fill, inventoryVars
<1>7. CASE UserTradeArrives
  BY <1>7 DEF UserTradeArrives, FlowNext, Deliver, Read, apply_user_trade
<1>8. CASE Channel
  <2>1. FlowNext
    BY <1>8, ChannelIsEntrys DEF FlowNext
  <2>2. user_wss_trusted => user_wss_trusted'
    BY <1>8, ChannelIsEntrys DEF ChannelUp, Connect, SettleTrade, Settle, RepeatEvent, Repeat, inventoryVars
  <2>3. QED
    BY <2>1, <2>2
<1>9. CASE UNCHANGED botVars
  BY <1>9 DEF botVars, vars, inventoryVars
<1>10. QED
  BY <1>1, <1>2, <1>3, <1>4, <1>5, <1>6, <1>7, <1>8, <1>9 DEF BotNext

LEMMA BotStart == BotInit => BotInv
<1> SUFFICES ASSUME BotInit PROVE BotInv
  OBVIOUS
<1>1. SubmitInv
  BY SubmitsStart DEF BotInit
<1>2. /\ owned_by_token = [token \in Tokens |-> 0] /\ fills = [o \in {} |-> 0]
      /\ DOMAIN quotes = {} /\ sells = [r \in Exit!Requests |-> Exit!NoPlan]
  BY DEF BotInit, FlowInit, Init, VenueInit, Exit!ExitInit, Exit!NoQuotes
<1>3. BoughtInv
  BY <1>2 DEF BoughtInv
<1>4. QED
  BY <1>1, <1>3 DEF BotInv

(* What was bought stays bought: a record keeps its token and its side.    *)
LEMMA BoughtKept ==
  ASSUME BoughtInv, UNCHANGED trades, DOMAIN quotes' \subseteq Tokens,
         \A token \in Tokens : owned_by_token'[token] \in {0, owned_by_token[token]},
         \A o \in DOMAIN fills' : fills'[o].side = "SELL" => Bought(fills'[o].token),
         \A r \in Exit!Requests : sells'[r] # Exit!NoPlan => Bought(sells'[r].token)
  PROVE  BoughtInv'
<1>1. \A token : Bought(token) => Bought(token)'
  BY DEF Bought
<1>2. \A token \in Tokens : owned_by_token'[token] > 0 => Bought(token)'
  <2>1. ASSUME NEW token \in Tokens, owned_by_token'[token] > 0 PROVE Bought(token)
    <3>1. owned_by_token'[token] # 0
      BY <2>1
    <3>2. owned_by_token'[token] = owned_by_token[token]
      BY <3>1
    <3>3. QED
      BY <2>1, <3>2 DEF BoughtInv
  <2>2. QED
    BY <1>1, <2>1
<1>3. QED
  BY <1>1, <1>2 DEF BoughtInv

(* A trade event: a balance grows by a BUY it counts or by a SELL it takes *)
(* back, of a token that was bought.                                       *)
LEMMA ReadKeepsBought ==
  ASSUME VenueInv, BoughtInv, Read(now), UNCHANGED <<quotes, sells>>
  PROVE  BoughtInv'
<1> DEFINE trade == Arriving(now)
<1>1. /\ channel # <<>> /\ UNCHANGED fills
      /\ owned_by_token' = OwnedAfter(trade)
      /\ trades' = [tid \in DOMAIN trades \cup {trade.trade_id} |->
                      IF tid = trade.trade_id THEN RecordAfter(trade) ELSE trades[tid]]
  BY DEF Read, apply_user_trade, Arriving
<1>2. PICK id, r, after :
        /\ id = trade.trade_id /\ r = Record(trade) /\ after = RecordAfter(trade)
        /\ id \in DOMAIN fills /\ r \in Counted /\ r.token = fills[id].token /\ r.side = fills[id].side
        /\ after.token = r.token /\ after.side = r.side
        /\ id \in DOMAIN trades => r = trades[id]
  <2>1. /\ trade.trade_id \in DOMAIN fills /\ Record(trade) \in Counted
        /\ Record(trade).token = fills[trade.trade_id].token /\ Record(trade).side = fills[trade.trade_id].side
    BY <1>1, ArrivingIsOfFill
  <2>2. RecordAfter(trade).token = Record(trade).token /\ RecordAfter(trade).side = Record(trade).side
    BY <2>1 DEF RecordAfter, Counted
  <2>3. trade.trade_id \in DOMAIN trades => Record(trade) = trades[trade.trade_id]
    BY DEF Record
  <2>4. QED
    BY <2>1, <2>2, <2>3
<1>3. /\ DOMAIN trades' = DOMAIN trades \cup {id} /\ trades'[id] = after
      /\ \A tid \in DOMAIN trades : tid # id => trades'[tid] = trades[tid]
  BY <1>1, <1>2
<1>4. \A token \in Tokens : owned_by_token'[token] = owned_by_token[token] \/ token = r.token
  BY <1>1, <1>2 DEF OwnedAfter, VenueInv, Counted
<1> HIDE DEF trade
<1>5. \A token : Bought(token) => Bought(token)'
  BY <1>2, <1>3 DEF Bought
<1>6. Bought(r.token)'
  <2>1. CASE r.side = "BUY"
    BY <1>2, <1>3, <2>1 DEF Bought
  <2>2. CASE r.side # "BUY"
    <3>1. r.side = "SELL"
      BY <1>2, <2>2 DEF Counted, OrderSide
    <3>2. Bought(r.token)
      BY <1>2, <3>1 DEF BoughtInv
    <3>3. QED
      BY <1>5, <3>2
  <2>3. QED
    BY <2>1, <2>2
<1>7. \A token \in Tokens : owned_by_token'[token] > 0 => Bought(token)'
  BY <1>4, <1>5, <1>6 DEF BoughtInv
<1>8. QED
  BY <1>1, <1>5, <1>7 DEF BoughtInv

(* What is signed is sellable.                                             *)
LEMMA SignedIsBought ==
  ASSUME VenueInv, BoughtInv, Exit!SignSell
  PROVE  \A r \in Exit!Requests : sells'[r] # Exit!NoPlan => Bought(sells'[r].token)
<1>1. CASE sells' = sells
  BY <1>1 DEF BoughtInv
<1>2. CASE sells' # sells
  <2>1. PICK plan \in Exit!refresh_sell_plan(Head(exits)), q \in Exit!Requests :
          sells' = [sells EXCEPT ![q] = plan]
    BY <1>2 DEF Exit!SignSell
  <2>2. PICK token : plan = Exit!plan_sell_at_bid(token) /\ Exit!Sellable(token)
    BY <2>1 DEF Exit!refresh_sell_plan
  <2>3. plan.token = token /\ token \in Tokens /\ owned_by_token[token] \div QUANTUM > 0
    BY <2>2 DEF Exit!plan_sell_at_bid, Exit!Sellable, Exit!Quoted, Exit!sellable, BoughtInv
  <2>4. owned_by_token[token] \in Nat /\ QUANTUM \in Nat /\ QUANTUM > 0
    BY <2>3, QuantumIsPositive DEF VenueInv
  <2>5. owned_by_token[token] > 0
    <3>1. owned_by_token[token] = 0 => owned_by_token[token] \div QUANTUM = 0
      BY <2>4
    <3>2. QED
      BY <2>3, <2>4, <3>1
  <2>6. Bought(plan.token)
    BY <2>3, <2>5 DEF BoughtInv
  <2>7. QED
    BY <2>1, <2>6 DEF BoughtInv
<1>3. QED
  BY <1>1, <1>2

LEMMA BotKeepsBought ==
  ASSUME BotInv, [BotNext]_botVars
  PROVE  BoughtInv'
<1>1. VenueInv /\ BoughtInv
  BY DEF BotInv, SubmitInv
<1>2. ASSUME UNCHANGED <<owned_by_token, trades, fills, quotes, sells>> PROVE BoughtInv'
  BY <1>1, <1>2, BoughtKept DEF BoughtInv
<1>3. ASSUME NEW token \in Tokens, Entry(token) PROVE BoughtInv'
  BY <1>2, <1>3 DEF Entry, BinanceTick, claim_entry, venueVars, exitVars
<1>4. ASSUME NEW id \in BuyOrders, Submit(id) PROVE BoughtInv'
  BY <1>2, <1>4 DEF Submit, SubmitTask, PrepareFails, Post, AnswerRefuses, AnswerConfirms, AnswerFails,
                    Outcome, record_buy_submit_outcome, release_claim, mark_submit_accepted,
                    mark_submit_unknown, inventoryVars, venueVars, exitVars
<1>5. ASSUME NEW id \in BuyOrders, NEW price \in Ticks, BuyExecutes(id, price) PROVE BoughtInv'
  <2>1. UNCHANGED <<owned_by_token, trades, quotes, sells>>
    BY <1>5 DEF BuyExecutes, Execute, Fill, inventoryVars
  <2>2. \A o \in DOMAIN fills' : fills'[o].side = "SELL" => o \in DOMAIN fills /\ fills'[o] = fills[o]
    BY <1>5 DEF BuyExecutes, Execute, Fill
  <2>3. QED
    BY <1>1, <2>1, <2>2, BoughtKept DEF BoughtInv
<1>6. CASE Expiry \/ Clock
  BY <1>2, <1>6 DEF Expiry, Clock, Maintain, Tick, inventoryVars, venueVars, exitVars, Exit!Tick
<1>7. CASE Rotation
  <2>1. /\ UNCHANGED <<trades, fills, sells>> /\ owned_by_token' = OwnedInScope(Markets[market + 1])
        /\ DOMAIN quotes' = {}
    BY <1>7 DEF Rotation, RotateMarket, Exit!RotateMarket, Exit!NoQuotes, release_market_scope, venueVars
  <2>2. \A token \in Tokens : owned_by_token'[token] \in {0, owned_by_token[token]}
    BY <2>1 DEF OwnedInScope
  <2>3. QED
    BY <1>1, <2>1, <2>2, BoughtKept DEF BoughtInv
<1>8. CASE ExitTask
  <2>1. UNCHANGED <<owned_by_token, trades, fills, quotes>>
    BY <1>8 DEF ExitTask, Exit!PlanExits, Exit!plan_exits, Exit!SignSell, Exit!inventoryVars, Exit!venueVars
  <2>2. \A r \in Exit!Requests : sells'[r] # Exit!NoPlan => Bought(sells'[r].token)
    <3>1. CASE Exit!SignSell
      BY <1>1, <3>1, SignedIsBought
    <3>2. CASE Exit!PlanExits
      BY <1>1, <3>2 DEF Exit!PlanExits, Exit!plan_exits, BoughtInv
    <3>3. QED
      BY <1>8, <3>1, <3>2 DEF ExitTask
  <2>3. QED
    BY <1>1, <2>1, <2>2, BoughtKept DEF BoughtInv
<1>9. CASE MarketFeed
  <2>1. UNCHANGED <<owned_by_token, trades, fills, sells>>
    BY <1>9 DEF MarketFeed, Exit!BookMoves, Exit!MarketResolves, Exit!inventoryVars, Exit!venueVars
  <2>2. DOMAIN quotes' \subseteq Tokens
    <3>1. CASE Exit!MarketResolves
      BY <3>1 DEF Exit!MarketResolves, Exit!NoQuotes
    <3>2. CASE \E token \in Tokens, bid \in Ticks \cup {Exit!NoTick} : Exit!BookMoves(token, bid)
      BY <1>1, <3>2 DEF Exit!BookMoves, Exit!Restrict, Restrict, BoughtInv
    <3>3. QED
      BY <1>9, <3>1, <3>2 DEF MarketFeed
  <2>3. QED
    BY <1>1, <2>1, <2>2, BoughtKept DEF BoughtInv
<1>10. ASSUME NEW r \in Exit!Requests, SellFills(r) PROVE BoughtInv'
  <2>1. Bought(sells[r].token)
    BY <1>1, <1>10 DEF SellFills, Exit!SellFills, BoughtInv
  <2>2. PICK o, size : Exit!Fill(o, sells[r].token, "SELL", size)
    BY <1>10 DEF SellFills, Exit!SellFills
  <2>3. /\ UNCHANGED <<owned_by_token, trades, quotes>> /\ sells' = [sells EXCEPT ![r] = Exit!NoPlan]
        /\ \A f \in DOMAIN fills' : \/ fills'[f].token = sells[r].token
                                    \/ f \in DOMAIN fills /\ fills'[f] = fills[f]
    BY <1>10, <2>2 DEF SellFills, Exit!SellFills, Exit!Fill, Exit!inventoryVars
  <2>4. \A q \in Exit!Requests : sells'[q] # Exit!NoPlan => Bought(sells'[q].token)
    BY <1>1, <2>3 DEF BoughtInv
  <2>5. QED
    BY <1>1, <2>1, <2>3, <2>4, BoughtKept DEF BoughtInv
<1>11. ASSUME NEW r \in Exit!Requests, SellKilled(r) PROVE BoughtInv'
  <2>1. /\ UNCHANGED <<owned_by_token, trades, fills, quotes>> /\ sells' = [sells EXCEPT ![r] = Exit!NoPlan]
    BY <1>11 DEF SellKilled, Exit!SellKilled, Exit!inventoryVars, Exit!venueVars
  <2>2. \A q \in Exit!Requests : sells'[q] # Exit!NoPlan => Bought(sells'[q].token)
    BY <1>1, <2>1 DEF BoughtInv
  <2>3. QED
    BY <1>1, <2>1, <2>2, BoughtKept DEF BoughtInv
<1>12. CASE UserTradeArrives
  BY <1>1, <1>12, ReadKeepsBought DEF UserTradeArrives, Deliver, Exit!UserTradeArrives
<1>13. CASE Channel
  <2>1. UNCHANGED <<owned_by_token, trades, quotes, sells>>
    BY <1>13 DEF Channel, Exit!ChannelUp, Exit!Connect, Exit!set_user_wss_trusted, Exit!SettleTrade,
                 Exit!Settle, Exit!RepeatEvent, Exit!Repeat, Exit!inventoryVars, Exit!exitVars
  <2>2. \A o \in DOMAIN fills' : /\ o \in DOMAIN fills
                                 /\ fills'[o].side = fills[o].side /\ fills'[o].token = fills[o].token
    <3>1. CASE ChannelUp
      BY <3>1 DEF ChannelUp, Connect, venueVars
    <3>2. CASE SettleTrade
      <4>1. PICK o \in DOMAIN fills, status \in Interim \cup {"CONFIRMED", "FAILED"} :
                fills' = [fills EXCEPT ![o].status = status]
        BY <3>2 DEF SettleTrade, Settle
      <4>2. fills[o] \in FillRecord
        BY <1>1 DEF VenueInv, FillsType
      <4>3. QED
        BY <4>1, <4>2 DEF FillRecord
    <3>3. CASE RepeatEvent
      BY <3>3 DEF RepeatEvent, Repeat
    <3>4. QED
      BY <1>13, ChannelIsEntrys, <3>1, <3>2, <3>3
  <2>3. QED
    BY <1>1, <2>1, <2>2, BoughtKept DEF BoughtInv
<1>14. CASE UNCHANGED botVars
  BY <1>2, <1>14 DEF botVars, vars, inventoryVars, venueVars, exitVars
<1>15. QED
  BY <1>3, <1>4, <1>5, <1>6, <1>7, <1>8, <1>9, <1>10, <1>11, <1>12, <1>13, <1>14 DEF BotNext

LEMMA BotInvariant == BotSpec => []BotInv
<1>1. BotInv /\ [BotNext]_botVars => BotInv'
  BY BotStepsEntry, BotKeepsBought, SubmitsStep DEF BotInv
<1>2. QED
  BY <1>1, BotStart, PTL DEF BotSpec

(* The exit task, its feed and the venue it sells to do to inventory,      *)
(* claims and market what EntryFlow has them do, ambiguous answers         *)
(* included: what is proved of EntryFlow holds of the whole process.       *)
THEOREM BotImplementsEntryFlow == BotSpec => ImplementsEntryFlow
<1>1. BotInit => FlowInit
  BY DEF BotInit
<1>2. BotInv /\ [BotNext]_botVars => [FlowNext]_vars
  BY BotStepsEntry
<1>3. QED
  BY <1>1, <1>2, BotInvariant, PTL DEF BotSpec, FlowSpec, ImplementsEntryFlow

(* No BUY is open twice in the whole process, either.                      *)
THEOREM BotNeverBuysTwice ==
  ASSUME CleanRun, MarketsDisjoint
  PROVE  BotSpec => []OpenSubmitBlocks
BY BotImplementsEntryFlow, OpenSubmitAlwaysBlocks DEF ImplementsEntryFlow

(* And its balances are the venue's, whatever the exit task sells.         *)
THEOREM BotKeepsVenueTruth ==
  ASSUME Reliable, NoOverflow, MarketsDisjoint
  PROVE  BotSpec => []BalanceIsVenueTruth
BY BotImplementsEntryFlow, BalanceAlwaysVenueTruth DEF ImplementsEntryFlow

-----------------------------------------------------------------------------
(* The entry side as ExitFlow has it: from the claim to the execution of a *)
(* BUY its token stays flat, and no other BUY of it is open or executes.   *)
Waits(id) == id \in DOMAIN task /\ InFlight(id) /\ id \notin DOMAIN fills

BuyOver(o) == o \in DOMAIN trades /\ trades[o].finalized

FlatInv ==
  /\ \A id \in BuyOrders : Waits(id) =>
       /\ user_wss_trusted
       /\ task[id].since <= LastClaim
       /\ owned_by_token[task[id].token] < QUANTUM
       /\ \A o \in BuyOrders \cap DOMAIN fills : fills[o].token = task[id].token => BuyOver(o)
  /\ \A i \in BuyOrders, j \in BuyOrders :
       Waits(i) /\ Waits(j) /\ task[i].token = task[j].token => i = j

LEMMA FlatStart == FlowInit => FlatInv
BY DEF FlowInit, FlatInv, Waits, InFlight

(* Nothing new waits, and nothing old is bought or reopened.               *)
LEMMA FlatKept ==
  ASSUME EntryInv, FlatInv, user_wss_trusted => user_wss_trusted',
         \A id \in BuyOrders : Waits(id)' => /\ Waits(id) /\ task'[id].token = task[id].token
                                             /\ task'[id].since = task[id].since,
         \A id \in BuyOrders : Waits(id)' /\ owned_by_token[task[id].token] < QUANTUM =>
           owned_by_token'[task[id].token] < QUANTUM,
         \A o \in BuyOrders \cap DOMAIN fills' : o \in DOMAIN fills /\ fills'[o].token = fills[o].token,
         \A o \in BuyOrders : BuyOver(o) => BuyOver(o)'
  PROVE  FlatInv'
BY DEF FlatInv

(* A claim is made where nothing of the token is left: what would block it *)
(* is every BUY that waits, and every one executed whose trade is not over.*)
LEMMA ClaimKeepsFlat ==
  ASSUME EntryInv, FlatInv, NEW token \in Tokens, BinanceTick(token)
  PROVE  FlatInv'
<1> DEFINE id == next_submit_id + 1
<1>1. /\ token \in ActiveTokens /\ ~has_entry_exposure_or_pending(token) /\ now <= LastClaim
      /\ DOMAIN task' = DOMAIN task \cup {id} /\ task'[id].token = token /\ task'[id].since = now
      /\ \A i \in DOMAIN task : i # id => task'[i] = task[i]
      /\ UNCHANGED <<user_wss_trusted, owned_by_token, trades, fills>>
  BY DEF BinanceTick, claim_entry, venueVars
<1>2. user_wss_trusted /\ owned_by_token[token] < QUANTUM
  <2>1. owned_by_token[token] \in Nat
    BY DEF EntryInv, VenueInv
  <2>2. QED
    BY <1>1, <2>1, QuantumIsPositive DEF has_entry_exposure_or_pending
<1>3. \A i \in DOMAIN pending : pending[i].token # token
  <2>1. \A i \in DOMAIN pending : blocks_entry(pending[i].status)
    BY DEF EntryInv, ClaimsOfTasks, Claim, blocks_entry
  <2>2. QED
    BY <1>1, <2>1 DEF has_entry_exposure_or_pending
<1> HIDE DEF id
<1>4. \A i \in BuyOrders : i \in DOMAIN task /\ task[i].token = token => ~Unresolved(i)
  BY <1>3 DEF EntryInv, OpenIsClaimed, ClaimsOfTasks
<1>5. \A i \in BuyOrders : i \in DOMAIN task /\ task[i].token = token => ~Waits(i)
  <2>1. \A i \in BuyOrders : i \notin DOMAIN fills => i \notin DOMAIN trades
    BY DEF EntryInv, VenueInv, TradesOfFills
  <2>2. QED
    BY <1>1, <1>4, <2>1 DEF Unresolved, Waits
<1>6. \A o \in BuyOrders \cap DOMAIN fills : fills[o].token = token => BuyOver(o)
  <2>1. ASSUME NEW o \in BuyOrders, o \in DOMAIN fills, fills[o].token = token PROVE BuyOver(o)
    <3>1. o \in DOMAIN task /\ task[o].token = token
      BY <2>1 DEF EntryInv, OrdersOfTasks
    <3>2. task[o].pc \in {"spawned", "posted", "done"}
      BY <3>1 DEF EntryInv, TasksType, Task
    <3>3. QED
      BY <1>1, <1>4, <2>1, <3>1, <3>2 DEF Unresolved, InFlight, BuyOver
  <2>2. QED
    BY <2>1
<1>7. \A i \in BuyOrders : i # id /\ Waits(i)' => Waits(i) /\ task'[i] = task[i]
  BY <1>1 DEF Waits, InFlight
<1>8. \A o : BuyOver(o)' <=> BuyOver(o)
  BY <1>1 DEF BuyOver
<1>9. \A i \in BuyOrders : Waits(i)' =>
        /\ user_wss_trusted' /\ task'[i].since <= LastClaim
        /\ owned_by_token'[task'[i].token] < QUANTUM
        /\ \A o \in BuyOrders \cap DOMAIN fills' : fills'[o].token = task'[i].token => BuyOver(o)'
  BY <1>1, <1>2, <1>6, <1>7, <1>8 DEF FlatInv
<1>10. \A i \in BuyOrders, j \in BuyOrders :
         Waits(i)' /\ Waits(j)' /\ task'[i].token = task'[j].token => i = j
  <2>1. \A i \in BuyOrders : i # id /\ Waits(i)' => task'[i].token # token
    BY <1>5, <1>7 DEF Waits
  <2>2. QED
    BY <1>1, <1>7, <2>1 DEF FlatInv
<1>11. QED
  BY <1>9, <1>10 DEF FlatInv

(* The BUY that executes was the only one of its token to wait.            *)
LEMMA ExecuteKeepsFlat ==
  ASSUME EntryInv, FlatInv, NEW id \in BuyOrders, Execute(id)
  PROVE  FlatInv'
<1>1. /\ Waits(id) /\ DOMAIN fills' = DOMAIN fills \cup {id} /\ fills'[id].token = task[id].token
      /\ \A o \in DOMAIN fills : o # id => fills'[o] = fills[o]
      /\ UNCHANGED <<user_wss_trusted, owned_by_token, trades, task>>
  BY DEF Execute, Fill, Waits, InFlight, EntryInv, OrdersOfTasks, inventoryVars
<1>2. \A i \in BuyOrders : Waits(i)' => Waits(i) /\ task[i].token # task[id].token
  BY <1>1 DEF Waits, InFlight, FlatInv
<1>3. \A o : BuyOver(o)' <=> BuyOver(o)
  BY <1>1 DEF BuyOver
<1>4. QED
  BY <1>1, <1>2, <1>3 DEF FlatInv

(* An event of a token whose BUY waits is of a SELL, which may not fail.   *)
LEMMA DeliverKeepsFlat ==
  ASSUME EntryInv, FlatInv, "SELL" \notin MayFail, Deliver
  PROVE  FlatInv'
<1> DEFINE trade == Arriving(now)
           r == Record(trade)
<1>1. /\ channel # <<>> /\ UNCHANGED <<fills, task, user_wss_trusted>>
      /\ owned_by_token' = OwnedAfter(trade)
      /\ trades' = [tid \in DOMAIN trades \cup {trade.trade_id} |->
                      IF tid = trade.trade_id THEN RecordAfter(trade) ELSE trades[tid]]
  BY DEF Deliver, Read, apply_user_trade, Arriving, flowVars
<1>2. PICK o : /\ o = trade.trade_id /\ o = channel[1].order /\ 1 \in DOMAIN channel /\ o \in DOMAIN fills
               /\ r \in Counted /\ r.token = fills[o].token /\ r.side = fills[o].side
               /\ trade.status = "FAILED" => r.side \in MayFail
  <2>1. 1 \in DOMAIN channel /\ Head(channel) = channel[1]
    BY <1>1 DEF EntryInv, VenueInv, ChannelOfFills
  <2>2. trade.trade_id = Head(channel).order
    BY DEF Arriving, Event
  <2>3. /\ trade.trade_id \in DOMAIN fills
        /\ r \in Counted /\ r.token = fills[trade.trade_id].token /\ r.side = fills[trade.trade_id].side
        /\ trade.status = "FAILED" => r.side \in MayFail
    BY <1>1, ArrivingIsOfFill DEF EntryInv
  <2>4. QED
    BY <2>1, <2>2, <2>3
<1>3. ~BuyOver(o)
  BY <1>2 DEF EntryInv, EndsOnce, BuyOver
<1>4. \A tid \in BuyOrders : BuyOver(tid) => BuyOver(tid)'
  BY <1>1, <1>2, <1>3 DEF BuyOver
<1>5. ASSUME NEW id \in BuyOrders, Waits(id), owned_by_token[task[id].token] < QUANTUM
      PROVE  owned_by_token'[task[id].token] < QUANTUM
  <2>1. CASE r.token # task[id].token
    BY <1>1, <1>5, <2>1 DEF OwnedAfter, EntryInv, VenueInv
  <2>2. CASE r.token = task[id].token
    <3>1. r.side = "SELL" /\ ~Reverses(trade)
      <4>1. o \notin BuyOrders
        BY <1>2, <1>3, <1>5, <2>2 DEF FlatInv
      <4>2. fills[o].side = "SELL"
        BY <1>2, <4>1 DEF EntryInv, OrdersOfTasks
      <4>3. QED
        BY <1>2, <4>2 DEF Reverses
    <3>2. /\ r.token \in Tokens /\ r.size_atoms \in Nat
          /\ owned_by_token \in [Tokens -> Nat] /\ owned_by_token[r.token] < QUANTUM
      BY <1>2, <1>5, <2>2 DEF Counted, EntryInv, VenueInv
    <3>3. apply_inventory_delta(owned_by_token[r.token], "SELL", r.size_atoms) < QUANTUM
      BY <3>2, QuantumIsPositive DEF apply_inventory_delta
    <3>4. \/ owned_by_token' = owned_by_token
          \/ owned_by_token' = [owned_by_token EXCEPT ![r.token] =
                                  apply_inventory_delta(@, "SELL", r.size_atoms)]
      BY <1>1, <3>1 DEF OwnedAfter
    <3>5. owned_by_token'[r.token] < QUANTUM
      BY <3>2, <3>3, <3>4
    <3>6. QED
      BY <2>2, <3>5
  <2>3. QED
    BY <2>1, <2>2
<1>6. \A id \in BuyOrders : Waits(id)' => Waits(id)
  BY <1>1 DEF Waits, InFlight
<1>7. QED
  BY <1>1, <1>4, <1>5, <1>6, FlatKept

LEMMA FlatStep ==
  ASSUME CleanRun, "SELL" \notin MayFail, EntryInv, FlatInv, [FlowNext]_vars,
         user_wss_trusted => user_wss_trusted'
  PROVE  FlatInv'
<1>1. ASSUME UNCHANGED <<task, owned_by_token, trades, fills>> PROVE FlatInv'
  <2>1. (\A id : Waits(id)' <=> Waits(id)) /\ (\A o : BuyOver(o)' <=> BuyOver(o))
    BY <1>1 DEF Waits, InFlight, BuyOver
  <2>2. QED
    BY <1>1, <2>1, FlatKept
<1>2. ASSUME NEW token \in Tokens, Sell(token) PROVE FlatInv'
  <2>1. PICK sold \in SellOrders \ DOMAIN fills : \E size : Fill(sold, token, "SELL", size)
    BY <1>2 DEF Sell
  <2>2. /\ UNCHANGED <<task, owned_by_token, trades>> /\ DOMAIN fills' = DOMAIN fills \cup {sold}
        /\ \A o \in DOMAIN fills : fills'[o] = fills[o]
    BY <1>2, <2>1 DEF Sell, Fill, inventoryVars, flowVars
  <2>3. sold \notin BuyOrders
    BY EntryAssumptions
  <2>4. (\A id : Waits(id)' => Waits(id)) /\ (\A o : BuyOver(o)' <=> BuyOver(o))
    BY <2>2 DEF Waits, InFlight, BuyOver
  <2>5. QED
    BY <2>2, <2>3, <2>4, FlatKept
<1>3. ASSUME NEW id \in BuyOrders, SubmitTask(id) PROVE FlatInv'
  <2>1. PICK pc \in {"posted", "done"} : id \in DOMAIN task /\ InFlight(id) /\ task' = [task EXCEPT ![id].pc = pc]
    BY <1>3 DEF SubmitTask, PrepareFails, Post, AnswerRefuses, AnswerConfirms, AnswerFails, Outcome, Posted, InFlight
  <2>2. UNCHANGED <<owned_by_token, trades, fills>>
    BY <1>3 DEF SubmitTask, PrepareFails, Post, AnswerRefuses, AnswerConfirms, AnswerFails, Outcome,
                record_buy_submit_outcome, release_claim, mark_submit_accepted, mark_submit_unknown,
                inventoryVars, venueVars
  <2>3. \A i \in DOMAIN task : /\ task'[i].token = task[i].token /\ task'[i].since = task[i].since
                               /\ i # id => task'[i] = task[i]
    <3>1. \A i \in DOMAIN task : task[i] \in Task
      BY DEF EntryInv, TasksType
    <3>2. QED
      BY <2>1, <3>1 DEF Task
  <2>4. \A i \in BuyOrders : Waits(i)' => /\ Waits(i) /\ task'[i].token = task[i].token
                                          /\ task'[i].since = task[i].since
    BY <2>1, <2>2, <2>3 DEF Waits, InFlight
  <2>5. \A o : BuyOver(o)' <=> BuyOver(o)
    BY <2>2 DEF BuyOver
  <2>6. QED
    BY <2>2, <2>4, <2>5, FlatKept
<1>4. CASE SettleTrade
  <2>1. PICK o \in DOMAIN fills, status \in Interim \cup {"CONFIRMED", "FAILED"} :
                fills' = [fills EXCEPT ![o].status = status]
    BY <1>4 DEF SettleTrade, Settle
  <2>2. UNCHANGED <<task, owned_by_token, trades>>
    BY <1>4 DEF SettleTrade, Settle, inventoryVars, flowVars
  <2>3. \A f \in DOMAIN fills : fills[f] \in FillRecord
    BY DEF EntryInv, VenueInv, FillsType
  <2>4. DOMAIN fills' = DOMAIN fills /\ \A f \in DOMAIN fills : fills'[f].token = fills[f].token
    BY <2>1, <2>3 DEF FillRecord
  <2>5. (\A id : Waits(id)' <=> Waits(id)) /\ (\A f : BuyOver(f)' <=> BuyOver(f))
    BY <2>2, <2>4 DEF Waits, InFlight, BuyOver
  <2>6. QED
    BY <2>2, <2>4, <2>5, FlatKept
<1>5. CASE RotateMarket
  <2>1. /\ UNCHANGED <<task, trades, fills>> /\ owned_by_token' = OwnedInScope(Markets[market + 1])
    BY <1>5 DEF RotateMarket, release_market_scope, venueVars
  <2>2. (\A id : Waits(id)' <=> Waits(id)) /\ (\A o : BuyOver(o)' <=> BuyOver(o))
    BY <2>1 DEF Waits, InFlight, BuyOver
  <2>3. \A id \in BuyOrders : Waits(id) => task[id].token \in Tokens
    BY DEF Waits, EntryInv, TasksType, Task
  <2>4. \A token \in Tokens : owned_by_token[token] < QUANTUM => owned_by_token'[token] < QUANTUM
    BY <2>1, QuantumIsPositive DEF OwnedInScope
  <2>5. QED
    BY <2>1, <2>2, <2>3, <2>4, FlatKept
<1>6. ASSUME NEW id \in BuyOrders, TaskPanics(id) PROVE FlatInv'
  BY <1>6 DEF CleanRun, TaskPanics
<1>7. CASE RepeatEvent \/ ChannelUp \/ ChannelDown \/ FrameRefused
  BY <1>1, <1>7 DEF RepeatEvent, Repeat, ChannelUp, Connect, ChannelDown, Disconnect, FrameRefused,
                    MalformedFrame, set_user_wss_trusted, inventoryVars, venueVars, flowVars
<1>8. CASE Maintain \/ Tick \/ UNCHANGED vars
  BY <1>1, <1>8 DEF Maintain, Tick, vars, inventoryVars, venueVars, flowVars
<1>9. QED
  BY <1>2, <1>3, <1>4, <1>5, <1>6, <1>7, <1>8, ClaimKeepsFlat, ExecuteKeepsFlat, DeliverKeepsFlat DEF FlowNext

-----------------------------------------------------------------------------
(* Bot's steps are steps of ExitFlow.                                      *)
(* A BUY executes as ExitFlow lets it: its token is flat and was of a      *)
(* market that has begun, the channel is up, and the request in time.      *)
LEMMA ExecuteIsBuy ==
  ASSUME EntryInv, FlatInv, NEW id \in BuyOrders, NEW price \in Ticks, BuyExecutes(id, price)
  PROVE  \E token \in Tokens : Exit!BuyFills(token, price)
<1> DEFINE token == task[id].token
<1>1. /\ Waits(id) /\ Fill(id, token, "BUY", FillSize) /\ id \in DOMAIN task
      /\ UNCHANGED <<now, market, trading_active, quotes, exit_trackers, exits, sells>>
      /\ paid' = [o \in DOMAIN paid \cup {id} |-> IF o = id THEN price ELSE paid[o]]
  BY DEF BuyExecutes, Execute, Waits, InFlight, EntryInv, OrdersOfTasks
<1>2. token \in Tokens /\ task[id].since \in Nat /\ \E m \in 1..market : token \in Markets[m]
  BY <1>1 DEF EntryInv, TasksType, Task
<1>3. now <= LastClaim + REQUEST_TIMEOUT
  <2>1. now - task[id].since <= REQUEST_TIMEOUT /\ task[id].since <= LastClaim
    BY <1>1 DEF EntryInv, InTime, FlatInv, Waits
  <2>2. now \in Nat /\ LastClaim \in Nat /\ REQUEST_TIMEOUT \in Nat
    BY EntryAssumptions, BoundsAssumption DEF EntryInv, TasksType
  <2>3. QED
    BY <1>2, <2>1, <2>2
<1>4. \E m \in 1..market : token \in Exit!TokensOf(Books[m])
  <2>1. PICK m \in 1..market : token \in Markets[m]
    BY <1>2
  <2>2. m \in DOMAIN Markets
    BY <2>1, MarketsAssumption DEF EntryInv, TasksType
  <2>3. Markets[m] = Exit!TokensOf(Books[m])
    BY <2>2, MarketsOfBooks
  <2>4. QED
    BY <2>1, <2>3
<1> HIDE DEF token
<1>5. user_wss_trusted /\ owned_by_token[token] < QUANTUM
  BY <1>1 DEF FlatInv, token
<1>6. ~Exit!OpenBuy(token)
  <2>1. Exit!BuyOrders = BuyOrders
    BY DEF Exit!BuyOrders, BuyOrders
  <2>2. \A o \in BuyOrders \cap DOMAIN fills : fills[o].token = token => BuyOver(o)
    BY <1>1 DEF FlatInv, token
  <2>3. QED
    BY <2>1, <2>2 DEF Exit!OpenBuy, BuyOver
<1>7. id \in Exit!BuyOrders \ DOMAIN fills
  BY <1>1 DEF Waits, Exit!BuyOrders, BuyOrders
<1>8. Exit!Fill(id, token, "BUY", FillSize)
  BY <1>1 DEF Exit!Fill, Fill, Exit!Sent, Sent, Exit!inventoryVars, inventoryVars
<1>9. Exit!BuyFills(token, price)
  BY <1>1, <1>3, <1>4, <1>5, <1>6, <1>7, <1>8 DEF Exit!BuyFills
<1>10. QED
  BY <1>2, <1>9

LEMMA BotStepsExit ==
  ASSUME EntryInv, FlatInv, [BotNext]_botVars
  PROVE  [Exit!ExitNext]_(Exit!vars)
<1> USE DEF Exit!vars, Exit!inventoryVars, Exit!venueVars, Exit!exitVars
<1>1. ASSUME NEW token \in Tokens, Entry(token) PROVE UNCHANGED Exit!vars
  BY <1>1 DEF Entry, BinanceTick, claim_entry, venueVars, exitVars
<1>2. ASSUME NEW id \in BuyOrders, Submit(id) PROVE UNCHANGED Exit!vars
  BY <1>2 DEF Submit, SubmitTask, PrepareFails, Post, AnswerRefuses, AnswerConfirms, AnswerFails, Outcome,
              record_buy_submit_outcome, release_claim, mark_submit_accepted, mark_submit_unknown,
              inventoryVars, venueVars, exitVars
<1>3. ASSUME NEW id \in BuyOrders, NEW price \in Ticks, BuyExecutes(id, price) PROVE Exit!ExitNext
  BY <1>3, ExecuteIsBuy DEF Exit!ExitNext
<1>4. CASE Expiry
  BY <1>4 DEF Expiry, Maintain, venueVars, flowVars, exitVars
<1>5. CASE Rotation \/ Clock
  BY <1>5 DEF Rotation, Clock, Exit!ExitNext
<1>6. CASE ExitTask \/ MarketFeed
  BY <1>6 DEF ExitTask, MarketFeed, Exit!ExitNext
<1>7. ASSUME NEW r \in Exit!Requests, SellFills(r) \/ SellKilled(r) PROVE Exit!ExitNext
  BY <1>7 DEF SellFills, SellKilled, Exit!ExitNext
<1>8. CASE UserTradeArrives \/ Channel
  BY <1>8 DEF UserTradeArrives, Channel, Exit!ExitNext
<1>9. CASE UNCHANGED botVars
  BY <1>9 DEF botVars, vars, inventoryVars, venueVars, flowVars, exitVars
<1>10. QED
  BY <1>1, <1>2, <1>3, <1>4, <1>5, <1>6, <1>7, <1>8, <1>9 DEF BotNext

(* The entry side gives ExitFlow only the BUYs it assumes: what is proved  *)
(* of ExitFlow holds of the whole process.  A SELL that fails after it     *)
(* matched brings shares back under a BUY that waits; without one, the     *)
(* claim keeps the token flat until the BUY executes.                      *)
THEOREM BotImplementsExitFlow ==
  ASSUME CleanRun, MarketsDisjoint, "SELL" \notin MayFail
  PROVE  BotSpec => ImplementsExitFlow
<1>1. BotInit => EntryInv /\ FlatInv /\ Exit!ExitInit
  BY EntryStart, FlatStart DEF BotInit
<1>2. BotInv /\ EntryInv /\ FlatInv /\ [BotNext]_botVars => EntryInv' /\ FlatInv'
  BY BotStepsEntry, EntryStep, FlatStep
<1>3. EntryInv /\ FlatInv /\ [BotNext]_botVars => [Exit!ExitNext]_(Exit!vars)
  BY BotStepsExit
<1>4. QED
  BY <1>1, <1>2, <1>3, BotInvariant, PTL DEF BotSpec, Exit!ExitSpec, ImplementsExitFlow

=============================================================================
