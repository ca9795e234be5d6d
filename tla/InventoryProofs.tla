--------------------------- MODULE InventoryProofs ---------------------------
(***************************************************************************)
(* What holds of Inventory for every choice of tokens, trades, orders,     *)
(* sizes and timestamps; what the venue and the user channel add for either*)
(* flow that is built on them; and last, what a sum over fills adds up to. *)
(***************************************************************************)
EXTENDS UserChannel, FiniteSetTheorems, WellFoundedInduction, TLAPS

(* Both operands of a balance update stay within the width of a balance.   *)
LEMMA DeltaType ==
  ASSUME NEW balance \in 0..I64_MAX, NEW side \in OrderSide, NEW size \in Sizes
  PROVE  apply_inventory_delta(balance, side, size) \in 0..I64_MAX
BY SizesAssumption, WidthAssumption DEF apply_inventory_delta, OrderSide

(* A reversal undoes a trade by a trade of the other side.                 *)
LEMMA OppositeType ==
  ASSUME NEW side \in OrderSide
  PROVE  Opposite(side) \in OrderSide
BY DEF Opposite, OrderSide

(* The record of a trade, before and after the event, is a trade record.   *)
LEMMA RecordType ==
  ASSUME TypeOK, NEW trade \in UserTrade
  PROVE  Record(trade) \in TradeRecord
BY DEF TypeOK, UserTrade, TradeRecord, Record

(* What an event leaves of its trade is a trade record again.              *)
LEMMA RecordAfterType ==
  ASSUME TypeOK, NEW trade \in UserTrade
  PROVE  RecordAfter(trade) \in TradeRecord
<1>1. Record(trade) \in TradeRecord
  BY RecordType
<1>2. /\ (Record(trade).applied \/ Applies(trade)) \in BOOLEAN
      /\ (Record(trade).finalized \/ terminal(trade.status)) \in BOOLEAN
  OBVIOUS
<1> QED
  BY <1>1, <1>2, Zenon DEF RecordAfter, TradeRecord

(* Whatever a trade event applies or reverses, every balance keeps its     *)
(* width: the clamp at 0 and the cap hold for the reversal too.            *)
LEMMA OwnedAfterType ==
  ASSUME TypeOK, NEW trade \in UserTrade
  PROVE  OwnedAfter(trade) \in [Tokens -> 0..I64_MAX]
<1> DEFINE r == Record(trade)
<1>1. r.token \in Tokens /\ r.side \in OrderSide /\ r.size_atoms \in Sizes
  BY RecordType DEF TradeRecord
<1>2. owned_by_token \in [Tokens -> 0..I64_MAX]
  BY DEF TypeOK
<1>3. apply_inventory_delta(owned_by_token[r.token], r.side, r.size_atoms) \in 0..I64_MAX
  BY <1>1, <1>2, DeltaType
<1>4. apply_inventory_delta(owned_by_token[r.token], Opposite(r.side), r.size_atoms)
        \in 0..I64_MAX
  BY <1>1, <1>2, DeltaType, OppositeType
<1> QED
  BY <1>1, <1>2, <1>3, <1>4 DEF OwnedAfter

(* What each update of the claims leaves: a map of claims on some of the   *)
(* ids it had.                                                             *)
IsClaimMap(p, n) ==
  /\ DOMAIN p \subseteq 1..n
  /\ p \in [DOMAIN p -> PendingSubmit]

(* The venue's acceptance changes a claim in place and adds none: a late   *)
(* answer for an id already gone changes nothing.                          *)
LEMMA AcceptType ==
  ASSUME NEW n \in Nat, NEW p, IsClaimMap(p, n), NEW id,
         NEW order_id \in OrderIds, NEW now_ts_us \in Stamps
  PROVE  /\ IsClaimMap(Accepted(p, id, order_id, now_ts_us), n)
         /\ DOMAIN Accepted(p, id, order_id, now_ts_us) = DOMAIN p
<1>1. CASE id \notin DOMAIN p
  BY <1>1 DEF Accepted
<1>2. CASE id \in DOMAIN p
  <2>1. p[id] \in PendingSubmit
    BY <1>2 DEF IsClaimMap
  <2>2. [p[id] EXCEPT !.order_id = order_id, !.status = "Accepted",
                      !.updated_ts_us = now_ts_us] \in PendingSubmit
    BY <2>1 DEF PendingSubmit, SubmitStatus
  <2> QED
    BY <1>2, <2>2 DEF IsClaimMap, Accepted
<1> QED
  BY <1>1, <1>2

(* A submit of unknown outcome changes a claim in place and adds none.     *)
LEMMA UnknownType ==
  ASSUME NEW n \in Nat, NEW p, IsClaimMap(p, n), NEW id, NEW now_ts_us \in Stamps
  PROVE  /\ IsClaimMap(MarkedUnknown(p, id, now_ts_us), n)
         /\ DOMAIN MarkedUnknown(p, id, now_ts_us) = DOMAIN p
<1>1. CASE id \notin DOMAIN p
  BY <1>1 DEF MarkedUnknown
<1>2. CASE id \in DOMAIN p
  <2>1. p[id] \in PendingSubmit
    BY <1>2 DEF IsClaimMap
  <2>2. [p[id] EXCEPT !.status = "Unknown", !.updated_ts_us = now_ts_us] \in PendingSubmit
    BY <2>1 DEF PendingSubmit, SubmitStatus
  <2> QED
    BY <1>2, <2>2 DEF IsClaimMap, MarkedUnknown
<1> QED
  BY <1>1, <1>2

(* Releasing claims, one by one or by market, leaves a map of claims.      *)
LEMMA ShrinkType ==
  ASSUME NEW n \in Nat, NEW p, IsClaimMap(p, n), NEW S, S \subseteq DOMAIN p
  PROVE  IsClaimMap(Restrict(p, S), n) /\ DOMAIN Restrict(p, S) = S
BY DEF IsClaimMap, Restrict

(* Neither expiry adds a claim, whatever the cutoff; the one of unknown    *)
(* outcomes removes none either.                                           *)
LEMMA ExpireType ==
  ASSUME NEW n \in Nat, NEW p, IsClaimMap(p, n), NEW cutoff
  PROVE  /\ IsClaimMap(UnknownsExpired(p, cutoff), n)
         /\ DOMAIN UnknownsExpired(p, cutoff) = DOMAIN p
         /\ IsClaimMap(PendingExpired(p, cutoff), n)
         /\ DOMAIN PendingExpired(p, cutoff) \subseteq DOMAIN p
<1>1. /\ IsClaimMap(UnknownsExpired(p, cutoff), n)
      /\ DOMAIN UnknownsExpired(p, cutoff) = DOMAIN p
  BY DEF IsClaimMap, UnknownsExpired, PendingSubmit, SubmitStatus
<1>2. /\ IsClaimMap(PendingExpired(p, cutoff), n)
      /\ DOMAIN PendingExpired(p, cutoff) \subseteq DOMAIN p
  BY ShrinkType DEF PendingExpired
<1> QED
  BY <1>1, <1>2

(* A trade event binds or settles the claim it matches and adds none.      *)
LEMMA TradeClaimType ==
  ASSUME TypeOK, NEW trade \in UserTrade, NEW id \in match_pending_submit(trade)
  PROVE  /\ IsClaimMap(PendingAfter(trade, id), next_submit_id)
         /\ DOMAIN PendingAfter(trade, id) \subseteq DOMAIN pending
<1> DEFINE n == next_submit_id
<1>1. n \in Nat /\ IsClaimMap(pending, n)
  BY DEF TypeOK, IsClaimMap
<1>2. id \in DOMAIN pending
  BY DEF match_pending_submit, ByOrder, ByTokenSide
<1>3. CASE terminal(trade.status)
  BY <1>1, <1>3, ShrinkType DEF PendingAfter, Released
<1>4. CASE ~terminal(trade.status)
  <2>1. pending[id] \in PendingSubmit
    BY <1>1, <1>2 DEF IsClaimMap
  <2>2. Bind(pending[id], trade) \in PendingSubmit
    BY <2>1 DEF Bind, PendingSubmit, SubmitStatus, UserTrade
  <2>3. PendingAfter(trade, id) = [pending EXCEPT ![id] = Bind(pending[id], trade)]
    BY <1>4 DEF PendingAfter
  <2> QED
    BY <1>1, <1>2, <2>2, <2>3 DEF IsClaimMap
<1> QED
  BY <1>3, <1>4

-----------------------------------------------------------------------------
(* One call keeps the types and adds no claim but that of claim_entry.     *)
LEMMA NextType ==
  ASSUME TypeOK, [Next]_inventoryVars
  PROVE  /\ TypeOK'
         /\ DOMAIN pending' \subseteq DOMAIN pending \cup {next_submit_id + 1}
<1> DEFINE Goal == /\ TypeOK'
                   /\ DOMAIN pending' \subseteq DOMAIN pending \cup {next_submit_id + 1}
<1>0. next_submit_id \in Nat /\ IsClaimMap(pending, next_submit_id)
  BY DEF TypeOK, IsClaimMap
<1>1. ASSUME NEW trusted \in BOOLEAN, set_user_wss_trusted(trusted)
      PROVE  Goal
  BY <1>1 DEF set_user_wss_trusted, TypeOK
<1>2. ASSUME NEW token \in Tokens, NEW now_ts_us \in Stamps, claim_entry(token, "BUY", now_ts_us)
      PROVE  Goal
  <2> DEFINE claim == [token |-> token, side |-> "BUY", order_id |-> NoOrder,
                       status |-> "Pending", created_ts_us |-> now_ts_us,
                       updated_ts_us |-> now_ts_us]
  <2>1. next_submit_id' = next_submit_id + 1 /\ next_submit_id' \in 0..MaxSubmits
    BY <1>2, <1>0, BoundAssumption DEF claim_entry
  <2>2. claim \in PendingSubmit
    BY DEF PendingSubmit, OrderSide, SubmitStatus
  <2>3. IsClaimMap(pending', next_submit_id') /\ DOMAIN pending' = DOMAIN pending \cup {next_submit_id + 1}
    BY <1>0, <1>2, <2>1, <2>2 DEF claim_entry, IsClaimMap
  <2> QED
    BY <1>2, <2>1, <2>3 DEF claim_entry, TypeOK, IsClaimMap
<1>3. ASSUME NEW id \in 1..next_submit_id, NEW now_ts_us \in Stamps,
             NEW order_id \in OrderIds, mark_submit_accepted(id, order_id, now_ts_us)
      PROVE  Goal
  <2>1. IsClaimMap(pending', next_submit_id) /\ DOMAIN pending' = DOMAIN pending
    BY <1>0, <1>3, AcceptType DEF mark_submit_accepted
  <2> QED
    BY <1>3, <2>1 DEF mark_submit_accepted, TypeOK, IsClaimMap
<1>4. ASSUME NEW id \in 1..next_submit_id, NEW now_ts_us \in Stamps,
             mark_submit_unknown(id, now_ts_us)
      PROVE  Goal
  <2>1. IsClaimMap(pending', next_submit_id) /\ DOMAIN pending' = DOMAIN pending
    BY <1>0, <1>4, UnknownType DEF mark_submit_unknown
  <2> QED
    BY <1>4, <2>1 DEF mark_submit_unknown, TypeOK, IsClaimMap
<1>5. ASSUME NEW id \in 1..next_submit_id, release_claim(id)
      PROVE  Goal
  BY <1>0, <1>5, ShrinkType DEF release_claim, Released, TypeOK, IsClaimMap
<1>6. ASSUME NEW cutoff \in Stamps, expire_unknowns(cutoff) \/ expire_pending(cutoff)
      PROVE  Goal
  BY <1>0, <1>6, ExpireType DEF expire_unknowns, expire_pending, TypeOK, IsClaimMap
<1>7. ASSUME NEW trade \in UserTrade, apply_user_trade(trade)
      PROVE  Goal
  <2>1. IsClaimMap(pending', next_submit_id) /\ DOMAIN pending' \subseteq DOMAIN pending
    BY <1>0, <1>7, TradeClaimType DEF apply_user_trade
  <2>2. owned_by_token' \in [Tokens -> 0..I64_MAX]
    BY <1>7, OwnedAfterType DEF apply_user_trade
  <2>3. DOMAIN trades' \subseteq TradeIds /\ trades' \in [DOMAIN trades' -> TradeRecord]
    BY <1>7, RecordAfterType DEF apply_user_trade, TypeOK, UserTrade
  <2> QED
    BY <1>7, <2>1, <2>2, <2>3 DEF apply_user_trade, TypeOK, IsClaimMap
<1>8. ASSUME NEW active \in SUBSET Tokens, release_market_scope(active)
      PROVE  Goal
  <2>1. OwnedInScope(active) \in [Tokens -> 0..I64_MAX]
    BY WidthAssumption DEF OwnedInScope, TypeOK
  <2> QED
    BY <1>0, <1>8, <2>1, ShrinkType DEF release_market_scope, PendingInScope, TypeOK, IsClaimMap
<1>9. CASE UNCHANGED inventoryVars
  BY <1>9 DEF inventoryVars, TypeOK
<1> QED
  BY <1>1, <1>2, <1>3, <1>4, <1>5, <1>6, <1>7, <1>8, <1>9 DEF Next

-----------------------------------------------------------------------------
(* Nothing is held, claimed or recorded at the start.                      *)
LEMMA InitType == Init => TypeOK
<1> SUFFICES ASSUME Init PROVE TypeOK
  OBVIOUS
<1>1. DOMAIN trades = {} /\ trades \in [DOMAIN trades -> TradeRecord]
  BY DEF Init
<1>2. DOMAIN pending = {} /\ pending \in [DOMAIN pending -> PendingSubmit]
  BY DEF Init
<1>3. next_submit_id \in 0..MaxSubmits /\ owned_by_token \in [Tokens -> 0..I64_MAX]
  BY WidthAssumption, BoundAssumption DEF Init
<1> QED
  BY <1>1, <1>2, <1>3 DEF Init, TypeOK

(* Whatever the calls, the state keeps its types: no balance is negative   *)
(* or beyond its width, and every claim has an id already handed out.      *)
THEOREM TypeCorrect == Spec => []TypeOK
<1>1. Init => TypeOK
  BY InitType
<1>2. TypeOK /\ [Next]_inventoryVars => TypeOK'
  BY NextType
<1> QED
  BY <1>1, <1>2, PTL DEF Spec

(* A claim that was rejected, settled, expired or rotated away is never    *)
(* resurrected by an HTTP outcome that lands later.                        *)
THEOREM GoneClaims == Spec => GoneClaimsStayGone
<1>1. TypeOK /\ [Next]_inventoryVars =>
        [\A id \in 1..next_submit_id : id \notin DOMAIN pending => id \notin DOMAIN pending']_inventoryVars
  <2> SUFFICES ASSUME TypeOK, [Next]_inventoryVars,
                      NEW id \in 1..next_submit_id, id \notin DOMAIN pending
               PROVE  id \notin DOMAIN pending'
    OBVIOUS
  <2>1. DOMAIN pending' \subseteq DOMAIN pending \cup {next_submit_id + 1}
    BY NextType
  <2>2. id # next_submit_id + 1
    BY DEF TypeOK
  <2> QED
    BY <2>1, <2>2
<1> QED
  BY <1>1, TypeCorrect, PTL DEF Spec, GoneClaimsStayGone

-----------------------------------------------------------------------------
(* The ledger moves a balance as the inventory does.                       *)
LEMMA MovedIsDelta ==
  ASSUME NEW balance \in 0..I64_MAX, NEW side, NEW size \in Sizes
  PROVE  Ledger!Moved(balance, side, size) = apply_inventory_delta(balance, side, size)
BY SizesAssumption, WidthAssumption DEF Ledger!Moved, apply_inventory_delta

(* A trade event is one step of the ledger.                                *)
LEMMA TradeIsLedgerStep ==
  ASSUME TypeOK, NEW trade \in UserTrade, apply_user_trade(trade)
  PROVE  Ledger!Note(trade.trade_id) \/ Ledger!Count(trade.trade_id) \/ Ledger!Reverse(trade.trade_id)
<1> DEFINE tid == trade.trade_id
           r == Record(trade)
           entry == [t \in DOMAIN trades |->
                       [token |-> trades[t].token, side |-> trades[t].side,
                        size_atoms |-> trades[t].size_atoms]]
           counted == {t \in DOMAIN trades : trades[t].applied}
           closed == {t \in DOMAIN trades : trades[t].finalized}
<1>1. /\ DOMAIN trades' = DOMAIN trades \cup {tid}
      /\ trades'[tid] = RecordAfter(trade)
      /\ \A t \in DOMAIN trades : t # tid => trades'[t] = trades[t]
  BY DEF apply_user_trade
<1>2. r \in TradeRecord /\ RecordAfter(trade) \in TradeRecord
  BY RecordType, RecordAfterType
<1>3. /\ RecordAfter(trade).token = r.token
      /\ RecordAfter(trade).side = r.side
      /\ RecordAfter(trade).size_atoms = r.size_atoms
      /\ RecordAfter(trade).applied = (r.applied \/ Applies(trade))
      /\ RecordAfter(trade).finalized = (r.finalized \/ terminal(trade.status))
  BY <1>2 DEF RecordAfter, TradeRecord
<1>4. tid \in DOMAIN trades => r = trades[tid]
  BY DEF Record
<1>5. tid \notin DOMAIN trades => ~r.applied /\ ~r.finalized
  BY DEF Record
<1> HIDE DEF r
<1>6. Ledger!Entered(tid)
  <2> DEFINE e == [token |-> r.token, side |-> r.side, size_atoms |-> r.size_atoms]
  <2>1. CASE tid \in DOMAIN trades
    <3>1. DOMAIN trades' = DOMAIN trades
      BY <1>1, <2>1
    <3>2. entry' = entry
      BY <1>1, <1>3, <1>4, <2>1, <3>1
    <3> QED
      BY <2>1, <3>2 DEF Ledger!Entered
  <2>2. CASE tid \notin DOMAIN trades
    <3>1. e \in Ledger!Entry
      BY <1>2 DEF Ledger!Entry, TradeRecord, OrderSide
    <3>2. entry' = [t \in DOMAIN entry \cup {tid} |-> IF t = tid THEN e ELSE entry[t]]
      BY <1>1, <1>3, <2>2
    <3> QED
      BY <2>2, <3>1, <3>2 DEF Ledger!Entered
  <2> QED
    BY <2>1, <2>2
<1>7. counted' = IF Applies(trade) THEN counted \cup {tid} ELSE counted
  BY <1>1, <1>3, <1>4, <1>5
<1>8. closed' = IF terminal(trade.status) THEN closed \cup {tid} ELSE closed
  BY <1>1, <1>3, <1>4, <1>5
<1>9. Ledger!MayClose(tid)
  BY <1>8 DEF Ledger!MayClose
<1>10. /\ owned_by_token' = OwnedAfter(trade)
       /\ owned_by_token \in [Tokens -> 0..I64_MAX]
  BY DEF apply_user_trade, TypeOK
<1>11. CASE Applies(trade)
  <2>1. tid \notin counted
    BY <1>4, <1>11 DEF Applies, r
  <2>2. /\ entry'[tid].token = r.token
        /\ entry'[tid].side = r.side
        /\ entry'[tid].size_atoms = r.size_atoms
    BY <1>1, <1>3
  <2>3. owned_by_token' = [owned_by_token EXCEPT ![r.token] =
                             Ledger!Moved(owned_by_token[r.token], r.side, r.size_atoms)]
    BY <1>2, <1>10, <1>11, MovedIsDelta DEF OwnedAfter, TradeRecord, r
  <2>4. Ledger!Count(tid)
    BY <1>6, <1>7, <1>9, <1>11, <2>1, <2>2, <2>3 DEF Ledger!Count
  <2> QED
    BY <2>4
<1>12. CASE ~Applies(trade) /\ Reverses(trade)
  <2>1. tid \in DOMAIN trades /\ tid \in counted \ closed
    BY <1>4, <1>5, <1>12 DEF Reverses, r
  <2>2. /\ entry[tid].token = r.token
        /\ entry[tid].side = r.side
        /\ entry[tid].size_atoms = r.size_atoms
    BY <1>4, <2>1
  <2>3. owned_by_token' = [owned_by_token EXCEPT ![r.token] =
                             Ledger!Moved(owned_by_token[r.token], Opposite(r.side), r.size_atoms)]
    BY <1>2, <1>10, <1>12, MovedIsDelta DEF OwnedAfter, TradeRecord, r
  <2>4. Ledger!Opposite(r.side) = Opposite(r.side)
    BY DEF Ledger!Opposite, Opposite
  <2>5. closed' = closed \cup {tid}
    BY <1>8, <1>12 DEF Reverses, terminal
  <2>6. entry' = entry
    BY <1>6, <2>1 DEF Ledger!Entered
  <2>7. Ledger!Reverse(tid)
    BY <1>7, <1>12, <2>1, <2>2, <2>3, <2>4, <2>5, <2>6 DEF Ledger!Reverse
  <2> QED
    BY <2>7
<1>13. CASE ~Applies(trade) /\ ~Reverses(trade)
  <2>1. owned_by_token' = owned_by_token
    BY <1>10, <1>13 DEF OwnedAfter
  <2>2. Ledger!Note(tid)
    BY <1>6, <1>7, <1>9, <1>13, <2>1 DEF Ledger!Note
  <2> QED
    BY <2>2
<1> QED
  BY <1>11, <1>12, <1>13

(* Every call is a step of the ledger or leaves it alone.                  *)
LEMMA InventoryStepsLedger ==
  ASSUME TypeOK, [Next]_inventoryVars
  PROVE  [Ledger!Next]_(Ledger!vars)
<1>1. CASE UNCHANGED <<owned_by_token, trades>>
  BY <1>1 DEF Ledger!vars
<1>2. ASSUME NEW trade \in UserTrade, apply_user_trade(trade)
      PROVE  Ledger!Next
  BY <1>2, TradeIsLedgerStep DEF Ledger!Next, UserTrade
<1>3. ASSUME NEW active \in SUBSET Tokens, release_market_scope(active)
      PROVE  Ledger!Next
  BY <1>3 DEF release_market_scope, OwnedInScope, Ledger!Next, Ledger!Forget
<1> QED
  BY <1>1, <1>2, <1>3
  DEF Next, inventoryVars, set_user_wss_trusted, claim_entry, mark_submit_accepted,
      mark_submit_unknown, release_claim, expire_unknowns, expire_pending

(* The inventory implements the trade ledger: whatever the channel         *)
(* repeats, reorders or drops, a trade is counted at most once, reversed   *)
(* at most once and only after it was counted, and nothing but a rotation  *)
(* moves a balance otherwise.                                              *)
THEOREM InventoryImplementsLedger == Spec => ImplementsTradeLedger
<1>1. Init => Ledger!Init
  BY DEF Init, Ledger!Init
<1>2. TypeOK /\ [Next]_inventoryVars => [Ledger!Next]_(Ledger!vars)
  BY InventoryStepsLedger
<1> QED
  BY <1>1, <1>2, TypeCorrect, PTL DEF Spec, Ledger!Spec, ImplementsTradeLedger

-----------------------------------------------------------------------------
(* Venue and channel, for any orders, losses and repetitions: an event on  *)
(* the channel and a record of the inventory are of a fill of the venue,   *)
(* and only a side that may fail has failed (VenueInv).                    *)
FillRecord == [token : Tokens, side : OrderSide, size_atoms : Nat, status : TradeStatus]
Counted ==
  [token : Tokens, side : OrderSide, size_atoms : Nat, applied : BOOLEAN, finalized : BOOLEAN]
Notice == [order : OrderIds, status : TradeStatus]

FillsType ==
  /\ DOMAIN fills \subseteq OrderIds
  /\ \A o \in DOMAIN fills : /\ fills[o] \in FillRecord
                             /\ fills[o].status = "FAILED" => fills[o].side \in MayFail

ChannelOfFills ==
  /\ channel \in Seq(Notice)
  /\ \A i \in DOMAIN channel :
       /\ channel[i].order \in DOMAIN fills
       /\ channel[i].status = "FAILED" => fills[channel[i].order].side \in MayFail

TradesOfFills ==
  \A tid \in DOMAIN trades :
    /\ tid \in DOMAIN fills /\ trades[tid] \in Counted
    /\ trades[tid].side = fills[tid].side /\ trades[tid].token = fills[tid].token

VenueInv ==
  /\ owned_by_token \in [Tokens -> Nat]
  /\ FillsType /\ ChannelOfFills /\ TradesOfFills

LEMMA QuantumIsPositive == QUANTUM \in Nat /\ QUANTUM > 0
BY QuantumAssumption

-----------------------------------------------------------------------------
(* What the venue sends of a fill is of that fill.                         *)
LEMMA SentIsOfFill ==
  ASSUME ChannelOfFills, NEW o \in OrderIds, NEW status \in TradeStatus,
         channel' = Sent(o, status), o \in DOMAIN fills', DOMAIN fills \subseteq DOMAIN fills',
         \A f \in DOMAIN fills : fills'[f].side = fills[f].side,
         status = "FAILED" => fills'[o].side \in MayFail
  PROVE  ChannelOfFills'
<1> DEFINE notice == [order |-> o, status |-> status]
<1>1. notice \in Notice /\ notice.order = o /\ notice.status = status
  BY DEF Notice
<1>2. CASE channel' = channel
  BY <1>2 DEF ChannelOfFills
<1>3. CASE channel' = Append(channel, notice)
  <2>1. channel' \in Seq(Notice)
    BY <1>1, <1>3 DEF ChannelOfFills
  <2> HIDE DEF notice
  <2>2. \A i \in DOMAIN channel' :
          channel'[i] = notice \/ (i \in DOMAIN channel /\ channel'[i] = channel[i])
    BY <1>1, <1>3 DEF ChannelOfFills
  <2>3. QED
    BY <1>1, <2>1, <2>2 DEF ChannelOfFills
<1>4. QED
  BY <1>2, <1>3 DEF Sent

(* A new order fills.                                                      *)
LEMMA FillKeepsVenue ==
  ASSUME VenueInv, NEW o \in OrderIds, o \notin DOMAIN fills, NEW token \in Tokens,
         NEW side \in OrderSide, NEW size \in Nat, Fill(o, token, side, size)
  PROVE  VenueInv'
<1> DEFINE fill == [token |-> token, side |-> side, size_atoms |-> size, status |-> "MATCHED"]
<1>1. /\ DOMAIN fills' = DOMAIN fills \cup {o} /\ fills'[o] = fill
      /\ \A f \in DOMAIN fills : fills'[f] = fills[f]
      /\ channel' = Sent(o, "MATCHED") /\ UNCHANGED <<owned_by_token, trades>>
  BY DEF Fill, inventoryVars
<1>2. fill \in FillRecord /\ fill.status # "FAILED"
  BY DEF FillRecord, TradeStatus
<1> HIDE DEF fill
<1>3. FillsType'
  BY <1>1, <1>2 DEF VenueInv, FillsType
<1>4. ChannelOfFills'
  <2>1. "MATCHED" \in TradeStatus
    BY DEF TradeStatus
  <2>2. QED
    BY <1>1, <2>1, SentIsOfFill DEF VenueInv
<1>5. TradesOfFills'
  BY <1>1 DEF VenueInv, TradesOfFills
<1>6. QED
  BY <1>1, <1>3, <1>4, <1>5 DEF VenueInv

(* A trade settles, and only a side that may fail does.                    *)
LEMMA SettleKeepsVenue ==
  ASSUME VenueInv, NEW o \in DOMAIN fills, NEW status \in Interim \cup {"CONFIRMED", "FAILED"},
         Settle(o, status)
  PROVE  VenueInv'
<1>1. /\ fills' = [fills EXCEPT ![o].status = status] /\ channel' = Sent(o, status)
      /\ UNCHANGED <<owned_by_token, trades>>
  BY DEF Settle, inventoryVars
<1>2. status \in TradeStatus /\ (status = "FAILED" => fills[o].side \in MayFail)
  BY InterimAssumption DEF Settle, TradeStatus
<1>3. /\ DOMAIN fills' = DOMAIN fills /\ o \in OrderIds
      /\ \A f \in DOMAIN fills : /\ fills'[f] \in FillRecord /\ fills'[f].side = fills[f].side
                                 /\ fills'[f].status = IF f = o THEN status ELSE fills[f].status
  BY <1>1, <1>2 DEF VenueInv, FillsType, FillRecord
<1>4. FillsType'
  BY <1>2, <1>3 DEF VenueInv, FillsType
<1>5. ChannelOfFills'
  BY <1>1, <1>2, <1>3, SentIsOfFill DEF VenueInv
<1>6. TradesOfFills'
  BY <1>1, <1>3 DEF VenueInv, TradesOfFills
<1>7. QED
  BY <1>1, <1>4, <1>5, <1>6 DEF VenueInv

LEMMA RepeatKeepsVenue ==
  ASSUME VenueInv, NEW o \in DOMAIN fills, Repeat(o)
  PROVE  VenueInv'
<1>1. channel' = Sent(o, fills[o].status) /\ UNCHANGED <<fills, owned_by_token, trades>>
  BY DEF Repeat, inventoryVars
<1>2. /\ o \in OrderIds /\ fills[o].status \in TradeStatus
      /\ fills[o].status = "FAILED" => fills[o].side \in MayFail
  BY DEF VenueInv, FillsType, FillRecord
<1>3. ChannelOfFills'
  BY <1>1, <1>2, SentIsOfFill DEF VenueInv
<1>4. QED
  BY <1>1, <1>3 DEF VenueInv, FillsType, TradesOfFills

(* The channel comes up, or goes down with what was on it.                 *)
LEMMA ConnectionKeepsVenue ==
  ASSUME VenueInv, Connect \/ Disconnect
  PROVE  VenueInv'
<1>1. UNCHANGED <<fills, owned_by_token, trades>> /\ (channel' = channel \/ channel' = <<>>)
  BY DEF Connect, Disconnect, set_user_wss_trusted, venueVars
<1>2. <<>> \in Seq(Notice) /\ DOMAIN <<>> = {}
  OBVIOUS
<1>3. ChannelOfFills'
  BY <1>1, <1>2 DEF VenueInv, ChannelOfFills
<1>4. QED
  BY <1>1, <1>3 DEF VenueInv, FillsType, TradesOfFills

(* What is dropped of a frame was of fills, like the rest.                 *)
LEMMA RefusalKeepsVenue ==
  ASSUME VenueInv, MalformedFrame
  PROVE  VenueInv'
<1>1. channel # <<>> /\ channel' = Tail(channel) /\ UNCHANGED <<fills, owned_by_token, trades>>
  BY DEF MalformedFrame, inventoryVars
<1>2. ChannelOfFills'
  <2>1. /\ channel \in Seq(Notice) /\ channel' \in Seq(Notice) /\ Len(channel) \in Nat
        /\ DOMAIN channel = 1..Len(channel) /\ DOMAIN channel' = 1..(Len(channel) - 1)
        /\ \A i \in DOMAIN channel' : channel'[i] = channel[i + 1]
    BY <1>1 DEF VenueInv, ChannelOfFills
  <2>2. \A i \in DOMAIN channel' : i + 1 \in DOMAIN channel
    BY <2>1
  <2>3. QED
    BY <1>1, <2>1, <2>2 DEF VenueInv, ChannelOfFills
<1>3. QED
  BY <1>1, <1>2 DEF VenueInv, FillsType, TradesOfFills

LEMMA ScopeKeepsVenue ==
  ASSUME VenueInv, NEW active, release_market_scope(active), UNCHANGED venueVars
  PROVE  VenueInv'
<1>1. UNCHANGED <<fills, channel, trades>> /\ owned_by_token' = OwnedInScope(active)
  BY DEF release_market_scope, venueVars
<1>2. owned_by_token' \in [Tokens -> Nat]
  BY <1>1 DEF VenueInv, OwnedInScope
<1>3. QED
  BY <1>1, <1>2 DEF VenueInv, FillsType, ChannelOfFills, TradesOfFills

(* The event at the head of the channel, as apply_user_trade gets it.      *)
Arriving(ts_us) == Event(Head(channel), ts_us)

LEMMA ArrivingIsOfFill ==
  ASSUME VenueInv, channel # <<>>, NEW ts_us
  PROVE  /\ Arriving(ts_us).trade_id \in DOMAIN fills /\ Arriving(ts_us).token \in Tokens
         /\ Arriving(ts_us).side = fills[Arriving(ts_us).trade_id].side /\ Arriving(ts_us).size_atoms \in Nat
         /\ Arriving(ts_us).status = "FAILED" => Arriving(ts_us).side \in MayFail
         /\ Record(Arriving(ts_us)) \in Counted /\ Record(Arriving(ts_us)).side = Arriving(ts_us).side
         /\ Record(Arriving(ts_us)).token = Arriving(ts_us).token
         /\ Arriving(ts_us).token = fills[Arriving(ts_us).trade_id].token
<1> DEFINE e == Head(channel)
<1>1. e \in Notice /\ e.order \in DOMAIN fills /\ (e.status = "FAILED" => fills[e.order].side \in MayFail)
  <2>1. 1 \in DOMAIN channel /\ e = channel[1]
    BY DEF VenueInv, ChannelOfFills
  <2>2. e \in Notice
    BY <2>1 DEF VenueInv, ChannelOfFills
  <2> HIDE DEF e
  <2>3. QED
    BY <2>1, <2>2 DEF VenueInv, ChannelOfFills
<1>2. fills[e.order] \in FillRecord
  BY <1>1 DEF VenueInv, FillsType
<1>3. /\ Arriving(ts_us).trade_id = e.order /\ Arriving(ts_us).token = fills[e.order].token
      /\ Arriving(ts_us).side = fills[e.order].side /\ Arriving(ts_us).size_atoms = fills[e.order].size_atoms
      /\ Arriving(ts_us).status = e.status
  BY DEF Arriving, Event
<1> HIDE DEF e
<1>4. Arriving(ts_us).token \in Tokens /\ Arriving(ts_us).side \in OrderSide /\ Arriving(ts_us).size_atoms \in Nat
  BY <1>2, <1>3 DEF FillRecord
<1>5. /\ Record(Arriving(ts_us)) \in Counted /\ Record(Arriving(ts_us)).side = Arriving(ts_us).side
      /\ Record(Arriving(ts_us)).token = Arriving(ts_us).token
  <2>1. CASE Arriving(ts_us).trade_id \in DOMAIN trades
    BY <1>3, <2>1 DEF Record, VenueInv, TradesOfFills
  <2>2. CASE Arriving(ts_us).trade_id \notin DOMAIN trades
    BY <1>4, <2>2 DEF Record, Counted
  <2>3. QED
    BY <2>1, <2>2
<1>6. QED
  BY <1>1, <1>3, <1>4, <1>5

(* Where every natural is a size and a timestamp, so that the types of     *)
(* Inventory ask no more of an event than the venue sends, the event read  *)
(* is one that Inventory takes.                                            *)
EveryValue == Sizes = Nat /\ Nat \subseteq Stamps

LEMMA ArrivingType ==
  ASSUME EveryValue, VenueInv, channel # <<>>, DOMAIN fills \subseteq TradeIds, NEW ts_us \in Nat
  PROVE  Arriving(ts_us) \in UserTrade
<1> DEFINE e == Head(channel)
<1>1. e \in Notice /\ e.order \in DOMAIN fills
  <2>1. 1 \in DOMAIN channel /\ e = channel[1] /\ channel[1] \in Notice
    BY DEF VenueInv, ChannelOfFills
  <2> HIDE DEF e
  <2>2. QED
    BY <2>1 DEF VenueInv, ChannelOfFills
<1>2. fills[e.order] \in FillRecord
  BY <1>1 DEF VenueInv, FillsType
<1>3. Arriving(ts_us) = [trade_id |-> e.order, token |-> fills[e.order].token, taker_order_id |-> e.order,
                         side |-> fills[e.order].side, size_atoms |-> fills[e.order].size_atoms,
                         status |-> e.status, ts_us |-> ts_us]
  BY DEF Arriving, Event
<1> HIDE DEF e
<1>4. QED
  BY <1>1, <1>2, <1>3 DEF EveryValue, FillRecord, Notice, UserTrade

LEMMA ReadKeepsVenue ==
  ASSUME VenueInv, NEW ts_us, Read(ts_us)
  PROVE  VenueInv'
<1>1. /\ channel # <<>> /\ channel' = Tail(channel) /\ UNCHANGED fills
      /\ owned_by_token' = OwnedAfter(Arriving(ts_us))
      /\ trades' = [tid \in DOMAIN trades \cup {Arriving(ts_us).trade_id} |->
                      IF tid = Arriving(ts_us).trade_id THEN RecordAfter(Arriving(ts_us)) ELSE trades[tid]]
  BY DEF Read, apply_user_trade, Arriving
<1>2. /\ Arriving(ts_us).trade_id \in DOMAIN fills /\ Arriving(ts_us).side = fills[Arriving(ts_us).trade_id].side
      /\ Record(Arriving(ts_us)) \in Counted /\ Record(Arriving(ts_us)).side = Arriving(ts_us).side
      /\ Record(Arriving(ts_us)).token = fills[Arriving(ts_us).trade_id].token
  BY <1>1, ArrivingIsOfFill
<1>3. owned_by_token' \in [Tokens -> Nat]
  <2> DEFINE r == Record(Arriving(ts_us))
  <2>1. /\ r.token \in Tokens /\ r.side \in OrderSide /\ r.size_atoms \in Nat
        /\ owned_by_token \in [Tokens -> Nat]
    BY <1>2 DEF Counted, VenueInv
  <2>2. \A side \in OrderSide :
          apply_inventory_delta(owned_by_token[r.token], side, r.size_atoms) \in Nat
    BY <2>1, WidthAssumption DEF apply_inventory_delta, OrderSide
  <2>3. Opposite(r.side) \in OrderSide
    BY DEF Opposite, OrderSide
  <2>4. QED
    BY <1>1, <2>1, <2>2, <2>3 DEF OwnedAfter
<1>4. /\ RecordAfter(Arriving(ts_us)) \in Counted /\ RecordAfter(Arriving(ts_us)).side = Arriving(ts_us).side
      /\ RecordAfter(Arriving(ts_us)).token = Record(Arriving(ts_us)).token
  <2>1. /\ (Record(Arriving(ts_us)).applied \/ Applies(Arriving(ts_us))) \in BOOLEAN
        /\ (Record(Arriving(ts_us)).finalized \/ terminal(Arriving(ts_us).status)) \in BOOLEAN
    OBVIOUS
  <2>2. RecordAfter(Arriving(ts_us)) \in Counted
    BY <1>2, <2>1, Zenon DEF RecordAfter, Counted
  <2>3. QED
    BY <1>2, <2>2 DEF RecordAfter, Counted
<1>5. TradesOfFills'
  BY <1>1, <1>2, <1>4 DEF VenueInv, TradesOfFills
<1>6. ChannelOfFills'
  <2>1. /\ channel \in Seq(Notice) /\ channel' \in Seq(Notice) /\ Len(channel) \in Nat
        /\ DOMAIN channel = 1..Len(channel) /\ DOMAIN channel' = 1..(Len(channel) - 1)
        /\ \A i \in DOMAIN channel' : channel'[i] = channel[i + 1]
    BY <1>1 DEF VenueInv, ChannelOfFills
  <2>2. \A i \in DOMAIN channel' : i + 1 \in DOMAIN channel
    BY <2>1
  <2>3. QED
    BY <1>1, <2>1, <2>2 DEF VenueInv, ChannelOfFills
<1>7. QED
  BY <1>1, <1>3, <1>5, <1>6 DEF VenueInv, FillsType

(* Nothing of either moves.                                                *)
LEMMA VenueKept ==
  ASSUME VenueInv, UNCHANGED <<owned_by_token, trades, fills, channel>>
  PROVE  VenueInv'
BY DEF VenueInv, FillsType, ChannelOfFills, TradesOfFills

-----------------------------------------------------------------------------
(* A channel that repeats nothing: the end of a trade is the last event of *)
(* it that is sent, and no event of a trade that ended is still to be read.*)
EndsOnce ==
  /\ \A tid \in DOMAIN trades : trades[tid].finalized => terminal(fills[tid].status)
  /\ \A i \in DOMAIN channel :
       /\ ~(channel[i].order \in DOMAIN trades /\ trades[channel[i].order].finalized)
       /\ terminal(channel[i].status) =>
            /\ terminal(fills[channel[i].order].status)
            /\ \A j \in DOMAIN channel : j > i => channel[j].order # channel[i].order

(* Of a fill that has not ended, anything may be sent.                     *)
LEMMA SentKeepsOnce ==
  ASSUME VenueInv, EndsOnce, NEW o \in OrderIds, NEW status \in TradeStatus,
         channel' = Sent(o, status), UNCHANGED trades,
         ~(o \in DOMAIN fills /\ terminal(fills[o].status)),
         terminal(status) => terminal(fills'[o].status),
         \A f \in DOMAIN fills : terminal(fills[f].status) => terminal(fills'[f].status)
  PROVE  EndsOnce'
<1> DEFINE notice == [order |-> o, status |-> status]
<1>1. notice \in Notice /\ notice.order = o /\ notice.status = status
  BY DEF Notice
<1>2. ~(o \in DOMAIN trades /\ trades[o].finalized)
  BY DEF EndsOnce, VenueInv, TradesOfFills
<1>3. \A tid \in DOMAIN trades' : trades'[tid].finalized => terminal(fills'[tid].status)
  BY DEF EndsOnce, VenueInv, TradesOfFills
<1>4. \A i \in DOMAIN channel :
        terminal(channel[i].status) => /\ terminal(fills'[channel[i].order].status)
                                       /\ channel[i].order # o
  BY DEF EndsOnce, VenueInv, ChannelOfFills
<1> HIDE DEF notice
<1>5. CASE channel' = channel
  BY <1>3, <1>4, <1>5 DEF EndsOnce
<1>6. CASE channel' = Append(channel, notice)
  <2>1. /\ channel \in Seq(Notice) /\ Len(channel) \in Nat
        /\ DOMAIN channel = 1..Len(channel) /\ DOMAIN channel' = 1..(Len(channel) + 1)
        /\ channel'[Len(channel) + 1] = notice
        /\ \A i \in DOMAIN channel : channel'[i] = channel[i]
    BY <1>1, <1>6 DEF VenueInv, ChannelOfFills
  <2>2. ASSUME NEW i \in DOMAIN channel'
        PROVE  /\ ~(channel'[i].order \in DOMAIN trades /\ trades[channel'[i].order].finalized)
               /\ terminal(channel'[i].status) =>
                    /\ terminal(fills'[channel'[i].order].status)
                    /\ \A j \in DOMAIN channel' : j > i => channel'[j].order # channel'[i].order
    <3>1. CASE i = Len(channel) + 1
      BY <1>1, <1>2, <2>1, <3>1
    <3>2. CASE i \in DOMAIN channel
      <4>1. /\ channel'[i] = channel[i]
            /\ ~(channel[i].order \in DOMAIN trades /\ trades[channel[i].order].finalized)
        BY <2>1, <3>2 DEF EndsOnce
      <4>2. ASSUME terminal(channel[i].status), NEW j \in DOMAIN channel', j > i
            PROVE  channel'[j].order # channel[i].order
        <5>1. CASE j \in DOMAIN channel
          BY <2>1, <3>2, <4>2, <5>1 DEF EndsOnce
        <5>2. CASE j = Len(channel) + 1
          BY <1>1, <1>4, <2>1, <3>2, <4>2, <5>2
        <5>3. QED
          BY <2>1, <5>1, <5>2
      <4>3. QED
        BY <1>4, <3>2, <4>1, <4>2
    <3>3. QED
      BY <2>1, <3>1, <3>2
  <2>3. QED
    BY <1>3, <2>2 DEF EndsOnce
<1>7. QED
  BY <1>5, <1>6 DEF Sent, notice

LEMMA FillKeepsOnce ==
  ASSUME VenueInv, EndsOnce, NEW o \in OrderIds, o \notin DOMAIN fills, NEW token, NEW side, NEW size,
         Fill(o, token, side, size)
  PROVE  EndsOnce'
<1>1. /\ \A f \in DOMAIN fills : fills'[f] = fills[f]
      /\ channel' = Sent(o, "MATCHED") /\ UNCHANGED trades
  BY DEF Fill, inventoryVars
<1>2. "MATCHED" \in TradeStatus /\ ~terminal("MATCHED")
  BY DEF TradeStatus, terminal
<1>3. QED
  BY <1>1, <1>2, SentKeepsOnce

LEMMA SettleKeepsOnce ==
  ASSUME VenueInv, EndsOnce, NEW o \in DOMAIN fills,
         NEW status \in Interim \cup {"CONFIRMED", "FAILED"}, Settle(o, status)
  PROVE  EndsOnce'
<1>1. /\ fills' = [fills EXCEPT ![o].status = status] /\ channel' = Sent(o, status)
      /\ UNCHANGED trades /\ ~terminal(fills[o].status)
  BY DEF Settle, inventoryVars
<1>2. status \in TradeStatus /\ o \in OrderIds
  BY InterimAssumption DEF TradeStatus, VenueInv, FillsType
<1>3. /\ fills'[o].status = status
      /\ \A f \in DOMAIN fills : f # o => fills'[f] = fills[f]
  BY <1>1 DEF VenueInv, FillsType, FillRecord
<1>4. QED
  BY <1>1, <1>2, <1>3, SentKeepsOnce

LEMMA ConnectionKeepsOnce ==
  ASSUME EndsOnce, Connect \/ Disconnect
  PROVE  EndsOnce'
<1>1. UNCHANGED <<fills, trades>> /\ (channel' = channel \/ channel' = <<>>)
  BY DEF Connect, Disconnect, set_user_wss_trusted, venueVars
<1>2. DOMAIN <<>> = {}
  OBVIOUS
<1>3. QED
  BY <1>1, <1>2 DEF EndsOnce

LEMMA RefusalKeepsOnce ==
  ASSUME VenueInv, EndsOnce, MalformedFrame
  PROVE  EndsOnce'
<1>1. channel # <<>> /\ channel' = Tail(channel) /\ UNCHANGED <<fills, trades>>
  BY DEF MalformedFrame, inventoryVars
<1>2. /\ channel \in Seq(Notice) /\ Len(channel) \in Nat
      /\ DOMAIN channel = 1..Len(channel) /\ DOMAIN channel' = 1..(Len(channel) - 1)
      /\ \A i \in DOMAIN channel' : channel'[i] = channel[i + 1]
  BY <1>1 DEF VenueInv, ChannelOfFills
<1>3. \A i \in DOMAIN channel' : i + 1 \in DOMAIN channel
  BY <1>2
<1>4. \A i \in DOMAIN channel', j \in DOMAIN channel' : j > i => j + 1 > i + 1
  BY <1>2
<1>5. QED
  BY <1>1, <1>2, <1>3, <1>4 DEF EndsOnce

(* The event read was its trade's last if it ended it.                     *)
LEMMA ReadKeepsOnce ==
  ASSUME VenueInv, EndsOnce, NEW ts_us, Read(ts_us)
  PROVE  EndsOnce'
<1> DEFINE trade == Arriving(ts_us)
           e == Head(channel)
<1>1. /\ channel # <<>> /\ channel' = Tail(channel) /\ UNCHANGED fills
      /\ trades' = [tid \in DOMAIN trades \cup {trade.trade_id} |->
                      IF tid = trade.trade_id THEN RecordAfter(trade) ELSE trades[tid]]
  BY DEF Read, apply_user_trade, Arriving
<1>2. Record(trade) \in Counted
  BY <1>1, ArrivingIsOfFill
<1>3. trade.trade_id = e.order /\ trade.status = e.status /\ e = channel[1]
  BY <1>1 DEF Arriving, Event
<1>4. /\ channel \in Seq(Notice) /\ Len(channel) \in Nat /\ 1 \in DOMAIN channel
      /\ DOMAIN channel = 1..Len(channel) /\ DOMAIN channel' = 1..(Len(channel) - 1)
      /\ \A i \in DOMAIN channel' : channel'[i] = channel[i + 1]
  BY <1>1 DEF VenueInv, ChannelOfFills
<1>5. RecordAfter(trade).finalized <=> Record(trade).finalized \/ terminal(trade.status)
  BY <1>2, Zenon DEF RecordAfter, Counted
<1>6. ~Record(trade).finalized
  BY <1>3, <1>4, Zenon DEF Record, EndsOnce
<1> HIDE DEF trade, e
<1>7. /\ DOMAIN trades' = DOMAIN trades \cup {e.order}
      /\ trades'[e.order].finalized <=> terminal(e.status)
      /\ \A tid \in DOMAIN trades : tid # e.order => trades'[tid] = trades[tid]
  BY <1>1, <1>3, <1>5, <1>6
<1>8. terminal(e.status) => /\ terminal(fills[e.order].status)
                            /\ \A i \in DOMAIN channel' : channel'[i].order # e.order
  BY <1>3, <1>4 DEF EndsOnce
<1>9. \A tid \in DOMAIN trades' : trades'[tid].finalized => terminal(fills'[tid].status)
  BY <1>1, <1>7, <1>8 DEF EndsOnce
<1>10. ASSUME NEW i \in DOMAIN channel'
       PROVE  /\ ~(channel'[i].order \in DOMAIN trades' /\ trades'[channel'[i].order].finalized)
              /\ terminal(channel'[i].status) =>
                   /\ terminal(fills'[channel'[i].order].status)
                   /\ \A j \in DOMAIN channel' : j > i => channel'[j].order # channel'[i].order
  <2>1. i + 1 \in DOMAIN channel /\ channel'[i] = channel[i + 1]
    BY <1>4
  <2>2. ~(channel'[i].order \in DOMAIN trades' /\ trades'[channel'[i].order].finalized)
    BY <1>7, <1>8, <2>1 DEF EndsOnce
  <2>3. \A j \in DOMAIN channel' : j > i => j + 1 \in DOMAIN channel /\ j + 1 > i + 1
    BY <1>4
  <2>4. QED
    BY <1>1, <1>4, <2>1, <2>2, <2>3 DEF EndsOnce
<1>11. QED
  BY <1>9, <1>10 DEF EndsOnce

LEMMA OnceKept == EndsOnce /\ UNCHANGED <<trades, fills, channel>> => EndsOnce'
BY DEF EndsOnce

-----------------------------------------------------------------------------
(* What a sum over the fills adds up to: the number of atoms of all of     *)
(* them, each an atom of its own fill.                                     *)
Total(f, S) == MapThenSumSet(LAMBDA o : f[o].size_atoms, S)

Sized(f, S) == \A o \in S : f[o].size_atoms \in Nat

Atoms(f, S) == UNION {{o} \X (1..f[o].size_atoms) : o \in S}

LEMMA AtomsFinite ==
  ASSUME NEW f, NEW S, IsFiniteSet(S), Sized(f, S)
  PROVE  IsFiniteSet(Atoms(f, S)) /\ Cardinality(Atoms(f, S)) \in Nat
<1> DEFINE Of(o) == {o} \X (1..f[o].size_atoms)
           All == {Of(o) : o \in S}
           g == [o \in S |-> Of(o)]
<1>1. g \in Surjection(S, All)
  BY DEF Surjection
<1>2. IsFiniteSet(All)
  BY <1>1, FS_Surjection
<1>3. \A o \in S : IsFiniteSet(Of(o))
  <2>1. \A o \in S : IsFiniteSet({o}) /\ IsFiniteSet(1..f[o].size_atoms)
    BY FS_Singleton, FS_Interval DEF Sized
  <2>2. QED
    BY <2>1, FS_Product
<1>4. IsFiniteSet(UNION All)
  <2>1. \A T \in All : IsFiniteSet(T)
    BY <1>3
  <2> HIDE DEF All
  <2>2. QED
    BY <1>2, <2>1, FS_UNION
<1>5. QED
  BY <1>4, FS_CardinalityType DEF Atoms

LEMMA PairsWithOne ==
  ASSUME NEW x, NEW A, IsFiniteSet(A)
  PROVE  IsFiniteSet({x} \X A) /\ Cardinality({x} \X A) = Cardinality(A)
<1>1. IsFiniteSet({x}) /\ Cardinality({x}) = 1 /\ Cardinality(A) \in Nat
  BY FS_Singleton, FS_CardinalityType
<1>2. IsFiniteSet({x} \X A) /\ Cardinality({x} \X A) = Cardinality({x}) * Cardinality(A)
  BY <1>1, FS_Product
<1>3. QED
  BY <1>1, <1>2

LEMMA AtomsOfOneMore ==
  ASSUME NEW f, NEW S, IsFiniteSet(S), Sized(f, S), NEW x \in S
  PROVE  Cardinality(Atoms(f, S)) = f[x].size_atoms + Cardinality(Atoms(f, S \ {x}))
<1> DEFINE rest == Atoms(f, S \ {x})
           of == {x} \X (1..f[x].size_atoms)
<1>1. IsFiniteSet(rest) /\ Cardinality(rest) \in Nat
  BY FS_RemoveElement, AtomsFinite DEF Sized
<1>2. IsFiniteSet(of) /\ Cardinality(of) = f[x].size_atoms
  <2>1. PICK n \in Nat : n = f[x].size_atoms
    BY DEF Sized
  <2>2. IsFiniteSet(1..n) /\ Cardinality(1..n) = n
    BY FS_Interval
  <2>3. IsFiniteSet({x} \X (1..n)) /\ Cardinality({x} \X (1..n)) = Cardinality(1..n)
    BY <2>2, PairsWithOne
  <2>4. QED
    BY <2>1, <2>2, <2>3
<1>3. Atoms(f, S) = rest \cup of
  BY DEF Atoms
<1>4. rest \cap of = {}
  BY DEF Atoms
<1> HIDE DEF rest, of
<1>5. Cardinality(rest \cup of) = Cardinality(rest) + Cardinality(of) - Cardinality(rest \cap of)
  BY <1>1, <1>2, FS_Union
<1>6. Cardinality(rest \cap of) = 0
  BY <1>4, FS_EmptySet
<1>7. f[x].size_atoms \in Nat
  BY DEF Sized
<1>8. QED
  BY <1>1, <1>2, <1>3, <1>5, <1>6, <1>7 DEF rest

(* The recursion of a sum has one solution.                                *)
Solves(g, f, S) ==
  g = [s \in SUBSET S |->
         IF s = {} THEN 0
         ELSE f[CHOOSE x \in s : TRUE].size_atoms + g[s \ {CHOOSE x \in s : TRUE}]]

LEMMA OneSolution ==
  ASSUME NEW f, NEW S, IsFiniteSet(S), NEW g, Solves(g, f, S), NEW h, Solves(h, f, S)
  PROVE  g[S] = h[S]
<1> DEFINE Differ == {s \in SUBSET S : g[s] # h[s]}
<1>1. SUFFICES ASSUME Differ # {} PROVE FALSE
  OBVIOUS
<1>2. Differ \subseteq FiniteSubsetsOf(S)
  BY FS_Subset DEF FiniteSubsetsOf
<1>3. PICK s \in Differ : \A t \in Differ : ~(<<t, s>> \in StrictSubsetOrdering(S))
  <2>1. IsWellFoundedOn(StrictSubsetOrdering(S), FiniteSubsetsOf(S))
    BY FS_StrictSubsetOrderingWellFounded
  <2> HIDE DEF Differ
  <2>2. QED
    BY <1>1, <1>2, <2>1, WFMin
<1>4. PICK x : x = CHOOSE y \in s : TRUE
  OBVIOUS
<1>5. /\ g[s] = IF s = {} THEN 0 ELSE f[x].size_atoms + g[s \ {x}]
      /\ h[s] = IF s = {} THEN 0 ELSE f[x].size_atoms + h[s \ {x}]
  BY <1>4 DEF Solves
<1>6. s # {} /\ x \in s /\ g[s \ {x}] # h[s \ {x}]
  BY <1>3, <1>4, <1>5
<1>7. <<s \ {x}, s>> \in StrictSubsetOrdering(S)
  BY <1>3, <1>6 DEF StrictSubsetOrdering
<1>8. QED
  BY <1>3, <1>6, <1>7

LEMMA TotalIsAtoms ==
  ASSUME NEW f, NEW S, IsFiniteSet(S), Sized(f, S)
  PROVE  Total(f, S) = Cardinality(Atoms(f, S))
<1> DEFINE h == [s \in SUBSET S |-> Cardinality(Atoms(f, s))]
<1>1. Solves(h, f, S)
  <2>1. ASSUME NEW s \in SUBSET S
        PROVE  h[s] = IF s = {} THEN 0
                      ELSE f[CHOOSE x \in s : TRUE].size_atoms + h[s \ {CHOOSE x \in s : TRUE}]
    <3>1. CASE s = {}
      <4>1. Atoms(f, s) = {}
        BY <3>1 DEF Atoms
      <4>2. QED
        BY <3>1, <4>1, FS_EmptySet
    <3>2. CASE s # {}
      <4>1. PICK x \in s : x = CHOOSE y \in s : TRUE
        BY <3>2
      <4>2. IsFiniteSet(s) /\ Sized(f, s)
        BY FS_Subset DEF Sized
      <4>3. Cardinality(Atoms(f, s)) = f[x].size_atoms + Cardinality(Atoms(f, s \ {x}))
        BY <4>2, AtomsOfOneMore
      <4>4. QED
        BY <3>2, <4>1, <4>3
    <3>3. QED
      BY <3>1, <3>2
  <2>2. h = [s \in SUBSET S |-> h[s]]
    OBVIOUS
  <2> HIDE DEF h
  <2>3. QED
    BY <2>1, <2>2 DEF Solves
<1>2. h[S] = Cardinality(Atoms(f, S))
  OBVIOUS
<1> HIDE DEF h
<1>3. \E g : Solves(g, f, S) /\ Total(f, S) = g[S]
  <2>1. \E g : Solves(g, f, S)
    BY <1>1
  <2>2. QED
    BY <2>1 DEF Solves, Total, MapThenSumSet, MapThenFoldSet
<1>4. QED
  BY <1>1, <1>2, <1>3, OneSolution

-----------------------------------------------------------------------------
(* The balance of the venue, of any account of its fills.                  *)
StandingOf(f, token, side) ==
  {o \in DOMAIN f : f[o].token = token /\ f[o].side = side /\ f[o].status # "FAILED"}

BalanceOf(f, token) == Total(f, StandingOf(f, token, "BUY")) - Total(f, StandingOf(f, token, "SELL"))

Signed(fill, token) ==
  IF fill.token # token THEN 0 ELSE IF fill.side = "BUY" THEN fill.size_atoms ELSE -fill.size_atoms

LEMMA BalanceOfFills ==
  ASSUME NEW token
  PROVE  VenueBalance(token) = BalanceOf(fills, token) /\ VenueBalance(token)' = BalanceOf(fills', token)
BY DEF VenueBalance, SumOfSizes, Standing, BalanceOf, StandingOf, Total,
       MapThenSumSet, MapThenFoldSet

LEMMA TotalType ==
  ASSUME NEW f, NEW S, IsFiniteSet(S), Sized(f, S)
  PROVE  Total(f, S) \in Nat
BY TotalIsAtoms, AtomsFinite

LEMMA TotalSame ==
  ASSUME NEW f, NEW g, NEW S, IsFiniteSet(S), Sized(f, S), \A o \in S : g[o] = f[o]
  PROVE  Total(g, S) = Total(f, S)
<1>1. Atoms(g, S) = Atoms(f, S)
  BY DEF Atoms
<1>2. Sized(g, S)
  BY DEF Sized
<1>3. QED
  BY <1>1, <1>2, TotalIsAtoms

LEMMA TotalOfOneMore ==
  ASSUME NEW f, NEW g, NEW S, IsFiniteSet(S), Sized(f, S), NEW x, x \notin S,
         \A o \in S : g[o] = f[o], g[x].size_atoms \in Nat
  PROVE  Total(g, S \cup {x}) = g[x].size_atoms + Total(f, S)
<1>1. IsFiniteSet(S \cup {x}) /\ Sized(g, S \cup {x}) /\ (S \cup {x}) \ {x} = S /\ Sized(g, S)
  BY FS_AddElement DEF Sized
<1>2. Cardinality(Atoms(g, S \cup {x})) = g[x].size_atoms + Cardinality(Atoms(g, S))
  BY <1>1, AtomsOfOneMore
<1>3. QED
  BY <1>1, <1>2, TotalIsAtoms, TotalSame

(* One fill more moves the balance of its token by its size.               *)
LEMMA BalanceOfOneMore ==
  ASSUME NEW f, NEW g, IsFiniteSet(DOMAIN f), Sized(f, DOMAIN f), NEW o \in DOMAIN g,
         o \in DOMAIN f => f[o].status = "FAILED",
         g[o].status # "FAILED", g[o].side \in OrderSide, g[o].size_atoms \in Nat,
         DOMAIN f \cup {o} = DOMAIN g \cup {o}, \A p \in DOMAIN f : p # o => g[p] = f[p],
         NEW token
  PROVE  /\ BalanceOf(f, token) \in Int
         /\ BalanceOf(g, token) = BalanceOf(f, token) + Signed(g[o], token)
<1> DEFINE old(side) == StandingOf(f, token, side)
           new(side) == StandingOf(g, token, side)
<1>1. ASSUME NEW side
      PROVE  /\ IsFiniteSet(old(side)) /\ Sized(f, old(side)) /\ Total(f, old(side)) \in Nat
             /\ o \notin old(side) /\ \A p \in old(side) : g[p] = f[p]
             /\ new(side) = IF g[o].token = token /\ g[o].side = side THEN old(side) \cup {o} ELSE old(side)
  <2>1. old(side) \subseteq DOMAIN f /\ o \notin old(side)
    BY DEF StandingOf
  <2>2. IsFiniteSet(old(side)) /\ Sized(f, old(side))
    BY <2>1, FS_Subset DEF Sized
  <2>3. \A p \in old(side) : g[p] = f[p]
    BY <2>1
  <2>4. \A p : p # o => (p \in DOMAIN f <=> p \in DOMAIN g)
    OBVIOUS
  <2>5. \A p : p # o => (p \in new(side) <=> p \in old(side))
    BY <2>4 DEF StandingOf
  <2>6. o \in new(side) <=> g[o].token = token /\ g[o].side = side
    BY DEF StandingOf
  <2> HIDE DEF old, new
  <2>7. new(side) = IF g[o].token = token /\ g[o].side = side THEN old(side) \cup {o} ELSE old(side)
    BY <2>1, <2>5, <2>6
  <2>8. QED
    BY <2>1, <2>2, <2>3, <2>7, TotalType
<1>2. /\ BalanceOf(f, token) = Total(f, old("BUY")) - Total(f, old("SELL"))
      /\ BalanceOf(g, token) = Total(g, new("BUY")) - Total(g, new("SELL"))
  BY DEF BalanceOf
<1> HIDE DEF old, new
<1>3. ASSUME NEW side
      PROVE  Total(g, new(side)) = Total(f, old(side))
                                   + (IF g[o].token = token /\ g[o].side = side THEN g[o].size_atoms ELSE 0)
  <2>1. CASE g[o].token = token /\ g[o].side = side
    <3>1. Total(g, old(side) \cup {o}) = g[o].size_atoms + Total(f, old(side))
      BY <1>1, TotalOfOneMore
    <3>2. Total(g, new(side)) = Total(g, old(side) \cup {o}) /\ Total(f, old(side)) \in Nat
      BY <1>1, <2>1, Zenon
    <3>3. QED
      BY <2>1, <3>1, <3>2
  <2>2. CASE ~(g[o].token = token /\ g[o].side = side)
    <3>1. Total(g, old(side)) = Total(f, old(side))
      BY <1>1, TotalSame
    <3>2. QED
      BY <1>1, <2>2, <3>1
  <2>3. QED
    BY <2>1, <2>2
<1>4. QED
  BY <1>1, <1>2, <1>3 DEF Signed, OrderSide

(* Other changes of a status, and other fills, leave it.                   *)
LEMMA BalanceSame ==
  ASSUME NEW f, NEW g, IsFiniteSet(DOMAIN f), Sized(f, DOMAIN f), DOMAIN g = DOMAIN f, NEW token,
         \A p \in DOMAIN f : /\ g[p].token = f[p].token /\ g[p].side = f[p].side
                             /\ g[p].size_atoms = f[p].size_atoms
                             /\ g[p].status = "FAILED" <=> f[p].status = "FAILED"
  PROVE  BalanceOf(g, token) = BalanceOf(f, token)
<1>1. ASSUME NEW side PROVE Total(g, StandingOf(g, token, side)) = Total(f, StandingOf(f, token, side))
  <2> DEFINE S == StandingOf(f, token, side)
  <2>1. StandingOf(g, token, side) = S
    BY DEF StandingOf
  <2>2. S \subseteq DOMAIN f
    BY DEF StandingOf
  <2> HIDE DEF S
  <2>3. IsFiniteSet(S) /\ Sized(f, S) /\ Sized(g, S) /\ Atoms(g, S) = Atoms(f, S)
    BY <2>2, FS_Subset DEF Sized, Atoms
  <2>4. QED
    BY <2>1, <2>3, TotalIsAtoms DEF S
<1>2. QED
  BY <1>1 DEF BalanceOf

(* No more than so many BUYs of so many atoms bring.                       *)
LEMMA BalanceBound ==
  ASSUME NEW f, IsFiniteSet(DOMAIN f), Sized(f, DOMAIN f), NEW n \in Nat, NEW size \in Nat,
         \A o \in DOMAIN f : f[o].side = "BUY" => o \in 1..n /\ f[o].size_atoms <= size,
         NEW token
  PROVE  BalanceOf(f, token) <= n * size
<1> DEFINE S == StandingOf(f, token, "BUY")
           T == StandingOf(f, token, "SELL")
<1>1. S \subseteq DOMAIN f /\ T \subseteq DOMAIN f
  BY DEF StandingOf
<1>2. IsFiniteSet(S) /\ Sized(f, S) /\ Total(f, S) \in Nat /\ Total(f, T) \in Nat
  <2> HIDE DEF S, T
  <2>1. IsFiniteSet(S) /\ Sized(f, S) /\ IsFiniteSet(T) /\ Sized(f, T)
    BY <1>1, FS_Subset DEF Sized
  <2>2. QED
    BY <2>1, TotalType
<1>3. Atoms(f, S) \subseteq (1..n) \X (1..size)
  <2>1. \A o \in S : o \in 1..n /\ f[o].size_atoms \in Nat /\ f[o].size_atoms <= size
    BY DEF StandingOf, Sized
  <2> HIDE DEF S
  <2>2. QED
    BY <2>1 DEF Atoms
<1>4. Cardinality(Atoms(f, S)) <= n * size
  <2>1. /\ IsFiniteSet(1..n) /\ Cardinality(1..n) = n
        /\ IsFiniteSet(1..size) /\ Cardinality(1..size) = size
    BY FS_Interval
  <2>2. /\ IsFiniteSet((1..n) \X (1..size))
        /\ Cardinality((1..n) \X (1..size)) = Cardinality(1..n) * Cardinality(1..size)
    BY <2>1, FS_Product
  <2> HIDE DEF S
  <2>3. Cardinality(Atoms(f, S)) <= Cardinality((1..n) \X (1..size))
    BY <1>3, <2>2, FS_Subset
  <2>4. QED
    BY <2>1, <2>2, <2>3
<1>5. Total(f, S) <= n * size
  BY <1>2, <1>4, TotalIsAtoms
<1>6. BalanceOf(f, token) = Total(f, S) - Total(f, T)
  BY DEF BalanceOf
<1> HIDE DEF S, T
<1>7. n * size \in Nat
  OBVIOUS
<1>8. QED
  BY <1>2, <1>5, <1>6, <1>7

=============================================================================
