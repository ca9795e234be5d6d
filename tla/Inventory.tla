------------------------------ MODULE Inventory ------------------------------
(***************************************************************************)
(* inventory.rs: the balances the user channel reports and the BUY submits *)
(* whose outcome is open.  One action per method of Inventory, with the    *)
(* method's name.  Every caller holds the mutex around RuntimeCore, so a   *)
(* method is one atomic step.                                              *)
(*                                                                         *)
(* A HashMap is a function on the keys it holds; owned_by_token is total,  *)
(* since every reader takes a missing token for 0.  The size of a claim is *)
(* left out: it is the constant 1 and nothing reads it.                    *)
(***************************************************************************)
EXTENDS Integers, Functions

CONSTANTS
  Tokens,      \* outcome tokens
  TradeIds,    \* trade identifiers of the venue
  OrderIds,    \* order identifiers of the venue
  NoOrder,     \* the Option<OrderId> None
  Sizes,       \* trade sizes, in share atoms
  Stamps,      \* timestamps the calls carry
  QUANTUM,     \* atoms in 0.01 share, the unit the venue sells in
  I64_MAX,     \* where an i64 balance saturates
  MaxSubmits   \* bound: claims made in one behaviour

ASSUME SizesAssumption == Sizes \subseteq Nat
ASSUME StampsAssumption == Stamps \subseteq Int
ASSUME QuantumAssumption == QUANTUM \in Nat \ {0}
ASSUME WidthAssumption == I64_MAX \in Nat
ASSUME BoundAssumption == MaxSubmits \in Nat
ASSUME NoOrderAssumption == NoOrder \notin OrderIds

VARIABLES
  user_wss_trusted,  \* is the user channel authenticated and connected
  next_submit_id,    \* number of claims made so far
  owned_by_token,    \* token -> atoms
  trades,            \* trade id -> TradeRecord
  pending            \* submit id -> PendingSubmit

inventoryVars == <<user_wss_trusted, next_submit_id, owned_by_token, trades, pending>>

-----------------------------------------------------------------------------
OrderSide == {"BUY", "SELL"}

SubmitStatus == {"Pending", "Accepted", "Unknown", "ExpiredUnknown"}

blocks_entry(status) == status \in {"Pending", "Accepted", "Unknown"}

matchable(status) == status \in {"Pending", "Accepted", "Unknown", "ExpiredUnknown"}

PendingSubmit ==
  [token : Tokens, side : OrderSide, order_id : OrderIds \cup {NoOrder},
   status : SubmitStatus, created_ts_us : Stamps, updated_ts_us : Stamps]

TradeStatus == {"MATCHED", "MINED", "CONFIRMED", "FAILED", "RETRYING", "OTHER"}

terminal(status) == status \in {"CONFIRMED", "FAILED"}

(* The event of the user channel; its price matters only to the exits.     *)
UserTrade ==
  [trade_id : TradeIds, token : Tokens, taker_order_id : OrderIds \cup {NoOrder},
   side : OrderSide, size_atoms : Sizes, status : TradeStatus, ts_us : Stamps]

TradeRecord ==
  [token : Tokens, side : OrderSide, size_atoms : Sizes,
   applied : BOOLEAN, finalized : BOOLEAN]

-----------------------------------------------------------------------------
Init ==
  /\ user_wss_trusted = FALSE
  /\ next_submit_id = 0
  /\ owned_by_token = [token \in Tokens |-> 0]
  /\ trades = [tid \in {} |-> 0]
  /\ pending = [id \in {} |-> 0]

set_user_wss_trusted(trusted) ==
  /\ user_wss_trusted' = trusted
  /\ UNCHANGED <<next_submit_id, owned_by_token, trades, pending>>

claim_entry(token, side, now_ts_us) ==
  /\ next_submit_id < MaxSubmits
  /\ next_submit_id' = next_submit_id + 1
  /\ LET claim == [token |-> token, side |-> side, order_id |-> NoOrder,
                   status |-> "Pending", created_ts_us |-> now_ts_us,
                   updated_ts_us |-> now_ts_us]
     IN  pending' = [id \in DOMAIN pending \cup {next_submit_id'} |->
                       IF id = next_submit_id' THEN claim ELSE pending[id]]
  /\ UNCHANGED <<user_wss_trusted, owned_by_token, trades>>

(* The two marks leave the map alone when the claim is gone.               *)
Accepted(p, id, order_id, now_ts_us) ==
  IF id \in DOMAIN p
  THEN [p EXCEPT ![id] = [@ EXCEPT !.order_id = order_id, !.status = "Accepted",
                                   !.updated_ts_us = now_ts_us]]
  ELSE p

mark_submit_accepted(id, order_id, now_ts_us) ==
  /\ pending' = Accepted(pending, id, order_id, now_ts_us)
  /\ UNCHANGED <<user_wss_trusted, next_submit_id, owned_by_token, trades>>

(* Mutant of MarkedUnknown: the mark makes a claim that is gone anew.      *)
MarkedAnew(p, id, now_ts_us) ==
  LET fresh == [token |-> CHOOSE token \in Tokens : TRUE, side |-> "BUY",
                order_id |-> NoOrder, status |-> "Pending",
                created_ts_us |-> now_ts_us, updated_ts_us |-> now_ts_us]
  IN  [i \in DOMAIN p \cup {id} |->
         IF i = id THEN [fresh EXCEPT !.status = "Unknown"] ELSE p[i]]

MarkedUnknown(p, id, now_ts_us) ==
  IF id \in DOMAIN p
  THEN [p EXCEPT ![id] = [@ EXCEPT !.status = "Unknown", !.updated_ts_us = now_ts_us]]
  ELSE p

mark_submit_unknown(id, now_ts_us) ==
  /\ pending' = MarkedUnknown(pending, id, now_ts_us)
  /\ UNCHANGED <<user_wss_trusted, next_submit_id, owned_by_token, trades>>

Released(p, id) == Restrict(p, DOMAIN p \ {id})

release_claim(id) ==
  /\ pending' = Released(pending, id)
  /\ UNCHANGED <<user_wss_trusted, next_submit_id, owned_by_token, trades>>

UnknownsExpired(p, older_than_ts_us) ==
  [id \in DOMAIN p |->
     IF p[id].status = "Unknown" /\ p[id].updated_ts_us <= older_than_ts_us
     THEN [p[id] EXCEPT !.status = "ExpiredUnknown"]
     ELSE p[id]]

expire_unknowns(older_than_ts_us) ==
  /\ pending' = UnknownsExpired(pending, older_than_ts_us)
  /\ UNCHANGED <<user_wss_trusted, next_submit_id, owned_by_token, trades>>

(* Mutants of PendingExpired: every old claim goes; the wrong status goes. *)
OldExpired(p, older_than_ts_us) ==
  Restrict(p, {id \in DOMAIN p : p[id].created_ts_us > older_than_ts_us})

UnknownRemoved(p, older_than_ts_us) ==
  Restrict(p, {id \in DOMAIN p : ~(/\ p[id].status = "Unknown"
                                   /\ p[id].created_ts_us <= older_than_ts_us)})

PendingExpired(p, older_than_ts_us) ==
  Restrict(p, {id \in DOMAIN p : ~(/\ p[id].status = "Pending"
                                   /\ p[id].created_ts_us <= older_than_ts_us)})

expire_pending(older_than_ts_us) ==
  /\ pending' = PendingExpired(pending, older_than_ts_us)
  /\ UNCHANGED <<user_wss_trusted, next_submit_id, owned_by_token, trades>>

-----------------------------------------------------------------------------
(* match_pending_submit: the claims the trade may bind to.  A claim with   *)
(* the trade's order id comes first, else any claim of its token and side; *)
(* `find` over a HashMap may return any of them.                           *)
ByOrder(trade) ==
  {id \in DOMAIN pending : /\ trade.taker_order_id # NoOrder
                           /\ pending[id].order_id = trade.taker_order_id
                           /\ matchable(pending[id].status)}

ByTokenSide(trade) ==
  {id \in DOMAIN pending : /\ matchable(pending[id].status)
                           /\ pending[id].token = trade.token
                           /\ pending[id].side = trade.side}

match_pending_submit(trade) ==
  IF ByOrder(trade) # {} THEN ByOrder(trade) ELSE ByTokenSide(trade)

Bind(claim, trade) ==
  [claim EXCEPT
     !.status = "Accepted",
     !.order_id = IF claim.order_id = NoOrder THEN trade.taker_order_id ELSE claim.order_id,
     !.updated_ts_us = trade.ts_us]

(* Mutant of PendingAfter: any event of the trade releases the claim.      *)
ReleasedAtOnce(trade, matched_submit) == Released(pending, matched_submit)

(* The claims after a trade: the bound claim stays until the trade ends.   *)
PendingAfter(trade, matched_submit) ==
  IF terminal(trade.status)
  THEN Released(pending, matched_submit)
  ELSE [pending EXCEPT ![matched_submit] = Bind(@, trade)]

(* The record of a trade keeps what its first event said.                  *)
Record(trade) ==
  IF trade.trade_id \in DOMAIN trades
  THEN trades[trade.trade_id]
  ELSE [token |-> trade.token, side |-> trade.side, size_atoms |-> trade.size_atoms,
        applied |-> FALSE, finalized |-> FALSE]

(* Mutant of Applies: MATCHED and CONFIRMED both count.                    *)
AppliesEachTime(trade) == trade.status \in {"MATCHED", "CONFIRMED"}

Applies(trade) ==
  /\ trade.status \in {"MATCHED", "CONFIRMED"}
  /\ ~Record(trade).applied

Reverses(trade) ==
  /\ trade.status = "FAILED"
  /\ Record(trade).applied
  /\ ~Record(trade).finalized

(* TradeState.inventory_changed                                            *)
inventory_changed(trade) == Applies(trade) \/ Reverses(trade)

RecordAfter(trade) ==
  [Record(trade) EXCEPT !.applied = @ \/ Applies(trade),
                        !.finalized = @ \/ terminal(trade.status)]

Opposite(side) == IF side = "BUY" THEN "SELL" ELSE "BUY"

(* Mutant of apply_inventory_delta: no clamp at zero.                      *)
unclamped_delta(balance, side, size) ==
  IF side = "BUY"
  THEN IF balance + size > I64_MAX THEN I64_MAX ELSE balance + size
  ELSE balance - size

apply_inventory_delta(balance, side, size) ==
  IF side = "BUY"
  THEN IF balance + size > I64_MAX THEN I64_MAX ELSE balance + size
  ELSE IF balance - size < 0 THEN 0 ELSE balance - size

OwnedAfter(trade) ==
  LET r == Record(trade) IN
  IF Applies(trade)
  THEN [owned_by_token EXCEPT
          ![r.token] = apply_inventory_delta(@, r.side, r.size_atoms)]
  ELSE IF Reverses(trade)
  THEN [owned_by_token EXCEPT
          ![r.token] = apply_inventory_delta(@, Opposite(r.side), r.size_atoms)]
  ELSE owned_by_token

apply_user_trade(trade) ==
  /\ LET matches == match_pending_submit(trade) IN
       \/ matches = {} /\ UNCHANGED pending
       \/ \E matched_submit \in matches : pending' = PendingAfter(trade, matched_submit)
  /\ owned_by_token' = OwnedAfter(trade)
  /\ trades' = [tid \in DOMAIN trades \cup {trade.trade_id} |->
                  IF tid = trade.trade_id THEN RecordAfter(trade) ELSE trades[tid]]
  /\ UNCHANGED <<user_wss_trusted, next_submit_id>>

-----------------------------------------------------------------------------
sellable(token) == owned_by_token[token] \div QUANTUM

has_entry_exposure_or_pending(token) ==
  \/ ~user_wss_trusted
  \/ owned_by_token[token] >= QUANTUM
  \/ \E id \in DOMAIN pending : pending[id].token = token /\ blocks_entry(pending[id].status)

OwnedInScope(active) ==
  [token \in Tokens |-> IF token \in active THEN owned_by_token[token] ELSE 0]

PendingInScope(active) ==
  Restrict(pending, {id \in DOMAIN pending : pending[id].token \in active})

(* trades are kept: a late event of a trade already counted stays a repeat *)
release_market_scope(active) ==
  /\ owned_by_token' = OwnedInScope(active)
  /\ pending' = PendingInScope(active)
  /\ UNCHANGED <<user_wss_trusted, next_submit_id, trades>>

-----------------------------------------------------------------------------
(* The component by itself: any sequence of calls its callers may make.    *)
(* An outcome is reported for a claim that was made; BUY is the only side  *)
(* that is claimed.                                                        *)
Next ==
  \/ \E trusted \in BOOLEAN : set_user_wss_trusted(trusted)
  \/ \E token \in Tokens, now_ts_us \in Stamps : claim_entry(token, "BUY", now_ts_us)
  \/ \E id \in 1..next_submit_id, now_ts_us \in Stamps :
       \/ \E order_id \in OrderIds : mark_submit_accepted(id, order_id, now_ts_us)
       \/ mark_submit_unknown(id, now_ts_us)
  \/ \E id \in 1..next_submit_id : release_claim(id)
  \/ \E cutoff \in Stamps : expire_unknowns(cutoff) \/ expire_pending(cutoff)
  \/ \E trade \in UserTrade : apply_user_trade(trade)
  \/ \E active \in SUBSET Tokens : release_market_scope(active)

Spec == Init /\ [][Next]_inventoryVars

-----------------------------------------------------------------------------
(* Types of the state.                                                     *)
TypeOK ==
  /\ user_wss_trusted \in BOOLEAN
  /\ next_submit_id \in 0..MaxSubmits
  /\ owned_by_token \in [Tokens -> 0..I64_MAX]
  /\ DOMAIN trades \subseteq TradeIds
  /\ trades \in [DOMAIN trades -> TradeRecord]
  /\ DOMAIN pending \subseteq 1..next_submit_id
  /\ pending \in [DOMAIN pending -> PendingSubmit]

(* A claim that is gone never comes back: an HTTP outcome that lands after *)
(* a CONFIRMED trade or a rotation removed its claim finds nothing to mark *)
(* (`if let Some(p)`), and the id of a new claim was never used before.    *)
GoneClaimsStayGone ==
  [][\A id \in 1..next_submit_id : id \notin DOMAIN pending => id \notin DOMAIN pending']_inventoryVars

(* "User WSS trades are inventory truth; duplicate trade lifecycle events  *)
(* must not double-count inventory": whatever is repeated, reordered or    *)
(* lost, each trade moves its token's balance once when first applied and  *)
(* once back when it fails before its end, by the size first seen; nothing *)
(* else moves a balance but the rotation that forgets it.                  *)
Ledger == INSTANCE TradeLedger WITH
  owned <- owned_by_token,
  entry <- [tid \in DOMAIN trades |->
              [token |-> trades[tid].token, side |-> trades[tid].side,
               size_atoms |-> trades[tid].size_atoms]],
  counted <- {tid \in DOMAIN trades : trades[tid].applied},
  closed <- {tid \in DOMAIN trades : trades[tid].finalized}

ImplementsTradeLedger == Ledger!Spec

=============================================================================
