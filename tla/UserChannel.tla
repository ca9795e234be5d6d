----------------------------- MODULE UserChannel -----------------------------
(***************************************************************************)
(* The venue's side of the user channel, outside the repository: what the  *)
(* code may assume of it.  An order executes in at most one trade, whose   *)
(* id is the order's; a trade is MATCHED, then CONFIRMED or FAILED, with   *)
(* interim statuses between.  The channel is one TCP stream: in order, it  *)
(* loses what is sent while it is down, and may repeat a trade's status.   *)
(* What the code itself loses is a frame it refuses (MalformedFrame).      *)
(***************************************************************************)
EXTENDS Inventory, Sequences, FiniteSetsExt

CONSTANTS
  MayDisconnect,   \* may the user channel drop
  MayBeMalformed,  \* may a frame have a trade that does not parse
  MayFail,         \* sides whose trades may fail to settle
  SettlesInOrder,  \* does a BUY fail only after the SELLs of its shares
  Interim,         \* statuses a trade may report between MATCHED and its end
  MaxRepeats       \* bound: repeated channel events

ASSUME InterimAssumption == Interim \subseteq TradeStatus \ {"MATCHED", "CONFIRMED", "FAILED"}

VARIABLES
  fills,     \* order id -> its trade: [token, side, size_atoms, status]
  channel,   \* events sent and not yet read: [order, status]
  repeats    \* events repeated so far

venueVars == <<fills, channel, repeats>>

VenueInit ==
  /\ fills = [o \in {} |-> 0]
  /\ channel = <<>>
  /\ repeats = 0

-----------------------------------------------------------------------------
SumOfSizes(orders) == MapThenSumSet(LAMBDA o : fills[o].size_atoms, orders)

Standing(token, side) ==
  {o \in DOMAIN fills : /\ fills[o].token = token /\ fills[o].side = side
                        /\ fills[o].status # "FAILED"}

VenueBalance(token) == SumOfSizes(Standing(token, "BUY")) - SumOfSizes(Standing(token, "SELL"))

Sent(o, status) ==
  IF user_wss_trusted THEN Append(channel, [order |-> o, status |-> status]) ELSE channel

Fill(o, token, side, size) ==
  /\ fills' = [f \in DOMAIN fills \cup {o} |->
                 IF f = o THEN [token |-> token, side |-> side,
                                size_atoms |-> size, status |-> "MATCHED"]
                 ELSE fills[f]]
  /\ channel' = Sent(o, "MATCHED")
  /\ UNCHANGED <<inventoryVars, repeats>>

Settle(o, status) ==
  /\ o \in DOMAIN fills
  /\ ~terminal(fills[o].status)
  /\ \/ status \in Interim /\ fills[o].status = "MATCHED"
     \/ status = "CONFIRMED"
     \/ /\ status = "FAILED"
        /\ fills[o].side \in MayFail
        /\ SettlesInOrder /\ fills[o].side = "BUY" =>
             VenueBalance(fills[o].token) >= fills[o].size_atoms
  /\ fills' = [fills EXCEPT ![o].status = status]
  /\ channel' = Sent(o, status)
  /\ UNCHANGED <<inventoryVars, repeats>>

Repeat(o) ==
  /\ o \in DOMAIN fills
  /\ user_wss_trusted
  /\ repeats < MaxRepeats
  /\ repeats' = repeats + 1
  /\ channel' = Sent(o, fills[o].status)
  /\ UNCHANGED <<inventoryVars, fills>>

Event(e, ts_us) ==
  [trade_id |-> e.order, token |-> fills[e.order].token, taker_order_id |-> e.order,
   side |-> fills[e.order].side, size_atoms |-> fills[e.order].size_atoms,
   status |-> e.status, ts_us |-> ts_us]

-----------------------------------------------------------------------------
(* main.rs, user task: trust follows the connection, an event is applied   *)
(* under the core lock.                                                    *)
Connect ==
  /\ ~user_wss_trusted
  /\ set_user_wss_trusted(TRUE)
  /\ UNCHANGED venueVars

Disconnect ==
  /\ MayDisconnect
  /\ user_wss_trusted
  /\ set_user_wss_trusted(FALSE)
  /\ channel' = <<>>
  /\ UNCHANGED <<fills, repeats>>

(* One trade that does not parse and every other trade of its frame is     *)
(* dropped: here one event a step.                                         *)
MalformedFrame ==
  /\ MayBeMalformed
  /\ channel # <<>>
  /\ channel' = Tail(channel)
  /\ UNCHANGED <<inventoryVars, fills, repeats>>

Read(ts_us) ==
  /\ channel # <<>>
  /\ apply_user_trade(Event(Head(channel), ts_us))
  /\ channel' = Tail(channel)
  /\ UNCHANGED <<fills, repeats>>

=============================================================================
