----------------------------- MODULE TradeLedger -----------------------------
(***************************************************************************)
(* What the inventory promises about the trades of the user channel,       *)
(* whatever the channel repeats, reorders or leaves out: the balance of a  *)
(* token moves only when a trade of that token is counted, at most once    *)
(* per trade id, or when a counted trade that has not reached its end is   *)
(* reversed, and by the size the trade was first seen with; and the        *)
(* balance of a token outside the active market may be forgotten.          *)
(*                                                                         *)
(* Inventory.tla implements this specification with                        *)
(* counted = the trades applied, closed = the trades finalized.            *)
(***************************************************************************)
EXTENDS Integers

CONSTANTS
  Tokens,      \* outcome tokens
  TradeIds,    \* trade identifiers of the venue
  Sizes,       \* trade sizes, in share atoms
  I64_MAX      \* where an i64 balance saturates

VARIABLES
  owned,       \* balance of each token, in atoms
  entry,       \* what each seen trade was first seen with
  counted,     \* trades whose size is in the balance, or was and is reversed
  closed       \* trades that reached a terminal status

vars == <<owned, entry, counted, closed>>

Entry == [token : Tokens, side : {"BUY", "SELL"}, size_atoms : Sizes]

Opposite(side) == IF side = "BUY" THEN "SELL" ELSE "BUY"

(* An i64 balance saturates at the top and is clamped at zero below.       *)
Moved(balance, side, size) ==
  IF side = "BUY"
  THEN IF balance + size > I64_MAX THEN I64_MAX ELSE balance + size
  ELSE IF size > balance THEN 0 ELSE balance - size

Init ==
  /\ owned = [token \in Tokens |-> 0]
  /\ entry = [tid \in {} |-> 0]
  /\ counted = {}
  /\ closed = {}

(* A trade is entered with what its first event says, and keeps it.        *)
Entered(tid) ==
  \/ tid \in DOMAIN entry /\ UNCHANGED entry
  \/ /\ tid \notin DOMAIN entry
     /\ \E e \in Entry :
          entry' = [t \in DOMAIN entry \cup {tid} |-> IF t = tid THEN e ELSE entry[t]]

MayClose(tid) == closed' \in {closed, closed \cup {tid}}

Note(tid) == Entered(tid) /\ MayClose(tid) /\ UNCHANGED <<owned, counted>>

Count(tid) ==
  /\ tid \notin counted
  /\ Entered(tid)
  /\ LET e == entry'[tid] IN
       owned' = [owned EXCEPT ![e.token] = Moved(@, e.side, e.size_atoms)]
  /\ counted' = counted \cup {tid}
  /\ MayClose(tid)

Reverse(tid) ==
  /\ tid \in counted \ closed
  /\ LET e == entry[tid] IN
       owned' = [owned EXCEPT ![e.token] = Moved(@, Opposite(e.side), e.size_atoms)]
  /\ closed' = closed \cup {tid}
  /\ UNCHANGED <<entry, counted>>

Forget(active) ==
  /\ owned' = [token \in Tokens |-> IF token \in active THEN owned[token] ELSE 0]
  /\ UNCHANGED <<entry, counted, closed>>

Next ==
  \/ \E tid \in TradeIds : Note(tid) \/ Count(tid) \/ Reverse(tid)
  \/ \E active \in SUBSET Tokens : Forget(active)

Spec == Init /\ [][Next]_vars

=============================================================================
