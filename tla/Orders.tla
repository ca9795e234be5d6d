------------------------------- MODULE Orders --------------------------------
(***************************************************************************)
(* From the environment and the asks of a book to the bodies that are      *)
(* signed: the start of the bot (Config); the best levels of a snapshot    *)
(* (BookDepth, state.rs) read one raw level at a time in the order the     *)
(* message has them, or the ask alone of a price change; the cutoff at     *)
(* which they hold the target and the limit above it (signal.rs); the      *)
(* lattice's size and amount at that limit; the SELL of a holding at a bid *)
(* (runtime.rs); and the amounts of either body (signing.rs).  LEVELS      *)
(* stands for BOOK_DEPTH_LEVELS.  The token of a body, its addresses and   *)
(* its signature are left out, and so is saturation at 2^63 atoms.         *)
(***************************************************************************)
EXTENDS BuyLattice, Config, Sequences, FiniteSets, SequencesExt

CONSTANTS
  LevelPrices,       \* prices of the levels of a snapshot, in ticks
  LevelSizes,        \* their sizes in 0.0001 share, 0 included
  ChangedAsks,       \* asks of price changes
  Launches,          \* what the bot is started with: [env, account, granted]
  Bids,              \* bids a SELL is priced at
  Holdings,          \* atoms owned of its token
  LEVELS,
  DepthConfigs,      \* bound: configurations under which snapshots are read
  MaxRaw             \* bound: raw levels of a message

ASSUME BookAssumption ==
  /\ LevelPrices \cup ChangedAsks \cup Bids \subseteq 1..99
  /\ LevelSizes \cup Holdings \subseteq Nat
  /\ \A l \in Launches : /\ l.env \in [Settings -> Int \cup {Missing, Unreadable}]
                         /\ l.account \in Account
  /\ LEVELS \in Nat \ {0} /\ MaxRaw \in Nat

VARIABLES
  config,          \* of the running bot, with the mode and the maker: none or one
  raw,             \* history: the levels of the message read so far
  levels,          \* the levels kept, best first
  changed_ask,     \* the ask of a quote without depth: none or one
  intent,          \* the limit of a BUY to prepare: none or one
  input, outcome,  \* history: what the lattice made of it, none or one
  holding,         \* history: the bid and atoms a SELL was asked for, none or one
  body             \* of the order: none or one

bookVars == <<raw, levels, changed_ask>>
orderVars == <<intent, input, outcome, holding, body>>
vars == <<config, bookVars, orderVars>>

BookLevel == [price : LevelPrices, size_atoms : LevelSizes]

(* The settings orders are made of; the others are CONSTANTS elsewhere.    *)
OrderSettings ==
  {"usdc_per_trade", "max_notional_overrun", "max_notional_overrun_bps",
   "min_buy_limit", "max_buy_limit", "entry_slippage", "sell_slippage"}

Init ==
  /\ config = {} /\ raw = <<>> /\ levels = <<>> /\ changed_ask = {}
  /\ intent = {} /\ input = {} /\ outcome = Pending /\ holding = {} /\ body = {}

Configured(l) ==
  [s \in OrderSettings \cup {"live", "maker"} |->
     CASE s = "live" -> l.account.live
       [] s = "maker" -> Maker(l.account)
       [] OTHER -> Value(l.env, s)]

Launch(l) ==
  /\ config = {}
  /\ Starts(l.env, l.account, l.granted)
  /\ config' = {Configured(l)}
  /\ UNCHANGED <<bookVars, orderVars>>

-----------------------------------------------------------------------------
(* BookDepth::insert: a price already kept takes the size; any other goes  *)
(* before the first it is better than, or last, and the worst falls off.   *)
Merged(level) ==
  [i \in DOMAIN levels |-> IF levels[i].price = level.price
                           THEN [levels[i] EXCEPT !.size_atoms = @ + level.size_atoms]
                           ELSE levels[i]]

Inserted(level) ==
  LET ahead == Cardinality({i \in DOMAIN levels : levels[i].price <= level.price})
      all == InsertAt(levels, ahead + 1, level)
  IN  SubSeq(all, 1, IF Len(all) > LEVELS THEN LEVELS ELSE Len(all))

(* Mutant: once the levels are full, nothing better gets in.               *)
FirstKept(level) == IF Len(levels) = LEVELS THEN levels ELSE Inserted(level)

insert(level) ==
  IF \E i \in DOMAIN levels : levels[i].price = level.price THEN Merged(level) ELSE Inserted(level)

ReadLevel(level) ==
  /\ \E c \in config : c \in DepthConfigs
  /\ holding = {} /\ intent = {} /\ changed_ask = {}
  /\ Len(raw) < MaxRaw
  /\ raw' = Append(raw, level)
  /\ levels' = IF level.size_atoms > 0 THEN insert(level) ELSE levels
  /\ UNCHANGED <<config, changed_ask, orderVars>>

(* quote_from_dict: an ask, no depth.                                      *)
PriceChange(ask) ==
  /\ config # {} /\ holding = {} /\ intent = {}
  /\ raw = <<>> /\ changed_ask = {}
  /\ changed_ask' = {ask}
  /\ UNCHANGED <<config, raw, levels, orderVars>>

-----------------------------------------------------------------------------
Ask == IF levels = <<>> THEN changed_ask ELSE {levels[1].price}

(* Notional of the first i levels, in ticks times size.                    *)
KeptNotional(i) ==
  SumFunctionOnSet([j \in DOMAIN levels |-> levels[j].price * levels[j].size_atoms], 1..i)

Reaching(target) == {i \in DOMAIN levels : KeptNotional(i) >= target * MAKER_STEP}

(* cutoff_for_buy_cents, and the best ask where the levels hold too little.*)
buy_cutoff_for_cents(target) ==
  IF Reaching(target) = {} THEN Ask
  ELSE {levels[i].price : i \in {j \in Reaching(target) : \A k \in Reaching(target) : j <= k}}

(* decide_latest: the intent's limit, if in the band.                      *)
Decide(c) ==
  /\ intent = {} /\ holding = {}
  /\ \E cutoff \in buy_cutoff_for_cents(c.usdc_per_trade) :
       LET limit == cutoff + c.entry_slippage IN
       /\ checked(limit) /\ limit \in c.min_buy_limit..c.max_buy_limit
       /\ intent' = {limit}
  /\ raw' = <<>> /\ levels' = <<>> /\ changed_ask' = {}
  /\ UNCHANGED <<config, input, outcome, holding, body>>

-----------------------------------------------------------------------------
Body(side, limit, maker_atoms, taker_atoms) ==
  [side |-> side, limit |-> limit, maker_atoms |-> maker_atoms, taker_atoms |-> taker_atoms]

Signed(b) == {x \in {b} : x.maker_atoms > 0 /\ x.taker_atoms > 0}

(* sign_fak_buy, sign_fak_sell: cents, 0.0001 and 0.01 shares in atoms.    *)
sign_fak_buy(limit, target) == Signed(Body("BUY", limit, target.maker_amount * 10000, target.size * 100))
sign_fak_sell(limit, units) == Signed(Body("SELL", limit, units * 10000, limit * units * 100))

(* Only a live bot claims and prepares an intent: prepare_buy_submit.      *)
PrepareBuy(c, limit) ==
  LET inp == [price |-> limit, target |-> c.usdc_per_trade,
              overrun |-> c.max_notional_overrun, bps |-> c.max_notional_overrun_bps]
  IN  /\ c.live /\ input = {}
      /\ input' = {inp}
      /\ outcome' = canonical_buy_target(inp)
      /\ body' = IF c.maker = "none" THEN {} ELSE sign_fak_buy(limit, outcome')
      /\ UNCHANGED <<config, bookVars, intent, holding>>

(* At least a tick; the mutant leaves that out.                            *)
limit_unfloored(bid, slippage) == bid - slippage
sell_limit(bid, slippage) == IF bid - slippage >= 1 THEN bid - slippage ELSE 1

floor_from_shares4(size) == size \div 100

(* plan_sell_at_bid and SellPlan::sign.                                    *)
sell_body(c, bid, atoms) ==
  LET units == atoms \div 10000
      limit == sell_limit(bid, c.sell_slippage)
  IN  IF units > 0 /\ checked(limit) THEN sign_fak_sell(limit, floor_from_shares4(units * 100)) ELSE {}

PrepareSell(c, bid, atoms) ==
  /\ c.live /\ c.maker # "none"
  /\ raw = <<>> /\ changed_ask = {} /\ intent = {} /\ holding = {}
  /\ holding' = {[bid |-> bid, atoms |-> atoms]}
  /\ body' = sell_body(c, bid, atoms)
  /\ UNCHANGED <<config, bookVars, intent, input, outcome>>

Next ==
  \/ \E l \in Launches : Launch(l)
  \/ \E level \in BookLevel : ReadLevel(level)
  \/ \E ask \in ChangedAsks : PriceChange(ask)
  \/ \E c \in config :
       \/ Decide(c)
       \/ \E limit \in intent : PrepareBuy(c, limit)
       \/ \E bid \in Bids, atoms \in Holdings : PrepareSell(c, bid, atoms)

Spec == Init /\ [][Next]_vars

-----------------------------------------------------------------------------
(* The book the message describes: the size at each price.                 *)
SizeAt(price) ==
  SumFunctionOnSet([i \in DOMAIN raw |-> raw[i].size_atoms],
                   {i \in DOMAIN raw : raw[i].price = price})

Quoted == {price \in LevelPrices : SizeAt(price) > 0}

BookNotional(price) ==
  SumFunctionOnSet([q \in Quoted |-> q * SizeAt(q)], {q \in Quoted : q <= price})

(* Whatever the order of the message's levels and however a price's size   *)
(* is split over them, the cutoff is the least price up to which the whole *)
(* book offers the target; only where that takes more prices than are kept *)
(* it is the best ask, at which the target cannot be filled.               *)
CutoffCovers ==
  \A c \in config :
    LET target == c.usdc_per_trade
        enough == {price \in Quoted : BookNotional(price) >= target * MAKER_STEP}
        near == {price \in enough : Cardinality({q \in Quoted : q <= price}) <= LEVELS}
        pool == IF near = {} THEN Quoted ELSE near
    IN  raw # <<>> =>
          buy_cutoff_for_cents(target) = {price \in pool : \A q \in pool : price <= q}

(* The input a body was made of: none or one.                              *)
Chosen == {inp \in input : outcome.kind = "target"}

(* What is signed is what the venue accepts, at any price: the amounts are *)
(* in the proportion of the limit to the atom, the one in dollars of a BUY *)
(* whole cents and both at least the venue's minimum, the shares of a SELL *)
(* whole hundredths.                                                       *)
BodyIsExact ==
  \A b \in body :
    IF b.side = "BUY"
    THEN /\ b.maker_atoms * 100 = b.limit * b.taker_atoms
         /\ b.maker_atoms % 10000 = 0
         /\ b.maker_atoms >= MIN_MAKER * 10000 /\ b.taker_atoms >= MIN_SIZE * 100
    ELSE b.taker_atoms * 100 = b.limit * b.maker_atoms /\ b.maker_atoms % 10000 = 0

(* Every intent a live bot claims becomes an order: whatever environment   *)
(* and account it was let start with, sizing and signing refuse no limit   *)
(* of its band, so no claim is made for an order that cannot be.           *)
IntentIsSigned == input # {} => body # {}

(* Every holding of a hundredth of a share or more is offered at every bid,*)
(* all but less than a hundredth of it and no more than it, at a limit the *)
(* bid meets, however large the concession (where it is not negative).     *)
SellIsPriced ==
  \A c \in config, h \in holding :
    c.sell_slippage >= 0 /\ h.atoms >= 10000 =>
      \E b \in body : /\ b.limit \in 1..h.bid
                      /\ b.maker_atoms <= h.atoms /\ h.atoms - b.maker_atoms < 10000

(* Nothing acceptable lies between the target and the amount chosen above  *)
(* it; an amount below the target is only taken where the one above would  *)
(* pass the cap.                                                           *)
LeastOvershoot ==
  \A inp \in Chosen :
    LET needed == raw_size(inp)
        size == outcome.size
        (* Lattice points up to one step above the target, by definition:  *)
        (* no other size has a whole number of cents.                      *)
        between == {s \in needed..(needed + MAKER_STEP) : Aligned(inp.price, s)}
        least == CHOOSE s \in between : \A t \in between : s <= t
    IN  IF size >= needed THEN size = least
        ELSE /\ maker_cents(inp.price, least) > max_allowed(inp)
             /\ \A s \in (size + 1)..(needed - 1) : ~Aligned(inp.price, s)

(* Amounts of whole cents between the venue's minimum and the cap that buy *)
(* a size the venue takes.                                                 *)
Affordable(inp) ==
  {cents \in MIN_MAKER..max_allowed(inp) :
     /\ (cents * MAKER_STEP) % inp.price = 0
     /\ (cents * MAKER_STEP) \div inp.price >= MIN_SIZE}

(* "Lattice gap: ceil is above max_allowed, floor is below min_maker": the *)
(* cap on overrun is passed only where no amount at all between the venue's*)
(* minimum and the cap buys a size, not just where the two sizes tried do  *)
(* not (a cap below the target, from negative settings, left out).         *)
OverrunOnlyAtGaps ==
  \A inp \in Chosen :
    max_allowed(inp) >= inp.target /\ Affordable(inp) # {} => outcome.maker_amount <= max_allowed(inp)

(* "Hard cap on absolute notional overrun above the target": no order      *)
(* costs more than the target and the larger of the two overruns.          *)
OverrunCapped == \A inp \in Chosen : outcome.maker_amount <= max_allowed(inp)

=============================================================================
