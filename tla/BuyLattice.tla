----------------------------- MODULE BuyLattice -----------------------------
(***************************************************************************)
(* The size and the maker amount of a BUY (orders.rs, with the arithmetic  *)
(* of types.rs): pure functions of a price and a policy, together an input *)
(* [price, target, overrun, bps].  Sizes are in 0.0001 share, amounts in   *)
(* cents, products of ticks and size in units of 1 / MAKER_STEP cents.     *)
(***************************************************************************)
EXTENDS Integers

CONSTANTS
  MIN_SIZE,          \* min_size_taker_units
  MIN_MAKER          \* min_maker_cents

ASSUME MinimaAssumption == MIN_SIZE \in Nat /\ MIN_MAKER \in Nat

MAKER_STEP == 10000
RAW_STEP == 100

Without(kind) == [kind |-> kind, size |-> 0, maker_amount |-> 0]
Pending == Without("pending")
NoValidSize == Without("no valid size")
RawSizeBelowMin == Without("raw size below min")

-----------------------------------------------------------------------------
gcd[ab \in Nat \X Nat] == IF ab[2] = 0 THEN ab[1] ELSE gcd[<<ab[2], ab[1] % ab[2]>>]

(* Mutant: the factor the price has in common with the step is lost.       *)
whole_share(price) == MAKER_STEP

buy_size_multiple(price) == MAKER_STEP \div gcd[<<price, MAKER_STEP>>]

floor_to_multiple(raw, mult) == (raw \div mult) * mult

(* Its mutant takes one step more where none is needed.                    *)
step_above(raw, mult) == floor_to_multiple(raw, mult) + mult

ceil_to_multiple(raw, mult) == IF raw % mult = 0 THEN raw ELSE floor_to_multiple(raw, mult) + mult

Aligned(price, size) == (price * size) % MAKER_STEP = 0
maker_cents(price, size) == (price * size) \div MAKER_STEP

(* Target over price in 0.01 share, rounded up.                            *)
raw_size(inp) ==
  ((inp.target * RAW_STEP) \div inp.price) * RAW_STEP
    + (IF (inp.target * RAW_STEP) % inp.price > 0 THEN RAW_STEP ELSE 0)

(* Negative settings are accepted; the division is toward zero.            *)
bps_overrun(inp) ==
  IF inp.bps >= 0 THEN (inp.target * inp.bps) \div 10000 ELSE -((inp.target * (-inp.bps)) \div 10000)

max_allowed(inp) ==
  inp.target + (IF inp.overrun >= bps_overrun(inp) THEN inp.overrun ELSE bps_overrun(inp))

ceil_size(inp) == ceil_to_multiple(raw_size(inp), buy_size_multiple(inp.price))
floor_size(inp) == floor_to_multiple(raw_size(inp), buy_size_multiple(inp.price))

MeetsMinimum(inp, size) ==
  Aligned(inp.price, size) /\ maker_cents(inp.price, size) >= MIN_MAKER /\ size >= MIN_SIZE

(* The mutant accepts the floor below the venue's minimum.                 *)
cap_only(inp, size) ==
  Aligned(inp.price, size) /\ maker_cents(inp.price, size) <= max_allowed(inp)

in_band(inp, size) ==
  MeetsMinimum(inp, size) /\ maker_cents(inp.price, size) <= max_allowed(inp)

Target(inp, size) == [kind |-> "target", size |-> size, maker_amount |-> maker_cents(inp.price, size)]

(* The least overshoot if in the band, else the floor if that is, else the *)
(* least overshoot all the same.                                           *)
canonical_buy_target(inp) ==
  LET ceil == ceil_size(inp)
      floor == floor_size(inp)
  IN  IF raw_size(inp) < MIN_SIZE THEN RawSizeBelowMin
      ELSE IF in_band(inp, ceil) THEN Target(inp, ceil)
      ELSE IF in_band(inp, floor) THEN Target(inp, floor)
      ELSE IF MeetsMinimum(inp, ceil) THEN Target(inp, ceil)
      ELSE NoValidSize

=============================================================================
