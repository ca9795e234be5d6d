------------------------------ MODULE MCOrders -------------------------------
(* Orders for TLC: snapshots of five prices around the middle, a price     *)
(* change to every ask, one or two settings away from a baseline, and every*)
(* account.                                                                *)
EXTENDS Orders

FivePrices == {48, 49, 50, 52, 53}
FewSizes == {0, 10000, 30000}
AllTicks == 1..99
SomeBids == {1, 2, 50, 99}
FewHoldings == {9999, 10000, 19999, 1234567}

(* A cent above the floor, the widest band, the rest left to its default.  *)
Baseline ==
  [s \in Settings |-> CASE s = "usdc_per_trade" -> 101
                        [] s = "min_buy_limit" -> 1
                        [] s = "max_buy_limit" -> 99
                        [] s = "min_decision_tte" -> 1
                        [] OTHER -> Missing]

(* Around every bound the start checks.                                    *)
Tried(s) ==
  {Missing, Unreadable, -1, 0, 1} \cup
  CASE s = "usdc_per_trade" -> {99, 100, 250}
    [] s = "max_notional_overrun" -> {-101, 25}
    [] s = "max_notional_overrun_bps" -> {-500, 500}
    [] s \in {"min_buy_limit", "max_buy_limit"} -> {40, 60, 99, 100}
    [] s \in {"entry_slippage", "sell_slippage"} -> {3, 98}
    [] OTHER -> {I32_MAX + 1}

Varied(s, t) == {[Baseline EXCEPT ![s] = v, ![t] = w] : v \in Tried(s), w \in Tried(t)}

Environments ==
  UNION {Varied(s, s) : s \in Settings} \cup UNION {Varied(s, t) : s, t \in OrderSettings}

Trader == [live |-> TRUE, signature_kind |-> "EOA", funder |-> "none", pk |-> "key",
           credentials |-> "good", address |-> TRUE]

FewLaunches ==
  {[env |-> env, account |-> Trader, granted |-> "none"] : env \in Environments}
    \cup [env : {Baseline}, account : Account, granted : {"none", "bad secret", "good"}]

(* Snapshots for the floor, the baseline and a target two levels deep.     *)
SomeConfigs ==
  {[s \in OrderSettings |-> IF s = "usdc_per_trade" THEN target ELSE Value(Baseline, s)]
     @@ [live |-> TRUE, maker |-> "own"] : target \in {100, 101, 250}}

=============================================================================
