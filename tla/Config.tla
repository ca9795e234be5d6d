------------------------------- MODULE Config -------------------------------
(***************************************************************************)
(* Whether the bot starts, and with what (config.rs, the first steps of    *)
(* main.rs, the constructors of signing.rs and auth.rs).  An environment   *)
(* gives each numeric setting a number in the setting's own unit, or the   *)
(* setting is Missing, or Unreadable: no number, or one with more decimals *)
(* than it keeps.  Settings no value of which is refused (the times of the *)
(* signal, all f64, most texts) are left out, and so is which refusal is   *)
(* met first.                                                              *)
(***************************************************************************)
EXTENDS Integers

CONSTANTS
  Missing, Unreadable,
  I32_MAX            \* scaled: the width of a setting kept in an i32

ASSUME WidthAssumption == I32_MAX \in Nat

Required == {"usdc_per_trade", "min_buy_limit", "min_decision_tte"}

Default ==
  [max_notional_overrun |-> 1, max_notional_overrun_bps |-> 0, max_buy_limit |-> 60,
   decision_min_edge |-> 5, entry_slippage |-> 0, sell_slippage |-> 0,
   exit_drop |-> 2, exit_arm |-> 2, exit_stop |-> 3, exit_edge |-> 0, exit_hold |-> 30000000,
   signal_quote_age |-> 50000, rtt_ceiling |-> 1500000, poly_drift_window |-> 1000000,
   poly_drift_block_up |-> 4, poly_drift_block_down |-> 4, poly_drift_safety_bps |-> 12000,
   poly_drift_min_clean_edge |-> 3, market_window |-> 300]

Settings == Required \cup DOMAIN Default

(* The venue rejects a BUY of less; the mutant does not check it.          *)
no_floor == 1
venue_floor == 100

(* What a setting must at least be, where that is checked.                 *)
Least ==
  [usdc_per_trade |-> venue_floor, min_decision_tte |-> 1, exit_drop |-> 1, exit_arm |-> 0,
   exit_stop |-> 1, exit_hold |-> 1, signal_quote_age |-> 1, rtt_ceiling |-> 0,
   poly_drift_window |-> 0, poly_drift_block_up |-> 0, poly_drift_block_down |-> 0,
   poly_drift_safety_bps |-> 0, poly_drift_min_clean_edge |-> 0, market_window |-> 1]

Wide == {"usdc_per_trade", "max_notional_overrun", "max_notional_overrun_bps", "min_decision_tte",
         "exit_hold", "signal_quote_age", "rtt_ceiling", "poly_drift_window", "market_window"}

Reads(env, s) == env[s] \notin {Missing, Unreadable}
Value(env, s) == IF Reads(env, s) THEN env[s] ELSE Default[s]

Admits(env, s) ==
  /\ s \in Required => Reads(env, s)
  /\ s \notin Wide => Value(env, s) \in (-I32_MAX - 1)..I32_MAX
  /\ s \in DOMAIN Least => Value(env, s) >= Least[s]

checked(ticks) == ticks \in 1..99

(* Config::from_env, the window of LaunchConfig, and signal_config.        *)
Accepts(env) ==
  /\ \A s \in Settings : Admits(env, s)
  /\ Value(env, "min_buy_limit") < Value(env, "max_buy_limit")
  /\ checked(Value(env, "min_buy_limit")) /\ checked(Value(env, "max_buy_limit"))

-----------------------------------------------------------------------------
(* The rest of what an order needs: texts, by what is made of them.  A     *)
(* funder that does not parse is as good as none.                          *)
Account ==
  [live : BOOLEAN,
   signature_kind : {"EOA", "POLY_PROXY", "POLY_GNOSIS_SAFE", "unsupported"},
   funder : {"none", "unparsable", "address"},
   pk : {"none", "invalid", "key"},
   credentials : {"none", "bad secret", "good"},
   address : BOOLEAN]

(* derive_api_credentials: what the venue grants to the key.               *)
Derives(account) == account.credentials = "none" /\ account.pk # "none"
Credentials(account, granted) ==
  IF Derives(account) THEN (IF account.pk = "key" THEN granted ELSE "none") ELSE account.credentials

(* OrderSigner::new: the maker of its orders, or none.                     *)
Maker(account) ==
  IF account.pk # "key" THEN "none"
  ELSE IF account.signature_kind = "EOA" THEN IF account.funder = "address" THEN "none" ELSE "own"
  ELSE IF account.funder = "address" THEN "funder" ELSE "none"

Starts(env, account, granted) ==
  /\ Accepts(env)
  /\ account.signature_kind # "unsupported"
  /\ Credentials(account, granted) # "none"
  /\ account.live => /\ Credentials(account, granted) = "good"
                     /\ Maker(account) # "none"
                     /\ account.address \/ Derives(account)

=============================================================================
