------------------------------ MODULE FeeMath ------------------------------
(***************************************************************************)
(* The fee of a swap: PoolFeesConfig, BaseFeeConfig and DynamicFeeConfig   *)
(* of state/config.rs with the volatility tracker and the fee mode of      *)
(* state/fee.rs.  All of it is pure: the tracker is a record that the pool *)
(* stores, the operators return the next one.                              *)
(*                                                                         *)
(* The fee parameters are constants of the pool's config account, which no *)
(* instruction changes after create_config.                                *)
(***************************************************************************)
EXTENDS CurveMath

CONSTANTS
  FEE_DENOMINATOR,     \* 10^9 in the program
  MAX_FEE_NUMERATOR,   \* FEE_DENOMINATOR / 2
  MIN_FEE_NUMERATOR,   \* 10^5
  PROTOCOL_FEE_PERCENT,\* share of the trading fee, in percent (20)
  HOST_FEE_PERCENT,    \* share of the protocol fee for a referrer (20)
  BASIS_POINT_MAX,     \* 10^4
  V_FEE_SCALE,         \* 10^11, the scaling of the variable fee
  BaseFee,             \* [cliff_fee_numerator, period_frequency,
                       \*  reduction_factor, number_of_period,
                       \*  fee_scheduler_mode]
  DynamicFee,          \* [initialized, max_volatility_accumulator,
                       \*  variable_fee_control, bin_step, filter_period,
                       \*  decay_period, reduction_factor, bin_step_u128]
  COLLECT_FEE_MODE     \* "QuoteToken" or "OutputToken"

ASSUME FeeAssumption ==
  /\ FEE_DENOMINATOR \in Nat \ {0}
  /\ MAX_FEE_NUMERATOR \in 0 .. FEE_DENOMINATOR
  /\ MIN_FEE_NUMERATOR \in Nat
  /\ PROTOCOL_FEE_PERCENT \in 0 .. 100
  /\ HOST_FEE_PERCENT \in 0 .. 100
  /\ BASIS_POINT_MAX \in Nat \ {0}
  /\ V_FEE_SCALE \in Nat \ {0}
  /\ BaseFee \in [cliff_fee_numerator : Nat, period_frequency : Nat,
                  reduction_factor : Nat, number_of_period : Nat,
                  fee_scheduler_mode : {"Linear", "Exponential"}]
  /\ DynamicFee \in [initialized : BOOLEAN, max_volatility_accumulator : Nat,
                     variable_fee_control : Nat, bin_step : Nat,
                     filter_period : Nat, decay_period : Nat,
                     reduction_factor : Nat, bin_step_u128 : Nat \ {0}]
  /\ COLLECT_FEE_MODE \in {"QuoteToken", "OutputToken"}

-----------------------------------------------------------------------------
(* base^exp in fixed point, by repeated squaring over the bits of a u16.  A *)
(* base of one or more is inverted first and the result inverted back;     *)
(* None (the source's failure) is -1.                                      *)
None == -1
MAX_U128 == ONE_SQUARED - 1

pow(base, exp) ==
  LET inverted == base >= ONE
      squared[i \in 0 .. 15] ==
        IF i = 0 THEN (IF inverted THEN MAX_U128 \div base ELSE base)
                 ELSE mul_div_down(squared[i - 1], squared[i - 1], ONE)
      product[i \in 0 .. 16] ==
        IF i = 0 THEN ONE
        ELSE IF (exp \div 2 ^ (i - 1)) % 2 = 1
             THEN mul_div_down(product[i - 1], squared[i - 1], ONE)
             ELSE product[i - 1]
  IN  IF exp = 0 THEN ONE
      ELSE IF product[16] = 0 THEN None
      ELSE IF inverted THEN MAX_U128 \div product[16] ELSE product[16]

(* cliff * (1 - reduction_factor / BASIS_POINT_MAX)^period                 *)
get_fee_in_period(cliff_fee_numerator, reduction_factor, passed_period) ==
  LET base  == ONE - mul_div_down(reduction_factor, ONE, BASIS_POINT_MAX)
      power == IF base < 0 THEN None ELSE pow(base, passed_period)
  IN  IF power = None THEN None ELSE mul_div_down(power, cliff_fee_numerator, ONE)

(* The scheduled base fee; a negative result is the failure of a checked   *)
(* operation (a point before the activation, a reduction below zero).      *)
get_base_fee_numerator(current_point, activation_point) ==
  LET passed == (current_point - activation_point) \div BaseFee.period_frequency
      period == minimum(passed, BaseFee.number_of_period)
  IN  IF BaseFee.period_frequency = 0 THEN BaseFee.cliff_fee_numerator
      ELSE IF current_point < activation_point THEN None
      ELSE IF BaseFee.fee_scheduler_mode = "Linear"
      THEN BaseFee.cliff_fee_numerator - BaseFee.reduction_factor * period
      ELSE get_fee_in_period(BaseFee.cliff_fee_numerator, BaseFee.reduction_factor, period)

(* BaseFeeParameters::validate.  The scheduler's lowest fee is asked of     *)
(* get_base_fee_numerator(0, 1), whose checked subtraction 0 - 1 fails     *)
(* unless the period frequency is zero.                                    *)
validate_base_fee ==
  LET min_fee_numerator == get_base_fee_numerator(0, 1)
      max_fee_numerator == BaseFee.cliff_fee_numerator
  IN  /\ min_fee_numerator # None
      /\ MIN_FEE_NUMERATOR <= min_fee_numerator
      /\ min_fee_numerator < FEE_DENOMINATOR
      /\ max_fee_numerator < FEE_DENOMINATOR
      /\ max_fee_numerator <= MAX_FEE_NUMERATOR

get_variable_fee_numerator(tracker) ==
  IF ~DynamicFee.initialized
  THEN 0
  ELSE LET vfa_bin == tracker.volatility_accumulator * DynamicFee.bin_step
       IN  mul_div_up(vfa_bin * vfa_bin, DynamicFee.variable_fee_control, V_FEE_SCALE)

get_total_trading_fee(tracker, current_point, activation_point) ==
  minimum(get_variable_fee_numerator(tracker)
            + get_base_fee_numerator(current_point, activation_point),
          MAX_FEE_NUMERATOR)

(* The fee on an amount, taken out of it and split: the partner keeps the  *)
(* trading fee, the protocol its percentage of it and a referrer its       *)
(* percentage of the protocol's part.                                      *)
get_fee_on_amount(tracker, amount, has_referral, current_point, activation_point) ==
  LET numerator == get_total_trading_fee(tracker, current_point, activation_point)
      fee       == mul_div_up(amount, numerator, FEE_DENOMINATOR)
      protocol  == mul_div_down(fee, PROTOCOL_FEE_PERCENT, 100)
      referral  == IF has_referral THEN mul_div_down(protocol, HOST_FEE_PERCENT, 100)
                                   ELSE 0
  IN  [amount       |-> amount - fee,
       trading_fee  |-> fee - protocol,
       protocol_fee |-> protocol - referral,
       referral_fee |-> referral]

(* Which token pays the fee, and on which side of the swap.                *)
get_fee_mode(direction, has_referral) ==
  [fees_on_input      |-> COLLECT_FEE_MODE = "QuoteToken" /\ direction = "QuoteToBase",
   fees_on_base_token |-> COLLECT_FEE_MODE = "OutputToken" /\ direction = "QuoteToBase",
   has_referral       |-> has_referral]

-----------------------------------------------------------------------------
(* VolatilityTracker.  A u128 is a Nat here; the pool checks the width.    *)
InitialTracker ==
  [last_update_timestamp |-> 0, sqrt_price_reference |-> 0,
   volatility_accumulator |-> 0, volatility_reference |-> 0]

get_delta_bin_id(sqrt_price_a, sqrt_price_b) ==
  LET upper == maximum(sqrt_price_a, sqrt_price_b)
      lower == minimum(sqrt_price_a, sqrt_price_b)
      ratio == (upper * ONE) \div lower
  IN  2 * ((ratio - ONE) \div DynamicFee.bin_step_u128)

(* Before a swap: a pause of filter_period makes the current price the     *)
(* reference, and keeps a decayed part of the accumulator unless           *)
(* decay_period has gone by too.                                           *)
(* Wrong: the accumulator itself decays.                                   *)
update_references_decays_accumulator(tracker, sqrt_price, timestamp) ==
  LET elapsed == timestamp - tracker.last_update_timestamp
      decayed == mul_div_down(tracker.volatility_accumulator,
                              DynamicFee.reduction_factor, BASIS_POINT_MAX)
  IN  IF elapsed < DynamicFee.filter_period
      THEN tracker
      ELSE [tracker EXCEPT !.sqrt_price_reference = sqrt_price,
                           !.volatility_accumulator = decayed,
                           !.volatility_reference = decayed]

update_references(tracker, sqrt_price, timestamp) ==
  LET elapsed == timestamp - tracker.last_update_timestamp
      decayed == mul_div_down(tracker.volatility_accumulator,
                              DynamicFee.reduction_factor, BASIS_POINT_MAX)
  IN  IF elapsed < DynamicFee.filter_period
      THEN tracker
      ELSE [tracker EXCEPT
             !.sqrt_price_reference = sqrt_price,
             !.volatility_reference = IF elapsed < DynamicFee.decay_period
                                      THEN decayed ELSE 0]

update_volatility_accumulator(tracker, sqrt_price) ==
  LET delta == get_delta_bin_id(sqrt_price, tracker.sqrt_price_reference)
  IN  [tracker EXCEPT !.volatility_accumulator =
         minimum(tracker.volatility_reference + delta * BASIS_POINT_MAX,
                 DynamicFee.max_volatility_accumulator)]

update_pre_swap(tracker, sqrt_price, timestamp) ==
  IF DynamicFee.initialized THEN update_references(tracker, sqrt_price, timestamp)
                            ELSE tracker

(* After a swap: the timestamp moves only when the price crossed a bin.    *)
(* Wrong: measured before the price moved.                                 *)
update_post_swap_old_price(tracker, old_sqrt_price, sqrt_price, timestamp) ==
  IF ~DynamicFee.initialized
  THEN tracker
  ELSE [update_volatility_accumulator(tracker, old_sqrt_price) EXCEPT
         !.last_update_timestamp =
            IF get_delta_bin_id(old_sqrt_price, sqrt_price) > 0 THEN timestamp ELSE @]

update_post_swap(tracker, old_sqrt_price, sqrt_price, timestamp) ==
  IF ~DynamicFee.initialized
  THEN tracker
  ELSE [update_volatility_accumulator(tracker, sqrt_price) EXCEPT
         !.last_update_timestamp =
            IF get_delta_bin_id(old_sqrt_price, sqrt_price) > 0 THEN timestamp ELSE @]

=============================================================================
