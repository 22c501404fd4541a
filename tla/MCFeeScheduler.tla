--------------------------- MODULE MCFeeScheduler ---------------------------
(***************************************************************************)
(* Fee schedules of up to two periods, with fees in percent and reductions *)
(* in tenths (Exponential) or in percent (Linear).                         *)
(***************************************************************************)
EXTENDS FeeScheduler

SmallSchedules ==
  [cliff_fee_numerator : {0, 10, 60}, period_frequency : {0, 3},
   reduction_factor : {1, 4}, number_of_period : {2},
   fee_scheduler_mode : {"Linear", "Exponential"}]

NoDynamicFee == [initialized |-> FALSE, max_volatility_accumulator |-> 0,
                 variable_fee_control |-> 0, bin_step |-> 0, filter_period |-> 0,
                 decay_period |-> 0, reduction_factor |-> 0, bin_step_u128 |-> 1]

=============================================================================
