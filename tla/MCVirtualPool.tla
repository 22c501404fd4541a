--------------------------- MODULE MCVirtualPool ---------------------------
(***************************************************************************)
(* Small pools for TLC.  ONE is 1024 instead of 2^64, so that a price step *)
(* is worth less than a token as in the program, and a fee is a share of   *)
(* 100, so that a handful of tokens crosses segments, rounds in every      *)
(* operation and pays every kind of fee.                                   *)
(***************************************************************************)
EXTENDS VirtualPool

NoVesting == [amount_per_period |-> 0, cliff_duration_from_migration_time |-> 0,
              frequency |-> 0, number_of_period |-> 0, cliff_unlock_amount |-> 0]

(* Two segments, the threshold is reached in the second.                   *)
TwoSegments ==
  [migration_option |-> "MeteoraDamm",
   migration_quote_threshold |-> 20,
   sqrt_start_price |-> 1024,
   partner_lp_percentage |-> 30, partner_locked_lp_percentage |-> 20,
   creator_lp_percentage |-> 40, creator_locked_lp_percentage |-> 10,
   locked_vesting |-> NoVesting,
   curve |-> << [sqrt_price |-> 1536, liquidity |-> 24320],
                [sqrt_price |-> 4096, liquidity |-> 19200] >>]

(* The second segment split in two, the upper part deeper: a curve longer  *)
(* than the TypeScript client looks at.                                    *)
ThreeSegments ==
  [TwoSegments EXCEPT
     !.curve = << [sqrt_price |-> 1536, liquidity |-> 24320],
                  [sqrt_price |-> 2048, liquidity |-> 19200],
                  [sqrt_price |-> 4096, liquidity |-> 25600] >>]

FlatFee == [cliff_fee_numerator |-> 10, period_frequency |-> 0, reduction_factor |-> 0,
            number_of_period |-> 0, fee_scheduler_mode |-> "Linear"]

NoDynamicFee == [initialized |-> FALSE, max_volatility_accumulator |-> 0,
                 variable_fee_control |-> 0, bin_step |-> 0, filter_period |-> 0,
                 decay_period |-> 0, reduction_factor |-> 0, bin_step_u128 |-> 1]

(* Bins of a tenth of a price, fast decay, and (as far as the config       *)
(* allows) nothing of the volatility carried over.                         *)
FastDecay == [initialized |-> TRUE, max_volatility_accumulator |-> 60,
              variable_fee_control |-> 1, bin_step |-> 1, filter_period |-> 1,
              decay_period |-> 3, reduction_factor |-> 5, bin_step_u128 |-> 102]

FullReduction == [FastDecay EXCEPT !.reduction_factor = 10]

=============================================================================
