---------------------------- MODULE MCMigration ----------------------------
(***************************************************************************)
(* Small launches for TLC.  ONE is 1024 instead of 2^64, so that a price   *)
(* step is worth less than a token as in the program (128 where amounts    *)
(* are in the thousands), and a fee is a share of 100, so that a handful   *)
(* of tokens crosses segments, rounds in every operation and pays every    *)
(* fee.                                                                    *)
(***************************************************************************)
EXTENDS InterfaceLocks

NoVesting == [amount_per_period |-> 0, cliff_duration_from_migration_time |-> 0,
              frequency |-> 0, number_of_period |-> 0, cliff_unlock_amount |-> 0]

(* Two segments, the threshold is reached in the second.                   *)
TwoSegments ==
  [migration_option |-> "MeteoraDamm",
   migration_quote_threshold |-> 20,
   sqrt_start_price |-> 1024,
   partner_lp_percentage |-> 30, partner_locked_lp_percentage |-> 20,
   creator_lp_percentage |-> 40, creator_locked_lp_percentage |-> 10,
   locked_vesting |-> NoVesting,
   curve |-> << [sqrt_price |-> 1536, liquidity |-> 24320],
                [sqrt_price |-> 4096, liquidity |-> 19200] >>]

(* A like curve in hundreds of tokens, ONE 128, migrated to DAMM v2.       *)
TwoSegmentsV2 ==
  [TwoSegments EXCEPT
    !.migration_option = "DammV2",
    !.migration_quote_threshold = 2000,
    !.sqrt_start_price = 128,
    !.partner_lp_percentage = 25, !.partner_locked_lp_percentage = 35,
    !.creator_lp_percentage = 30, !.creator_locked_lp_percentage = 10,
    !.curve = << [sqrt_price |-> 192, liquidity |-> 304000],
                 [sqrt_price |-> 512, liquidity |-> 240000] >>]

(* Far more liquidity past the threshold than before it: one last buy can  *)
(* take the whole buffer.                                                  *)
DeepEnd ==
  [TwoSegments EXCEPT
    !.curve = << [sqrt_price |-> 1536, liquidity |-> 24320],
                 [sqrt_price |-> 2048, liquidity |-> 19200],
                 [sqrt_price |-> 4096, liquidity |-> 128000] >>]

(* A vesting of five tokens for the creator.                               *)
Vesting == [amount_per_period |-> 2, cliff_duration_from_migration_time |-> 5,
            frequency |-> 1, number_of_period |-> 2, cliff_unlock_amount |-> 1]

TwoSegmentsV2Vesting ==
  [TwoSegmentsV2 EXCEPT
    !.locked_vesting = [Vesting EXCEPT !.amount_per_period = 200, !.cliff_unlock_amount = 100]]

DeepEndVesting == [DeepEnd EXCEPT !.locked_vesting = Vesting]

(* A cliff that ends after the last second a u64 counts.                   *)
EndlessCliff ==
  [TwoSegmentsV2Vesting EXCEPT !.locked_vesting.cliff_duration_from_migration_time = U64_MAX]

FlatFee == [cliff_fee_numerator |-> 10, period_frequency |-> 0, reduction_factor |-> 0,
            number_of_period |-> 0, fee_scheduler_mode |-> "Linear"]

NoDynamicFee == [initialized |-> FALSE, max_volatility_accumulator |-> 0,
                 variable_fee_control |-> 0, bin_step |-> 0, filter_period |-> 0,
                 decay_period |-> 0, reduction_factor |-> 0, bin_step_u128 |-> 1]

=============================================================================
