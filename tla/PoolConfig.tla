---------------------------- MODULE PoolConfig -----------------------------
(***************************************************************************)
(* The configuration a pool is launched from: what create_config accepts   *)
(* (ConfigParameters::validate), what it computes from the parameters, and *)
(* the splits PoolConfig takes of it later.  The config account is never   *)
(* written again, so it is a constant here.                                *)
(*                                                                         *)
(* Accepts is assumed of the parameters: a pool only exists under a config *)
(* that create_config accepted.                                            *)
(***************************************************************************)
EXTENDS FeeMath, SwapMath

CONSTANTS
  Params,            \* ConfigParameters, a record
  U64_MAX,           \* 2^64 - 1 in the program
  U128_MAX,          \* 2^128 - 1
  MAX_SUPPLY         \* get_max_supply: MAX_TOKEN_SUPPLY * 10^decimals

U64  == 0 .. U64_MAX
U128 == 0 .. U128_MAX

-----------------------------------------------------------------------------
(* LockedVestingParams *)
LockedVesting == Params.locked_vesting

has_vesting ==
  LockedVesting # [amount_per_period |-> 0, cliff_duration_from_migration_time |-> 0,
                   frequency |-> 0, number_of_period |-> 0, cliff_unlock_amount |-> 0]

vesting_total ==
  LockedVesting.cliff_unlock_amount
    + LockedVesting.amount_per_period * LockedVesting.number_of_period

validate_vesting ==
  /\ vesting_total \in U64
  /\ has_vesting => LockedVesting.frequency # 0 /\ vesting_total # 0

-----------------------------------------------------------------------------
(* What handle_create_config stores.                                       *)
Curve                     == padded(Params.curve)
migration_option          == Params.migration_option
migration_quote_threshold == Params.migration_quote_threshold
sqrt_start_price          == Params.sqrt_start_price

threshold_walk ==
  get_migration_threshold_price(migration_quote_threshold, sqrt_start_price, Params.curve)

migration_sqrt_price == threshold_walk.sqrt_price

swap_base_amount ==
  get_base_token_for_swap(sqrt_start_price, migration_sqrt_price, Params.curve)

migration_base_threshold ==
  get_migration_base_token(migration_quote_threshold, migration_sqrt_price, migration_option)

(* Wrong: what the migration takes is forgotten.                           *)
total_amount_no_migration == (5 * swap_base_amount) \div 4

total_amount_with_buffer ==
  (5 * (migration_base_threshold + swap_base_amount)) \div 4

initial_base_supply == total_amount_with_buffer + vesting_total

-----------------------------------------------------------------------------
(* What validate and handle_create_config require.                         *)
(* The bin of one basis point is the only one; its fixed-point width is     *)
(* ONE / BASIS_POINT_MAX.  The two caps keep the square of the binned      *)
(* volatility, times the control factor, below 2^72: the checked u128      *)
(* operations of get_variable_fee_numerator never fail.                    *)
BIN_STEP_BPS_DEFAULT      == 1
BIN_STEP_BPS_U128_DEFAULT == (ONE * BIN_STEP_BPS_DEFAULT) \div BASIS_POINT_MAX
U24_MAX                   == 2 ^ 24 - 1

validate_dynamic_fee ==
  DynamicFee.initialized =>
    /\ DynamicFee.bin_step = BIN_STEP_BPS_DEFAULT
    /\ DynamicFee.bin_step_u128 = BIN_STEP_BPS_U128_DEFAULT
    /\ DynamicFee.filter_period < DynamicFee.decay_period
    /\ DynamicFee.reduction_factor <= BASIS_POINT_MAX
    /\ DynamicFee.variable_fee_control <= U24_MAX
    /\ DynamicFee.max_volatility_accumulator <= U24_MAX

validate_curve ==
  LET points == Params.curve
  IN  /\ MIN_SQRT_PRICE <= sqrt_start_price /\ sqrt_start_price < MAX_SQRT_PRICE
      /\ Len(points) \in 1 .. MAX_CURVE_POINT
      /\ points[1].sqrt_price > sqrt_start_price
      /\ \A i \in 2 .. Len(points) : points[i].sqrt_price > points[i - 1].sqrt_price
      /\ \A i \in 1 .. Len(points) : points[i].liquidity > 0
      /\ points[Len(points)].sqrt_price = MAX_SQRT_PRICE

validate_lp_percentages ==
  Params.partner_lp_percentage + Params.partner_locked_lp_percentage
    + Params.creator_lp_percentage + Params.creator_locked_lp_percentage = 100

(* get_initial_liquidity_from_delta_quote, which create_config calls for a *)
(* DAMM v2 migration: a division by the distance to the lowest price and a *)
(* cast to u128.                                                           *)
migration_liquidity_fits ==
  migration_option = "DammV2" =>
    /\ migration_sqrt_price > MIN_SQRT_PRICE
    /\ get_initial_liquidity_from_delta_quote(
         migration_quote_threshold, MIN_SQRT_PRICE, migration_sqrt_price) \in U128

Accepts ==
  /\ migration_option \in {"MeteoraDamm", "DammV2"}
  /\ migration_quote_threshold \in U64 /\ migration_quote_threshold # 0
  /\ validate_base_fee
  /\ validate_dynamic_fee
  /\ validate_lp_percentages
  /\ validate_vesting
  /\ validate_curve
  /\ threshold_walk.ok
  /\ swap_base_amount \in U64
  /\ migration_liquidity_fits
  /\ migration_base_threshold \in U64
  /\ total_amount_with_buffer <= MAX_SUPPLY
  /\ initial_base_supply \in U64

ASSUME ConfigAssumption ==
  /\ U64_MAX \in Nat
  /\ U128_MAX \in Nat
  /\ sqrt_start_price \in 1 .. U128_MAX
  /\ Params.curve \in Seq([sqrt_price : U128, liquidity : U128])
  /\ \A share \in {Params.partner_lp_percentage, Params.partner_locked_lp_percentage,
                   Params.creator_lp_percentage, Params.creator_locked_lp_percentage} :
       share \in 0 .. 100
  /\ Accepts

-----------------------------------------------------------------------------
(* get_lp_distribution, get_liquidity_distribution: the creator's unlocked *)
(* share is what rounding leaves.                                          *)
(* Wrong: the creator's share is rounded like the others.                  *)
get_lp_distribution_loses_rest(amount) ==
  LET share(percentage) == mul_div_down(amount, percentage, 100)
  IN  [partner |-> [unlocked |-> share(Params.partner_lp_percentage),
                    locked   |-> share(Params.partner_locked_lp_percentage)],
       creator |-> [unlocked |-> share(Params.creator_lp_percentage),
                    locked   |-> share(Params.creator_locked_lp_percentage)]]

get_lp_distribution(amount) ==
  LET share(percentage)  == mul_div_down(amount, percentage, 100)
      partner_locked_lp  == share(Params.partner_locked_lp_percentage)
      partner_lp         == share(Params.partner_lp_percentage)
      creator_locked_lp  == share(Params.creator_locked_lp_percentage)
  IN  [partner |-> [unlocked |-> partner_lp, locked |-> partner_locked_lp],
       creator |-> [unlocked |-> amount - partner_locked_lp - partner_lp - creator_locked_lp,
                    locked   |-> creator_locked_lp]]

get_total_liquidity(item) == item.unlocked + item.locked

=============================================================================
