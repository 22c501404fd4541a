----------------------------- MODULE CurveMath -----------------------------
(***************************************************************************)
(* The integer arithmetic of the bonding curve: curve.rs and the mul/div   *)
(* helpers of math/ it calls.                                              *)
(*                                                                         *)
(* A square-root price is a fixed-point number with ONE = ONE_Q64 units to *)
(* the whole, so quote amounts are scaled by ONE^2 (the `<< 128` of the    *)
(* source).  The width of the fixed point is a constant: the program uses  *)
(* ONE = 2^64, a model a small ONE, and the rounding of every operation is *)
(* the same.  Intermediate products are U256/U512 in the source and never  *)
(* overflow; what is cast back to u64/u128 is checked by the caller.       *)
(***************************************************************************)
EXTENDS Integers

CONSTANT ONE            \* ONE_Q64, 2^64 in the program

ASSUME OneAssumption == ONE \in Nat \ {0}

ONE_SQUARED == ONE * ONE          \* 1 << (RESOLUTION * 2)

(* mul_div_u256, safe_mul_div_cast_u64: (x * y) / d in either rounding.    *)
mul_div_down(x, y, d) == (x * y) \div d
mul_div_up(x, y, d)   == (x * y + d - 1) \div d

minimum(a, b) == IF a <= b THEN a ELSE b
maximum(a, b) == IF a >= b THEN a ELSE b

-----------------------------------------------------------------------------
(* Base tokens between two prices at constant liquidity: L*(pu-pl)/(pu*pl) *)
(* Wrong: rounded in the trader's favour.                                  *)
get_delta_amount_base_rounded_up(lower, upper, liquidity) ==
  mul_div_up(liquidity, upper - lower, lower * upper)

get_delta_amount_base_down(lower, upper, liquidity) ==
  mul_div_down(liquidity, upper - lower, lower * upper)

get_delta_amount_base_up(lower, upper, liquidity) ==
  mul_div_up(liquidity, upper - lower, lower * upper)

(* Quote tokens between two prices at constant liquidity: L*(pu-pl).       *)
(* Wrong: rounded in the trader's favour.                                  *)
get_delta_amount_quote_rounded_up(lower, upper, liquidity) ==
  mul_div_up(liquidity, upper - lower, ONE_SQUARED)

get_delta_amount_quote_down(lower, upper, liquidity) ==
  mul_div_down(liquidity, upper - lower, ONE_SQUARED)

get_delta_amount_quote_up(lower, upper, liquidity) ==
  mul_div_up(liquidity, upper - lower, ONE_SQUARED)

(* The price after selling `amount` base tokens, rounded up ...            *)
get_next_sqrt_price_from_amount_base_rounding_up(sqrt_price, liquidity, amount) ==
  IF amount = 0
  THEN sqrt_price
  ELSE mul_div_up(liquidity, sqrt_price, liquidity + amount * sqrt_price)

(* ... and after paying `amount` quote tokens, rounded down.               *)
get_next_sqrt_price_from_amount_quote_rounding_down(sqrt_price, liquidity, amount) ==
  sqrt_price + mul_div_down(amount, ONE_SQUARED, liquidity)

-----------------------------------------------------------------------------
(* The liquidity a single-sided amount is worth, rounded down, and the two *)
(* amounts a pool of that liquidity takes, rounded up.                     *)
get_initial_liquidity_from_delta_base(base_amount, sqrt_max_price, sqrt_price) ==
  (base_amount * sqrt_price * sqrt_max_price) \div (sqrt_max_price - sqrt_price)

get_initial_liquidity_from_delta_quote(quote_amount, sqrt_min_price, sqrt_price) ==
  (quote_amount * ONE_SQUARED) \div (sqrt_price - sqrt_min_price)

get_initialize_amounts(sqrt_min_price, sqrt_max_price, sqrt_price, liquidity) ==
  [base  |-> get_delta_amount_base_up(sqrt_price, sqrt_max_price, liquidity),
   quote |-> get_delta_amount_quote_up(sqrt_min_price, sqrt_price, liquidity)]

=============================================================================
