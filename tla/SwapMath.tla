----------------------------- MODULE SwapMath ------------------------------
(***************************************************************************)
(* How an amount moves along the bonding curve: the two segment walks of   *)
(* VirtualPool (state/virtual_pool.rs) and the three sums create_config    *)
(* takes over the curve (params/liquidity_distribution.rs).                *)
(*                                                                         *)
(* The curve is a sequence of [sqrt_price, liquidity] points with growing  *)
(* prices: point i holds the liquidity of the segment that ends at its     *)
(* price and starts at the price before it (at sqrt_start_price for the    *)
(* first).  PoolConfig::init pads it to MAX_CURVE_POINT with empty points  *)
(* at MAX_SQRT_PRICE.                                                      *)
(*                                                                         *)
(* A loop over the points is a recursive function: its value at i is the   *)
(* record of the source's running variables after i passes, and `done` is  *)
(* its `break`.                                                            *)
(***************************************************************************)
EXTENDS CurveMath, Sequences

CONSTANTS
  MIN_SQRT_PRICE,
  MAX_SQRT_PRICE,
  MAX_CURVE_POINT      \* 20 in the program

ASSUME PriceAssumption ==
  /\ MIN_SQRT_PRICE \in Nat \ {0}
  /\ MAX_SQRT_PRICE \in Nat
  /\ MIN_SQRT_PRICE < MAX_SQRT_PRICE
  /\ MAX_CURVE_POINT \in Nat \ {0, 1}

(* PoolConfig::init *)
padded(curve) ==
  [i \in 1 .. MAX_CURVE_POINT |->
     IF i <= Len(curve) THEN curve[i] ELSE [sqrt_price |-> MAX_SQRT_PRICE, liquidity |-> 0]]

walk_start(sqrt_price, amount) ==
  [sqrt_price |-> sqrt_price, amount_left |-> amount, output |-> 0, done |-> FALSE]

-----------------------------------------------------------------------------
(* Buying: up the curve.  A segment is bought whole when the amount left   *)
(* covers its rounded-up price.                                            *)
quote_to_base_step(walk, point) ==
  LET max_amount_in == get_delta_amount_quote_up(walk.sqrt_price, point.sqrt_price, point.liquidity)
      partial       == walk.amount_left < max_amount_in
      next_price    == IF partial
                       THEN get_next_sqrt_price_from_amount_quote_rounding_down(
                              walk.sqrt_price, point.liquidity, walk.amount_left)
                       ELSE point.sqrt_price
      bought        == get_delta_amount_base_down(walk.sqrt_price, next_price, point.liquidity)
  IN  IF walk.done \/ point.sqrt_price <= walk.sqrt_price
      THEN walk
      ELSE [sqrt_price  |-> next_price,
            amount_left |-> IF partial THEN 0 ELSE walk.amount_left - max_amount_in,
            output      |-> walk.output + bought,
            done        |-> partial]

quote_to_base_walk(curve, sqrt_price, amount_in) ==
  LET walk[i \in 0 .. MAX_CURVE_POINT] ==
        IF i = 0 THEN walk_start(sqrt_price, amount_in)
                 ELSE quote_to_base_step(walk[i - 1], curve[i])
  IN  walk

get_swap_amount_from_quote_to_base(curve, sqrt_price, amount_in) ==
  LET walk == quote_to_base_walk(curve, sqrt_price, amount_in)[MAX_CURVE_POINT]
  IN  [ok              |-> walk.amount_left = 0,      \* else NotEnoughLiquidity
       output_amount   |-> walk.output,
       next_sqrt_price |-> walk.sqrt_price]

(* Selling: down the curve, over the segments below the current price, and *)
(* then on the first segment's liquidity with no lower bound.              *)
base_to_quote_step(curve, i, walk) ==
  LET lower         == curve[i].sqrt_price
      liquidity     == curve[i + 1].liquidity
      max_amount_in == get_delta_amount_base_up(lower, walk.sqrt_price, liquidity)
      partial       == walk.amount_left < max_amount_in
      next_price    == IF partial
                       THEN get_next_sqrt_price_from_amount_base_rounding_up(
                              walk.sqrt_price, liquidity, walk.amount_left)
                       ELSE lower
      received      == get_delta_amount_quote_down(next_price, walk.sqrt_price, liquidity)
  IN  IF walk.done \/ lower >= walk.sqrt_price
      THEN walk
      ELSE [sqrt_price  |-> next_price,
            amount_left |-> IF partial THEN 0 ELSE walk.amount_left - max_amount_in,
            output      |-> walk.output + received,
            done        |-> partial]

base_to_quote_walk(curve, sqrt_price, amount_in) ==
  LET walk[i \in 0 .. MAX_CURVE_POINT - 1] ==
        IF i = 0 THEN walk_start(sqrt_price, amount_in)
                 ELSE base_to_quote_step(curve, MAX_CURVE_POINT - i, walk[i - 1])
  IN  walk

get_swap_amount_from_base_to_quote(curve, sqrt_price, amount_in) ==
  LET walk     == base_to_quote_walk(curve, sqrt_price, amount_in)[MAX_CURVE_POINT - 1]
      last     == get_next_sqrt_price_from_amount_base_rounding_up(
                    walk.sqrt_price, curve[1].liquidity, walk.amount_left)
      received == get_delta_amount_quote_down(last, walk.sqrt_price, curve[1].liquidity)
  IN  [ok              |-> TRUE,
       output_amount   |-> walk.output + received,
       next_sqrt_price |-> last]

-----------------------------------------------------------------------------
(* create_config: the price at which the quote threshold is reached ...    *)
threshold_step(walk, point) ==
  LET max_amount == get_delta_amount_quote_up(walk.sqrt_price, point.sqrt_price, point.liquidity)
      partial    == max_amount > walk.amount_left
  IN  IF walk.done
      THEN walk
      ELSE [walk EXCEPT
              !.sqrt_price  = IF partial
                              THEN get_next_sqrt_price_from_amount_quote_rounding_down(
                                     walk.sqrt_price, point.liquidity, walk.amount_left)
                              ELSE point.sqrt_price,
              !.amount_left = IF partial THEN 0 ELSE @ - max_amount,
              !.done        = partial]

threshold_walk_of(migration_threshold, sqrt_start_price, curve) ==
  LET walk[i \in 0 .. Len(curve)] ==
        IF i = 0 THEN walk_start(sqrt_start_price, migration_threshold)
                 ELSE threshold_step(walk[i - 1], curve[i])
  IN  walk

get_migration_threshold_price(migration_threshold, sqrt_start_price, curve) ==
  LET walk == threshold_walk_of(migration_threshold, sqrt_start_price, curve)[Len(curve)]
  IN  [ok |-> walk.amount_left = 0, sqrt_price |-> walk.sqrt_price]

(* ... the base tokens sold up to that price, each segment rounded up; the  *)
(* loop ends with the first segment that passes the price ...              *)
base_token_sums(sqrt_start_price, sqrt_migration_price, curve) ==
  LET lower(i)  == IF i = 1 THEN sqrt_start_price ELSE curve[i - 1].sqrt_price
      upper(i)  == minimum(curve[i].sqrt_price, sqrt_migration_price)
      amount(i) == IF i > 1 /\ lower(i) > sqrt_migration_price
                   THEN 0
                   ELSE get_delta_amount_base_up(lower(i), upper(i), curve[i].liquidity)
      sum[i \in 0 .. Len(curve)] == IF i = 0 THEN 0 ELSE sum[i - 1] + amount(i)
  IN  sum

get_base_token_for_swap(sqrt_start_price, sqrt_migration_price, curve) ==
  base_token_sums(sqrt_start_price, sqrt_migration_price, curve)[Len(curve)]

(* ... and the base tokens the migrated pool takes for the threshold at    *)
(* that price: constant product for DAMM v1, full-range concentrated       *)
(* liquidity for DAMM v2.                                                  *)
get_migration_base_token(migration_threshold, sqrt_migration_price, migration_option) ==
  IF migration_option = "MeteoraDamm"
  THEN (migration_threshold * ONE_SQUARED) \div (sqrt_migration_price * sqrt_migration_price)
  ELSE get_delta_amount_base_up(
         sqrt_migration_price, MAX_SQRT_PRICE,
         get_initial_liquidity_from_delta_quote(
           migration_threshold, MIN_SQRT_PRICE, sqrt_migration_price))

=============================================================================
