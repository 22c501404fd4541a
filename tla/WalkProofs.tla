---------------------------- MODULE WalkProofs -----------------------------
(***************************************************************************)
(* What the arithmetic of a pool guarantees for every amount, price and    *)
(* configuration that create_config accepts: fees are a split of the       *)
(* amount they are taken from, the LP distribution is a split of the       *)
(* liquidity, and the rounded-up deposit of a rounded-down liquidity never *)
(* exceeds the amount the liquidity was computed from.  Then, what the     *)
(* walks of SwapMath do on every curve, from every price.                  *)
(*                                                                         *)
(* The loops are recursive functions, so what holds after all passes is    *)
(* proved by induction over the passes.  The induction principle is used   *)
(* in the form that has no operator as a parameter: a set of naturals that *)
(* contains 0 and the successor of each of its members is all of Nat.      *)
(***************************************************************************)
EXTENDS PoolConfig, WellFoundedInduction, TLAPS

(* The widths are sets of naturals.                                        *)
LEMMA Widths == U64 \subseteq Nat /\ U128 \subseteq Nat
BY ConfigAssumption DEF U64, U128

-----------------------------------------------------------------------------
(* Integer division, by its quotient.                                      *)
LEMMA Division ==
  ASSUME NEW a \in Int, NEW d \in Nat \ {0}
  PROVE  /\ a \div d \in Int
         /\ d * (a \div d) <= a
         /\ a < d * (a \div d) + d
OBVIOUS

(* A quotient of naturals is a natural.                                    *)
LEMMA DivisionOfNat ==
  ASSUME NEW a \in Nat, NEW d \in Nat \ {0}
  PROVE  a \div d \in Nat
OBVIOUS

(* Products grow with their factors ...                                    *)
LEMMA ProductMonotone ==
  ASSUME NEW a \in Nat, NEW b \in Nat, NEW d \in Nat, a <= b
  PROVE  a * d <= b * d /\ d * a <= d * b /\ a * d \in Nat
OBVIOUS

(* ... and a positive factor can be cancelled.                             *)
LEMMA ProductCancel ==
  ASSUME NEW a \in Int, NEW b \in Int, NEW d \in Nat \ {0}, d * a < d * b
  PROVE  a < b
OBVIOUS

(* mul_div_u256 rounds to the next integer below or above the quotient.    *)
LEMMA MulDiv ==
  ASSUME NEW x \in Nat, NEW y \in Nat, NEW d \in Nat \ {0}
  PROVE  mul_div_down(x, y, d) \in Nat /\ mul_div_up(x, y, d) \in Nat
<1>1. x * y \in Nat
  BY ProductMonotone
<1>2. x * y + d - 1 \in Nat
  BY <1>1
<1>3. QED
  BY <1>1, <1>2, DivisionOfNat DEF mul_div_down, mul_div_up

(* Rounding a cost up stays within an amount that covers it.               *)
LEMMA RoundedUpCovered ==
  ASSUME NEW amount \in Nat, NEW scale \in Nat \ {0}, NEW cost \in Nat, cost <= amount * scale
  PROVE  (cost + scale - 1) \div scale <= amount
<1> DEFINE rounded == (cost + scale - 1) \div scale
<1>1. amount * scale \in Nat
  BY ProductMonotone
<1>2. rounded \in Int /\ scale * rounded <= cost + scale - 1
  BY Division
<1>3. scale * (amount + 1) = amount * scale + scale /\ scale * rounded \in Int
  BY <1>2
<1>4. scale * rounded < scale * (amount + 1)
  BY <1>1, <1>2, <1>3
<1>5. rounded < amount + 1
  BY <1>2, <1>4, ProductCancel
<1>6. QED
  BY <1>2, <1>5

(* The cost, rounded up, of the liquidity an amount is worth, rounded      *)
(* down, is at most that amount.                                           *)
LEMMA RoundTrip ==
  ASSUME NEW amount \in Nat, NEW scale \in Nat \ {0}, NEW distance \in Nat \ {0},
         NEW liquidity \in Nat, liquidity <= (amount * scale) \div distance
  PROVE  (liquidity * distance + scale - 1) \div scale <= amount
<1> DEFINE quotient == (amount * scale) \div distance
<1>1. amount * scale \in Nat /\ liquidity * distance \in Nat
  BY ProductMonotone
<1>2. quotient \in Nat /\ distance * quotient <= amount * scale
  BY <1>1, Division, DivisionOfNat
<1>3. liquidity * distance <= amount * scale
  <2>1. distance * liquidity <= distance * quotient
    BY <1>2, ProductMonotone
  <2>2. distance * liquidity = liquidity * distance /\ distance * quotient \in Int
    BY <1>2
  <2>3. QED
    BY <1>1, <1>2, <2>1, <2>2
<1>4. QED
  BY <1>1, <1>3, RoundedUpCovered

(* Rounding a cost up covers the cost, by less than one.                   *)
LEMMA RoundedUpCovers ==
  ASSUME NEW cost \in Nat, NEW scale \in Nat \ {0}
  PROVE  /\ (cost + scale - 1) \div scale \in Nat
         /\ cost <= scale * ((cost + scale - 1) \div scale)
         /\ scale * ((cost + scale - 1) \div scale) < cost + scale
<1> DEFINE rounded == (cost + scale - 1) \div scale
<1>1. cost + scale - 1 \in Nat
  OBVIOUS
<1>2. rounded \in Nat /\ scale * rounded <= cost + scale - 1
      /\ cost + scale - 1 < scale * rounded + scale
  BY <1>1, Division, DivisionOfNat
<1>3. scale * rounded \in Nat
  BY <1>2, ProductMonotone
<1> HIDE DEF rounded
<1>4. QED
  BY <1>2, <1>3 DEF rounded

(* An amount pays for two liquidities and the first one is taken, its cost *)
(* rounded up: what is left is worth the second one, less what one token   *)
(* is worth and the rounding.                                              *)
LEMMA LeftForSecond ==
  ASSUME NEW amount \in Nat, NEW scale \in Nat \ {0}, NEW distance \in Nat \ {0},
         NEW first \in Nat, NEW second \in Nat,
         (first + second) * distance <= amount * scale,
         NEW left \in Nat, left = amount - (first * distance + scale - 1) \div scale
  PROVE  (left * scale) \div distance >= second - (scale \div distance) - 1
<1> DEFINE cost  == (first * distance + scale - 1) \div scale
           worth == (left * scale) \div distance
           one   == scale \div distance
<1>1. first * distance \in Nat /\ second * distance \in Nat /\ amount * scale \in Nat
      /\ left * scale \in Nat
  BY ProductMonotone
<1>2. cost \in Nat /\ scale * cost < first * distance + scale
  BY <1>1, RoundedUpCovers
<1>3. one \in Nat /\ scale < distance * one + distance
  BY Division, DivisionOfNat
<1>4. worth \in Nat /\ left * scale < distance * worth + distance
  BY <1>1, Division, DivisionOfNat
<1>5. left * scale = amount * scale - scale * cost /\ scale * cost \in Nat
  BY <1>2, ProductMonotone DEF cost
<1>6. (first + second) * distance = first * distance + second * distance
  OBVIOUS
<1>7. distance * one \in Nat /\ distance * worth \in Nat
  BY <1>3, <1>4, ProductMonotone
<1> HIDE DEF cost, worth, one
<1>8. distance * (worth + one + 2) = distance * worth + distance * one + distance + distance
      /\ distance * second = second * distance
  BY <1>3, <1>4
<1>9. distance * second < distance * (worth + one + 2)
  BY <1>1, <1>2, <1>3, <1>4, <1>5, <1>6, <1>7, <1>8
<1>10. second < worth + one + 2
  <2>1. worth + one + 2 \in Int
    BY <1>3, <1>4
  <2>2. QED
    BY <1>9, <2>1, ProductCancel
<1>11. worth >= second - one - 1
  BY <1>3, <1>4, <1>10
<1>12. QED
  BY <1>11 DEF worth, one

(* ... and it is not worth more than the second one.                       *)
LEMMA LeftWithinSecond ==
  ASSUME NEW amount \in Nat, NEW scale \in Nat \ {0}, NEW distance \in Nat \ {0},
         NEW first \in Nat, NEW second \in Nat,
         first + second = (amount * scale) \div distance,
         NEW left \in Nat, left = amount - (first * distance + scale - 1) \div scale
  PROVE  (left * scale) \div distance <= second
<1> DEFINE cost  == (first * distance + scale - 1) \div scale
           worth == (left * scale) \div distance
<1>1. first * distance \in Nat /\ second * distance \in Nat /\ amount * scale \in Nat
      /\ left * scale \in Nat
  BY ProductMonotone
<1>2. cost \in Nat /\ first * distance <= scale * cost
  BY <1>1, RoundedUpCovers
<1>3. amount * scale < distance * (first + second) + distance
  BY <1>1, Division
<1>4. worth \in Nat /\ distance * worth <= left * scale
  BY <1>1, Division, DivisionOfNat
<1>5. left * scale = amount * scale - scale * cost /\ scale * cost \in Nat
  BY <1>2, ProductMonotone DEF cost
<1>6. distance * (first + second) = first * distance + second * distance
      /\ distance * (second + 1) = second * distance + distance
  OBVIOUS
<1>7. distance * worth \in Nat
  BY <1>4, ProductMonotone
<1> HIDE DEF cost, worth
<1>8. distance * worth < distance * (second + 1)
  BY <1>1, <1>2, <1>3, <1>4, <1>5, <1>6, <1>7
<1>9. worth < second + 1
  BY <1>4, <1>8, ProductCancel
<1>10. QED
  BY <1>4, <1>9 DEF worth

(* A share of at most the whole is at most the amount, in either rounding. *)
LEMMA ShareOf ==
  ASSUME NEW x \in Nat, NEW y \in Nat, NEW d \in Nat \ {0}, y <= d
  PROVE  mul_div_down(x, y, d) <= x /\ mul_div_up(x, y, d) <= x
<1>1. x * y \in Nat /\ x * y <= x * d /\ x * d \in Nat
  BY ProductMonotone
<1>2. mul_div_up(x, y, d) <= x
  BY <1>1, RoundedUpCovered DEF mul_div_up
<1>3. mul_div_down(x, y, d) <= x
  <2> DEFINE quotient == (x * y) \div d
  <2>1. quotient \in Nat /\ d * quotient <= x * y
    BY <1>1, Division, DivisionOfNat
  <2>2. d * (x + 1) = x * d + d /\ d * quotient \in Int
    BY <2>1
  <2>3. d * quotient < d * (x + 1)
    BY <1>1, <2>1, <2>2
  <2>4. quotient < x + 1
    BY <2>1, <2>3, ProductCancel
  <2>5. QED
    BY <2>1, <2>4 DEF mul_div_down
<1>4. QED
  BY <1>2, <1>3

-----------------------------------------------------------------------------
(* create_config accepts no fee scheduler that moves, so the base fee is   *)
(* the cliff at every point.                                               *)
LEMMA BaseFeeIsCliff ==
  ASSUME NEW point, NEW activation
  PROVE  get_base_fee_numerator(point, activation) = BaseFee.cliff_fee_numerator
<1>1. get_base_fee_numerator(0, 1) # None
  BY ConfigAssumption DEF Accepts, validate_base_fee
<1>2. BaseFee.period_frequency = 0
  BY <1>1 DEF get_base_fee_numerator
<1>3. QED
  BY <1>2 DEF get_base_fee_numerator

(* The trading fee, dynamic part included, is at most the maximum.         *)
LEMMA TradingFeeNumerator ==
  ASSUME NEW tracker, tracker.volatility_accumulator \in Nat, NEW point, NEW activation
  PROVE  get_total_trading_fee(tracker, point, activation) \in 0 .. MAX_FEE_NUMERATOR
<1>1. BaseFee.cliff_fee_numerator \in Nat /\ MAX_FEE_NUMERATOR \in Nat
  BY FeeAssumption
<1>2. get_variable_fee_numerator(tracker) \in Nat
  <2>1. CASE ~DynamicFee.initialized
    BY <2>1 DEF get_variable_fee_numerator
  <2>2. CASE DynamicFee.initialized
    <3> DEFINE vfa_bin == tracker.volatility_accumulator * DynamicFee.bin_step
    <3>1. /\ DynamicFee.bin_step \in Nat /\ DynamicFee.variable_fee_control \in Nat
          /\ V_FEE_SCALE \in Nat \ {0}
      BY FeeAssumption
    <3>2. vfa_bin \in Nat
      BY <3>1, ProductMonotone
    <3>3. vfa_bin * vfa_bin \in Nat
      BY <3>2, ProductMonotone
    <3>4. get_variable_fee_numerator(tracker) =
            mul_div_up(vfa_bin * vfa_bin, DynamicFee.variable_fee_control, V_FEE_SCALE)
      BY <2>2 DEF get_variable_fee_numerator
    <3>5. QED
      BY <3>1, <3>3, <3>4, MulDiv
  <2>3. QED
    BY <2>1, <2>2
<1>3. get_variable_fee_numerator(tracker) + BaseFee.cliff_fee_numerator \in Nat
  BY <1>1, <1>2
<1>4. get_total_trading_fee(tracker, point, activation) =
        minimum(get_variable_fee_numerator(tracker) + BaseFee.cliff_fee_numerator,
                MAX_FEE_NUMERATOR)
  BY BaseFeeIsCliff DEF get_total_trading_fee
<1>5. QED
  BY <1>1, <1>3, <1>4 DEF minimum

(* A fee is a split of the amount: none of the four parts is negative and  *)
(* they add up to it, whatever each of the divisions rounded away.  So no  *)
(* subtraction of get_fee_on_amount can fail and no token is lost in it.   *)
THEOREM FeeIsSplit ==
  ASSUME NEW tracker, tracker.volatility_accumulator \in Nat, NEW point, NEW activation,
         NEW amount \in Nat, NEW has_referral \in BOOLEAN
  PROVE  LET fee == get_fee_on_amount(tracker, amount, has_referral, point, activation)
         IN  /\ {fee.amount, fee.trading_fee, fee.protocol_fee, fee.referral_fee} \subseteq Nat
             /\ amount = fee.amount + fee.trading_fee + fee.protocol_fee + fee.referral_fee
<1> DEFINE numerator == get_total_trading_fee(tracker, point, activation)
           total     == mul_div_up(amount, numerator, FEE_DENOMINATOR)
           protocol  == mul_div_down(total, PROTOCOL_FEE_PERCENT, 100)
           referral  == IF has_referral THEN mul_div_down(protocol, HOST_FEE_PERCENT, 100) ELSE 0
<1>1. /\ FEE_DENOMINATOR \in Nat \ {0} /\ MAX_FEE_NUMERATOR \in 0 .. FEE_DENOMINATOR
      /\ PROTOCOL_FEE_PERCENT \in Nat /\ PROTOCOL_FEE_PERCENT <= 100
      /\ HOST_FEE_PERCENT \in Nat /\ HOST_FEE_PERCENT <= 100
  BY FeeAssumption
<1>2. numerator \in Nat /\ numerator <= FEE_DENOMINATOR
  BY <1>1, TradingFeeNumerator
<1> HIDE DEF numerator
<1>3. total \in Nat /\ total <= amount
  BY <1>1, <1>2, MulDiv, ShareOf
<1> HIDE DEF total
<1>4. protocol \in Nat /\ protocol <= total
  BY <1>1, <1>3, MulDiv, ShareOf
<1> HIDE DEF protocol
<1>5. referral \in Nat /\ referral <= protocol
  BY <1>1, <1>4, MulDiv, ShareOf
<1> HIDE DEF referral
<1>6. get_fee_on_amount(tracker, amount, has_referral, point, activation) =
        [amount |-> amount - total, trading_fee |-> total - protocol,
         protocol_fee |-> protocol - referral, referral_fee |-> referral]
  BY DEF get_fee_on_amount, numerator, total, protocol, referral
<1>7. QED
  BY <1>3, <1>4, <1>5, <1>6

-----------------------------------------------------------------------------
(* Three percentages of at most 100 together take at most the amount.      *)
LEMMA ThreeShares ==
  ASSUME NEW amount \in Nat, NEW a \in Nat, NEW b \in Nat, NEW c \in Nat, a + b + c <= 100
  PROVE  /\ mul_div_down(amount, a, 100) \in Nat
         /\ mul_div_down(amount, b, 100) \in Nat
         /\ mul_div_down(amount, c, 100) \in Nat
         /\ mul_div_down(amount, a, 100) + mul_div_down(amount, b, 100)
              + mul_div_down(amount, c, 100) <= amount
<1>1. ASSUME NEW p \in Nat
      PROVE  /\ amount * p \in Nat
             /\ mul_div_down(amount, p, 100) \in Nat
             /\ 100 * mul_div_down(amount, p, 100) <= amount * p
  <2>1. amount * p \in Nat
    BY ProductMonotone
  <2>2. QED
    BY <2>1, Division, DivisionOfNat DEF mul_div_down
<1>2. amount * a + amount * b + amount * c <= amount * 100
  <2>1. amount * (a + b + c) <= amount * 100
    BY ProductMonotone
  <2>2. amount * (a + b + c) = amount * a + amount * b + amount * c
    OBVIOUS
  <2>3. QED
    BY <2>1, <2>2
<1>3. ASSUME NEW x \in Nat, NEW y \in Nat, NEW z \in Nat,
             100 * x <= amount * a, 100 * y <= amount * b, 100 * z <= amount * c
      PROVE  x + y + z <= amount
  <2>1. amount * a \in Nat /\ amount * b \in Nat /\ amount * c \in Nat
    BY <1>1
  <2>2. QED
    BY <1>2, <1>3, <2>1
<1>4. QED
  BY <1>1, <1>3

(* The LP distribution is a split of the liquidity in the same way, since  *)
(* the four percentages make 100 and the last share is what is left.       *)
THEOREM DistributionIsSplit ==
  ASSUME NEW amount \in Nat
  PROVE  LET distribution == get_lp_distribution(amount)
         IN  /\ distribution \in [{"partner", "creator"} -> [unlocked : Nat, locked : Nat]]
             /\ amount = get_total_liquidity(distribution.partner)
                           + get_total_liquidity(distribution.creator)
<1>1. PICK a \in 0 .. 100, b \in 0 .. 100, c \in 0 .. 100, d \in 0 .. 100 :
        /\ a = Params.partner_lp_percentage
        /\ b = Params.partner_locked_lp_percentage
        /\ c = Params.creator_locked_lp_percentage
        /\ d = Params.creator_lp_percentage
  BY ConfigAssumption
<1>2. a + b + d + c = 100
  BY <1>1, ConfigAssumption DEF Accepts, validate_lp_percentages
<1> DEFINE share(percentage) == mul_div_down(amount, percentage, 100)
<1>3. /\ share(a) \in Nat /\ share(b) \in Nat /\ share(c) \in Nat
      /\ share(a) + share(b) + share(c) <= amount
  <2>1. a + b + c <= 100
    BY <1>2
  <2>2. a \in Nat /\ b \in Nat /\ c \in Nat
    OBVIOUS
  <2>3. QED
    BY <2>1, <2>2, ThreeShares
<1>4. get_lp_distribution(amount) =
        [partner |-> [unlocked |-> share(a), locked |-> share(b)],
         creator |-> [unlocked |-> amount - share(b) - share(a) - share(c), locked |-> share(c)]]
  BY <1>1 DEF get_lp_distribution
<1> HIDE DEF share
<1>5. amount - share(b) - share(a) - share(c) \in Nat
  BY <1>3
<1>6. QED
  BY <1>3, <1>4, <1>5 DEF get_total_liquidity

-----------------------------------------------------------------------------
(* Induction.                                                              *)

(* The order of the naturals as the relation WellFoundedInduction is about.*)
LEMMA LessThan == \A x, y : <<x, y>> \in OpToRel(<, Nat) <=> x \in Nat /\ y \in Nat /\ x < y
BY DEF OpToRel

(* Every set of naturals has a smallest member ...                         *)
LEMMA Smallest ==
  ASSUME NEW T, T \subseteq Nat, T # {}
  PROVE  \E x \in T : \A y \in T : x <= y
<1> DEFINE R == OpToRel(<, Nat)
<1>1. IsWellFoundedOn(R, Nat)
  BY NatLessThanWellFounded
<1>2. \A x, y : <<x, y>> \in R <=> x \in Nat /\ y \in Nat /\ x < y
  BY LessThan
<1> HIDE DEF R
<1>3. PICK x \in T : \A y \in T : ~ (<<y, x>> \in R)
  BY <1>1, WFMin
<1>4. ASSUME NEW y \in T PROVE x <= y
  <2>1. x \in Nat /\ y \in Nat
    OBVIOUS
  <2>2. ~ (y < x)
    BY <1>2, <1>3, <2>1
  <2>3. QED
    BY <2>1, <2>2
<1>5. QED
  BY <1>4

(* ... so induction over a set of naturals is sound.                       *)
LEMMA Induction ==
  ASSUME NEW T, 0 \in T, \A n \in Nat : n \in T => n + 1 \in T
  PROVE  Nat \subseteq T
<1> SUFFICES ASSUME Nat \ T # {} PROVE FALSE
  OBVIOUS
<1>1. PICK x \in Nat \ T : \A y \in Nat \ T : x <= y
  BY Smallest
<1>2. x - 1 \in Nat
  BY <1>1
<1>3. QED
  BY <1>1, <1>2

-----------------------------------------------------------------------------
(* One pass of each of the loops, and the loop they make.                  *)
pass(loop, data, i, state) ==
  CASE loop = "buy"       -> quote_to_base_step(state, data[i])
    [] loop = "sell"      -> base_to_quote_step(data, MAX_CURVE_POINT - i, state)
    [] loop = "threshold" -> threshold_step(state, data[i])
    [] loop = "sum"       -> state + data[i]

IsLoop(loop, data, start, n, f) ==
  f = [i \in 0 .. n |-> IF i = 0 THEN start ELSE pass(loop, data, i, f[i - 1])]

(* A loop has a function of its passes.                                    *)
LEMMA LoopExists ==
  ASSUME NEW loop, NEW data, NEW start, NEW n \in Nat
  PROVE  \E f : IsLoop(loop, data, start, n, f)
<1> DEFINE T == {m \in Nat : \E f : IsLoop(loop, data, start, m, f)}
<1>1. 0 \in T
  <2> DEFINE f == [i \in 0 .. 0 |-> start]
  <2>1. IsLoop(loop, data, start, 0, f)
    BY DEF IsLoop
  <2>2. QED
    BY <2>1
<1>2. ASSUME NEW m \in Nat, m \in T PROVE m + 1 \in T
  <2>1. PICK f : IsLoop(loop, data, start, m, f)
    BY <1>2
  <2> DEFINE g == [i \in 0 .. m + 1 |-> IF i <= m THEN f[i] ELSE pass(loop, data, m + 1, f[m])]
  <2>2. ASSUME NEW i \in 0 .. m + 1
        PROVE  g[i] = IF i = 0 THEN start ELSE pass(loop, data, i, g[i - 1])
    <3>1. CASE i = 0
      BY <2>1, <3>1 DEF IsLoop
    <3>2. CASE i \in 1 .. m
      BY <2>1, <3>2 DEF IsLoop
    <3>3. CASE i = m + 1
      BY <2>1, <3>3 DEF IsLoop
    <3>4. QED
      BY <3>1, <3>2, <3>3
  <2>3. IsLoop(loop, data, start, m + 1, g)
    BY <2>2 DEF IsLoop
  <2> HIDE DEF g
  <2>4. QED
    BY <2>3
<1>3. n \in T
  <2> HIDE DEF T
  <2>1. QED
    BY <1>1, <1>2, Induction
<1>4. QED
  BY <1>3

(* So each recursive function of SwapMath is the loop it is written as.    *)
LEMMA BuyLoop ==
  ASSUME NEW curve, NEW price, NEW amount
  PROVE  LET f == quote_to_base_walk(curve, price, amount)
         IN  /\ f[0] = walk_start(price, amount)
             /\ \A i \in 1 .. MAX_CURVE_POINT : f[i] = quote_to_base_step(f[i - 1], curve[i])
<1> DEFINE start == walk_start(price, amount)
           Is(f) == f = [i \in 0 .. MAX_CURVE_POINT |->
                           IF i = 0 THEN start ELSE quote_to_base_step(f[i - 1], curve[i])]
<1>1. quote_to_base_walk(curve, price, amount) = CHOOSE f : Is(f)
  BY DEF quote_to_base_walk
<1> HIDE DEF start
<1>2. MAX_CURVE_POINT \in Nat
  BY PriceAssumption
<1>3. \E f : Is(f)
  <2>1. PICK f : IsLoop("buy", curve, start, MAX_CURVE_POINT, f)
    BY <1>2, LoopExists
  <2>2. Is(f)
    BY <2>1 DEF IsLoop, pass
  <2> HIDE DEF Is
  <2>3. QED
    BY <2>2
<1>4. Is(quote_to_base_walk(curve, price, amount))
  <2> HIDE DEF Is
  <2>1. Is(CHOOSE f : Is(f))
    BY <1>3
  <2>2. QED
    BY <1>1, <2>1
<1>5. QED
  BY <1>2, <1>4 DEF start

(* The walk down the curve:                                                *)
LEMMA SellLoop ==
  ASSUME NEW curve, NEW price, NEW amount
  PROVE  LET f == base_to_quote_walk(curve, price, amount)
         IN  /\ f[0] = walk_start(price, amount)
             /\ \A i \in 1 .. MAX_CURVE_POINT - 1 : f[i] = base_to_quote_step(curve, MAX_CURVE_POINT - i, f[i - 1])
<1> DEFINE start == walk_start(price, amount)
           Is(f) == f = [i \in 0 .. MAX_CURVE_POINT - 1 |->
                           IF i = 0 THEN start ELSE base_to_quote_step(curve, MAX_CURVE_POINT - i, f[i - 1])]
<1>1. base_to_quote_walk(curve, price, amount) = CHOOSE f : Is(f)
  BY DEF base_to_quote_walk
<1> HIDE DEF start
<1>2. MAX_CURVE_POINT - 1 \in Nat
  BY PriceAssumption
<1>3. \E f : Is(f)
  <2>1. PICK f : IsLoop("sell", curve, start, MAX_CURVE_POINT - 1, f)
    BY <1>2, LoopExists
  <2>2. Is(f)
    BY <2>1 DEF IsLoop, pass
  <2> HIDE DEF Is
  <2>3. QED
    BY <2>2
<1>4. Is(base_to_quote_walk(curve, price, amount))
  <2> HIDE DEF Is
  <2>1. Is(CHOOSE f : Is(f))
    BY <1>3
  <2>2. QED
    BY <1>1, <2>1
<1>5. QED
  BY <1>2, <1>4 DEF start

(* The walk of get_migration_threshold_price:                              *)
LEMMA ThresholdLoop ==
  ASSUME NEW curve, NEW price, NEW amount, Len(curve) \in Nat
  PROVE  LET f == threshold_walk_of(amount, price, curve)
         IN  /\ f[0] = walk_start(price, amount)
             /\ \A i \in 1 .. Len(curve) : f[i] = threshold_step(f[i - 1], curve[i])
<1> DEFINE start == walk_start(price, amount)
           Is(f) == f = [i \in 0 .. Len(curve) |->
                           IF i = 0 THEN start ELSE threshold_step(f[i - 1], curve[i])]
<1>1. threshold_walk_of(amount, price, curve) = CHOOSE f : Is(f)
  BY DEF threshold_walk_of
<1> HIDE DEF start
<1>2. Len(curve) \in Nat
  OBVIOUS
<1>3. \E f : Is(f)
  <2>1. PICK f : IsLoop("threshold", curve, start, Len(curve), f)
    BY <1>2, LoopExists
  <2>2. Is(f)
    BY <2>1 DEF IsLoop, pass
  <2> HIDE DEF Is
  <2>3. QED
    BY <2>2
<1>4. Is(threshold_walk_of(amount, price, curve))
  <2> HIDE DEF Is
  <2>1. Is(CHOOSE f : Is(f))
    BY <1>3
  <2>2. QED
    BY <1>1, <2>1
<1>5. QED
  BY <1>2, <1>4 DEF start

(* Running sums, and the sum that get_base_token_for_swap takes.           *)
sums(terms, n) ==
  LET sum[i \in 0 .. n] == IF i = 0 THEN 0 ELSE sum[i - 1] + terms[i]
  IN  sum

(* A running sum adds one term a pass.                                     *)
LEMMA SumLoop ==
  ASSUME NEW terms, NEW n \in Nat
  PROVE  LET f == sums(terms, n)
         IN  /\ f[0] = 0
             /\ \A i \in 1 .. n : f[i] = f[i - 1] + terms[i]
<1> DEFINE Is(f) == f = [i \in 0 .. n |-> IF i = 0 THEN 0 ELSE f[i - 1] + terms[i]]
<1>1. sums(terms, n) = CHOOSE f : Is(f)
  BY DEF sums
<1>2. \E f : Is(f)
  <2>1. PICK f : IsLoop("sum", terms, 0, n, f)
    BY LoopExists
  <2>2. Is(f)
    BY <2>1 DEF IsLoop, pass
  <2> HIDE DEF Is
  <2>3. QED
    BY <2>2
<1>3. Is(sums(terms, n))
  <2> HIDE DEF Is
  <2>1. Is(CHOOSE f : Is(f))
    BY <1>2
  <2>2. QED
    BY <1>1, <2>1
<1>4. QED
  BY <1>3

base_token_amount(start, price, curve, i) ==
  LET lower == IF i = 1 THEN start ELSE curve[i - 1].sqrt_price
      upper == minimum(curve[i].sqrt_price, price)
  IN  IF i > 1 /\ lower > price
      THEN 0
      ELSE get_delta_amount_base_up(lower, upper, curve[i].liquidity)

(* The sum of get_base_token_for_swap, one term a segment:                 *)
LEMMA BaseTokenLoop ==
  ASSUME NEW start, NEW price, NEW curve, Len(curve) \in Nat
  PROVE  LET f == base_token_sums(start, price, curve)
         IN  /\ f[0] = 0
             /\ \A i \in 1 .. Len(curve) :
                  f[i] = f[i - 1] + base_token_amount(start, price, curve, i)
<1> DEFINE Is(f) == f = [i \in 0 .. Len(curve) |->
                           IF i = 0 THEN 0 ELSE f[i - 1] + base_token_amount(start, price, curve, i)]
           terms == [i \in 1 .. Len(curve) |-> base_token_amount(start, price, curve, i)]
<1>1. base_token_sums(start, price, curve) = CHOOSE f : Is(f)
  BY DEF base_token_sums, base_token_amount
<1>2. \E f : Is(f)
  <2>1. PICK f : IsLoop("sum", terms, 0, Len(curve), f)
    BY LoopExists
  <2>2. f = [i \in 0 .. Len(curve) |-> IF i = 0 THEN 0 ELSE f[i - 1] + terms[i]]
    BY <2>1 DEF IsLoop, pass
  <2>3. \A i \in 1 .. Len(curve) : terms[i] = base_token_amount(start, price, curve, i)
    OBVIOUS
  <2> HIDE DEF terms
  <2>4. Is(f)
    <3>1. \A i \in 0 .. Len(curve) : i # 0 => i \in 1 .. Len(curve)
      OBVIOUS
    <3>2. \A i \in 0 .. Len(curve) :
            (IF i = 0 THEN 0 ELSE f[i - 1] + terms[i])
              = (IF i = 0 THEN 0 ELSE f[i - 1] + base_token_amount(start, price, curve, i))
      BY <2>3, <3>1
    <3>3. QED
      BY <2>2, <3>2, Zenon
  <2> HIDE DEF Is
  <2>5. QED
    BY <2>4
<1>3. Is(base_token_sums(start, price, curve))
  <2> HIDE DEF Is
  <2>1. Is(CHOOSE f : Is(f))
    BY <1>2
  <2>2. QED
    BY <1>1, <2>1
<1>4. QED
  BY <1>3

-----------------------------------------------------------------------------
(* The accepted curve: its segments, numbered from 1, with the price and   *)
(* the liquidity of the point each of them ends at.                        *)
Segments     == Len(Params.curve)
Price(i)     == IF i = 0 THEN sqrt_start_price ELSE Params.curve[i].sqrt_price
Liquidity(i) == Params.curve[i].liquidity

(* A sequence over S has its elements in S.                                *)
LEMMA ElementOfSequence ==
  ASSUME NEW S, NEW s \in Seq(S), NEW i \in 1 .. Len(s)
  PROVE  s[i] \in S
OBVIOUS

(* What create_config's validation says of the curve: there are as many    *)
(* segments as fit, their prices grow from the start price to the maximum, *)
(* and each has liquidity.                                                 *)
LEMMA CurveFacts ==
  /\ Segments \in 1 .. MAX_CURVE_POINT
  /\ MAX_CURVE_POINT \in Nat
  /\ \A i \in 0 .. Segments : Price(i) \in Nat \ {0}
  /\ \A i \in 1 .. Segments : Liquidity(i) \in Nat \ {0} /\ Price(i - 1) < Price(i)
  /\ Price(Segments) = MAX_SQRT_PRICE
  /\ MAX_SQRT_PRICE \in Nat
  /\ ONE_SQUARED \in Nat \ {0}
<1>1. /\ Params.curve \in Seq([sqrt_price : U128, liquidity : U128])
      /\ sqrt_start_price \in 1 .. U128_MAX /\ U128_MAX \in Nat
      /\ MAX_CURVE_POINT \in Nat
      /\ MAX_SQRT_PRICE \in Nat
  BY ConfigAssumption, PriceAssumption
<1>2. validate_curve
  BY ConfigAssumption DEF Accepts
<1>3. Segments \in 1 .. MAX_CURVE_POINT /\ Segments \in Nat
  BY <1>1, <1>2 DEF validate_curve, Segments
<1>4. \A i \in 1 .. Segments :
        Params.curve[i].sqrt_price \in Nat /\ Params.curve[i].liquidity \in Nat
  <2> SUFFICES ASSUME NEW i \in 1 .. Segments
               PROVE  Params.curve[i].sqrt_price \in Nat /\ Params.curve[i].liquidity \in Nat
    OBVIOUS
  <2>1. Params.curve[i] \in [sqrt_price : U128, liquidity : U128]
    BY <1>1, ElementOfSequence DEF Segments
  <2>2. QED
    BY <2>1, Widths
<1>5. \A i \in 1 .. Segments : Liquidity(i) \in Nat \ {0}
  BY <1>2, <1>4 DEF validate_curve, Segments, Liquidity
<1>6. \A i \in 0 .. Segments : Price(i) \in Nat
  BY <1>1, <1>4 DEF Price
<1>7. \A i \in 1 .. Segments : Price(i - 1) < Price(i)
  <2> SUFFICES ASSUME NEW i \in 1 .. Segments PROVE Price(i - 1) < Price(i)
    OBVIOUS
  <2>1. CASE i = 1
    BY <1>2, <1>6, <2>1 DEF validate_curve, Price
  <2>2. CASE i \in 2 .. Segments
    <3>1. Params.curve[i].sqrt_price > Params.curve[i - 1].sqrt_price
      BY <1>2, <2>2 DEF validate_curve, Segments
    <3>2. Price(i) = Params.curve[i].sqrt_price /\ Price(i - 1) = Params.curve[i - 1].sqrt_price
      BY <2>2 DEF Price
    <3>3. Price(i) \in Nat /\ Price(i - 1) \in Nat
      BY <1>3, <1>6
    <3>4. QED
      BY <3>1, <3>2, <3>3
  <2>3. QED
    BY <1>3, <2>1, <2>2
<1>8. \A i \in 0 .. Segments : Price(i) \in Nat \ {0}
  <2> SUFFICES ASSUME NEW i \in 0 .. Segments PROVE Price(i) # 0
    BY <1>6
  <2>1. CASE i = 0
    BY <1>1, <2>1 DEF Price
  <2>2. CASE i \in 1 .. Segments
    <3>1. i - 1 \in 0 .. Segments
      BY <1>3, <2>2
    <3>2. Price(i) \in Nat /\ Price(i - 1) \in Nat /\ Price(i - 1) < Price(i)
      BY <1>6, <1>7, <2>2, <3>1
    <3>3. QED
      BY <3>2
  <2>3. QED
    BY <1>3, <2>1, <2>2
<1>9. Price(Segments) = MAX_SQRT_PRICE
  BY <1>2, <1>3 DEF validate_curve, Segments, Price
<1>10. ONE_SQUARED \in Nat \ {0}
  <2>1. ASSUME NEW a \in Nat \ {0} PROVE a * a \in Nat \ {0}
    OBVIOUS
  <2>2. QED
    BY <2>1, OneAssumption DEF ONE_SQUARED
<1>11. QED
  BY <1>1, <1>3, <1>5, <1>7, <1>8, <1>9, <1>10

(* The prices grow along the curve.                                        *)
LEMMA PricesGrow ==
  ASSUME NEW i \in 0 .. Segments, NEW j \in i .. Segments
  PROVE  Price(i) <= Price(j)
<1> DEFINE T == {m \in Nat : m \in i .. Segments => Price(i) <= Price(m)}
<1>1. Segments \in Nat /\ i \in Nat /\ \A m \in 0 .. Segments : Price(m) \in Nat
  BY CurveFacts
<1>2. 0 \in T
  BY <1>1
<1>3. ASSUME NEW m \in Nat, m \in T PROVE m + 1 \in T
  <2> SUFFICES ASSUME m + 1 \in i .. Segments PROVE Price(i) <= Price(m + 1)
    BY <1>1
  <2>1. CASE i = m + 1
    BY <1>1, <2>1
  <2>2. CASE i # m + 1
    <3>1. m \in i .. Segments /\ m + 1 \in 1 .. Segments /\ m = (m + 1) - 1
      BY <1>1, <2>2
    <3>2. Price(m) < Price(m + 1)
      BY <3>1, CurveFacts
    <3>3. Price(i) <= Price(m)
      BY <1>3, <3>1
    <3>4. Price(i) \in Nat /\ Price(m) \in Nat /\ Price(m + 1) \in Nat
      BY <1>1, <3>1
    <3>5. QED
      BY <3>2, <3>3, <3>4
  <2>3. QED
    BY <2>1, <2>2
<1>4. j \in T
  <2> HIDE DEF T
  <2>1. j \in Nat
    BY <1>1
  <2>2. QED
    BY <1>2, <1>3, <2>1, Induction
<1>5. QED
  BY <1>4

-----------------------------------------------------------------------------
(* Arithmetic of one segment: l is its lower price, p the price before and *)
(* q the price after a trade, L its liquidity, D the scale of the quote.   *)

(* Rounding, by the products it bounds.                                    *)
LEMMA RoundedDown ==
  ASSUME NEW x \in Nat, NEW y \in Nat, NEW d \in Nat \ {0}
  PROVE  /\ mul_div_down(x, y, d) \in Nat
         /\ mul_div_down(x, y, d) * d <= x * y
         /\ x * y < mul_div_down(x, y, d) * d + d
<1> DEFINE a == x * y
<1>1. a \in Nat
  BY ProductMonotone
<1>2. a \div d \in Nat /\ d * (a \div d) <= a /\ a < d * (a \div d) + d
  <2> HIDE DEF a
  <2>1. QED
    BY <1>1, Division, DivisionOfNat
<1>3. mul_div_down(x, y, d) = a \div d
  BY DEF mul_div_down
<1> DEFINE u == mul_div_down(x, y, d)
<1> HIDE DEF u
<1>4. u \in Nat /\ d * u <= x * y /\ x * y < d * u + d
  BY <1>2, <1>3 DEF u
<1>5. d * u = u * d
  BY <1>4
<1>6. QED
  BY <1>4, <1>5 DEF u

(* A ceiling, likewise.                                                    *)
LEMMA RoundedUp ==
  ASSUME NEW x \in Nat, NEW y \in Nat, NEW d \in Nat \ {0}
  PROVE  /\ mul_div_up(x, y, d) \in Nat
         /\ x * y <= mul_div_up(x, y, d) * d
         /\ mul_div_up(x, y, d) * d < x * y + d
<1> DEFINE a == x * y + d - 1
<1>1. x * y \in Nat
  BY ProductMonotone
<1>2. a \in Nat
  BY <1>1
<1>3. a \div d \in Nat /\ d * (a \div d) <= a /\ a < d * (a \div d) + d
  <2> HIDE DEF a
  <2>1. QED
    BY <1>2, Division, DivisionOfNat
<1>4. mul_div_up(x, y, d) = a \div d
  BY DEF mul_div_up
<1> DEFINE u == mul_div_up(x, y, d)
<1> HIDE DEF u
<1>5. u \in Nat /\ d * u <= x * y + d - 1 /\ x * y + d - 1 < d * u + d
  BY <1>3, <1>4 DEF u
<1>6. d * u = u * d /\ u * d \in Nat
  BY <1>5, ProductMonotone
<1>7. x * y <= u * d /\ u * d < x * y + d
  BY <1>1, <1>5, <1>6
<1>8. QED
  BY <1>5, <1>7 DEF u

(* Both roundings are exact against an integer.                            *)
LEMMA CeilingIsLeast ==
  ASSUME NEW x \in Int, NEW d \in Nat \ {0}, NEW u \in Int, x <= u * d, u * d < x + d,
         NEW k \in Int
  PROVE  k * d >= x <=> k >= u
<1>1. k >= u => k * d >= u * d
  OBVIOUS
<1>2. k <= u - 1 => k * d <= (u - 1) * d
  OBVIOUS
<1>3. (u - 1) * d = u * d - d /\ k * d \in Int /\ u * d \in Int
  OBVIOUS
<1>4. QED
  BY <1>1, <1>2, <1>3

(* And a floor is the greatest integer below.                              *)
LEMMA FloorIsGreatest ==
  ASSUME NEW x \in Int, NEW d \in Nat \ {0}, NEW u \in Int, u * d <= x, x < u * d + d,
         NEW k \in Int
  PROVE  k * d <= x <=> k <= u
<1>1. k <= u => k * d <= u * d
  OBVIOUS
<1>2. k >= u + 1 => k * d >= (u + 1) * d
  OBVIOUS
<1>3. (u + 1) * d = u * d + d /\ k * d \in Int /\ u * d \in Int
  OBVIOUS
<1>4. QED
  BY <1>1, <1>2, <1>3

(* What is paid up to one price and from there to another is enough for    *)
(* the whole way, and what is received on the way back leaves the rest.    *)
LEMMA QuoteBought ==
  ASSUME NEW L \in Nat, NEW D \in Nat, NEW l \in Nat, NEW p \in Nat, NEW q \in Nat,
         NEW r \in Int, NEW c \in Int, r * D >= L * (p - l), c * D >= L * (q - p)
  PROVE  (r + c) * D >= L * (q - l)
<1>1. (r + c) * D = r * D + c * D
  OBVIOUS
<1>2. L * (q - l) = L * (q - p) + L * (p - l)
  OBVIOUS
<1>3. r * D \in Int /\ c * D \in Int /\ L * (q - p) \in Int /\ L * (p - l) \in Int
  OBVIOUS
<1>4. QED
  BY <1>1, <1>2, <1>3

(* What is received on the way from p to q leaves enough for the rest.     *)
LEMMA QuoteSold ==
  ASSUME NEW L \in Nat, NEW D \in Nat, NEW l \in Nat, NEW p \in Nat, NEW q \in Nat,
         NEW r \in Int, NEW o \in Int, r * D >= L * (p - l), o * D <= L * (p - q)
  PROVE  (r - o) * D >= L * (q - l)
<1>1. (r - o) * D = r * D - o * D
  OBVIOUS
<1>2. L * (q - l) = L * (p - l) - L * (p - q)
  OBVIOUS
<1>3. r * D \in Int /\ o * D \in Int /\ L * (p - q) \in Int /\ L * (p - l) \in Int
  OBVIOUS
<1>4. QED
  BY <1>1, <1>2, <1>3

(* Base tokens bought from p to q stay within what lies between l and q.   *)
LEMMA BaseBought ==
  ASSUME NEW L \in Nat, NEW l \in Nat \ {0}, NEW p \in Nat \ {0}, NEW q \in Nat \ {0},
         NEW x \in Int, NEW o \in Int, x * (p * l) <= L * (p - l), o * (q * p) <= L * (q - p)
  PROVE  (x + o) * (q * l) <= L * (q - l)
<1>1. (x * (p * l)) * q <= (L * (p - l)) * q
  OBVIOUS
<1>2. (o * (q * p)) * l <= (L * (q - p)) * l
  OBVIOUS
<1>3. p * ((x + o) * (q * l)) = (x * (p * l)) * q + (o * (q * p)) * l
  OBVIOUS
<1>4. p * (L * (q - l)) = (L * (p - l)) * q + (L * (q - p)) * l
  OBVIOUS
<1>5. p * ((x + o) * (q * l)) <= p * (L * (q - l))
  BY <1>1, <1>2, <1>3, <1>4
<1>6. QED
  BY <1>5

(* After a sale of c base tokens that covers the way down to l, what is    *)
(* left was sold below l.                                                  *)
LEMMA BaseSoldWhole ==
  ASSUME NEW L \in Nat, NEW l \in Nat \ {0}, NEW p \in Nat \ {0}, NEW x \in Int, NEW c \in Int,
         x * (p * l) <= L * (p - l), L * (p - l) <= c * (l * p)
  PROVE  x <= c
<1> DEFINE d == l * p
<1>1. d \in Nat \ {0}
  OBVIOUS
<1>2. p * l = d
  OBVIOUS
<1> HIDE DEF d
<1>3. L * (p - l) \in Int
  OBVIOUS
<1>4. x * d <= c * d
  BY <1>1, <1>2, <1>3 DEF d
<1>5. QED
  BY <1>1, <1>4

(* A sale of a base tokens that ends at q keeps within the segment.        *)
LEMMA BaseSoldPart ==
  ASSUME NEW L \in Nat, NEW l \in Nat \ {0}, NEW p \in Nat \ {0}, NEW q \in Nat,
         NEW x \in Int, NEW a \in Nat, x * (p * l) <= L * (p - l), L * p <= q * (L + a * p)
  PROVE  (x - a) * (q * l) <= L * (q - l)
<1>1. q * (x * (p * l)) <= q * (L * (p - l))
  OBVIOUS
<1>2. l * (L * p) <= l * (q * (L + a * p))
  OBVIOUS
<1>3. p * ((x - a) * (q * l)) = q * (x * (p * l)) - l * (q * (L + a * p)) + l * (q * L)
  OBVIOUS
<1>4. p * (L * (q - l)) = q * (L * (p - l)) - l * (L * p) + l * (q * L)
  OBVIOUS
<1>5. p * ((x - a) * (q * l)) <= p * (L * (q - l))
  BY <1>1, <1>2, <1>3, <1>4
<1>6. QED
  BY <1>5

(* The price after a sale is not above the price before it ...             *)
LEMMA SaleLowersPrice ==
  ASSUME NEW L \in Nat \ {0}, NEW p \in Nat, NEW a \in Nat, NEW q \in Nat,
         q * (L + a * p) < L * p + (L + a * p)
  PROVE  q <= p
<1> DEFINE d == L + a * p
<1>1. a * p \in Nat
  BY ProductMonotone
<1>2. d \in Nat \ {0}
  BY <1>1
<1>3. L * p <= d * p
  <2>1. L <= d
    BY <1>1
  <2>2. QED
    BY <1>2, <2>1, ProductMonotone
<1> HIDE DEF d
<1>4. L * p \in Nat
  BY ProductMonotone
<1>5. q * d < d * p + d
  BY <1>2, <1>3, <1>4 DEF d
<1>6. d * (p + 1) = d * p + d /\ q * d = d * q
  BY <1>2
<1>7. d * q < d * (p + 1)
  BY <1>5, <1>6
<1>8. q < p + 1
  BY <1>2, <1>7, ProductCancel
<1>9. QED
  BY <1>8

(* ... nor below l, when no more is sold than lies between l and p.        *)
LEMMA SaleStaysAbove ==
  ASSUME NEW L \in Nat \ {0}, NEW l \in Nat, NEW p \in Nat, NEW a \in Nat, NEW q \in Nat,
         a * (p * l) <= L * (p - l), L * p <= q * (L + a * p)
  PROVE  l <= q
<1> DEFINE d == L + a * p
<1>1. a * p \in Nat
  BY ProductMonotone
<1>2. d \in Nat \ {0}
  BY <1>1
<1>3. d * l = L * l + a * (p * l)
  OBVIOUS
<1>4. L * (p - l) = L * p - L * l
  OBVIOUS
<1>5. L * l \in Nat /\ L * p \in Nat /\ a * (p * l) \in Int
  BY ProductMonotone
<1> HIDE DEF d
<1>6. L * p <= q * d
  BY DEF d
<1>7. d * l <= L * p
  BY <1>3, <1>4, <1>5
<1>8. d * l <= d * q /\ d * (q + 1) = d * q + d
  BY <1>2, <1>5, <1>6, <1>7
<1>9. d * l < d * (q + 1)
  BY <1>2, <1>8
<1>10. l < q + 1
  BY <1>2, <1>9, ProductCancel
<1>11. QED
  BY <1>10

-----------------------------------------------------------------------------
(* What the segments up to a point cost, each rounded up, and what they    *)
(* sell, each rounded down.                                                *)
segment_quote(i) == get_delta_amount_quote_up(Price(i - 1), Price(i), Liquidity(i))
segment_base(i)  == get_delta_amount_base_down(Price(i - 1), Price(i), Liquidity(i))

quote_up_to == sums([i \in 1 .. Segments |-> segment_quote(i)], Segments)
base_up_to  == sums([i \in 1 .. Segments |-> segment_base(i)], Segments)

(* The quote reserve covers what the curve costs up to the price, and the  *)
(* base tokens sold are at most what lies below it.                        *)
InSegment(i, price, reserve, sold) ==
  /\ Price(i - 1) <= price /\ price <= Price(i)
  /\ (reserve - quote_up_to[i - 1]) * ONE_SQUARED >= Liquidity(i) * (price - Price(i - 1))
  /\ (sold - base_up_to[i - 1]) * (price * Price(i - 1)) <= Liquidity(i) * (price - Price(i - 1))

OnCurve(price, reserve, sold) == \E i \in 1 .. Segments : InSegment(i, price, reserve, sold)

(* A segment lies between two positive prices and has liquidity.           *)
LEMMA SegmentFacts ==
  ASSUME NEW i \in 1 .. Segments
  PROVE  /\ Segments \in Nat /\ i \in Nat /\ i - 1 \in 0 .. Segments
         /\ Price(i - 1) \in Nat \ {0} /\ Price(i) \in Nat \ {0} /\ Price(i - 1) < Price(i)
         /\ Liquidity(i) \in Nat \ {0}
         /\ ONE_SQUARED \in Nat \ {0}
         /\ Price(i) - Price(i - 1) \in Nat
         /\ Price(i - 1) * Price(i) \in Nat \ {0}
<1>1. Segments \in Nat /\ i \in Nat /\ i - 1 \in 0 .. Segments /\ i \in 0 .. Segments
  BY CurveFacts
<1>2. /\ Price(i - 1) \in Nat \ {0} /\ Price(i) \in Nat \ {0} /\ Price(i - 1) < Price(i)
      /\ Liquidity(i) \in Nat \ {0} /\ ONE_SQUARED \in Nat \ {0}
  BY <1>1, CurveFacts
<1>3. ASSUME NEW a \in Nat \ {0}, NEW b \in Nat \ {0} PROVE a * b \in Nat \ {0}
  OBVIOUS
<1>4. QED
  BY <1>1, <1>2, <1>3

(* Both sums start at 0 and grow by one segment's amount.                  *)
LEMMA SumFacts ==
  /\ quote_up_to[0] = 0 /\ base_up_to[0] = 0
  /\ \A i \in 1 .. Segments :
       /\ segment_quote(i) \in Nat /\ segment_base(i) \in Nat
       /\ quote_up_to[i] = quote_up_to[i - 1] + segment_quote(i)
       /\ base_up_to[i] = base_up_to[i - 1] + segment_base(i)
  /\ \A i \in 0 .. Segments : quote_up_to[i] \in Nat /\ base_up_to[i] \in Nat
<1>1. Segments \in Nat
  BY CurveFacts
<1>2. \A i \in 1 .. Segments : segment_quote(i) \in Nat /\ segment_base(i) \in Nat
  <2> SUFFICES ASSUME NEW i \in 1 .. Segments
               PROVE  segment_quote(i) \in Nat /\ segment_base(i) \in Nat
    OBVIOUS
  <2>1. /\ mul_div_up(Liquidity(i), Price(i) - Price(i - 1), ONE_SQUARED) \in Nat
        /\ mul_div_down(Liquidity(i), Price(i) - Price(i - 1), Price(i - 1) * Price(i)) \in Nat
    BY SegmentFacts, MulDiv
  <2>2. QED
    BY <2>1 DEF segment_quote, segment_base, get_delta_amount_quote_up, get_delta_amount_base_down
<1>3. /\ quote_up_to[0] = 0 /\ base_up_to[0] = 0
      /\ \A i \in 1 .. Segments :
           /\ quote_up_to[i] = quote_up_to[i - 1] + segment_quote(i)
           /\ base_up_to[i] = base_up_to[i - 1] + segment_base(i)
  <2> DEFINE quotes == [i \in 1 .. Segments |-> segment_quote(i)]
             bases  == [i \in 1 .. Segments |-> segment_base(i)]
  <2>1. /\ \A i \in 1 .. Segments : quotes[i] = segment_quote(i)
        /\ \A i \in 1 .. Segments : bases[i] = segment_base(i)
    OBVIOUS
  <2>2. quote_up_to = sums(quotes, Segments) /\ base_up_to = sums(bases, Segments)
    BY DEF quote_up_to, base_up_to
  <2> HIDE DEF quotes, bases
  <2>3. /\ quote_up_to[0] = 0
        /\ \A i \in 1 .. Segments : quote_up_to[i] = quote_up_to[i - 1] + quotes[i]
    BY <1>1, <2>2, SumLoop
  <2>4. /\ base_up_to[0] = 0
        /\ \A i \in 1 .. Segments : base_up_to[i] = base_up_to[i - 1] + bases[i]
    BY <1>1, <2>2, SumLoop
  <2>5. QED
    BY <2>1, <2>3, <2>4
<1> DEFINE T == {m \in Nat : m <= Segments => quote_up_to[m] \in Nat /\ base_up_to[m] \in Nat}
<1>4. 0 \in T
  BY <1>3
<1>5. ASSUME NEW m \in Nat, m \in T PROVE m + 1 \in T
  <2> SUFFICES ASSUME m + 1 <= Segments
               PROVE  quote_up_to[m + 1] \in Nat /\ base_up_to[m + 1] \in Nat
    OBVIOUS
  <2>1. m + 1 \in 1 .. Segments /\ (m + 1) - 1 = m /\ m <= Segments
    BY <1>1
  <2>2. quote_up_to[m] \in Nat /\ base_up_to[m] \in Nat
    BY <1>5, <2>1
  <2>3. QED
    BY <1>2, <1>3, <2>1, <2>2
<1>6. \A i \in 0 .. Segments : quote_up_to[i] \in Nat /\ base_up_to[i] \in Nat
  <2>1. Nat \subseteq T
    <3> HIDE DEF T
    <3>1. QED
      BY <1>4, <1>5, Induction
  <2>2. QED
    BY <1>1, <2>1
<1>7. QED
  BY <1>2, <1>3, <1>6

(* At both ends of a segment the two conditions are about whole amounts    *)
(* only, so a price on a boundary lies in either segment.                  *)
LEMMA AtLowerEnd ==
  ASSUME NEW i \in 1 .. Segments, NEW reserve \in Int, NEW sold \in Int
  PROVE  InSegment(i, Price(i - 1), reserve, sold)
           <=> reserve >= quote_up_to[i - 1] /\ sold <= base_up_to[i - 1]
<1> DEFINE l == Price(i - 1)
           r == reserve - quote_up_to[i - 1]
           x == sold - base_up_to[i - 1]
<1>1. l \in Nat \ {0} /\ l <= Price(i) /\ Liquidity(i) \in Nat /\ ONE_SQUARED \in Nat \ {0}
  BY SegmentFacts
<1>2. quote_up_to[i - 1] \in Nat /\ base_up_to[i - 1] \in Nat
  BY SegmentFacts, SumFacts
<1>3. r \in Int /\ x \in Int
  BY <1>2
<1>4. l * l \in Nat \ {0}
  <2> HIDE DEF l
  <2>1. QED
    BY <1>1
<1>5. InSegment(i, l, reserve, sold)
        <=> r * ONE_SQUARED >= Liquidity(i) * (l - l) /\ x * (l * l) <= Liquidity(i) * (l - l)
  <2>1. l <= l /\ l <= Price(i)
    BY <1>1
  <2>2. QED
    BY <2>1 DEF InSegment
<1> HIDE DEF l, r, x
<1>6. l - l = 0 /\ Liquidity(i) * 0 = 0
  BY <1>1
<1>7. r * ONE_SQUARED >= 0 <=> r >= 0
  BY <1>1, <1>3, CeilingIsLeast
<1>8. x * (l * l) <= 0 <=> x <= 0
  BY <1>3, <1>4, FloorIsGreatest
<1>9. InSegment(i, l, reserve, sold) <=> r >= 0 /\ x <= 0
  BY <1>5, <1>6, <1>7, <1>8
<1>10. QED
  BY <1>2, <1>9 DEF l, r, x

(* The upper end, likewise.                                                *)
LEMMA AtUpperEnd ==
  ASSUME NEW i \in 1 .. Segments, NEW reserve \in Int, NEW sold \in Int
  PROVE  InSegment(i, Price(i), reserve, sold)
           <=> reserve >= quote_up_to[i] /\ sold <= base_up_to[i]
<1> DEFINE l == Price(i - 1)
           u == Price(i)
           L == Liquidity(i)
           r == reserve - quote_up_to[i - 1]
           x == sold - base_up_to[i - 1]
           d == l * u
<1>1. /\ l \in Nat \ {0} /\ u \in Nat \ {0} /\ L \in Nat \ {0} /\ ONE_SQUARED \in Nat \ {0}
      /\ l < u /\ u - l \in Nat /\ d \in Nat \ {0}
  BY SegmentFacts
<1>2. quote_up_to[i - 1] \in Nat /\ base_up_to[i - 1] \in Nat
  BY SegmentFacts, SumFacts
<1>3. r \in Int /\ x \in Int
  BY <1>2
<1>4. InSegment(i, u, reserve, sold)
        <=> r * ONE_SQUARED >= L * (u - l) /\ x * (u * l) <= L * (u - l)
  <2>1. l <= u /\ u <= u
    BY <1>1
  <2>2. QED
    BY <2>1 DEF InSegment
<1>5. /\ segment_quote(i) = mul_div_up(L, u - l, ONE_SQUARED)
      /\ segment_base(i) = mul_div_down(L, u - l, d)
  BY DEF segment_quote, segment_base, get_delta_amount_quote_up, get_delta_amount_base_down
<1>6. u * l = d
  BY <1>1
<1> HIDE DEF l, u, L, r, x, d
<1>7. L * (u - l) \in Nat
  BY <1>1, ProductMonotone
<1>8. /\ segment_quote(i) \in Nat
      /\ L * (u - l) <= segment_quote(i) * ONE_SQUARED
      /\ segment_quote(i) * ONE_SQUARED < L * (u - l) + ONE_SQUARED
  BY <1>1, <1>5, RoundedUp
<1>9. /\ segment_base(i) \in Nat
      /\ segment_base(i) * d <= L * (u - l)
      /\ L * (u - l) < segment_base(i) * d + d
  BY <1>1, <1>5, RoundedDown
<1>10. r * ONE_SQUARED >= L * (u - l) <=> r >= segment_quote(i)
  BY <1>1, <1>3, <1>7, <1>8, CeilingIsLeast
<1>11. x * d <= L * (u - l) <=> x <= segment_base(i)
  BY <1>1, <1>3, <1>7, <1>9, FloorIsGreatest
<1>12. InSegment(i, u, reserve, sold) <=> r >= segment_quote(i) /\ x <= segment_base(i)
  BY <1>4, <1>6, <1>10, <1>11
<1>13. /\ quote_up_to[i] = quote_up_to[i - 1] + segment_quote(i)
       /\ base_up_to[i] = base_up_to[i - 1] + segment_base(i)
  BY SumFacts
<1>14. QED
  BY <1>2, <1>8, <1>9, <1>12, <1>13 DEF u, r, x

(* A price lies in every segment it is between the ends of.                *)
LEMMA Located ==
  ASSUME NEW price \in Nat, NEW reserve \in Int, NEW sold \in Int,
         OnCurve(price, reserve, sold),
         NEW j \in 1 .. Segments, Price(j - 1) <= price, price <= Price(j)
  PROVE  InSegment(j, price, reserve, sold)
<1>1. PICK i \in 1 .. Segments : InSegment(i, price, reserve, sold)
  BY DEF OnCurve
<1>2. Price(i - 1) <= price /\ price <= Price(i)
  BY <1>1 DEF InSegment
<1>3. /\ i \in Nat /\ j \in Nat /\ Segments \in Nat
      /\ Price(i - 1) \in Nat /\ Price(i) \in Nat /\ Price(j - 1) \in Nat /\ Price(j) \in Nat
      /\ Price(i - 1) < Price(i) /\ Price(j - 1) < Price(j)
  BY SegmentFacts
<1>4. CASE i = j
  BY <1>1, <1>4
<1>5. CASE i < j
  <2>1. i \in 0 .. Segments /\ j - 1 \in i .. Segments
    BY <1>3, <1>5
  <2>2. Price(i) <= Price(j - 1)
    BY <2>1, PricesGrow
  <2>3. price = Price(i) /\ price = Price(j - 1)
    BY <1>2, <1>3, <2>2
  <2>4. CASE j = i + 1
    <3>1. InSegment(i, Price(i), reserve, sold) /\ j - 1 = i
      BY <1>1, <1>3, <2>3, <2>4
    <3>2. InSegment(j, Price(j - 1), reserve, sold)
      BY <3>1, AtUpperEnd, AtLowerEnd
    <3>3. QED
      BY <2>3, <3>2
  <2>5. CASE j # i + 1
    <3>1. i + 1 \in 1 .. Segments /\ (i + 1) - 1 = i /\ i + 1 \in 0 .. Segments /\ j - 1 \in i + 1 .. Segments
      BY <1>3, <1>5, <2>5
    <3>2. Price(i) < Price(i + 1) /\ Price(i + 1) \in Nat
      BY <3>1, CurveFacts
    <3>3. Price(i + 1) <= Price(j - 1)
      BY <3>1, PricesGrow
    <3>4. QED
      BY <1>3, <2>3, <3>2, <3>3
  <2>6. QED
    BY <2>4, <2>5
<1>6. CASE j < i
  <2>1. j \in 0 .. Segments /\ i - 1 \in j .. Segments
    BY <1>3, <1>6
  <2>2. Price(j) <= Price(i - 1)
    BY <2>1, PricesGrow
  <2>3. price = Price(j) /\ price = Price(i - 1)
    BY <1>2, <1>3, <2>2
  <2>4. CASE i = j + 1
    <3>1. InSegment(i, Price(i - 1), reserve, sold) /\ i - 1 = j
      BY <1>1, <1>3, <2>3, <2>4
    <3>2. InSegment(j, Price(j), reserve, sold)
      BY <3>1, AtUpperEnd, AtLowerEnd
    <3>3. QED
      BY <2>3, <3>2
  <2>5. CASE i # j + 1
    <3>1. j + 1 \in 1 .. Segments /\ (j + 1) - 1 = j /\ j + 1 \in 0 .. Segments /\ i - 1 \in j + 1 .. Segments
      BY <1>3, <1>6, <2>5
    <3>2. Price(j) < Price(j + 1) /\ Price(j + 1) \in Nat
      BY <3>1, CurveFacts
    <3>3. Price(j + 1) <= Price(i - 1)
      BY <3>1, PricesGrow
    <3>4. QED
      BY <1>3, <2>3, <3>2, <3>3
  <2>6. QED
    BY <2>4, <2>5
<1>7. QED
  BY <1>3, <1>4, <1>5, <1>6

-----------------------------------------------------------------------------
(* Buying within a segment, for at least what the way up costs.            *)
LEMMA BuyInSegment ==
  ASSUME NEW i \in 1 .. Segments, NEW p \in Nat, NEW reserve \in Int, NEW sold \in Int,
         InSegment(i, p, reserve, sold),
         NEW q \in Nat, p <= q, q <= Price(i),
         NEW c \in Int, c * ONE_SQUARED >= Liquidity(i) * (q - p)
  PROVE  LET bought == get_delta_amount_base_down(p, q, Liquidity(i))
         IN  bought \in Nat /\ InSegment(i, q, reserve + c, sold + bought)
<1> DEFINE l == Price(i - 1)
           L == Liquidity(i)
           r == reserve - quote_up_to[i - 1]
           x == sold - base_up_to[i - 1]
           o == get_delta_amount_base_down(p, q, L)
<1>1. /\ l \in Nat \ {0} /\ L \in Nat \ {0} /\ ONE_SQUARED \in Nat \ {0}
      /\ quote_up_to[i - 1] \in Nat /\ base_up_to[i - 1] \in Nat
  BY SegmentFacts, SumFacts
<1>2. /\ l <= p
      /\ r * ONE_SQUARED >= L * (p - l)
      /\ x * (p * l) <= L * (p - l)
  BY DEF InSegment
<1>3. r \in Int /\ x \in Int
  BY <1>1
<1> HIDE DEF l, L, r, x
<1>4. p \in Nat \ {0} /\ q \in Nat \ {0} /\ q - p \in Nat
  BY <1>1, <1>2
<1>5. p * q \in Nat \ {0}
  BY <1>4
<1>6. o \in Nat /\ o * (p * q) <= L * (q - p)
  BY <1>1, <1>4, <1>5, RoundedDown DEF get_delta_amount_base_down
<1> HIDE DEF o
<1>7. o * (q * p) <= L * (q - p)
  BY <1>4, <1>6
<1>8. c * ONE_SQUARED >= L * (q - p)
  BY DEF L
<1>9. (r + c) * ONE_SQUARED >= L * (q - l)
  BY <1>1, <1>2, <1>3, <1>4, <1>8, QuoteBought
<1>10. (x + o) * (q * l) <= L * (q - l)
  BY <1>1, <1>2, <1>3, <1>4, <1>6, <1>7, BaseBought
<1>11. (reserve + c) - quote_up_to[i - 1] = r + c /\ (sold + o) - base_up_to[i - 1] = x + o
  BY <1>1, <1>6 DEF r, x
<1>12. l <= q /\ q <= Price(i)
  BY <1>1, <1>2, <1>4
<1>13. InSegment(i, q, reserve + c, sold + o)
  <2>1. /\ ((reserve + c) - quote_up_to[i - 1]) * ONE_SQUARED >= L * (q - l)
        /\ ((sold + o) - base_up_to[i - 1]) * (q * l) <= L * (q - l)
    BY <1>9, <1>10, <1>11
  <2>2. QED
    BY <1>12, <2>1 DEF InSegment, l, L
<1>14. QED
  BY <1>6, <1>13 DEF o, L

(* Selling a base tokens within a segment that hold the way down to q.     *)
LEMMA SellInSegment ==
  ASSUME NEW i \in 1 .. Segments, NEW p \in Nat, NEW reserve \in Int, NEW sold \in Int,
         InSegment(i, p, reserve, sold),
         NEW q \in Nat, Price(i - 1) <= q, q <= p,
         NEW a \in Nat, Liquidity(i) * p <= q * (Liquidity(i) + a * p)
  PROVE  LET received == get_delta_amount_quote_down(q, p, Liquidity(i))
         IN  received \in Nat /\ InSegment(i, q, reserve - received, sold - a)
<1> DEFINE l == Price(i - 1)
           L == Liquidity(i)
           r == reserve - quote_up_to[i - 1]
           x == sold - base_up_to[i - 1]
           o == get_delta_amount_quote_down(q, p, L)
<1>1. /\ l \in Nat \ {0} /\ L \in Nat \ {0} /\ ONE_SQUARED \in Nat \ {0}
      /\ quote_up_to[i - 1] \in Nat /\ base_up_to[i - 1] \in Nat /\ Price(i) \in Nat
  BY SegmentFacts, SumFacts
<1>2. /\ l <= p /\ p <= Price(i)
      /\ r * ONE_SQUARED >= L * (p - l)
      /\ x * (p * l) <= L * (p - l)
  BY DEF InSegment
<1>3. r \in Int /\ x \in Int
  BY <1>1
<1>4. l <= q /\ L * p <= q * (L + a * p)
  OBVIOUS
<1> HIDE DEF l, L, r, x
<1>5. p \in Nat \ {0} /\ p - q \in Nat
  BY <1>1, <1>2
<1>6. o \in Nat /\ o * ONE_SQUARED <= L * (p - q)
  BY <1>1, <1>5, RoundedDown DEF get_delta_amount_quote_down
<1> HIDE DEF o
<1>7. (r - o) * ONE_SQUARED >= L * (q - l)
  BY <1>1, <1>2, <1>3, <1>6, QuoteSold
<1>8. (x - a) * (q * l) <= L * (q - l)
  BY <1>1, <1>2, <1>3, <1>4, <1>5, BaseSoldPart
<1>9. reserve - o - quote_up_to[i - 1] = r - o /\ sold - a - base_up_to[i - 1] = x - a
  BY <1>1, <1>6 DEF r, x
<1>10. q <= Price(i)
  BY <1>1, <1>2
<1>11. InSegment(i, q, reserve - o, sold - a)
  BY <1>4, <1>7, <1>8, <1>9, <1>10 DEF InSegment, l, L
<1>12. QED
  BY <1>6, <1>11 DEF o, L

(* Selling down to the lower end, for at least the base tokens that takes. *)
LEMMA SellWholeSegment ==
  ASSUME NEW i \in 1 .. Segments, NEW p \in Nat, NEW reserve \in Int, NEW sold \in Int,
         InSegment(i, p, reserve, sold),
         NEW a \in Nat, Liquidity(i) * (p - Price(i - 1)) <= a * (Price(i - 1) * p)
  PROVE  LET received == get_delta_amount_quote_down(Price(i - 1), p, Liquidity(i))
         IN  received \in Nat /\ InSegment(i, Price(i - 1), reserve - received, sold - a)
<1> DEFINE l == Price(i - 1)
           L == Liquidity(i)
           r == reserve - quote_up_to[i - 1]
           x == sold - base_up_to[i - 1]
           o == get_delta_amount_quote_down(l, p, L)
<1>1. /\ l \in Nat \ {0} /\ L \in Nat \ {0} /\ ONE_SQUARED \in Nat \ {0}
      /\ quote_up_to[i - 1] \in Nat /\ base_up_to[i - 1] \in Nat
  BY SegmentFacts, SumFacts
<1>2. /\ l <= p
      /\ r * ONE_SQUARED >= L * (p - l)
      /\ x * (p * l) <= L * (p - l)
      /\ L * (p - l) <= a * (l * p)
  BY DEF InSegment
<1>3. r \in Int /\ x \in Int
  BY <1>1
<1> HIDE DEF l, L, r, x
<1>4. p \in Nat \ {0} /\ p - l \in Nat
  BY <1>1, <1>2
<1>5. o \in Nat /\ o * ONE_SQUARED <= L * (p - l)
  BY <1>1, <1>4, RoundedDown DEF get_delta_amount_quote_down
<1> HIDE DEF o
<1>6. (r - o) * ONE_SQUARED >= L * (l - l)
  BY <1>1, <1>2, <1>3, <1>5, QuoteSold
<1>7. L * (l - l) = 0
  BY <1>1
<1>8. r - o >= 0
  <2>1. (r - o) * ONE_SQUARED >= 0 <=> r - o >= 0
    BY <1>1, <1>3, <1>5, CeilingIsLeast
  <2>2. QED
    BY <1>6, <1>7, <2>1
<1>9. x <= a
  BY <1>1, <1>2, <1>3, <1>4, BaseSoldWhole
<1>10. reserve - o >= quote_up_to[i - 1] /\ sold - a <= base_up_to[i - 1]
       /\ reserve - o \in Int /\ sold - a \in Int
  BY <1>1, <1>5, <1>8, <1>9 DEF r, x
<1>11. InSegment(i, Price(i - 1), reserve - o, sold - a)
  BY <1>10, AtLowerEnd
<1>12. QED
  BY <1>5, <1>11 DEF o, l, L

-----------------------------------------------------------------------------
(* The walk up, from a pool on the curve.                                  *)
(* PoolConfig::init pads the curve with points that no walk stops at.      *)
LEMMA CurvePoints ==
  ASSUME NEW i \in 1 .. MAX_CURVE_POINT
  PROVE  /\ i <= Segments => Curve[i].sqrt_price = Price(i) /\ Curve[i].liquidity = Liquidity(i)
         /\ i > Segments => Curve[i].sqrt_price = MAX_SQRT_PRICE
<1>1. i \in Nat /\ i # 0
  OBVIOUS
<1>2. Curve[i] = IF i <= Segments THEN Params.curve[i]
                 ELSE [sqrt_price |-> MAX_SQRT_PRICE, liquidity |-> 0]
  BY DEF Curve, padded, Segments
<1>3. Segments \in Nat
  BY CurveFacts
<1>4. QED
  BY <1>1, <1>2, <1>3 DEF Price, Liquidity

(* A position on the curve has a price of the curve.                       *)
LEMMA OnCurvePrice ==
  ASSUME NEW price \in Nat, NEW reserve \in Int, NEW sold \in Int, OnCurve(price, reserve, sold)
  PROVE  sqrt_start_price <= price /\ price <= MAX_SQRT_PRICE /\ price # 0
<1>1. PICK i \in 1 .. Segments : InSegment(i, price, reserve, sold)
  BY DEF OnCurve
<1>2. Price(i - 1) <= price /\ price <= Price(i)
  BY <1>1 DEF InSegment
<1>3. /\ i \in Nat /\ Segments \in Nat /\ Price(i - 1) \in Nat /\ Price(i) \in Nat
      /\ i - 1 \in 0 .. Segments /\ 0 \in 0 .. Segments /\ i - 1 \in 0 .. Segments
      /\ Segments \in i .. Segments /\ i \in 0 .. Segments
  BY SegmentFacts
<1>4. Price(0) <= Price(i - 1) /\ Price(i) <= Price(Segments)
  BY <1>3, PricesGrow
<1>5. Price(0) = sqrt_start_price /\ Price(Segments) = MAX_SQRT_PRICE
      /\ Price(0) \in Nat \ {0} /\ MAX_SQRT_PRICE \in Nat
  BY <1>3, CurveFacts DEF Price
<1>6. QED
  BY <1>2, <1>3, <1>4, <1>5

WalkStates(amount) ==
  [sqrt_price : Nat, amount_left : 0 .. amount, output : Nat, done : BOOLEAN]

(* After i passes: the pool is on the curve with what was paid and bought  *)
(* so far, and a walk that goes on has reached the end of segment i.       *)
BuyState(i, x, amount, reserve, sold) ==
  /\ x \in WalkStates(amount)
  /\ OnCurve(x.sqrt_price, reserve + (amount - x.amount_left), sold + x.output)
  /\ x.done => x.amount_left = 0
  /\ ~x.done => Price(minimum(i, Segments)) <= x.sqrt_price

(* One pass of the walk up keeps it in step with the curve.                *)
LEMMA BuyPass ==
  ASSUME NEW i \in 1 .. MAX_CURVE_POINT, NEW amount \in Nat, NEW reserve \in Int, NEW sold \in Int,
         NEW x, BuyState(i - 1, x, amount, reserve, sold)
  PROVE  BuyState(i, quote_to_base_step(x, Curve[i]), amount, reserve, sold)
<1> DEFINE p == x.sqrt_price
           left == x.amount_left
           o == x.output
           paid_before == reserve + (amount - left)
           sold_before == sold + o
<1>1. /\ p \in Nat /\ left \in 0 .. amount /\ left \in Nat /\ o \in Nat /\ x.done \in BOOLEAN
      /\ OnCurve(p, paid_before, sold_before)
      /\ x.done => left = 0
      /\ ~x.done => Price(minimum(i - 1, Segments)) <= p
  BY DEF BuyState, WalkStates
<1> HIDE DEF p, left, o, paid_before, sold_before
<1>0. paid_before \in Int /\ sold_before \in Int
  BY <1>1 DEF paid_before, sold_before
<1>2. /\ i \in Nat /\ i # 0 /\ Segments \in Nat /\ Segments # 0 /\ MAX_SQRT_PRICE \in Nat
      /\ Price(Segments) = MAX_SQRT_PRICE
  BY CurveFacts
<1>4. CASE x.done
  <2>1. quote_to_base_step(x, Curve[i]) = x
    BY <1>4 DEF quote_to_base_step
  <2>2. QED
    BY <1>1, <1>4, <2>1 DEF BuyState, p, left, o, paid_before, sold_before
<1>5. CASE ~x.done /\ Curve[i].sqrt_price <= p
  <2>1. quote_to_base_step(x, Curve[i]) = x
    BY <1>5 DEF quote_to_base_step, p
  <2>2. Price(minimum(i, Segments)) <= p
    <3>1. CASE i <= Segments
      BY <1>2, <1>5, <3>1, CurvePoints DEF minimum
    <3>2. CASE i > Segments
      <4>1. Curve[i].sqrt_price = Price(Segments) /\ minimum(i, Segments) = Segments
        BY <1>2, <3>2, CurvePoints DEF minimum
      <4>2. QED
        BY <1>5, <4>1
    <3>3. QED
      BY <1>2, <3>1, <3>2
  <2>3. QED
    BY <1>5, <2>1, <2>2 DEF BuyState, p
<1>6. CASE ~x.done /\ ~(Curve[i].sqrt_price <= p)
  <2>1. i <= Segments
    <3>1. CASE i > Segments
      <4>1. Curve[i].sqrt_price = MAX_SQRT_PRICE
        BY <3>1, CurvePoints
      <4>2. minimum(i - 1, Segments) = Segments
        BY <1>2, <3>1 DEF minimum
      <4>3. QED
        BY <1>1, <1>2, <1>6, <4>1, <4>2
    <3>2. QED
      BY <1>2, <3>1
  <2>2. i \in 1 .. Segments /\ i - 1 <= Segments
    BY <1>2, <2>1
  <2> DEFINE u == Price(i)
             L == Liquidity(i)
  <2>3. Curve[i].sqrt_price = u /\ Curve[i].liquidity = L
    BY <2>1, CurvePoints
  <2>4. /\ u \in Nat \ {0} /\ L \in Nat \ {0} /\ ONE_SQUARED \in Nat \ {0} /\ Price(i - 1) \in Nat
    BY <2>2, SegmentFacts
  <2>5. p < u /\ u - p \in Nat
    BY <1>1, <1>6, <2>3, <2>4
  <2>6. Price(i - 1) <= p
    BY <1>1, <1>2, <1>6, <2>2 DEF minimum
  <2>7. InSegment(i, p, paid_before, sold_before) /\ paid_before \in Int /\ sold_before \in Int
    <3>1. p <= Price(i)
      BY <1>1, <2>4, <2>5
    <3>2. QED
      BY <1>0, <1>1, <2>2, <2>6, <3>1, Located
  <2> DEFINE max_in == get_delta_amount_quote_up(p, u, L)
             partial == left < max_in
             q == IF partial THEN p + mul_div_down(left, ONE_SQUARED, L) ELSE u
             bought == get_delta_amount_base_down(p, q, L)
             left_after == IF partial THEN 0 ELSE left - max_in
             y == [sqrt_price |-> q, amount_left |-> left_after, output |-> o + bought, done |-> partial]
  <2>8. quote_to_base_step(x, Curve[i]) = y
    BY <1>6, <2>3 DEF quote_to_base_step, get_next_sqrt_price_from_amount_quote_rounding_down,
                      p, left, o
  <2> HIDE DEF u, L
  <2>9. /\ max_in \in Nat
        /\ L * (u - p) <= max_in * ONE_SQUARED
        /\ max_in * ONE_SQUARED < L * (u - p) + ONE_SQUARED
    BY <2>4, <2>5, RoundedUp DEF get_delta_amount_quote_up
  <2> HIDE DEF max_in
  <2>10. /\ q \in Nat /\ p <= q /\ q <= u
         /\ left_after \in 0 .. left
         /\ (left - left_after) * ONE_SQUARED >= L * (q - p)
         /\ ~partial => q = u
         /\ partial => left_after = 0
    <3>1. CASE ~partial
      <4>1. q = u /\ left_after = left - max_in
        BY <3>1
      <4>2. left_after \in 0 .. left /\ left - left_after = max_in
        BY <1>1, <2>9, <3>1, <4>1
      <4> HIDE DEF q, left_after
      <4>3. (left - left_after) * ONE_SQUARED >= L * (q - p)
        BY <2>9, <4>1, <4>2
      <4>4. q \in Nat /\ p <= q /\ q <= u
        BY <1>1, <2>4, <2>5, <4>1
      <4> HIDE DEF partial
      <4>5. QED
        BY <3>1, <4>1, <4>2, <4>3, <4>4
    <3>2. CASE partial
      <4> DEFINE f == mul_div_down(left, ONE_SQUARED, L)
      <4>1. f \in Nat /\ f * L <= left * ONE_SQUARED
        BY <1>1, <2>4, RoundedDown
      <4>2. q = p + f /\ left_after = 0
        BY <3>2
      <4> HIDE DEF f
      <4>3. left <= max_in - 1
        BY <1>1, <2>9, <3>2
      <4>4. left * ONE_SQUARED <= (max_in - 1) * ONE_SQUARED
        BY <1>1, <2>4, <2>9, <4>3
      <4>5. (max_in - 1) * ONE_SQUARED = max_in * ONE_SQUARED - ONE_SQUARED
        BY <2>4, <2>9
      <4>6. /\ max_in * ONE_SQUARED \in Int /\ left * ONE_SQUARED \in Int /\ L * (u - p) \in Int
            /\ f * L \in Int
        BY <1>1, <2>4, <2>5, <2>9, <4>1
      <4>7. f * L < L * (u - p)
        BY <2>4, <2>9, <4>1, <4>4, <4>5, <4>6
      <4>8. f < u - p
        <5>1. f * L = L * f
          BY <2>4, <4>1
        <5>2. QED
          BY <2>4, <2>5, <4>1, <4>7, <5>1, ProductCancel
      <4>9. q \in Nat /\ p <= q /\ q <= u /\ q - p = f
        BY <1>1, <2>4, <4>1, <4>2, <4>8
      <4>10. (left - left_after) * ONE_SQUARED >= L * (q - p)
        <5>1. left - left_after = left /\ L * (q - p) = f * L
          BY <1>1, <2>4, <4>1, <4>2, <4>9
        <5>2. QED
          BY <4>1, <5>1
      <4>11. QED
        BY <1>1, <3>2, <4>2, <4>9, <4>10
    <3>3. QED
      BY <3>1, <3>2
  <2>11. left - left_after \in Int
    BY <1>1, <2>10
  <2> HIDE DEF left_after, q
  <2>12. /\ bought \in Nat
         /\ InSegment(i, q, paid_before + (left - left_after), sold_before + bought)
    BY <1>1, <2>2, <2>7, <2>10, <2>11, BuyInSegment DEF u, L
  <2> HIDE DEF bought
  <2>13. /\ paid_before + (left - left_after) = reserve + (amount - left_after)
         /\ sold_before + bought = sold + (o + bought)
    BY <1>1, <2>10, <2>12 DEF paid_before, sold_before
  <2>14. OnCurve(q, reserve + (amount - left_after), sold + (o + bought))
    BY <2>2, <2>12, <2>13 DEF OnCurve
  <2>15. y \in WalkStates(amount)
    <3>1. left_after \in 0 .. amount /\ o + bought \in Nat /\ partial \in BOOLEAN
      BY <1>1, <2>10, <2>12
    <3> HIDE DEF partial
    <3>2. QED
      BY <2>10, <3>1 DEF WalkStates
  <2>16. ~partial => Price(minimum(i, Segments)) <= q
    <3>1. minimum(i, Segments) = i
      BY <1>2, <2>1 DEF minimum
    <3>2. QED
      BY <2>4, <2>10, <3>1 DEF u
  <2> HIDE DEF partial
  <2>17. BuyState(i, y, amount, reserve, sold)
    BY <2>10, <2>14, <2>15, <2>16 DEF BuyState
  <2>18. QED
    BY <2>8, <2>17
<1>7. QED
  BY <1>1, <1>4, <1>5, <1>6

(* Hence so do all passes of the walk.                                     *)
LEMMA BuyPasses ==
  ASSUME NEW price \in Nat, NEW reserve \in Int, NEW sold \in Int, OnCurve(price, reserve, sold),
         NEW amount \in Nat
  PROVE  \A m \in 0 .. MAX_CURVE_POINT :
           BuyState(m, quote_to_base_walk(Curve, price, amount)[m], amount, reserve, sold)
<1> DEFINE walk == quote_to_base_walk(Curve, price, amount)
           T    == {m \in Nat : m <= MAX_CURVE_POINT => BuyState(m, walk[m], amount, reserve, sold)}
<1>1. /\ walk[0] = walk_start(price, amount)
      /\ \A i \in 1 .. MAX_CURVE_POINT : walk[i] = quote_to_base_step(walk[i - 1], Curve[i])
  BY BuyLoop
<1>2. MAX_CURVE_POINT \in Nat /\ Segments \in Nat /\ Segments # 0
  BY CurveFacts
<1> HIDE DEF walk
<1>3. 0 \in T
  <2> DEFINE x == [sqrt_price |-> price, amount_left |-> amount, output |-> 0, done |-> FALSE]
  <2>1. walk[0] = x
    BY <1>1 DEF walk_start
  <2>2. x \in WalkStates(amount)
    BY DEF WalkStates
  <2>3. reserve + (amount - amount) = reserve /\ sold + 0 = sold
    OBVIOUS
  <2>4. Price(minimum(0, Segments)) <= price
    <3>1. minimum(0, Segments) = 0
      BY <1>2 DEF minimum
    <3>2. QED
      BY <3>1, OnCurvePrice DEF Price
  <2>5. BuyState(0, x, amount, reserve, sold)
    BY <2>2, <2>3, <2>4 DEF BuyState
  <2>6. QED
    BY <2>1, <2>5
<1>4. ASSUME NEW m \in Nat, m \in T PROVE m + 1 \in T
  <2> SUFFICES ASSUME m + 1 <= MAX_CURVE_POINT
               PROVE  BuyState(m + 1, walk[m + 1], amount, reserve, sold)
    OBVIOUS
  <2>1. m + 1 \in 1 .. MAX_CURVE_POINT /\ (m + 1) - 1 = m /\ m <= MAX_CURVE_POINT
    BY <1>2
  <2>2. BuyState((m + 1) - 1, walk[m], amount, reserve, sold)
    BY <1>4, <2>1
  <2>3. walk[m + 1] = quote_to_base_step(walk[m], Curve[m + 1])
    BY <1>1, <2>1
  <2>4. QED
    BY <2>1, <2>2, <2>3, BuyPass
<1>5. Nat \subseteq T
  <2> HIDE DEF T
  <2>1. QED
    BY <1>3, <1>4, Induction
<1>6. QED
  BY <1>2, <1>5 DEF walk

LEMMA BuyWalk ==
  ASSUME NEW price \in Nat, NEW reserve \in Int, NEW sold \in Int, OnCurve(price, reserve, sold),
         NEW amount \in Nat
  PROVE  BuyState(MAX_CURVE_POINT, quote_to_base_walk(Curve, price, amount)[MAX_CURVE_POINT],
                  amount, reserve, sold)
<1>1. MAX_CURVE_POINT \in 0 .. MAX_CURVE_POINT
  BY PriceAssumption
<1>2. QED
  BY <1>1, BuyPasses

(* A buy leaves the pool on the curve, and it only fails when the amount   *)
(* is more than the rest of the curve costs.                               *)
THEOREM BuyStaysOnCurve ==
  ASSUME NEW price \in Nat, NEW reserve \in Int, NEW sold \in Int, OnCurve(price, reserve, sold),
         NEW amount \in Nat
  PROVE  LET buy == get_swap_amount_from_quote_to_base(Curve, price, amount)
         IN  /\ buy.output_amount \in Nat /\ buy.next_sqrt_price \in Nat
             /\ buy.ok => OnCurve(buy.next_sqrt_price, reserve + amount, sold + buy.output_amount)
             /\ reserve + amount <= quote_up_to[Segments] => buy.ok
<1> DEFINE x == quote_to_base_walk(Curve, price, amount)[MAX_CURVE_POINT]
           left == x.amount_left
<1>1. BuyState(MAX_CURVE_POINT, x, amount, reserve, sold)
  BY BuyWalk
<1>2. get_swap_amount_from_quote_to_base(Curve, price, amount) =
        [ok |-> left = 0, output_amount |-> x.output, next_sqrt_price |-> x.sqrt_price]
  BY DEF get_swap_amount_from_quote_to_base
<1> HIDE DEF x
<1>3. /\ x.sqrt_price \in Nat /\ left \in 0 .. amount /\ left \in Nat /\ x.output \in Nat
      /\ x.done \in BOOLEAN
      /\ OnCurve(x.sqrt_price, reserve + (amount - left), sold + x.output)
      /\ x.done => left = 0
      /\ ~x.done => Price(minimum(MAX_CURVE_POINT, Segments)) <= x.sqrt_price
  BY <1>1 DEF BuyState, WalkStates
<1> HIDE DEF left
<1>4. left = 0 => OnCurve(x.sqrt_price, reserve + amount, sold + x.output)
  <2>1. left = 0 => reserve + (amount - left) = reserve + amount
    OBVIOUS
  <2>2. QED
    BY <1>3, <2>1
<1>5. ASSUME reserve + amount <= quote_up_to[Segments], ~x.done PROVE left = 0
  <2>1. /\ Segments \in Nat /\ Segments \in 1 .. Segments /\ MAX_CURVE_POINT \in Nat
        /\ minimum(MAX_CURVE_POINT, Segments) = Segments
    BY CurveFacts DEF minimum
  <2> DEFINE paid == reserve + (amount - left)
             bought == sold + x.output
  <2>2. paid \in Int /\ bought \in Int
    BY <1>3
  <2>3. OnCurve(x.sqrt_price, paid, bought)
    BY <1>3
  <2> HIDE DEF paid, bought
  <2>4. Price(Segments) = MAX_SQRT_PRICE /\ x.sqrt_price <= MAX_SQRT_PRICE /\ MAX_SQRT_PRICE \in Nat
    BY <1>3, <2>2, <2>3, CurveFacts, OnCurvePrice
  <2>5. x.sqrt_price = Price(Segments)
    BY <1>3, <1>5, <2>1, <2>4
  <2>6. Price(Segments - 1) <= Price(Segments) /\ Price(Segments) <= Price(Segments)
    BY <2>1, SegmentFacts
  <2>7. InSegment(Segments, Price(Segments), paid, bought)
    BY <1>3, <2>1, <2>2, <2>3, <2>5, <2>6, Located
  <2>8. paid >= quote_up_to[Segments]
    BY <2>1, <2>2, <2>7, AtUpperEnd
  <2>9. quote_up_to[Segments] \in Nat
    BY <2>1, SumFacts
  <2>10. QED
    BY <1>3, <1>5, <2>8, <2>9 DEF paid
<1>6. reserve + amount <= quote_up_to[Segments] => left = 0
  BY <1>3, <1>5
<1> DEFINE buy == get_swap_amount_from_quote_to_base(Curve, price, amount)
<1> HIDE DEF buy
<1>7. buy.ok = (left = 0) /\ buy.output_amount = x.output /\ buy.next_sqrt_price = x.sqrt_price
  BY <1>2 DEF buy
<1>8. /\ buy.output_amount \in Nat /\ buy.next_sqrt_price \in Nat
      /\ buy.ok => OnCurve(buy.next_sqrt_price, reserve + amount, sold + buy.output_amount)
      /\ reserve + amount <= quote_up_to[Segments] => buy.ok
  BY <1>3, <1>4, <1>6, <1>7
<1>9. QED
  BY <1>8 DEF buy

-----------------------------------------------------------------------------
(* The walk down, from a pool on the curve.                                *)
(* The price after a sale, and the product that bounds it from below.      *)
LEMMA PriceAfterSale ==
  ASSUME NEW p \in Nat \ {0}, NEW L \in Nat \ {0}, NEW a \in Nat
  PROVE  LET q == get_next_sqrt_price_from_amount_base_rounding_up(p, L, a)
         IN  q \in Nat /\ q <= p /\ L * p <= q * (L + a * p)
<1> DEFINE d == L + a * p
           u == mul_div_up(L, p, d)
<1>1. a * p \in Nat
  BY ProductMonotone
<1>2. d \in Nat \ {0}
  BY <1>1
<1>3. CASE a = 0
  <2>1. get_next_sqrt_price_from_amount_base_rounding_up(p, L, a) = p
    BY <1>3 DEF get_next_sqrt_price_from_amount_base_rounding_up
  <2>2. L * p <= p * (L + a * p)
    BY <1>3
  <2>3. QED
    BY <2>1, <2>2
<1>4. CASE a # 0
  <2>1. get_next_sqrt_price_from_amount_base_rounding_up(p, L, a) = u
    BY <1>4 DEF get_next_sqrt_price_from_amount_base_rounding_up
  <2> HIDE DEF d
  <2>2. u \in Nat /\ L * p <= u * d /\ u * d < L * p + d
    BY <1>2, RoundedUp
  <2> HIDE DEF u
  <2>3. u <= p
    BY <2>2, SaleLowersPrice DEF d
  <2>4. QED
    BY <2>1, <2>2, <2>3 DEF d
<1>5. QED
  BY <1>3, <1>4

(* After the passes down to point i: the pool is on the curve with what    *)
(* was sold and received so far, and a walk that goes on is at most at the *)
(* price of point i.                                                       *)
SellState(i, x, amount, reserve, sold) ==
  /\ x \in WalkStates(amount)
  /\ OnCurve(x.sqrt_price, reserve - x.output, sold - (amount - x.amount_left))
  /\ x.done => x.amount_left = 0
  /\ ~x.done => x.sqrt_price <= Price(minimum(i, Segments))

(* One pass of the walk down keeps it in step with the curve.              *)
LEMMA SellPass ==
  ASSUME NEW i \in 1 .. MAX_CURVE_POINT - 1, NEW amount \in Nat,
         NEW reserve \in Int, NEW sold \in Int,
         NEW x, SellState(i + 1, x, amount, reserve, sold)
  PROVE  SellState(i, base_to_quote_step(Curve, i, x), amount, reserve, sold)
<1> DEFINE p == x.sqrt_price
           left == x.amount_left
           o == x.output
           paid_before == reserve - o
           sold_before == sold - (amount - left)
<1>1. /\ p \in Nat /\ left \in 0 .. amount /\ left \in Nat /\ o \in Nat /\ x.done \in BOOLEAN
      /\ OnCurve(p, paid_before, sold_before)
      /\ x.done => left = 0
      /\ ~x.done => p <= Price(minimum(i + 1, Segments))
  BY DEF SellState, WalkStates
<1> HIDE DEF p, left, o, paid_before, sold_before
<1>2. paid_before \in Int /\ sold_before \in Int
  BY <1>1 DEF paid_before, sold_before
<1>3. /\ i \in Nat /\ i # 0 /\ Segments \in Nat /\ Segments # 0 /\ MAX_SQRT_PRICE \in Nat
      /\ Price(Segments) = MAX_SQRT_PRICE /\ MAX_CURVE_POINT \in Nat
      /\ i \in 1 .. MAX_CURVE_POINT /\ i + 1 \in 1 .. MAX_CURVE_POINT
  BY CurveFacts
<1>4. p <= MAX_SQRT_PRICE /\ p # 0
  BY <1>1, <1>2, OnCurvePrice
<1>5. CASE x.done
  <2>1. base_to_quote_step(Curve, i, x) = x
    BY <1>5 DEF base_to_quote_step
  <2>2. QED
    BY <1>5, <2>1 DEF SellState
<1>6. CASE ~x.done /\ Curve[i].sqrt_price >= p
  <2>1. base_to_quote_step(Curve, i, x) = x
    BY <1>6 DEF base_to_quote_step, p
  <2>2. p <= Price(minimum(i, Segments))
    <3>1. CASE i <= Segments
      <4>1. Curve[i].sqrt_price = Price(i) /\ minimum(i, Segments) = i
        BY <1>3, <3>1, CurvePoints DEF minimum
      <4>2. Price(i) \in Nat
        BY <1>3, <3>1, CurveFacts
      <4>3. QED
        BY <1>1, <1>6, <4>1, <4>2
    <3>2. CASE i > Segments
      <4>1. minimum(i, Segments) = Segments
        BY <1>3, <3>2 DEF minimum
      <4>2. QED
        BY <1>3, <1>4, <4>1
    <3>3. QED
      BY <1>3, <3>1, <3>2
  <2>3. QED
    BY <1>6, <2>1, <2>2 DEF SellState, p
<1>7. CASE ~x.done /\ ~(Curve[i].sqrt_price >= p)
  <2>1. i < Segments
    <3>1. CASE i = Segments
      <4>1. Curve[i].sqrt_price = MAX_SQRT_PRICE
        BY <1>3, <3>1, CurvePoints
      <4>2. QED
        BY <1>1, <1>3, <1>4, <1>7, <4>1
    <3>2. CASE i > Segments
      <4>1. Curve[i].sqrt_price = MAX_SQRT_PRICE
        BY <1>3, <3>2, CurvePoints
      <4>2. QED
        BY <1>1, <1>3, <1>4, <1>7, <4>1
    <3>3. QED
      BY <1>3, <3>1, <3>2
  <2> DEFINE j == i + 1
             l == Price(i)
             L == Liquidity(i + 1)
  <2>2. j \in 1 .. Segments /\ j - 1 = i /\ i <= Segments /\ minimum(j, Segments) = j
    BY <1>3, <2>1 DEF minimum
  <2>3. Curve[i].sqrt_price = l /\ Curve[i + 1].liquidity = L
    BY <1>3, <2>2, CurvePoints
  <2>4. /\ l \in Nat \ {0} /\ L \in Nat \ {0} /\ ONE_SQUARED \in Nat \ {0} /\ Price(j) \in Nat
    BY <2>2, SegmentFacts
  <2>5. l < p /\ p - l \in Nat
    BY <1>1, <1>7, <2>3, <2>4
  <2>6. p <= Price(j)
    BY <1>1, <1>7, <2>2
  <2>7. InSegment(j, p, paid_before, sold_before)
    <3>1. Price(j - 1) <= p
      BY <1>1, <2>2, <2>4, <2>5
    <3>2. QED
      BY <1>1, <1>2, <2>2, <2>6, <3>1, Located
  <2> DEFINE max_in == get_delta_amount_base_up(l, p, L)
             partial == left < max_in
             q == IF partial THEN get_next_sqrt_price_from_amount_base_rounding_up(p, L, left) ELSE l
             received == get_delta_amount_quote_down(q, p, L)
             left_after == IF partial THEN 0 ELSE left - max_in
             y == [sqrt_price |-> q, amount_left |-> left_after, output |-> o + received,
                   done |-> partial]
  <2>8. base_to_quote_step(Curve, i, x) = y
    BY <1>7, <2>3 DEF base_to_quote_step, p, left, o
  <2>9. L = Liquidity(j) /\ l = Price(j - 1)
    BY <2>2
  <2> HIDE DEF l, L, j
  <2>10. l * p \in Nat \ {0}
    BY <1>1, <1>4, <2>4
  <2>11. /\ max_in \in Nat
         /\ L * (p - l) <= max_in * (l * p)
         /\ max_in * (l * p) < L * (p - l) + l * p
    BY <2>4, <2>5, <2>10, RoundedUp DEF get_delta_amount_base_up
  <2> HIDE DEF max_in
  <2>12. /\ q \in Nat /\ q <= Price(j) /\ received \in Nat /\ left_after \in 0 .. left
         /\ InSegment(j, q, paid_before - received, sold_before - (left - left_after))
         /\ ~partial => q = l
         /\ partial => left_after = 0
    <3>1. CASE ~partial
      <4>1. q = l /\ left_after = left - max_in
        BY <3>1
      <4> DEFINE rest == get_delta_amount_quote_down(l, p, L)
      <4>2. received = rest
        BY <4>1
      <4>3. left_after \in 0 .. left /\ left - left_after = max_in
        BY <1>1, <2>11, <3>1, <4>1
      <4>4. rest \in Nat /\ InSegment(j, l, paid_before - rest, sold_before - max_in)
        BY <1>1, <1>2, <2>2, <2>7, <2>9, <2>11, SellWholeSegment
      <4> HIDE DEF rest, q, left_after, received
      <4>5. l <= Price(j)
        BY <1>1, <2>4, <2>5, <2>6
      <4> HIDE DEF partial
      <4>6. QED
        BY <2>4, <3>1, <4>1, <4>2, <4>3, <4>4, <4>5
    <3>2. CASE partial
      <4> DEFINE next == get_next_sqrt_price_from_amount_base_rounding_up(p, L, left)
                 part == get_delta_amount_quote_down(next, p, L)
      <4>1. q = next /\ left_after = 0 /\ received = part
        BY <3>2
      <4>2. next \in Nat /\ next <= p /\ L * p <= next * (L + left * p)
        BY <1>1, <1>4, <2>4, PriceAfterSale
      <4> HIDE DEF next, q, left_after, received
      <4>3. left * (p * l) <= L * (p - l)
        <5> DEFINE d == l * p
        <5>1. left <= max_in - 1 /\ d \in Nat \ {0} /\ p * l = d
          BY <1>1, <2>4, <2>10, <2>11, <3>2
        <5>2. max_in * d < L * (p - l) + d
          BY <2>11
        <5>3. L * (p - l) \in Nat
          BY <2>4, <2>5, ProductMonotone
        <5> HIDE DEF d
        <5>4. left * d <= (max_in - 1) * d /\ (max_in - 1) * d = max_in * d - d
              /\ left * d \in Int /\ max_in * d \in Int
          BY <1>1, <2>11, <5>1
        <5>5. left * d <= L * (p - l)
          BY <5>1, <5>2, <5>3, <5>4
        <5>6. QED
          BY <5>1, <5>5
      <4>4. l <= next
        BY <1>1, <2>4, <4>2, <4>3, SaleStaysAbove
      <4>5. part \in Nat /\ InSegment(j, next, paid_before - part, sold_before - left)
        BY <1>1, <1>2, <2>2, <2>7, <2>9, <4>2, <4>4, SellInSegment
      <4> HIDE DEF part
      <4>6. next <= Price(j)
        BY <1>1, <2>4, <2>6, <4>2
      <4>7. left - left_after = left /\ left_after \in 0 .. left
        BY <1>1, <4>1
      <4> HIDE DEF partial
      <4>8. QED
        BY <3>2, <4>1, <4>2, <4>5, <4>6, <4>7
    <3>3. QED
      BY <3>1, <3>2
  <2> HIDE DEF received, left_after, q
  <2>13. /\ paid_before - received = reserve - (o + received)
         /\ sold_before - (left - left_after) = sold - (amount - left_after)
    BY <1>1, <2>12 DEF paid_before, sold_before
  <2>14. OnCurve(q, reserve - (o + received), sold - (amount - left_after))
    BY <2>2, <2>12, <2>13 DEF OnCurve
  <2>15. y \in WalkStates(amount)
    <3>1. left_after \in 0 .. amount /\ o + received \in Nat /\ partial \in BOOLEAN
      BY <1>1, <2>12
    <3> HIDE DEF partial
    <3>2. QED
      BY <2>12, <3>1 DEF WalkStates
  <2>16. ~partial => q <= Price(minimum(i, Segments))
    <3>1. minimum(i, Segments) = i
      BY <1>3, <2>1 DEF minimum
    <3>2. l <= Price(i)
      BY <2>4 DEF l
    <3>3. QED
      BY <2>12, <3>1, <3>2
  <2> HIDE DEF partial
  <2>17. SellState(i, y, amount, reserve, sold)
    BY <2>12, <2>14, <2>15, <2>16 DEF SellState
  <2>18. QED
    BY <2>8, <2>17
<1>8. QED
  BY <1>1, <1>5, <1>6, <1>7

(* Hence so do all passes of the walk.                                     *)
LEMMA SellPasses ==
  ASSUME NEW price \in Nat, NEW reserve \in Int, NEW sold \in Int, OnCurve(price, reserve, sold),
         NEW amount \in Nat
  PROVE  \A m \in 0 .. MAX_CURVE_POINT - 1 :
           SellState(MAX_CURVE_POINT - m, base_to_quote_walk(Curve, price, amount)[m],
                     amount, reserve, sold)
<1> DEFINE walk == base_to_quote_walk(Curve, price, amount)
           last == MAX_CURVE_POINT - 1
           T    == {m \in Nat : m <= last =>
                      SellState(MAX_CURVE_POINT - m, walk[m], amount, reserve, sold)}
<1>1. /\ walk[0] = walk_start(price, amount)
      /\ \A i \in 1 .. last : walk[i] = base_to_quote_step(Curve, MAX_CURVE_POINT - i, walk[i - 1])
  BY SellLoop
<1>2. MAX_CURVE_POINT \in Nat /\ Segments \in Nat /\ Segments <= MAX_CURVE_POINT /\ last \in Nat
      /\ Price(Segments) = MAX_SQRT_PRICE
  BY CurveFacts, PriceAssumption
<1> HIDE DEF walk
<1>3. 0 \in T
  <2> DEFINE x == [sqrt_price |-> price, amount_left |-> amount, output |-> 0, done |-> FALSE]
  <2>1. walk[0] = x
    BY <1>1 DEF walk_start
  <2>2. x \in WalkStates(amount)
    BY DEF WalkStates
  <2>3. reserve - 0 = reserve /\ sold - (amount - amount) = sold /\ MAX_CURVE_POINT - 0 = MAX_CURVE_POINT
    BY <1>2
  <2>4. price <= Price(minimum(MAX_CURVE_POINT, Segments))
    <3>1. minimum(MAX_CURVE_POINT, Segments) = Segments
      BY <1>2 DEF minimum
    <3>2. QED
      BY <1>2, <3>1, OnCurvePrice
  <2>5. SellState(MAX_CURVE_POINT, x, amount, reserve, sold)
    BY <2>2, <2>3, <2>4 DEF SellState
  <2>6. QED
    BY <2>1, <2>3, <2>5
<1>4. ASSUME NEW m \in Nat, m \in T PROVE m + 1 \in T
  <2> SUFFICES ASSUME m + 1 <= last
               PROVE  SellState(MAX_CURVE_POINT - (m + 1), walk[m + 1], amount, reserve, sold)
    OBVIOUS
  <2> DEFINE i == MAX_CURVE_POINT - (m + 1)
  <2>1. /\ m + 1 \in 1 .. last /\ (m + 1) - 1 = m /\ m <= last
        /\ i \in 1 .. MAX_CURVE_POINT - 1 /\ MAX_CURVE_POINT - m = i + 1
    BY <1>2
  <2>2. SellState(i + 1, walk[m], amount, reserve, sold)
    BY <1>4, <2>1
  <2>3. walk[m + 1] = base_to_quote_step(Curve, i, walk[m])
    BY <1>1, <2>1
  <2> HIDE DEF i
  <2>4. SellState(i, walk[m + 1], amount, reserve, sold)
    BY <2>1, <2>2, <2>3, SellPass
  <2>5. QED
    BY <2>4 DEF i
<1>5. Nat \subseteq T
  <2> HIDE DEF T, last
  <2>1. QED
    BY <1>3, <1>4, Induction
<1>6. QED
  BY <1>2, <1>5 DEF walk

LEMMA SellWalk ==
  ASSUME NEW price \in Nat, NEW reserve \in Int, NEW sold \in Int, OnCurve(price, reserve, sold),
         NEW amount \in Nat
  PROVE  SellState(1, base_to_quote_walk(Curve, price, amount)[MAX_CURVE_POINT - 1],
                   amount, reserve, sold)
<1>1. MAX_CURVE_POINT - 1 \in 0 .. MAX_CURVE_POINT - 1 /\ MAX_CURVE_POINT - (MAX_CURVE_POINT - 1) = 1
  BY PriceAssumption
<1>2. QED
  BY <1>1, SellPasses

(* A sale of no more base tokens than were ever sold leaves the pool on    *)
(* the curve: the price does not fall below where the curve starts, though *)
(* the last step of the walk has no lower bound.                           *)
THEOREM SaleStaysOnCurve ==
  ASSUME NEW price \in Nat, NEW reserve \in Int, NEW sold \in Int, OnCurve(price, reserve, sold),
         NEW amount \in Nat, amount <= sold
  PROVE  LET sale == get_swap_amount_from_base_to_quote(Curve, price, amount)
         IN  /\ sale.output_amount \in Nat /\ sale.next_sqrt_price \in Nat
             /\ OnCurve(sale.next_sqrt_price, reserve - sale.output_amount, sold - amount)
<1> DEFINE x == base_to_quote_walk(Curve, price, amount)[MAX_CURVE_POINT - 1]
           p == x.sqrt_price
           left == x.amount_left
           o == x.output
           L == Liquidity(1)
           next == get_next_sqrt_price_from_amount_base_rounding_up(p, L, left)
           received == get_delta_amount_quote_down(next, p, L)
           paid_before == reserve - o
           sold_before == sold - (amount - left)
<1>1. SellState(1, x, amount, reserve, sold)
  BY SellWalk
<1>2. /\ 1 \in 1 .. Segments /\ 1 \in 1 .. MAX_CURVE_POINT /\ 1 <= Segments
      /\ minimum(1, Segments) = 1
  BY CurveFacts DEF minimum
<1>3. Curve[1].liquidity = L
  BY <1>2, CurvePoints
<1>4. get_swap_amount_from_base_to_quote(Curve, price, amount) =
        [ok |-> TRUE, output_amount |-> o + received, next_sqrt_price |-> next]
  BY <1>3 DEF get_swap_amount_from_base_to_quote
<1> HIDE DEF x
<1>5. /\ p \in Nat /\ left \in 0 .. amount /\ left \in Nat /\ o \in Nat /\ x.done \in BOOLEAN
      /\ OnCurve(p, paid_before, sold_before)
      /\ x.done => left = 0
      /\ ~x.done => p <= Price(1)
  BY <1>1, <1>2 DEF SellState, WalkStates
<1>6. paid_before \in Int /\ sold_before \in Int /\ left <= sold_before
  BY <1>5
<1> HIDE DEF p, left, o, paid_before, sold_before
<1>7. p \in Nat \ {0} /\ Price(0) <= p
  BY <1>5, <1>6, OnCurvePrice DEF Price
<1>8. /\ L \in Nat \ {0} /\ Price(0) \in Nat \ {0} /\ ONE_SQUARED \in Nat \ {0}
      /\ quote_up_to[0] = 0 /\ base_up_to[0] = 0 /\ Price(1) \in Nat /\ 1 - 1 = 0
  BY <1>2, SegmentFacts, SumFacts
<1> HIDE DEF L
<1>9. next \in Nat /\ next <= p /\ L * p <= next * (L + left * p)
  BY <1>5, <1>7, <1>8, PriceAfterSale
<1>10. CASE x.done
  <2>1. left = 0 /\ next = p
    BY <1>5, <1>10 DEF get_next_sqrt_price_from_amount_base_rounding_up
  <2>2. received = 0
    <3> HIDE DEF next
    <3>1. p - next \in Nat /\ L * (p - next) = 0
      BY <1>7, <1>8, <2>1
    <3>2. received \in Nat /\ received * ONE_SQUARED <= L * (p - next)
      BY <1>8, <3>1, RoundedDown DEF get_delta_amount_quote_down
    <3> HIDE DEF received
    <3>3. received * ONE_SQUARED <= 0 <=> received <= 0
      BY <1>8, <3>2, FloorIsGreatest
    <3>4. QED
      BY <3>1, <3>2, <3>3
  <2> HIDE DEF received, next
  <2>3. /\ o + received \in Nat /\ reserve - (o + received) = paid_before
        /\ sold - amount = sold_before
    BY <1>5, <2>1, <2>2 DEF paid_before, sold_before
  <2>4. QED
    BY <1>4, <1>5, <2>1, <2>3
<1>11. CASE ~x.done
  <2>1. InSegment(1, p, paid_before, sold_before)
    <3>1. Price(1 - 1) <= p /\ p <= Price(1)
      BY <1>5, <1>7, <1>8, <1>11
    <3>2. QED
      BY <1>2, <1>5, <1>6, <3>1, Located
  <2> DEFINE l == Price(0)
  <2>2. sold_before * (p * l) <= L * (p - l)
    <3>1. (sold_before - base_up_to[0]) * (p * Price(0)) <= L * (p - Price(0))
      BY <1>8, <2>1 DEF InSegment, L
    <3>2. sold_before - base_up_to[0] = sold_before
      BY <1>6, <1>8
    <3>3. QED
      BY <3>1, <3>2
  <2>3. left * (p * l) <= L * (p - l)
    <3> DEFINE d == p * l
    <3>1. d \in Nat
      BY <1>7, <1>8, ProductMonotone
    <3>2. L * (p - l) \in Int
      BY <1>7, <1>8
    <3> HIDE DEF d
    <3>3. left * d <= sold_before * d /\ left * d \in Int /\ sold_before * d \in Int
      BY <1>5, <1>6, <3>1
    <3>4. sold_before * d <= L * (p - l)
      BY <2>2 DEF d
    <3>5. left * d <= L * (p - l)
      BY <3>2, <3>3, <3>4
    <3>6. QED
      BY <3>5 DEF d
  <2>4. l <= next
    <3> HIDE DEF next
    <3>1. QED
      BY <1>5, <1>7, <1>8, <1>9, <2>3, SaleStaysAbove
  <2> HIDE DEF next
  <2>5. received \in Nat /\ InSegment(1, next, paid_before - received, sold_before - left)
    BY <1>2, <1>5, <1>6, <1>7, <1>8, <1>9, <2>1, <2>4, SellInSegment DEF L
  <2> HIDE DEF received
  <2>6. /\ o + received \in Nat /\ paid_before - received = reserve - (o + received)
        /\ sold_before - left = sold - amount
    BY <1>5, <2>5 DEF paid_before, sold_before
  <2>7. OnCurve(next, reserve - (o + received), sold - amount)
    BY <1>2, <2>5, <2>6 DEF OnCurve
  <2>8. QED
    BY <1>4, <1>9, <2>6, <2>7
<1>12. QED
  BY <1>5, <1>10, <1>11

(* The quote reserve covers the segments below the price.                  *)
LEMMA ReserveInSegment ==
  ASSUME NEW i \in 1 .. Segments, NEW price \in Nat, NEW reserve \in Int, NEW sold \in Int,
         InSegment(i, price, reserve, sold)
  PROVE  reserve >= quote_up_to[i - 1] /\ reserve >= 0
<1> DEFINE r == reserve - quote_up_to[i - 1]
           k == price - Price(i - 1)
<1>1. r * ONE_SQUARED >= Liquidity(i) * k /\ Price(i - 1) <= price
  BY DEF InSegment
<1>2. /\ quote_up_to[i - 1] \in Nat /\ Price(i - 1) \in Nat /\ ONE_SQUARED \in Nat \ {0}
      /\ Liquidity(i) \in Nat
  BY SegmentFacts, SumFacts
<1>3. k \in Nat /\ r \in Int
  BY <1>1, <1>2
<1> HIDE DEF r, k
<1>4. Liquidity(i) * k \in Nat
  BY <1>2, <1>3, ProductMonotone
<1>5. r * ONE_SQUARED >= 0
  BY <1>1, <1>2, <1>3, <1>4
<1>6. r >= 0
  BY <1>2, <1>3, <1>5, CeilingIsLeast
<1>7. QED
  BY <1>2, <1>6 DEF r

(* No position on the curve has a negative reserve.                        *)
LEMMA ReserveOnCurve ==
  ASSUME NEW price \in Nat, NEW reserve \in Int, NEW sold \in Int, OnCurve(price, reserve, sold)
  PROVE  reserve >= 0
BY ReserveInSegment DEF OnCurve

(* What the segments cost only adds up.                                    *)
LEMMA QuoteSumsGrow ==
  ASSUME NEW i \in 0 .. Segments, NEW j \in i .. Segments
  PROVE  quote_up_to[i] <= quote_up_to[j]
<1> DEFINE T == {m \in Nat : m \in i .. Segments => quote_up_to[i] <= quote_up_to[m]}
<1>1. Segments \in Nat /\ i \in Nat /\ \A m \in 0 .. Segments : quote_up_to[m] \in Nat
  BY CurveFacts, SumFacts
<1>2. 0 \in T
  BY <1>1
<1>3. ASSUME NEW m \in Nat, m \in T PROVE m + 1 \in T
  <2> SUFFICES ASSUME m + 1 \in i .. Segments PROVE quote_up_to[i] <= quote_up_to[m + 1]
    BY <1>1
  <2>1. CASE i = m + 1
    BY <1>1, <2>1
  <2>2. CASE i # m + 1
    <3>1. m \in i .. Segments /\ m + 1 \in 1 .. Segments /\ m = (m + 1) - 1 /\ m \in 0 .. Segments
      BY <1>1, <2>2
    <3>2. quote_up_to[m + 1] = quote_up_to[m] + segment_quote(m + 1) /\ segment_quote(m + 1) \in Nat
      BY <3>1, SumFacts
    <3>3. quote_up_to[i] <= quote_up_to[m] /\ quote_up_to[m] \in Nat /\ quote_up_to[i] \in Nat
      BY <1>1, <1>3, <3>1
    <3>4. QED
      BY <3>2, <3>3
  <2>3. QED
    BY <2>1, <2>2
<1>4. j \in T
  <2> HIDE DEF T
  <2>1. j \in Nat
    BY <1>1
  <2>2. QED
    BY <1>2, <1>3, <2>1, Induction
<1>5. QED
  BY <1>4

-----------------------------------------------------------------------------
(* The price at which the threshold is reached.                            *)
threshold == migration_quote_threshold

(* The walk stopped in segment k, at the last price the rest pays for.     *)
StoppedIn(k, price) ==
  /\ Price(k - 1) <= price
  /\ quote_up_to[k - 1] <= threshold /\ threshold < quote_up_to[k]
  /\ (threshold - quote_up_to[k - 1]) * ONE_SQUARED
       < Liquidity(k) * ((price - Price(k - 1)) + 1)

ThresholdState(i, x) ==
  /\ x \in WalkStates(threshold)
  /\ x.done => x.amount_left = 0 /\ \E k \in 1 .. i : StoppedIn(k, x.sqrt_price)
  /\ ~x.done => x.sqrt_price = Price(i) /\ x.amount_left = threshold - quote_up_to[i]

(* One pass of the threshold walk keeps to the curve.                      *)
LEMMA ThresholdPass ==
  ASSUME threshold \in Nat, NEW i \in 1 .. Segments, NEW x, ThresholdState(i - 1, x)
  PROVE  ThresholdState(i, threshold_step(x, Params.curve[i]))
<1> DEFINE l == Price(i - 1)
           u == Price(i)
           L == Liquidity(i)
           left == x.amount_left
           max_in == segment_quote(i)
           partial == max_in > left
           f == mul_div_down(left, ONE_SQUARED, L)
           y == [sqrt_price  |-> IF partial THEN l + f ELSE u,
                 amount_left |-> IF partial THEN 0 ELSE left - max_in,
                 output |-> x.output, done |-> partial]
<1>1. /\ x \in WalkStates(threshold)
      /\ x.sqrt_price \in Nat /\ left \in 0 .. threshold /\ left \in Nat /\ x.output \in Nat
      /\ x.done \in BOOLEAN
  BY DEF ThresholdState, WalkStates
<1>2. /\ i \in Nat /\ i # 0 /\ Segments \in Nat /\ l \in Nat \ {0} /\ u \in Nat \ {0} /\ l < u
      /\ L \in Nat \ {0} /\ ONE_SQUARED \in Nat \ {0} /\ max_in \in Nat
      /\ quote_up_to[i - 1] \in Nat /\ quote_up_to[i] = quote_up_to[i - 1] + max_in
  BY SegmentFacts, SumFacts
<1>3. CASE x.done
  <2>1. threshold_step(x, Params.curve[i]) = x
    BY <1>3 DEF threshold_step
  <2>2. PICK k \in 1 .. i - 1 : StoppedIn(k, x.sqrt_price)
    BY <1>3 DEF ThresholdState
  <2>3. k \in 1 .. i /\ left = 0
    BY <1>2, <1>3 DEF ThresholdState
  <2>4. QED
    BY <1>1, <1>3, <2>1, <2>2, <2>3 DEF ThresholdState
<1>4. CASE ~x.done
  <2>0. partial \in BOOLEAN
    OBVIOUS
  <2>1. x.sqrt_price = l /\ left = threshold - quote_up_to[i - 1]
    BY <1>4 DEF ThresholdState
  <2>2. Params.curve[i].sqrt_price = u /\ Params.curve[i].liquidity = L
    BY <1>2 DEF Price, Liquidity
  <2>3. threshold_step(x, Params.curve[i]) =
          [x EXCEPT !.sqrt_price = IF partial THEN l + f ELSE u,
                    !.amount_left = IF partial THEN 0 ELSE @ - max_in,
                    !.done = partial]
    BY <1>4, <2>1, <2>2
    DEF threshold_step, segment_quote, get_next_sqrt_price_from_amount_quote_rounding_down
  <2> HIDE DEF l, u, L, max_in, f, partial
  <2>4. threshold_step(x, Params.curve[i]) = y
    BY <1>1, <2>3 DEF WalkStates
  <2>5. CASE ~partial
    <3>1. left >= max_in
      BY <1>1, <1>2, <2>5 DEF partial
    <3>2. y.sqrt_price = u /\ y.amount_left = left - max_in /\ ~y.done
      BY <2>5
    <3>3. left - max_in \in 0 .. threshold /\ left - max_in = threshold - quote_up_to[i]
      BY <1>1, <1>2, <2>1, <3>1
    <3>4. y \in WalkStates(threshold)
      BY <1>1, <1>2, <2>0, <2>5, <3>3 DEF WalkStates
    <3> HIDE DEF y
    <3>5. ThresholdState(i, y)
      BY <3>2, <3>3, <3>4 DEF ThresholdState, u
    <3>6. QED
      BY <2>4, <3>5
  <2>6. CASE partial
    <3>1. left < max_in
      BY <1>1, <1>2, <2>6 DEF partial
    <3>2. f \in Nat /\ left * ONE_SQUARED < f * L + L
      BY <1>1, <1>2, RoundedDown DEF f
    <3>3. y.sqrt_price = l + f /\ y.amount_left = 0 /\ y.done
      BY <2>6
    <3>4. y \in WalkStates(threshold)
      BY <1>1, <1>2, <2>0, <2>6, <3>2 DEF WalkStates
    <3> HIDE DEF y
    <3>5. l <= l + f /\ (l + f) - l = f
      BY <1>2, <3>2
    <3>6. quote_up_to[i - 1] <= threshold /\ threshold < quote_up_to[i]
      BY <1>1, <1>2, <2>1, <3>1
    <3>7. L * (f + 1) = f * L + L
      BY <1>2, <3>2
    <3>8. StoppedIn(i, l + f)
      BY <2>1, <3>2, <3>5, <3>6, <3>7 DEF StoppedIn, l, L
    <3>9. i \in 1 .. i
      BY <1>2
    <3>10. ThresholdState(i, y)
      BY <3>3, <3>4, <3>8, <3>9 DEF ThresholdState
    <3>11. QED
      BY <2>4, <3>10
  <2>7. QED
    BY <2>5, <2>6
<1>5. QED
  BY <1>1, <1>3, <1>4

(* Hence so do all passes of the walk.                                     *)
LEMMA ThresholdWalk ==
  ASSUME threshold \in Nat
  PROVE  ThresholdState(Segments, threshold_walk_of(threshold, sqrt_start_price, Params.curve)[Segments])
<1> DEFINE walk == threshold_walk_of(threshold, sqrt_start_price, Params.curve)
           T    == {m \in Nat : m <= Segments => ThresholdState(m, walk[m])}
<1>1. Segments \in Nat
  BY CurveFacts
<1>2. /\ walk[0] = walk_start(sqrt_start_price, threshold)
      /\ \A i \in 1 .. Segments : walk[i] = threshold_step(walk[i - 1], Params.curve[i])
  BY <1>1, ThresholdLoop DEF Segments
<1> HIDE DEF walk
<1>3. 0 \in T
  <2> DEFINE x == [sqrt_price |-> sqrt_start_price, amount_left |-> threshold, output |-> 0,
                   done |-> FALSE]
  <2>1. walk[0] = x
    BY <1>2 DEF walk_start
  <2>2. Price(0) = sqrt_start_price /\ sqrt_start_price \in Nat
    BY <1>1, CurveFacts DEF Price
  <2>3. threshold - quote_up_to[0] = threshold
    BY SumFacts
  <2>4. x \in WalkStates(threshold)
    BY <2>2 DEF WalkStates
  <2>5. ThresholdState(0, x)
    BY <2>2, <2>3, <2>4 DEF ThresholdState
  <2>6. QED
    BY <2>1, <2>5
<1>4. ASSUME NEW m \in Nat, m \in T PROVE m + 1 \in T
  <2> SUFFICES ASSUME m + 1 <= Segments PROVE ThresholdState(m + 1, walk[m + 1])
    OBVIOUS
  <2>1. m + 1 \in 1 .. Segments /\ (m + 1) - 1 = m /\ m <= Segments
    BY <1>1
  <2>2. ThresholdState((m + 1) - 1, walk[m])
    BY <1>4, <2>1
  <2>3. walk[m + 1] = threshold_step(walk[m], Params.curve[m + 1])
    BY <1>2, <2>1
  <2>4. QED
    BY <2>1, <2>2, <2>3, ThresholdPass
<1>5. Segments \in T
  <2> HIDE DEF T
  <2>1. QED
    BY <1>1, <1>3, <1>4, Induction
<1>6. QED
  BY <1>1, <1>5 DEF walk

(* create_config accepts only a threshold that the curve reaches.          *)
LEMMA MigrationPrice ==
  /\ threshold \in Nat /\ threshold <= quote_up_to[Segments]
  /\ migration_sqrt_price \in Nat /\ sqrt_start_price <= migration_sqrt_price
  /\ \/ migration_sqrt_price = MAX_SQRT_PRICE
     \/ \E k \in 1 .. Segments : StoppedIn(k, migration_sqrt_price)
<1> DEFINE x == threshold_walk_of(threshold, sqrt_start_price, Params.curve)[Segments]
<1>1. threshold \in Nat
  BY ConfigAssumption, Widths DEF Accepts, threshold
<1>2. ThresholdState(Segments, x)
  BY <1>1, ThresholdWalk
<1>3. migration_sqrt_price = x.sqrt_price /\ x.amount_left = 0
  <2>1. threshold_walk.ok
    BY ConfigAssumption DEF Accepts
  <2>2. threshold_walk = [ok |-> x.amount_left = 0, sqrt_price |-> x.sqrt_price]
    BY DEF threshold_walk, get_migration_threshold_price, threshold, Segments
  <2> HIDE DEF x
  <2>3. QED
    BY <2>1, <2>2 DEF migration_sqrt_price
<1> HIDE DEF x
<1>4. x.sqrt_price \in Nat /\ x.done \in BOOLEAN
  BY <1>2 DEF ThresholdState, WalkStates
<1>5. /\ Segments \in Nat /\ Segments \in 0 .. Segments /\ 0 \in 0 .. Segments
      /\ Price(0) = sqrt_start_price /\ Price(Segments) = MAX_SQRT_PRICE
      /\ quote_up_to[Segments] \in Nat
      /\ \A k \in 0 .. Segments : Price(k) \in Nat
      /\ \A k \in 0 .. Segments : Price(0) <= Price(k)
  BY CurveFacts, SumFacts, PricesGrow DEF Price
<1>6. CASE x.done
  <2>1. PICK k \in 1 .. Segments : StoppedIn(k, x.sqrt_price)
    BY <1>2, <1>6 DEF ThresholdState
  <2>2. Price(k - 1) <= x.sqrt_price /\ threshold < quote_up_to[k]
    BY <2>1 DEF StoppedIn
  <2>3. k \in 0 .. Segments /\ k - 1 \in 0 .. Segments /\ Segments \in k .. Segments
    BY <1>5
  <2>4. quote_up_to[k] <= quote_up_to[Segments] /\ quote_up_to[k] \in Nat
    BY <2>3, QuoteSumsGrow, SumFacts
  <2>5. threshold <= quote_up_to[Segments]
    BY <1>1, <1>5, <2>2, <2>4
  <2>6. sqrt_start_price <= x.sqrt_price
    <3>1. Price(0) <= Price(k - 1) /\ Price(k - 1) \in Nat /\ Price(0) \in Nat
      BY <1>5, <2>3
    <3>2. QED
      BY <1>4, <1>5, <2>2, <3>1
  <2>7. QED
    BY <1>1, <1>3, <1>4, <2>1, <2>5, <2>6
<1>7. CASE ~x.done
  <2>1. x.sqrt_price = MAX_SQRT_PRICE /\ threshold - quote_up_to[Segments] = 0
    BY <1>2, <1>3, <1>5, <1>7 DEF ThresholdState
  <2>2. threshold <= quote_up_to[Segments]
    BY <1>1, <1>5, <2>1
  <2>3. QED
    BY <1>1, <1>3, <1>4, <1>5, <2>1, <2>2
<1>8. QED
  BY <1>4, <1>6, <1>7

(* As long as no more than the threshold was paid, the price is at most    *)
(* the one create_config computed for the migration.                       *)
LEMMA PriceBelowMigration ==
  ASSUME NEW price \in Nat, NEW reserve \in Int, NEW sold \in Int, OnCurve(price, reserve, sold),
         reserve <= threshold
  PROVE  price <= migration_sqrt_price
<1> DEFINE m == migration_sqrt_price
<1>1. threshold \in Nat /\ m \in Nat
  BY MigrationPrice
<1>2. CASE m = MAX_SQRT_PRICE
  BY <1>2, OnCurvePrice
<1>3. ASSUME NEW k \in 1 .. Segments, StoppedIn(k, m) PROVE price <= m
  <2>1. PICK i \in 1 .. Segments : InSegment(i, price, reserve, sold)
    BY DEF OnCurve
  <2> DEFINE l == Price(k - 1)
             L == Liquidity(k)
             r == threshold - quote_up_to[k - 1]
  <2>2. /\ i \in Nat /\ k \in Nat /\ Segments \in Nat
        /\ Price(i - 1) \in Nat /\ Price(i) \in Nat /\ l \in Nat
        /\ L \in Nat \ {0} /\ ONE_SQUARED \in Nat \ {0}
    BY SegmentFacts
  <2>3. /\ quote_up_to[i - 1] \in Nat /\ quote_up_to[k - 1] \in Nat /\ quote_up_to[k] \in Nat
    BY SegmentFacts, SumFacts
  <2>4. l <= m /\ threshold < quote_up_to[k]
        /\ r * ONE_SQUARED < L * ((m - l) + 1)
    BY <1>3 DEF StoppedIn
  <2>5. Price(i - 1) <= price /\ price <= Price(i)
    BY <2>1 DEF InSegment
  <2>6. CASE i < k
    <3>1. i \in 0 .. Segments /\ k - 1 \in i .. Segments
      BY <2>2, <2>6
    <3>2. Price(i) <= l
      BY <3>1, PricesGrow
    <3>3. QED
      BY <1>1, <2>2, <2>4, <2>5, <3>2
  <2>7. CASE i > k
    <3>1. k \in 0 .. Segments /\ i - 1 \in k .. Segments
      BY <2>2, <2>7
    <3>2. quote_up_to[k] <= quote_up_to[i - 1]
      BY <3>1, QuoteSumsGrow
    <3>3. reserve >= quote_up_to[i - 1]
      BY <2>1, ReserveInSegment
    <3>4. QED
      BY <1>1, <2>3, <2>4, <3>2, <3>3
  <2>8. CASE i = k
    <3> DEFINE before == reserve - quote_up_to[k - 1]
    <3>1. before * ONE_SQUARED >= L * (price - l)
      BY <2>1, <2>8 DEF InSegment
    <3>2. before <= r /\ before \in Int /\ r \in Int
      BY <1>1, <2>3
    <3>3. price - l \in Nat /\ (m - l) + 1 \in Nat
      BY <1>1, <2>2, <2>4, <2>5, <2>8
    <3> HIDE DEF l, L, r, before, m
    <3>4. before * ONE_SQUARED <= r * ONE_SQUARED
      BY <2>2, <3>2
    <3>5. /\ before * ONE_SQUARED \in Int /\ r * ONE_SQUARED \in Int
          /\ L * (price - l) \in Int /\ L * ((m - l) + 1) \in Int
      BY <2>2, <3>2, <3>3
    <3>6. L * (price - l) < L * ((m - l) + 1)
      BY <2>4, <3>1, <3>4, <3>5
    <3>7. price - l < (m - l) + 1
      BY <2>2, <3>3, <3>6, ProductCancel
    <3>8. price <= m
      BY <1>1, <2>2, <3>7
    <3>9. QED
      BY <3>8 DEF m
  <2>9. QED
    BY <2>2, <2>6, <2>7, <2>8
<1>4. QED
  BY <1>2, <1>3, MigrationPrice

-----------------------------------------------------------------------------
(* The base tokens create_config counts for the swaps cover what a pool    *)
(* can have sold at a price up to the migration's.                         *)
LEMMA BaseUpTo ==
  ASSUME NEW L \in Nat, NEW l \in Nat \ {0}, NEW p \in Nat \ {0}, NEW q \in Nat \ {0}, p <= q,
         NEW x \in Int, NEW c \in Int, x * (p * l) <= L * (p - l), L * (q - l) <= c * (l * q)
  PROVE  x <= c
<1> DEFINE d == p * (l * q)
<1>1. d \in Nat \ {0}
  <2>1. l * q \in Nat \ {0}
    OBVIOUS
  <2>2. QED
    BY <2>1
<1>2. (x * (p * l)) * q <= (L * (p - l)) * q
  OBVIOUS
<1>3. p * (L * (q - l)) <= p * (c * (l * q))
  OBVIOUS
<1>4. (L * (p - l)) * q <= p * (L * (q - l))
  <2>1. (L * l) * p <= (L * l) * q
    <3>1. L * l \in Nat
      BY ProductMonotone
    <3>2. QED
      BY <3>1, ProductMonotone
  <2>2. (L * (p - l)) * q = L * p * q - (L * l) * q
    OBVIOUS
  <2>3. p * (L * (q - l)) = L * p * q - (L * l) * p
    OBVIOUS
  <2>4. L * p * q \in Int /\ (L * l) * p \in Int /\ (L * l) * q \in Int
    OBVIOUS
  <2>5. QED
    BY <2>1, <2>2, <2>3, <2>4
<1>5. (x * (p * l)) * q = x * d /\ p * (c * (l * q)) = c * d
  OBVIOUS
<1>6. x * d <= c * d
  BY <1>2, <1>3, <1>4, <1>5
<1> HIDE DEF d
<1>7. QED
  BY <1>1, <1>6

(* At a price of at most the migration's the curve has sold at most the    *)
(* base tokens create_config counted for it.                               *)
LEMMA SoldWithinSwapBase ==
  ASSUME NEW price \in Nat, NEW reserve \in Int, NEW sold \in Int, OnCurve(price, reserve, sold),
         price <= migration_sqrt_price
  PROVE  sold <= swap_base_amount
<1> DEFINE m == migration_sqrt_price
           sum == base_token_sums(sqrt_start_price, m, Params.curve)
           term(j) == base_token_amount(sqrt_start_price, m, Params.curve, j)
<1>1. PICK i \in 1 .. Segments : InSegment(i, price, reserve, sold)
  BY DEF OnCurve
<1>2. /\ Segments \in Nat /\ i \in Nat /\ i - 1 \in 0 .. Segments
      /\ m \in Nat /\ sqrt_start_price <= m
      /\ Price(i - 1) \in Nat /\ Price(i) \in Nat /\ Price(i - 1) <= price /\ price <= Price(i)
      /\ \A j \in 0 .. Segments : Price(j) \in Nat \ {0} /\ base_up_to[j] \in Nat
  BY <1>1, SegmentFacts, CurveFacts, MigrationPrice, SumFacts DEF InSegment
<1>3. /\ sum[0] = 0
      /\ \A j \in 1 .. Segments : sum[j] = sum[j - 1] + term(j)
  BY <1>2, BaseTokenLoop DEF Segments
<1>4. swap_base_amount = sum[Segments]
  BY DEF swap_base_amount, get_base_token_for_swap, Segments
<1> HIDE DEF sum
<1>5. ASSUME NEW j \in 1 .. Segments
      PROVE  /\ term(j) \in Nat
             /\ Price(j) <= price => term(j) >= segment_base(j)
             /\ j = i => term(j) >= sold - base_up_to[i - 1]
  <2> DEFINE l == Price(j - 1)
             L == Liquidity(j)
             q == minimum(Price(j), m)
             c == mul_div_up(L, q - l, l * q)
  <2>1. /\ j \in Nat /\ j - 1 \in 0 .. Segments
        /\ l \in Nat \ {0} /\ Price(j) \in Nat \ {0} /\ l < Price(j) /\ L \in Nat \ {0}
    BY SegmentFacts
  <2>2. Params.curve[j].sqrt_price = Price(j) /\ Params.curve[j].liquidity = L
    BY <2>1 DEF Price, Liquidity
  <2>3. (IF j = 1 THEN sqrt_start_price ELSE Params.curve[j - 1].sqrt_price) = l
    BY <2>1 DEF Price
  <2>4. term(j) = IF j > 1 /\ l > m THEN 0 ELSE c
    BY <2>2, <2>3 DEF base_token_amount, get_delta_amount_base_up
  <2>5. j = 1 => l <= m
    BY <1>2, <2>3
  <2> HIDE DEF l, L, term
  <2>6. CASE l > m
    <3>1. j > 1 /\ term(j) = 0
      BY <1>2, <2>1, <2>4, <2>5, <2>6
    <3>2. ~ (Price(j) <= price)
      BY <1>2, <2>1, <2>6
    <3>3. j # i
      BY <1>2, <2>1, <2>6 DEF l
    <3>4. QED
      BY <3>1, <3>2, <3>3
  <2>7. CASE l <= m
    <3>1. term(j) = c
      BY <1>2, <2>1, <2>4, <2>7
    <3>2. q \in Nat \ {0} /\ l <= q /\ q - l \in Nat
      BY <1>2, <2>1, <2>7 DEF minimum
    <3> DEFINE d == l * q
    <3>3. d \in Nat \ {0}
      <4> HIDE DEF q
      <4>1. QED
        BY <2>1, <3>2
    <3>4. c \in Nat /\ L * (q - l) <= c * d
      <4> HIDE DEF q, d
      <4>1. mul_div_up(L, q - l, d) \in Nat /\ L * (q - l) <= mul_div_up(L, q - l, d) * d
        BY <2>1, <3>2, <3>3, RoundedUp
      <4>2. QED
        BY <4>1 DEF d
    <3>5. ASSUME Price(j) <= price PROVE c >= segment_base(j)
      <4>1. q = Price(j)
        BY <1>2, <2>1, <3>5 DEF minimum
      <4>2. segment_base(j) = mul_div_down(L, q - l, d)
        BY <4>1 DEF segment_base, get_delta_amount_base_down, l, L
      <4> HIDE DEF q, c, d
      <4>3. segment_base(j) \in Nat /\ segment_base(j) * d <= L * (q - l)
        BY <2>1, <3>2, <3>3, <4>2, RoundedDown
      <4>4. L * (q - l) \in Nat
        BY <2>1, <3>2, ProductMonotone
      <4>5. segment_base(j) * d <= c * d /\ segment_base(j) * d \in Int /\ c * d \in Int
        BY <3>3, <3>4, <4>3, <4>4
      <4>6. QED
        BY <3>3, <3>4, <4>3, <4>5
    <3>6. ASSUME j = i PROVE c >= sold - base_up_to[i - 1]
      <4> DEFINE x == sold - base_up_to[i - 1]
      <4>1. x * (price * l) <= L * (price - l)
        BY <1>1, <3>6 DEF InSegment, l, L
      <4>2. price \in Nat \ {0} /\ price <= q
        BY <1>2, <2>1, <3>6 DEF minimum, l
      <4>3. x \in Int
        BY <1>2
      <4> HIDE DEF x, q, c
      <4>4. x <= c
        BY <2>1, <3>2, <3>4, <4>1, <4>2, <4>3, BaseUpTo DEF d
      <4>5. QED
        BY <3>4, <4>3, <4>4 DEF x
    <3> HIDE DEF c
    <3>7. QED
      BY <3>1, <3>4, <3>5, <3>6
  <2>8. QED
    BY <1>2, <2>1, <2>6, <2>7
<1> HIDE DEF term
<1> DEFINE T == {j \in Nat : j <= Segments =>
                   /\ sum[j] \in Nat
                   /\ j <= i - 1 => sum[j] >= base_up_to[j]
                   /\ j >= i => sum[j] >= sold}
<1>6. 0 \in T
  BY <1>2, <1>3, SumFacts
<1>7. ASSUME NEW n \in Nat, n \in T PROVE n + 1 \in T
  <2> SUFFICES ASSUME n + 1 <= Segments
               PROVE  /\ sum[n + 1] \in Nat
                      /\ n + 1 <= i - 1 => sum[n + 1] >= base_up_to[n + 1]
                      /\ n + 1 >= i => sum[n + 1] >= sold
    OBVIOUS
  <2> DEFINE j == n + 1
  <2>1. j \in 1 .. Segments /\ j - 1 = n /\ n <= Segments /\ n \in 0 .. Segments
    BY <1>2
  <2>2. /\ sum[n] \in Nat
        /\ n <= i - 1 => sum[n] >= base_up_to[n]
        /\ n >= i => sum[n] >= sold
    BY <1>7, <2>1
  <2>3. sum[j] = sum[n] + term(j) /\ term(j) \in Nat
    BY <1>3, <1>5, <2>1
  <2>4. base_up_to[j] = base_up_to[n] + segment_base(j) /\ segment_base(j) \in Nat
        /\ base_up_to[n] \in Nat
    BY <2>1, SumFacts
  <2>5. ASSUME j <= i - 1 PROVE sum[j] >= base_up_to[j]
    <3>1. j \in 0 .. Segments /\ i - 1 \in j .. Segments
      BY <1>2, <2>1, <2>5
    <3>2. Price(j) <= Price(i - 1) /\ Price(j) \in Nat
      BY <1>2, <3>1, PricesGrow
    <3>3. Price(j) <= price
      BY <1>2, <3>2
    <3>4. term(j) >= segment_base(j)
      BY <1>5, <2>1, <3>3
    <3>5. QED
      BY <1>2, <2>2, <2>3, <2>4, <2>5, <3>4
  <2>6. ASSUME j = i PROVE sum[j] >= sold
    <3>1. term(j) >= sold - base_up_to[n] /\ sum[n] >= base_up_to[n]
      BY <1>2, <1>5, <2>1, <2>2, <2>6
    <3>2. QED
      BY <2>2, <2>3, <2>4, <3>1
  <2>7. ASSUME j > i PROVE sum[j] >= sold
    BY <1>2, <2>1, <2>2, <2>3, <2>7
  <2> HIDE DEF j
  <2>8. /\ sum[j] \in Nat
        /\ j <= i - 1 => sum[j] >= base_up_to[j]
        /\ j >= i => sum[j] >= sold
    BY <1>2, <2>1, <2>2, <2>3, <2>5, <2>6, <2>7
  <2>9. QED
    BY <2>8 DEF j
<1>8. Segments \in T
  <2> HIDE DEF T
  <2>1. QED
    BY <1>2, <1>6, <1>7, Induction
<1>9. QED
  BY <1>2, <1>4, <1>8

=============================================================================
