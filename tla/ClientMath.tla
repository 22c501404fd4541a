---------------------------- MODULE ClientMath -----------------------------
(***************************************************************************)
(* The arithmetic of the TypeScript client (ts-client/src/amm/math): what  *)
(* swapQuote computes from its copies of a pool and its config.            *)
(*                                                                         *)
(* A call returns the set of its results: one value, or none when it       *)
(* throws.  So `{f(y) : y \in g(x)}` calls f on the result of g, and an    *)
(* exception anywhere leaves no result.                                    *)
(*                                                                         *)
(* A BN is an integer and a Decimal an exact rational, given as numerator  *)
(* and denominator: the 64 digits of Decimal.set are taken to be enough.   *)
(* What is not exact is the way back to BN, see decimalToBN.               *)
(***************************************************************************)
EXTENDS CurveMath, Sequences

CONSTANTS
  CLIENT_FEE_DENOMINATOR,    \* 10_000 in math/constants.ts
  CLIENT_MAX_FEE_NUMERATOR,  \* 5_000
  CLIENT_BASIS_POINT_MAX,    \* 10_000
  CLIENT_MAX_CURVE_POINT,    \* 10
  CLIENT_V_FEE_SCALE,        \* 100_000_000_000, a literal of getVariableFee
  EXP_LIMIT                  \* 10^21, where Decimal.toString turns exponential

ASSUME ClientAssumption ==
  /\ CLIENT_FEE_DENOMINATOR \in Nat \ {0}
  /\ CLIENT_MAX_FEE_NUMERATOR \in Nat
  /\ CLIENT_BASIS_POINT_MAX \in Nat \ {0}
  /\ CLIENT_MAX_CURVE_POINT \in Nat \ {0}
  /\ CLIENT_V_FEE_SCALE \in Nat \ {0}
  /\ EXP_LIMIT \in Nat \ {0}

Throws == {}

-----------------------------------------------------------------------------
(* utilsMath.ts                                                            *)
(* The rounded Decimal goes back through its decimal text, and from        *)
(* EXP_LIMIT on that text is exponential ("2.4e+22"), which the BN         *)
(* constructor refuses.                                                    *)
decimalToBN(numerator, denominator, round) ==
  LET value == IF round = "Up" THEN (numerator + denominator - 1) \div denominator
                               ELSE numerator \div denominator
  IN  IF -EXP_LIMIT < value /\ value < EXP_LIMIT THEN {value} ELSE Throws

mulDivBN(x, y, denominator, rounding) ==
  IF denominator = 0 THEN Throws
  ELSE IF rounding = "Up" THEN {(x * y + denominator - 1) \div denominator}
                          ELSE {(x * y) \div denominator}

SmallBN(x) == x < 1000

mulDiv(x, y, denominator, rounding) ==
  IF denominator = 1 \/ x = 0 \/ y = 0 THEN {x * y}
  ELSE IF SmallBN(x) /\ SmallBN(y) /\ SmallBN(denominator)
       THEN mulDivBN(x, y, denominator, rounding)
  ELSE IF denominator = 0 THEN Throws
  ELSE decimalToBN(x * y, denominator, rounding)

(* SafeMath.sub                                                            *)
sub(a, b) == IF b > a THEN Throws ELSE {a - b}

(* SafeMath.div                                                            *)
div(a, b) == IF b = 0 THEN Throws ELSE {a \div b}

(* (x << offset) / y, for the one offset in use, RESOLUTION.               *)
shlDiv(x, y, rounding) ==
  IF y = 0 THEN Throws ELSE decimalToBN(x * ONE, y, rounding)

getDeltaBinId(binStepU128, sqrtPriceA, sqrtPriceB) ==
  UNION {{2 * bins : bins \in div(ratio - ONE, binStepU128)} :
           ratio \in shlDiv(maximum(sqrtPriceA, sqrtPriceB),
                            minimum(sqrtPriceA, sqrtPriceB), "Down")}

-----------------------------------------------------------------------------
(* curve.ts                                                                *)
getDeltaAmountBaseUnsigned(lower, upper, liquidity, round) ==
  IF liquidity = 0 THEN {0}
  ELSE IF lower * upper = 0 THEN Throws
  ELSE decimalToBN(liquidity * (upper - lower), lower * upper, round)

getDeltaAmountQuoteUnsigned(lower, upper, liquidity, round) ==
  IF liquidity = 0 THEN {0}
  ELSE decimalToBN(liquidity * (upper - lower), ONE_SQUARED, round)

getNextSqrtPriceFromAmountBaseRoundingUp(sqrtPrice, liquidity, amount) ==
  IF amount = 0 THEN {sqrtPrice}
  ELSE decimalToBN(liquidity * sqrtPrice, liquidity + amount * sqrtPrice, "Up")

getNextSqrtPriceFromAmountQuoteRoundingDown(sqrtPrice, liquidity, amount) ==
  IF amount = 0 THEN {sqrtPrice}
  ELSE decimalToBN(sqrtPrice * liquidity + amount * ONE_SQUARED, liquidity, "Down")

getNextSqrtPriceFromInput(sqrtPrice, liquidity, amountIn, baseForQuote) ==
  IF sqrtPrice = 0 \/ liquidity = 0 THEN Throws
  ELSE IF baseForQuote
  THEN getNextSqrtPriceFromAmountBaseRoundingUp(sqrtPrice, liquidity, amountIn)
  ELSE getNextSqrtPriceFromAmountQuoteRoundingDown(sqrtPrice, liquidity, amountIn)

getInitialLiquidityFromDeltaQuote(quoteAmount, sqrtMinPrice, sqrtPrice) ==
  UNION {div(quoteAmount * ONE_SQUARED, delta) : delta \in sub(sqrtPrice, sqrtMinPrice)}

getInitializeAmounts(sqrtMinPrice, sqrtMaxPrice, sqrtPrice, liquidity) ==
  getDeltaAmountBaseUnsigned(sqrtPrice, sqrtMaxPrice, liquidity, "Up")
    \X getDeltaAmountQuoteUnsigned(sqrtMinPrice, sqrtPrice, liquidity, "Up")

-----------------------------------------------------------------------------
(* feeMath.ts                                                              *)
getFeeInPeriod(cliffFeeNumerator, reductionFactor, period) ==
  LET rest == CLIENT_BASIS_POINT_MAX - reductionFactor
  IN  CASE period = 0 -> {cliffFeeNumerator}
        [] period = 1 -> mulDivBN(cliffFeeNumerator, rest, CLIENT_BASIS_POINT_MAX, "Down")
        [] OTHER      -> decimalToBN(cliffFeeNumerator * rest ^ period,
                                     CLIENT_BASIS_POINT_MAX ^ period, "Down")

getCurrentBaseFeeNumerator(baseFee, currentPoint, activationPoint) ==
  LET elapsed == (currentPoint - activationPoint) \div baseFee.periodFrequency
      period  == IF currentPoint < activationPoint THEN baseFee.numberOfPeriod
                 ELSE minimum(elapsed, baseFee.numberOfPeriod)
  IN  IF baseFee.periodFrequency = 0 THEN {baseFee.cliffFeeNumerator}
      ELSE IF baseFee.feeSchedulerMode = "Linear"
      THEN decimalToBN(baseFee.cliffFeeNumerator - period * baseFee.reductionFactor, 1, "Down")
      ELSE getFeeInPeriod(baseFee.cliffFeeNumerator, baseFee.reductionFactor, period)

(* Rounded up, by the addition of scale - 1 before the floor.              *)
getVariableFee(dynamicFee) ==
  LET binned == dynamicFee.volatilityAccumulator * dynamicFee.binStep
  IN  IF dynamicFee.initialized = 0 \/ dynamicFee.volatilityAccumulator = 0 THEN {0}
      ELSE decimalToBN(binned * binned * dynamicFee.variableFeeControl + CLIENT_V_FEE_SCALE - 1,
                       CLIENT_V_FEE_SCALE, "Down")

feeSplit(tradingFee, protocolFee, referralFee) ==
  [tradingFee  |-> tradingFee - protocolFee,
   protocolFee |-> protocolFee - referralFee,
   referralFee |-> referralFee]

(* The trading fee: the capped numerator's share of the amount.            *)
(* Wrong: the denominator is brought to the program's scale (there it is   *)
(* 10^9), the cap of the numerator is not.                                 *)
feeShare_cap_left_behind(amount, numerator) ==
  mulDiv(amount, minimum(numerator, CLIENT_MAX_FEE_NUMERATOR),
         CLIENT_FEE_DENOMINATOR * CLIENT_FEE_DENOMINATOR, "Up")

feeShare(amount, numerator) ==
  mulDiv(amount, minimum(numerator, CLIENT_MAX_FEE_NUMERATOR), CLIENT_FEE_DENOMINATOR, "Up")

(* The fee on an amount: the amount that is left and the fee's parts.      *)
getFeeOnAmount(amount, poolFees, isReferral, currentPoint, activationPoint) ==
  LET numerators ==
        {base + variable :
           base \in getCurrentBaseFeeNumerator(poolFees.baseFee, currentPoint, activationPoint),
           variable \in getVariableFee(poolFees.dynamicFee)}
      tradingFees ==
        UNION {feeShare(amount, numerator) : numerator \in numerators}
      protocolFees(tradingFee) == mulDiv(tradingFee, poolFees.protocolFeePercent, 100, "Down")
      referralFees(protocolFee) ==
        IF isReferral THEN mulDiv(protocolFee, poolFees.referralFeePercent, 100, "Down") ELSE {0}
  IN  UNION {UNION {{[amount |-> left, fees |-> feeSplit(tradingFee, protocolFee, referralFee)] :
                       left \in sub(amount, tradingFee), referralFee \in referralFees(protocolFee)} :
               protocolFee \in protocolFees(tradingFee)} :
          tradingFee \in tradingFees}

-----------------------------------------------------------------------------
(* swap.ts                                                                 *)
getFeeMode(collectFeeMode, tradeDirection, hasReferral) ==
  [feesOnInput     |-> collectFeeMode = "QuoteToken" /\ tradeDirection = "QuoteToBase",
   feesOnBaseToken |-> collectFeeMode = "OutputToken" /\ tradeDirection = "QuoteToBase",
   hasReferral     |-> hasReferral]

startWalk(sqrtPrice, amountIn) ==
  [sqrtPrice |-> sqrtPrice, amountLeft |-> amountIn, output |-> 0, done |-> FALSE]

(* What a walk returns: its output is a Decimal up to here.                *)
swapAmount(outputAmount, nextSqrtPrice) ==
  [outputAmount |-> outputAmount, nextSqrtPrice |-> nextSqrtPrice]

swapAmounts(walk) ==
  {swapAmount(output, walk.sqrtPrice) : output \in decimalToBN(walk.output, 1, "Down")}

(* The points the client's loops look at.                                  *)
pointsSeen(curve) == minimum(CLIENT_MAX_CURVE_POINT, Len(curve))

(* The walk over one segment, once its price to the end is known: next is  *)
(* the price it ends at, output what it pays.                              *)
afterSegment(walk, maxAmountIn, next, output) ==
  [sqrtPrice  |-> next,
   amountLeft |-> IF walk.amountLeft < maxAmountIn THEN 0 ELSE walk.amountLeft - maxAmountIn,
   output     |-> walk.output + output,
   done       |-> walk.amountLeft < maxAmountIn]

sellSegment(walk, lower, liquidity) ==
  UNION {UNION {{afterSegment(walk, maxAmountIn, next, output) :
                   output \in getDeltaAmountQuoteUnsigned(next, walk.sqrtPrice, liquidity, "Down")} :
           next \in IF walk.amountLeft < maxAmountIn
                    THEN getNextSqrtPriceFromInput(walk.sqrtPrice, liquidity, walk.amountLeft, TRUE)
                    ELSE {lower}} :
     maxAmountIn \in getDeltaAmountBaseUnsigned(lower, walk.sqrtPrice, liquidity, "Up")}

(* Wrong: the liquidity of the segment below the point, not above it.      *)
liquidityAbove_off_by_one(curve, i) == curve[i].liquidity

liquidityAbove(curve, i) == curve[IF i < Len(curve) THEN i + 1 ELSE i].liquidity

sellStep(curve, i, walk) ==
  IF walk.done \/ ~(curve[i].sqrtPrice < walk.sqrtPrice) \/ liquidityAbove(curve, i) = 0
  THEN {walk}
  ELSE sellSegment(walk, curve[i].sqrtPrice, liquidityAbove(curve, i))

(* The walks after each pass of the loop, down from the last point seen.   *)
sellWalks(curve, currentSqrtPrice, amountIn) ==
  LET walks[passes \in 0 .. pointsSeen(curve)] ==
        IF passes = 0
        THEN {startWalk(currentSqrtPrice, amountIn)}
        ELSE UNION {sellStep(curve, pointsSeen(curve) + 1 - passes, walk) : walk \in walks[passes - 1]}
  IN  walks

(* What the points did not take is sold on the first segment.              *)
sellRest(curve, walk) ==
  UNION {{[sqrtPrice |-> next, amountLeft |-> walk.amountLeft,
            output |-> walk.output + output, done |-> walk.done] :
            output \in getDeltaAmountQuoteUnsigned(next, walk.sqrtPrice, curve[1].liquidity, "Down")} :
    next \in getNextSqrtPriceFromInput(walk.sqrtPrice, curve[1].liquidity, walk.amountLeft, TRUE)}

(* Down over the points below the price, then on the first segment.        *)
getSwapAmountFromBaseToQuote(curve, currentSqrtPrice, amountIn) ==
  LET walked == sellWalks(curve, currentSqrtPrice, amountIn)[pointsSeen(curve)]
      ends   == UNION {IF walk.amountLeft = 0 \/ curve[1].liquidity = 0
                       THEN {walk} ELSE sellRest(curve, walk) : walk \in walked}
  IN  IF amountIn = 0 THEN {swapAmount(0, currentSqrtPrice)}
      ELSE UNION {swapAmounts(walk) : walk \in ends}

buySegment(walk, upper, liquidity) ==
  UNION {UNION {{afterSegment(walk, maxAmountIn, next, output) :
                   output \in getDeltaAmountBaseUnsigned(walk.sqrtPrice, next, liquidity, "Down")} :
           next \in IF walk.amountLeft < maxAmountIn
                    THEN getNextSqrtPriceFromInput(walk.sqrtPrice, liquidity, walk.amountLeft, FALSE)
                    ELSE {upper}} :
     maxAmountIn \in getDeltaAmountQuoteUnsigned(walk.sqrtPrice, upper, liquidity, "Up")}

buyStep(curve, i, walk) ==
  IF walk.done \/ curve[i].liquidity = 0 \/ ~(curve[i].sqrtPrice > walk.sqrtPrice)
  THEN {walk}
  ELSE buySegment(walk, curve[i].sqrtPrice, curve[i].liquidity)

buyWalks(curve, currentSqrtPrice, amountIn) ==
  LET walks[passes \in 0 .. pointsSeen(curve)] ==
        IF passes = 0
        THEN {startWalk(currentSqrtPrice, amountIn)}
        ELSE UNION {buyStep(curve, passes, walk) : walk \in walks[passes - 1]}
  IN  walks

(* Up over the points above the price; throws when the curve ends first.   *)
getSwapAmountFromQuoteToBase(curve, currentSqrtPrice, amountIn) ==
  LET walked == buyWalks(curve, currentSqrtPrice, amountIn)[pointsSeen(curve)]
  IN  IF amountIn = 0 THEN {swapAmount(0, currentSqrtPrice)}
      ELSE UNION {swapAmounts(walk) : walk \in {w \in walked : w.amountLeft = 0}}

getSwapResult(poolState, configState, amountIn, feeMode, tradeDirection, currentPoint) ==
  LET feeOn(amount) == getFeeOnAmount(amount, poolState.poolFees, feeMode.hasReferral,
                                      currentPoint, poolState.activationPoint)
      walked(amount) ==
        IF tradeDirection = "BaseToQuote"
        THEN getSwapAmountFromBaseToQuote(configState.curve, poolState.sqrtPrice, amount)
        ELSE getSwapAmountFromQuoteToBase(configState.curve, poolState.sqrtPrice, amount)
      swapResult(actualIn, output, walk, fees) ==
        [actualInputAmount |-> actualIn, outputAmount |-> output,
         nextSqrtPrice |-> walk.nextSqrtPrice, fees |-> fees]
  IN  IF feeMode.feesOnInput
      THEN UNION {{swapResult(fee.amount, walk.outputAmount, walk, fee.fees) :
                     walk \in walked(fee.amount)} : fee \in feeOn(amountIn)}
      ELSE UNION {{swapResult(amountIn, fee.amount, walk, fee.fees) :
                     fee \in feeOn(walk.outputAmount)} : walk \in walked(amountIn)}

=============================================================================
