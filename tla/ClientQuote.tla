---------------------------- MODULE ClientQuote ----------------------------
(***************************************************************************)
(* Quoting a swap from outside the program: getSwapResult and swapQuote of *)
(* the TypeScript client (math/swap.ts, instructions/swapQuote.ts) and     *)
(* quote_exact_in of the Rust quote SDK, next to the pool they quote.      *)
(*                                                                         *)
(* The Rust SDK runs the program's own functions on a copy of the pool.  A *)
(* trader's session fetches the copy, quotes it at a clock of its own and  *)
(* trades with the quote as the limit.  Between any two of these steps     *)
(* other users' instructions land.                                         *)
(*                                                                         *)
(* The TypeScript client computes with arithmetic and constants of its     *)
(* own, so its results are compared with the program's in every state.  It *)
(* is given the pool twice: as the program means it (poolState) and as the *)
(* shipped IDL decodes it (fetchedPool), which is what swapQuote gets.     *)
(***************************************************************************)
EXTENDS VirtualPool, ClientMath

CONSTANTS
  ClientClock,           \* the times a caller may quote at
  QuotedOrders           \* the orders the trader asks quotes for

VARIABLE session         \* one trader's quote and trade

quote_vars == <<pool_vars, session>>

Order == [direction : TradeDirection, amountIn : SwapAmounts, has_referral : BOOLEAN]

(* A trader may set no limit.                                              *)
ASSUME QuoteAssumption ==
  /\ QuotedOrders \subseteq Order
  /\ 0 \in SwapMinimums

(* How math/constants.ts stands to constants.rs: the client's 5_000 of     *)
(* 10_000 is the program's cap, 500_000_000 of 10^9, on a scale of its     *)
(* own, but the configs it reads are on the program's, whose lowest fee of *)
(* 100_000 is already above 5_000.                                         *)
ASSUME FeeScaleAssumption ==
  /\ CLIENT_MAX_FEE_NUMERATOR <= MIN_FEE_NUMERATOR
  /\ CLIENT_MAX_FEE_NUMERATOR <= CLIENT_FEE_DENOMINATOR
  /\ MAX_FEE_NUMERATOR * CLIENT_FEE_DENOMINATOR <= CLIENT_MAX_FEE_NUMERATOR * FEE_DENOMINATOR

NoQuote == [stage |-> "idle"]

QuoteInit == Init /\ session = NoQuote

-----------------------------------------------------------------------------
(* quote_exact_in of the Rust SDK, on a copy of the pool at a time.        *)
poolCopy ==
  [sqrt_price |-> sqrt_price, quote_reserve |-> quote_reserve,
   volatility_tracker |-> volatility_tracker]

(* get_swap_result after update_pre_swap.                                  *)
swap_of(pool, order, point) ==
  swap_result_at(pool.sqrt_price, point,
                 update_pre_swap(pool.volatility_tracker, pool.sqrt_price, point),
                 order.amountIn, get_fee_mode(order.direction, order.has_referral),
                 order.direction)

(* The elapsed time is a checked subtraction.                              *)
clock_behind(pool, point) ==
  DynamicFee.initialized /\ point < pool.volatility_tracker.last_update_timestamp

(* Wrong: a completed pool is quoted.                                      *)
quote_exact_in_completed(pool, order, point) ==
  [swap_of(pool, order, point) EXCEPT
     !.ok = @ /\ order.amountIn > 0 /\ ~clock_behind(pool, point)]

quote_exact_in(pool, order, point) ==
  [swap_of(pool, order, point) EXCEPT
     !.ok = /\ @
            /\ order.amountIn > 0
            /\ ~clock_behind(pool, point)
            /\ pool.quote_reserve < migration_quote_threshold]

(* What the program computes for an order now.                             *)
program_outcome(order) == swap_of(poolCopy, order, now)

-----------------------------------------------------------------------------
(* The session: the pool is fetched ...                                    *)
FetchPool(order) ==
  /\ session.stage = "idle"
  /\ session' = [stage |-> "fetched", order |-> order, pool |-> poolCopy, seen |-> swaps]
  /\ UNCHANGED pool_vars

(* ... and quoted; an error ends the session.                              *)
Quote(point) ==
  LET quote == quote_exact_in(session.pool, session.order, point)
  IN  /\ session.stage = "fetched"
      /\ session' = IF quote.ok
                    THEN [stage |-> "quoted", order |-> session.order, seen |-> session.seen,
                          output_amount |-> quote.result.output_amount]
                    ELSE NoQuote
      /\ UNCHANGED pool_vars

(* The trade lands, with the quote as its minimum_amount_out, or it is     *)
(* rejected or never sent.                                                 *)
Trade ==
  /\ session.stage = "quoted"
  /\ Swap(session.order.direction, session.order.amountIn, session.output_amount,
          session.order.has_referral)
  /\ session' = NoQuote

GiveUp ==
  /\ session.stage = "quoted"
  /\ session' = NoQuote
  /\ UNCHANGED pool_vars

QuoteNext ==
  \/ \E order \in QuotedOrders : FetchPool(order)
  \/ \E point \in ClientClock : Quote(point)
  \/ Trade
  \/ GiveUp
  \/ PoolNext /\ UNCHANGED session

QuoteSpec == QuoteInit /\ [][QuoteNext]_quote_vars

-----------------------------------------------------------------------------
(* PoolState of types.ts with the values the program has for its fields.   *)
poolFees ==
  [baseFee |-> [cliffFeeNumerator |-> BaseFee.cliff_fee_numerator,
                feeSchedulerMode  |-> BaseFee.fee_scheduler_mode,
                numberOfPeriod    |-> BaseFee.number_of_period,
                periodFrequency   |-> BaseFee.period_frequency,
                reductionFactor   |-> BaseFee.reduction_factor],
   protocolFeePercent |-> PROTOCOL_FEE_PERCENT,
   referralFeePercent |-> HOST_FEE_PERCENT,
   dynamicFee |-> [initialized           |-> IF DynamicFee.initialized THEN 1 ELSE 0,
                   variableFeeControl    |-> DynamicFee.variable_fee_control,
                   binStep               |-> DynamicFee.bin_step,
                   volatilityAccumulator |-> volatility_tracker.volatility_accumulator]]

poolState == [poolFees |-> poolFees, sqrtPrice |-> sqrt_price, activationPoint |-> ACTIVATION_POINT]

(* PoolState as fetchVirtualPool decodes it from the account the program   *)
(* writes: the IDL's fields at their own offsets.  The fees lie over the   *)
(* volatility tracker and the keys after it, price and activation point    *)
(* (bytes 368 to 392 of the IDL) over padding1, which is never written.    *)
(* Where the fees' bytes fall on keys only factors of 0 are left out: the  *)
(* variable fee is 0 by its control factor, the upper bytes of the u128    *)
(* fields of the tracker are.                                              *)
fetchedPool ==
  LET tracker == volatility_tracker
  IN  [poolFees |->
         [baseFee |-> [cliffFeeNumerator |-> tracker.last_update_timestamp,
                       feeSchedulerMode  |-> "Linear",
                       numberOfPeriod    |-> 0,
                       periodFrequency   |-> tracker.sqrt_price_reference % (U64_MAX + 1),
                       reductionFactor   |-> tracker.sqrt_price_reference \div (U64_MAX + 1)],
          protocolFeePercent |-> 0,
          referralFeePercent |-> 0,
          dynamicFee |-> [initialized           |-> tracker.volatility_reference % 256,
                          variableFeeControl    |-> 0,
                          binStep               |-> 0,
                          volatilityAccumulator |-> 0]],
       sqrtPrice |-> 0,
       activationPoint |-> 0]

configState ==
  [collectFeeMode |-> COLLECT_FEE_MODE,
   curve |-> [i \in DOMAIN Curve |->
                [sqrtPrice |-> Curve[i].sqrt_price, liquidity |-> Curve[i].liquidity]]]

(* The result of getSwapResult on a pool.                                  *)
swapResultOf(pool, direction, order, currentPoint) ==
  getSwapResult(pool, configState, order.amountIn,
                getFeeMode(configState.collectFeeMode, direction, order.has_referral),
                direction, currentPoint)

(* The base mint decodes to bytes that are no mint, so swapQuote takes     *)
(* every order for a buy.                                                  *)
swapQuote(order, currentPoint) == swapResultOf(fetchedPool, "QuoteToBase", order, currentPoint)

-----------------------------------------------------------------------------
(* The client's loop for sales starts at the last point it looks at: it    *)
(* sees the price unless that lies above the segment after this point.     *)
saleIsSeen ==
  pointsSeen(configState.curve) < Len(configState.curve) =>
    sqrt_price <= configState.curve[pointsSeen(configState.curve) + 1].sqrtPrice

(* The two implementations of the curve agree, rounding by rounding and    *)
(* whatever the client's own limits: for every reachable price and every   *)
(* amount, getSwapAmountFromQuoteToBase and getSwapAmountFromBaseToQuote   *)
(* throw or return what the program's walk ends with.  The client looks at *)
(* fewer points than a curve may have and refuses numbers from EXP_LIMIT   *)
(* on; neither ever makes it return a wrong amount, as long as a sale      *)
(* starts within the points it looks at.                                   *)
WalksAgree ==
  \A amount \in SwapAmounts :
    LET curve == configState.curve
        buys  == get_swap_amount_from_quote_to_base(Curve, sqrt_price, amount)
        sells == get_swap_amount_from_base_to_quote(Curve, sqrt_price, amount)
        same(walk, ours) == /\ ours.ok
                            /\ walk = swapAmount(ours.output_amount, ours.next_sqrt_price)
    IN  /\ \A walk \in getSwapAmountFromQuoteToBase(curve, sqrt_price, amount) : same(walk, buys)
        /\ saleIsSeen =>
             \A walk \in getSwapAmountFromBaseToQuote(curve, sqrt_price, amount) : same(walk, sells)

(* No quote promises more than the trade pays: whatever is wrong with the  *)
(* client's fee constants, its curve length and the account it decodes, a  *)
(* quote of an order that the program would execute, on the pool as it is  *)
(* and at any time of the client's clock, is at most what the program      *)
(* pays.  (swapQuote subtracts 1% from it for the limit: an order with     *)
(* this limit is not refused for slippage unless another swap intervenes.) *)
QuoteNeverOverpromises ==
  \A order \in Order, point \in ClientClock : \A outcome \in {program_outcome(order)} :
    order.amountIn > 0 /\ outcome.ok =>
      /\ (order.direction = "BaseToQuote" => saleIsSeen) =>
           \A result \in swapResultOf(poolState, order.direction, order, point) :
             result.outputAmount <= outcome.result.output_amount
      /\ \A result \in swapQuote(order, point) :
           result.outputAmount <= outcome.result.output_amount

(* A quote goes stale only by another swap: claims, withdrawals, donations *)
(* and the time that passes (on the chain's clock or the caller's) leave   *)
(* the amount the trade would pay as quote_exact_in gave it, so an order   *)
(* with exactly this limit is not refused for slippage.                    *)
QuoteStaysExact ==
  session.stage = "quoted" /\ session.seen = swaps =>
    program_outcome(session.order).result.output_amount = session.output_amount

(* An order the Rust SDK quotes can be swapped: quote_exact_in repeats the *)
(* program's check that the pool still trades but looks at neither         *)
(* reserves nor vaults, and in every reachable state, after any claims and *)
(* withdrawals, they cover what the trader and the referrer are paid, if   *)
(* the trader has the input.  A buy of at most what is missing to the      *)
(* threshold also leaves the base tokens that the migration needs; a       *)
(* larger one is quoted against the whole curve, of which the supply       *)
(* covers only the part below the migration price and a buffer.            *)
SdkQuotePayable ==
  \A order \in Order : \A quote \in {quote_exact_in(poolCopy, order, now)} :
    LET result    == quote.result
        mode      == get_fee_mode(order.direction, order.has_referral)
        sells     == order.direction = "BaseToQuote"
        leaves    == reserve_out(result, mode)
        referral  == IF sells \/ mode.fees_on_base_token THEN result.referral_fee ELSE 0
        pays      == result.output_amount + referral
        new_fees  == IF mode.fees_on_base_token THEN result.trading_fee + result.protocol_fee ELSE 0
        reachable == IF sells
                     THEN order.amountIn <= outside_base
                     ELSE quote_reserve + result.actual_input_amount <= migration_quote_threshold
    IN  quote.ok /\ reachable =>
          /\ may_swap(order.amountIn)
          /\ IF sells
             THEN leaves <= quote_reserve /\ pays <= quote_vault
             ELSE /\ leaves <= base_reserve
                  /\ pays + migration_base_threshold + base_fees + new_fees <= base_vault

(* The quote is what the trade pays.  The shipped fee constants alone      *)
(* break it: see the config quote_shipped_fees.cfg.                        *)
QuoteMatchesTrade ==
  \A order \in Order : \A outcome \in {program_outcome(order)} :
    order.amountIn > 0 /\ outcome.ok =>
      \A result \in swapResultOf(poolState, order.direction, order, now) :
        result.outputAmount = outcome.result.output_amount

(* A quote is available for every swap the program would accept.  The      *)
(* client does not promise it: see the configs quote_*.cfg.                *)
QuoteAvailable ==
  \A order \in Order :
    quote_exact_in(poolCopy, order, now).ok =>
      swapResultOf(poolState, order.direction, order, now) # Throws

=============================================================================
