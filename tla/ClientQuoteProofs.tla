------------------------- MODULE ClientQuoteProofs -------------------------
(***************************************************************************)
(* The quotes of ClientQuote, for every pool, every order of instructions  *)
(* and every client the repository could ship: what the Rust SDK quotes    *)
(* can be paid and goes stale only by another swap, and what the           *)
(* TypeScript client returns is never an amount of its own: its walks end  *)
(* where the program's do or throw, and a quote of its never promises more *)
(* than the trade pays.  Nothing here assumes the program's constants of   *)
(* the client: FeeScaleAssumption is true of math/constants.ts as it is.   *)
(*                                                                         *)
(* The client computes with exact fractions and takes integers back from   *)
(* their decimal text, loops over the points as they are stored and        *)
(* returns a set of results; the program divides integers.  The lemmas     *)
(* follow the client's calls from the bottom: one conversion, the amounts  *)
(* between two prices, one pass of a loop, the loop, the walk, the fee,    *)
(* the result.                                                             *)
(***************************************************************************)
EXTENDS ClientQuote, PoolProofs

(* A trader's session does nothing to the pool but swap, with an order of  *)
(* the pool's own range.                                                   *)
SessionBooks ==
  /\ session.stage \in {"idle", "fetched", "quoted"}
  /\ session.stage # "idle" =>
       session.order \in Order /\ session.seen \in Nat /\ session.seen <= swaps

(* A swap that lands with a minimum lands without one.                     *)
LEMMA AnyMinimum ==
  ASSUME NEW direction, NEW amount_in, NEW least, NEW has_referral,
         Swap(direction, amount_in, least, has_referral)
  PROVE  Swap(direction, amount_in, 0, has_referral)
<1> DEFINE mode    == get_fee_mode(direction, has_referral)
           tracker == update_pre_swap(volatility_tracker, sqrt_price, now)
           swapped == get_swap_result(tracker, amount_in, mode, direction)
<1>1. /\ swaps < MAX_SWAPS
      /\ swaps' = swaps + 1
      /\ may_swap(amount_in)
      /\ swapped.ok
      /\ swapped.result \in SwapResult
      /\ apply_swap_result(swapped.result, mode, direction, tracker)
      /\ swap_transfers(swapped.result, mode, direction, amount_in)
      /\ complete_curve
      /\ UNCHANGED <<is_migrated, surplus_vars, paid, donated, now>>
  BY DEF Swap
<1>2. 0 <= swapped.result.output_amount
  BY <1>1 DEF SwapResult, U64
<1> HIDE DEF swapped, tracker, mode
<1>3. \E outcome \in {swapped} :
        /\ outcome.ok
        /\ outcome.result \in SwapResult
        /\ 0 <= outcome.result.output_amount
        /\ apply_swap_result(outcome.result, mode, direction, tracker)
        /\ swap_transfers(outcome.result, mode, direction, amount_in)
  BY <1>1, <1>2
<1>4. QED
  BY <1>1, <1>3 DEF Swap, swapped, tracker, mode

(* Every step of the quoted pool is one of the pool's, or leaves it alone. *)
LEMMA QuoteStepIsPoolStep ==
  ASSUME SessionBooks, [QuoteNext]_quote_vars
  PROVE  [PoolNext]_pool_vars
<1>1. CASE Trade
  <2>1. session.order \in Order
    BY <1>1 DEF Trade, SessionBooks
  <2>2. /\ session.order.direction \in TradeDirection /\ session.order.amountIn \in SwapAmounts
        /\ session.order.has_referral \in BOOLEAN
    BY <2>1 DEF Order
  <2>3. Swap(session.order.direction, session.order.amountIn, session.output_amount,
             session.order.has_referral)
    BY <1>1 DEF Trade
  <2>4. Swap(session.order.direction, session.order.amountIn, 0, session.order.has_referral)
    BY <2>3, AnyMinimum
  <2>5. QED
    BY <2>2, <2>4, QuoteAssumption DEF PoolNext
<1>2. CASE \E order \in QuotedOrders : FetchPool(order)
  BY <1>2 DEF FetchPool
<1>3. CASE \E point \in ClientClock : Quote(point)
  BY <1>3 DEF Quote
<1>4. CASE GiveUp
  BY <1>4 DEF GiveUp
<1>5. CASE PoolNext /\ UNCHANGED session
  BY <1>5
<1>6. CASE UNCHANGED quote_vars
  BY <1>6 DEF quote_vars
<1>7. QED
  BY <1>1, <1>2, <1>3, <1>4, <1>5, <1>6 DEF QuoteNext

(* The count of swaps only grows.                                          *)
LEMMA SwapsGrow ==
  ASSUME TypeOK, [PoolNext]_pool_vars
  PROVE  /\ swaps \in Nat /\ swaps' \in Nat /\ swaps <= swaps'
         /\ swaps' = swaps => UNCHANGED curve_vars
<1>1. swaps \in Nat
  BY BoundAssumption DEF TypeOK
<1>2. CASE \E direction \in TradeDirection, amount_in \in Nat, least \in Nat, has_referral \in BOOLEAN :
             Swap(direction, amount_in, least, has_referral)
  <2>1. swaps' = swaps + 1
    BY <1>2 DEF Swap
  <2>2. QED
    BY <1>1, <2>1
<1>3. CASE UNCHANGED <<curve_vars, swaps>>
  BY <1>1, <1>3
<1>4. QED
  BY <1>2, <1>3, OnlySwapsCount

(* There is no session at first.                                           *)
LEMMA SessionInit == QuoteInit => SessionBooks
BY DEF QuoteInit, NoQuote, SessionBooks

(* The session's order is one of those asked, from the fetch to the trade. *)
LEMMA SessionStep ==
  ASSUME TypeOK, SessionBooks, [QuoteNext]_quote_vars
  PROVE  SessionBooks'
<1>1. swaps \in Nat /\ swaps' \in Nat /\ swaps <= swaps'
  BY QuoteStepIsPoolStep, SwapsGrow
<1>2. ASSUME NEW order \in QuotedOrders, FetchPool(order) PROVE SessionBooks'
  <2>1. /\ session'.stage = "fetched" /\ session'.order = order /\ session'.seen = swaps
    BY <1>2 DEF FetchPool
  <2>2. order \in Order
    BY QuoteAssumption
  <2>3. Order' = Order
    BY DEF Order, TradeDirection
  <2>4. QED
    BY <1>1, <2>1, <2>2, <2>3 DEF SessionBooks
<1>3. ASSUME NEW point \in ClientClock, Quote(point) PROVE SessionBooks'
  <2>1. CASE session' = NoQuote
    BY <2>1 DEF NoQuote, SessionBooks
  <2>2. CASE session' # NoQuote
    <3>1. /\ session'.stage = "quoted" /\ session'.order = session.order
          /\ session'.seen = session.seen
      BY <1>3, <2>2 DEF Quote
    <3>2. session.stage = "fetched"
      BY <1>3 DEF Quote
    <3>3. QED
      BY <1>1, <3>1, <3>2 DEF SessionBooks
  <2>3. QED
    BY <2>1, <2>2
<1>4. CASE Trade \/ GiveUp
  <2>1. session' = NoQuote
    BY <1>4 DEF Trade, GiveUp
  <2>2. QED
    BY <2>1 DEF NoQuote, SessionBooks
<1>5. CASE UNCHANGED session
  BY <1>1, <1>5 DEF SessionBooks
<1>6. QED
  BY <1>2, <1>3, <1>4, <1>5 DEF QuoteNext, quote_vars

(* The trader and the client add no behaviour to the pool, so everything   *)
(* proved of the pool holds next to them.                                  *)
THEOREM QuotedPoolIsPool == QuoteSpec => PoolSpec
<1>1. QuoteInit => Init /\ SessionBooks /\ TypeOK
  BY SessionInit, InitPoolTypes DEF QuoteInit
<1>2. TypeOK /\ SessionBooks /\ [QuoteNext]_quote_vars
        => TypeOK' /\ SessionBooks' /\ [PoolNext]_pool_vars
  BY SessionStep, QuoteStepIsPoolStep, PoolTypes
<1>3. QED
  BY <1>1, <1>2, PTL DEF QuoteSpec, PoolSpec

-----------------------------------------------------------------------------
(* What the Rust SDK quotes.  Whatever fee is charged on whatever side,    *)
(* the amount a quote takes from a reserve is what its walk pays.          *)
LEMMA QuotedSaleIsWalk ==
  ASSUME TypeOK, NEW order \in Order, order.direction = "BaseToQuote"
  PROVE  LET sale   == get_swap_amount_from_base_to_quote(Curve, sqrt_price, order.amountIn)
             result == program_outcome(order).result
             mode   == get_fee_mode(order.direction, order.has_referral)
         IN  sale.output_amount \in Nat =>
               /\ reserve_out(result, mode) = sale.output_amount
               /\ result.output_amount + result.referral_fee \in 0 .. sale.output_amount
<1> DEFINE mode    == get_fee_mode(order.direction, order.has_referral)
           tracker == update_pre_swap(volatility_tracker, sqrt_price, now)
           result  == program_outcome(order).result
           sale    == get_swap_amount_from_base_to_quote(Curve, sqrt_price, order.amountIn)
           fee     == get_fee_on_amount(tracker, sale.output_amount, mode.has_referral, now,
                                        ACTIVATION_POINT)
<1> SUFFICES ASSUME sale.output_amount \in Nat
             PROVE  /\ reserve_out(result, mode) = sale.output_amount
                    /\ result.output_amount + result.referral_fee \in 0 .. sale.output_amount
  OBVIOUS
<1>1. mode.fees_on_input = FALSE /\ mode.has_referral \in BOOLEAN
  BY DEF get_fee_mode, Order
<1>2. tracker.volatility_accumulator \in Nat
  BY Widths DEF TypeOK, VolatilityTracker, update_pre_swap, update_references
<1>3. /\ result.output_amount = fee.amount /\ result.trading_fee = fee.trading_fee
      /\ result.protocol_fee = fee.protocol_fee /\ result.referral_fee = fee.referral_fee
  BY <1>1 DEF program_outcome, swap_of, poolCopy, swap_result_at
<1> HIDE DEF result, sale, tracker, mode
<1>4. /\ {fee.amount, fee.trading_fee, fee.protocol_fee, fee.referral_fee} \subseteq Nat
      /\ sale.output_amount = fee.amount + fee.trading_fee + fee.protocol_fee + fee.referral_fee
  BY <1>1, <1>2, FeeIsSplit
<1> HIDE DEF fee
<1>5. reserve_out(result, mode) = sale.output_amount
  BY <1>1, <1>3, <1>4 DEF reserve_out
<1>6. QED
  BY <1>3, <1>4, <1>5

(* A quoted buy, likewise.                                                 *)
LEMMA QuotedBuyIsWalk ==
  ASSUME TypeOK, NEW order \in Order, order.direction = "QuoteToBase"
  PROVE  LET result   == program_outcome(order).result
             mode     == get_fee_mode(order.direction, order.has_referral)
             buy      == get_swap_amount_from_quote_to_base(Curve, sqrt_price,
                                                            result.actual_input_amount)
             referral == IF mode.fees_on_base_token THEN result.referral_fee ELSE 0
             new_fees == IF mode.fees_on_base_token
                         THEN result.trading_fee + result.protocol_fee ELSE 0
         IN  /\ result.actual_input_amount \in Nat
             /\ buy.output_amount \in Nat =>
                  /\ reserve_out(result, mode) = buy.output_amount
                  /\ result.output_amount \in Nat /\ referral \in Nat /\ new_fees \in Nat
                  /\ result.output_amount + referral + new_fees = buy.output_amount
<1> DEFINE mode    == get_fee_mode(order.direction, order.has_referral)
           tracker == update_pre_swap(volatility_tracker, sqrt_price, now)
           result  == program_outcome(order).result
           paid_fee == get_fee_on_amount(tracker, order.amountIn, mode.has_referral, now,
                                         ACTIVATION_POINT)
           amount  == result.actual_input_amount
           buy     == get_swap_amount_from_quote_to_base(Curve, sqrt_price, amount)
           fee     == get_fee_on_amount(tracker, buy.output_amount, mode.has_referral, now,
                                        ACTIVATION_POINT)
<1>1. /\ mode.has_referral \in BOOLEAN /\ mode.fees_on_input \in BOOLEAN
      /\ mode.fees_on_base_token = ~mode.fees_on_input
      /\ order.amountIn \in Nat
  BY FeeAssumption, BoundAssumption DEF get_fee_mode, Order
<1>2. tracker.volatility_accumulator \in Nat
  BY Widths DEF TypeOK, VolatilityTracker, update_pre_swap, update_references
<1>3. /\ amount = IF mode.fees_on_input THEN paid_fee.amount ELSE order.amountIn
      /\ mode.fees_on_input => result.output_amount = buy.output_amount
      /\ ~mode.fees_on_input => /\ result.output_amount = fee.amount
                                /\ result.trading_fee = fee.trading_fee
                                /\ result.protocol_fee = fee.protocol_fee
                                /\ result.referral_fee = fee.referral_fee
  BY DEF program_outcome, swap_of, poolCopy, swap_result_at
<1> HIDE DEF result, tracker, mode
<1>4. paid_fee.amount \in Nat
  BY <1>1, <1>2, FeeIsSplit
<1>5. amount \in Nat
  BY <1>1, <1>3, <1>4
<1> HIDE DEF paid_fee, buy
<1>6. ASSUME buy.output_amount \in Nat
      PROVE  LET referral == IF mode.fees_on_base_token THEN result.referral_fee ELSE 0
                 new_fees == IF mode.fees_on_base_token
                             THEN result.trading_fee + result.protocol_fee ELSE 0
             IN  /\ reserve_out(result, mode) = buy.output_amount
                 /\ result.output_amount \in Nat /\ referral \in Nat /\ new_fees \in Nat
                 /\ result.output_amount + referral + new_fees = buy.output_amount
  <2>1. /\ {fee.amount, fee.trading_fee, fee.protocol_fee, fee.referral_fee} \subseteq Nat
        /\ buy.output_amount = fee.amount + fee.trading_fee + fee.protocol_fee + fee.referral_fee
    BY <1>1, <1>2, <1>6, FeeIsSplit
  <2> HIDE DEF fee, amount
  <2>2. CASE mode.fees_on_input
    <3>1. ~mode.fees_on_base_token /\ result.output_amount = buy.output_amount
      BY <1>1, <1>3, <2>2
    <3>2. reserve_out(result, mode) = buy.output_amount
      BY <2>2, <3>1 DEF reserve_out
    <3>3. QED
      BY <1>6, <3>1, <3>2
  <2>3. CASE ~mode.fees_on_input
    <3>1. mode.fees_on_base_token
      BY <1>1, <2>3
    <3>2. PICK output \in Nat, trading \in Nat, protocol \in Nat, given \in Nat :
            /\ result.output_amount = output /\ result.trading_fee = trading
            /\ result.protocol_fee = protocol /\ result.referral_fee = given
            /\ buy.output_amount = output + trading + protocol + given
      BY <1>3, <2>1, <2>3
    <3>3. reserve_out(result, mode) = buy.output_amount
      BY <2>3, <3>2 DEF reserve_out
    <3>4. QED
      BY <3>1, <3>2, <3>3
  <2>4. QED
    BY <1>1, <2>2, <2>3
<1>7. QED
  BY <1>5, <1>6 DEF result, mode, buy

(* On the curve, before completion, the reserves cover every sale of what  *)
(* circulates and every buy up to the threshold; the vaults hold more than *)
(* the reserves.                                                           *)
LEMMA PayableFromCurve ==
  ASSUME TypeOK, CurveBooks
  PROVE  SdkQuotePayable
<1> SUFFICES ASSUME NEW order \in Order
             PROVE  LET quote     == quote_exact_in(poolCopy, order, now)
                        result    == quote.result
                        mode      == get_fee_mode(order.direction, order.has_referral)
                        sells     == order.direction = "BaseToQuote"
                        leaves    == reserve_out(result, mode)
                        referral  == IF sells \/ mode.fees_on_base_token
                                     THEN result.referral_fee ELSE 0
                        pays      == result.output_amount + referral
                        new_fees  == IF mode.fees_on_base_token
                                     THEN result.trading_fee + result.protocol_fee ELSE 0
                        reachable ==
                          IF sells
                          THEN order.amountIn <= outside_base
                          ELSE quote_reserve + result.actual_input_amount
                                 <= migration_quote_threshold
                    IN  quote.ok /\ reachable =>
                          /\ may_swap(order.amountIn)
                          /\ IF sells
                             THEN leaves <= quote_reserve /\ pays <= quote_vault
                             ELSE /\ leaves <= base_reserve
                                  /\ pays + migration_base_threshold + base_fees + new_fees
                                       <= base_vault
  BY DEF SdkQuotePayable
<1> DEFINE quote  == quote_exact_in(poolCopy, order, now)
           result == program_outcome(order).result
           mode   == get_fee_mode(order.direction, order.has_referral)
<1>1. /\ quote.result = result
      /\ quote.ok => may_swap(order.amountIn) /\ ~is_curve_complete
  <2>1. quote.result = result
    BY DEF quote_exact_in, program_outcome, swap_of, swap_result_at
  <2>2. quote.ok => order.amountIn > 0 /\ quote_reserve < migration_quote_threshold
    BY DEF quote_exact_in, swap_of, swap_result_at, poolCopy
  <2>3. quote_reserve \in Nat /\ migration_quote_threshold \in Nat
    BY PoolQuantities, ConfigFacts
  <2> HIDE DEF quote, result
  <2>4. QED
    BY <2>1, <2>2, <2>3 DEF may_swap, is_curve_complete
<1>2. order.amountIn \in Nat /\ order.direction \in TradeDirection
  BY BoundAssumption DEF Order
<1>3. CASE order.direction = "BaseToQuote"
  <2> DEFINE sale == get_swap_amount_from_base_to_quote(Curve, sqrt_price, order.amountIn)
  <2> SUFFICES ASSUME quote.ok, order.amountIn <= outside_base
               PROVE  /\ reserve_out(result, mode) <= quote_reserve
                      /\ result.output_amount + result.referral_fee <= quote_vault
    BY <1>1, <1>3
  <2>1. ~is_curve_complete
    BY <1>1
  <2>2. /\ OnCurve(sqrt_price, quote_reserve, sold) /\ order.amountIn <= sold
        /\ sqrt_price \in Nat /\ quote_reserve \in Nat /\ sold \in Int
    BY <1>2, <2>1, CirculatingWasSold, PoolQuantities DEF CurveBooks
  <2>3. /\ sale.output_amount \in Nat /\ sale.next_sqrt_price \in Nat
        /\ OnCurve(sale.next_sqrt_price, quote_reserve - sale.output_amount, sold - order.amountIn)
    BY <1>2, <2>2, SaleStaysOnCurve
  <2>4. /\ reserve_out(result, mode) = sale.output_amount
        /\ result.output_amount + result.referral_fee \in 0 .. sale.output_amount
    BY <1>3, <2>3, QuotedSaleIsWalk
  <2> HIDE DEF sale
  <2>5. sale.output_amount <= quote_reserve
    <3>1. quote_reserve - sale.output_amount \in Int /\ sold - order.amountIn \in Int
      BY <1>2, <2>2, <2>3
    <3>2. quote_reserve - sale.output_amount >= 0
      BY <2>3, <3>1, ReserveOnCurve
    <3>3. QED
      BY <2>2, <2>3, <3>2
  <2>6. quote_reserve <= quote_vault /\ quote_vault \in Nat
    BY <2>1, PoolQuantities DEF CurveBooks
  <2>7. QED
    BY <2>2, <2>3, <2>4, <2>5, <2>6
<1>4. CASE order.direction = "QuoteToBase"
  <2> DEFINE amount   == result.actual_input_amount
             buy      == get_swap_amount_from_quote_to_base(Curve, sqrt_price, amount)
             referral == IF mode.fees_on_base_token THEN result.referral_fee ELSE 0
             new_fees == IF mode.fees_on_base_token
                         THEN result.trading_fee + result.protocol_fee ELSE 0
  <2> SUFFICES ASSUME quote.ok, quote_reserve + amount <= migration_quote_threshold
               PROVE  /\ reserve_out(result, mode) <= base_reserve
                      /\ result.output_amount + referral + migration_base_threshold
                             + base_fees + new_fees <= base_vault
    BY <1>1, <1>4
  <2>1. amount \in Nat
    BY <1>4, QuotedBuyIsWalk
  <2>2. /\ buy.output_amount \in Nat
        /\ base_reserve >= buy.output_amount + migration_base_threshold
    BY <2>1, BuyLeavesMigration
  <2>3. /\ reserve_out(result, mode) = buy.output_amount
        /\ result.output_amount \in Nat /\ referral \in Nat /\ new_fees \in Nat
        /\ result.output_amount + referral + new_fees = buy.output_amount
    BY <1>4, <2>2, QuotedBuyIsWalk
  <2> HIDE DEF amount, buy, referral, new_fees
  <2>4. /\ base_vault = base_reserve + base_fees + donated.base
        /\ base_fees \in Nat /\ donated.base \in Nat /\ base_reserve \in Nat
        /\ migration_base_threshold \in Nat
    BY <1>1, PoolQuantities, ConfigFacts DEF CurveBooks, base_fees
  <2>5. QED
    BY <2>2, <2>3, <2>4
<1>5. QED
  BY <1>2, <1>3, <1>4 DEF TradeDirection

(* Every order the Rust SDK quotes, up to the threshold and within what    *)
(* the trader owns, is covered by the reserves and the vaults, although    *)
(* quote_exact_in looks at neither, whatever was traded, claimed and       *)
(* withdrawn before.                                                       *)
THEOREM SdkQuotesArePayable == QuoteSpec => []SdkQuotePayable
<1>1. TypeOK /\ CurveBooks => SdkQuotePayable
  BY PayableFromCurve
<1>2. QED
  BY <1>1, QuotedPoolIsPool, PoolTypeCorrect, PoolOnCurve, PTL


-----------------------------------------------------------------------------
(* The client's computation.  It computes with exact fractions, takes its  *)
(* integers back from their decimal text, looks at fewer points of the     *)
(* curve than there may be and throws when a number is too large or the    *)
(* points end.  A computation of the client gives the program's value, or  *)
(* none.                                                                   *)
Computes(results, value) == results = {value} \/ results = Throws

(* The way back from a Decimal, rounded down ...                           *)
LEMMA ConvertsDown ==
  ASSUME NEW x \in Nat, NEW y \in Nat, NEW d \in Nat \ {0}, NEW n, n = x * y
  PROVE  Computes(decimalToBN(n, d, "Down"), mul_div_down(x, y, d))
BY DEF decimalToBN, mul_div_down, Computes

(* ... and up ...                                                          *)
LEMMA ConvertsUp ==
  ASSUME NEW x \in Nat, NEW y \in Nat, NEW d \in Nat \ {0}, NEW n, n = x * y
  PROVE  Computes(decimalToBN(n, d, "Up"), mul_div_up(x, y, d))
BY DEF decimalToBN, mul_div_up, Computes

(* ... and from one that is an integer.                                    *)
LEMMA ConvertsInteger ==
  ASSUME NEW n \in Nat
  PROVE  Computes(decimalToBN(n, 1, "Down"), n)
<1>1. n = n * 1 /\ mul_div_down(n, 1, 1) = n
  BY DEF mul_div_down
<1>2. QED
  BY <1>1, ConvertsDown

(* The quote amount between two prices of a segment, rounded either way ...*)
LEMMA QuoteAmountFits ==
  ASSUME NEW i \in 1 .. Segments, NEW upper \in sqrt_start_price .. MAX_SQRT_PRICE,
         NEW lower \in 0 .. upper
  PROVE  /\ Computes(getDeltaAmountQuoteUnsigned(lower, upper, Liquidity(i), "Up"),
                     get_delta_amount_quote_up(lower, upper, Liquidity(i)))
         /\ Computes(getDeltaAmountQuoteUnsigned(lower, upper, Liquidity(i), "Down"),
                     get_delta_amount_quote_down(lower, upper, Liquidity(i)))
<1> DEFINE L == Liquidity(i)
           d == upper - lower
<1>1. L \in Nat \ {0} /\ ONE_SQUARED \in Nat \ {0} /\ upper \in Nat /\ lower \in Nat
  BY CurveFacts DEF Price
<1>2. d \in Nat
  BY <1>1
<1> HIDE DEF d, L
<1>3. getDeltaAmountQuoteUnsigned(lower, upper, L, "Up") = decimalToBN(L * d, ONE_SQUARED, "Up")
  BY <1>1 DEF getDeltaAmountQuoteUnsigned, d
<1>4. getDeltaAmountQuoteUnsigned(lower, upper, L, "Down") = decimalToBN(L * d, ONE_SQUARED, "Down")
  BY <1>1 DEF getDeltaAmountQuoteUnsigned, d
<1>5. Computes(getDeltaAmountQuoteUnsigned(lower, upper, L, "Up"), mul_div_up(L, d, ONE_SQUARED))
  BY <1>1, <1>2, <1>3, ConvertsUp
<1>6. Computes(getDeltaAmountQuoteUnsigned(lower, upper, L, "Down"), mul_div_down(L, d, ONE_SQUARED))
  BY <1>1, <1>2, <1>4, ConvertsDown
<1>7. QED
  BY <1>5, <1>6 DEF L, d, get_delta_amount_quote_up, get_delta_amount_quote_down

(* ... and the base amount.                                                *)
LEMMA BaseAmountFits ==
  ASSUME NEW i \in 1 .. Segments, NEW upper \in sqrt_start_price .. MAX_SQRT_PRICE,
         NEW lower \in sqrt_start_price .. upper
  PROVE  /\ Computes(getDeltaAmountBaseUnsigned(lower, upper, Liquidity(i), "Up"),
                     get_delta_amount_base_up(lower, upper, Liquidity(i)))
         /\ Computes(getDeltaAmountBaseUnsigned(lower, upper, Liquidity(i), "Down"),
                     get_delta_amount_base_down(lower, upper, Liquidity(i)))
<1> DEFINE L == Liquidity(i)
           d == upper - lower
           b == lower * upper
<1>1. L \in Nat \ {0} /\ upper \in Nat \ {0} /\ lower \in Nat \ {0}
  <2>1. Price(0) \in Nat \ {0} /\ L \in Nat \ {0} /\ MAX_SQRT_PRICE \in Nat
    BY CurveFacts
  <2>2. sqrt_start_price \in Nat \ {0}
    BY <2>1 DEF Price
  <2>3. QED
    BY <2>1, <2>2
<1>2. d \in Nat
  BY <1>1
<1>3. b \in Nat \ {0}
  BY <1>1
<1> HIDE DEF d, L
<1>4. getDeltaAmountBaseUnsigned(lower, upper, L, "Up") = decimalToBN(L * d, b, "Up")
  BY <1>1, <1>3 DEF getDeltaAmountBaseUnsigned, d
<1>5. getDeltaAmountBaseUnsigned(lower, upper, L, "Down") = decimalToBN(L * d, b, "Down")
  BY <1>1, <1>3 DEF getDeltaAmountBaseUnsigned, d
<1> HIDE DEF b
<1>6. Computes(getDeltaAmountBaseUnsigned(lower, upper, L, "Up"), mul_div_up(L, d, b))
  BY <1>1, <1>2, <1>3, <1>4, ConvertsUp
<1>7. Computes(getDeltaAmountBaseUnsigned(lower, upper, L, "Down"), mul_div_down(L, d, b))
  BY <1>1, <1>2, <1>3, <1>5, ConvertsDown
<1>8. QED
  BY <1>6, <1>7 DEF L, d, b, get_delta_amount_base_up, get_delta_amount_base_down

(* The price at which a sale leaves a segment ...                          *)
LEMMA NextAfterSale ==
  ASSUME NEW i \in 1 .. Segments, NEW p \in sqrt_start_price .. MAX_SQRT_PRICE, NEW a \in Nat
  PROVE  Computes(getNextSqrtPriceFromInput(p, Liquidity(i), a, TRUE),
                  get_next_sqrt_price_from_amount_base_rounding_up(p, Liquidity(i), a))
<1> DEFINE L == Liquidity(i)
           d == L + a * p
           next == get_next_sqrt_price_from_amount_base_rounding_up(p, L, a)
<1>1. L \in Nat \ {0} /\ p \in Nat \ {0} /\ MAX_SQRT_PRICE \in Nat /\ p <= MAX_SQRT_PRICE
  <2>1. Price(0) \in Nat \ {0} /\ L \in Nat \ {0} /\ MAX_SQRT_PRICE \in Nat
    BY CurveFacts
  <2>2. sqrt_start_price \in Nat \ {0}
    BY <2>1 DEF Price
  <2>3. QED
    BY <2>1, <2>2
<1> HIDE DEF L
<1>2. getNextSqrtPriceFromInput(p, L, a, TRUE) = getNextSqrtPriceFromAmountBaseRoundingUp(p, L, a)
  BY <1>1 DEF getNextSqrtPriceFromInput
<1>3. CASE a = 0
  BY <1>2, <1>3 DEF getNextSqrtPriceFromAmountBaseRoundingUp, Computes, L,
                    get_next_sqrt_price_from_amount_base_rounding_up
<1>4. CASE a # 0
  <2>1. next = mul_div_up(L, p, d)
    BY <1>4 DEF get_next_sqrt_price_from_amount_base_rounding_up
  <2>2. getNextSqrtPriceFromAmountBaseRoundingUp(p, L, a) = decimalToBN(L * p, d, "Up")
    BY <1>4 DEF getNextSqrtPriceFromAmountBaseRoundingUp
  <2>3. d \in Nat \ {0}
    <3>1. a * p \in Nat
      BY <1>1, ProductMonotone
    <3>2. QED
      BY <1>1, <3>1
  <2> HIDE DEF d, next
  <2>4. Computes(decimalToBN(L * p, d, "Up"), mul_div_up(L, p, d))
    BY <1>1, <2>3, ConvertsUp
  <2>5. QED
    BY <1>2, <2>1, <2>2, <2>4 DEF next, L
<1>5. QED
  BY <1>3, <1>4

(* A whole number of units next to a quotient.                             *)
LEMMA WholeAndQuotient ==
  ASSUME NEW p \in Nat, NEW x \in Nat, NEW d \in Nat \ {0}
  PROVE  (p * d + x) \div d = p + x \div d
<1> DEFINE q == x \div d
           n == p * d + x
           w == n \div d
<1>1. q \in Nat /\ d * q <= x /\ x < d * q + d
  BY Division, DivisionOfNat
<1>2. p * d \in Nat /\ n \in Nat
  BY ProductMonotone
<1> HIDE DEF q, n
<1>3. w \in Nat /\ d * w <= n /\ n < d * w + d
  BY <1>2, Division, DivisionOfNat
<1> HIDE DEF w
<1>4. d * (p + q) = p * d + d * q /\ d * (w + 1) = d * w + d /\ d * (p + q + 1) = p * d + d * q + d
  BY <1>1, <1>3
<1>5. d * w \in Nat /\ d * q \in Nat
  BY <1>1, <1>3, ProductMonotone
<1>6. d * (p + q) < d * (w + 1) /\ d * w < d * (p + q + 1)
  BY <1>1, <1>2, <1>3, <1>4, <1>5 DEF n
<1>7. p + q < w + 1 /\ w < p + q + 1
  BY <1>1, <1>3, <1>6, ProductCancel
<1>8. w = p + q
  BY <1>1, <1>3, <1>7
<1>9. QED
  BY <1>8 DEF w, q, n

(* ... and that at which a buy does.                                       *)
LEMMA NextAfterBuy ==
  ASSUME NEW i \in 1 .. Segments, NEW p \in sqrt_start_price .. MAX_SQRT_PRICE, NEW a \in Nat
  PROVE  Computes(getNextSqrtPriceFromInput(p, Liquidity(i), a, FALSE),
                  get_next_sqrt_price_from_amount_quote_rounding_down(p, Liquidity(i), a))
<1> DEFINE L == Liquidity(i)
           x == a * ONE_SQUARED
           n == p * L + x
           next == get_next_sqrt_price_from_amount_quote_rounding_down(p, L, a)
<1>1. L \in Nat \ {0} /\ p \in Nat \ {0} /\ MAX_SQRT_PRICE \in Nat /\ p <= MAX_SQRT_PRICE
      /\ ONE_SQUARED \in Nat \ {0}
  <2>1. Price(0) \in Nat \ {0} /\ L \in Nat \ {0} /\ MAX_SQRT_PRICE \in Nat /\ ONE_SQUARED \in Nat \ {0}
    BY CurveFacts
  <2>2. sqrt_start_price \in Nat \ {0}
    BY <2>1 DEF Price
  <2>3. QED
    BY <2>1, <2>2
<1> HIDE DEF L
<1>2. x \in Nat
  BY <1>1, ProductMonotone
<1>3. getNextSqrtPriceFromInput(p, L, a, FALSE) = getNextSqrtPriceFromAmountQuoteRoundingDown(p, L, a)
  BY <1>1 DEF getNextSqrtPriceFromInput
<1>4. next = p + x \div L
  BY DEF get_next_sqrt_price_from_amount_quote_rounding_down, mul_div_down
<1>5. CASE a = 0
  <2>1. x = 0 /\ 0 \div L = 0
    BY <1>1, <1>5
  <2>2. next = p
    BY <1>1, <1>4, <2>1
  <2> HIDE DEF next
  <2>3. QED
    BY <1>3, <1>5, <2>2 DEF getNextSqrtPriceFromAmountQuoteRoundingDown, Computes, L, next
<1>6. CASE a # 0
  <2>1. getNextSqrtPriceFromAmountQuoteRoundingDown(p, L, a) = decimalToBN(n, L, "Down")
    BY <1>6 DEF getNextSqrtPriceFromAmountQuoteRoundingDown
  <2> HIDE DEF x
  <2>2. next = n \div L
    <3> HIDE DEF next
    <3> PICK price \in Nat : price = p
      BY <1>1
    <3> PICK depth \in Nat \ {0} : depth = L
      BY <1>1
    <3>1. (price * depth + x) \div depth = price + x \div depth
      BY <1>2, WholeAndQuotient
    <3>2. QED
      BY <1>4, <3>1
  <2>3. n \in Nat
    <3>1. p * L \in Nat
      BY <1>1, ProductMonotone
    <3>2. QED
      BY <1>2, <3>1
  <2> HIDE DEF n, next
  <2>4. n = n * 1 /\ mul_div_down(n, 1, L) = next
    BY <2>2, <2>3 DEF mul_div_down
  <2>5. Computes(decimalToBN(n, L, "Down"), mul_div_down(n, 1, L))
    BY <1>1, <2>3, <2>4, ConvertsDown
  <2>6. QED
    BY <1>3, <2>1, <2>4, <2>5 DEF next, L
<1>7. QED
  BY <1>5, <1>6

-----------------------------------------------------------------------------
(* The client's loops are recursive functions too.                         *)
client_pass(loop, curve, i, walks) ==
  CASE loop = "buy"  -> UNION {buyStep(curve, i, walk) : walk \in walks}
    [] loop = "sell" -> UNION {sellStep(curve, pointsSeen(curve) + 1 - i, walk) : walk \in walks}

(* f holds the walks after each of n passes.                               *)
IsClientLoop(loop, curve, start, n, f) ==
  f = [i \in 0 .. n |-> IF i = 0 THEN start ELSE client_pass(loop, curve, i, f[i - 1])]

(* A loop of the client has a function of its passes.                      *)
LEMMA ClientLoopExists ==
  ASSUME NEW loop, NEW curve, NEW start, NEW n \in Nat
  PROVE  \E f : IsClientLoop(loop, curve, start, n, f)
<1> DEFINE T == {m \in Nat : \E f : IsClientLoop(loop, curve, start, m, f)}
<1>1. 0 \in T
  <2> DEFINE f == [i \in 0 .. 0 |-> start]
  <2>1. IsClientLoop(loop, curve, start, 0, f)
    BY DEF IsClientLoop
  <2>2. QED
    BY <2>1
<1>2. ASSUME NEW m \in Nat, m \in T PROVE m + 1 \in T
  <2>1. PICK f : IsClientLoop(loop, curve, start, m, f)
    BY <1>2
  <2> DEFINE g == [i \in 0 .. m + 1 |->
                     IF i <= m THEN f[i] ELSE client_pass(loop, curve, m + 1, f[m])]
  <2>2. ASSUME NEW i \in 0 .. m + 1
        PROVE  g[i] = IF i = 0 THEN start ELSE client_pass(loop, curve, i, g[i - 1])
    <3>1. CASE i = 0
      BY <2>1, <3>1 DEF IsClientLoop
    <3>2. CASE i \in 1 .. m
      BY <2>1, <3>2 DEF IsClientLoop
    <3>3. CASE i = m + 1
      BY <2>1, <3>3 DEF IsClientLoop
    <3>4. QED
      BY <3>1, <3>2, <3>3
  <2>3. IsClientLoop(loop, curve, start, m + 1, g)
    BY <2>2 DEF IsClientLoop
  <2> HIDE DEF g
  <2>4. QED
    BY <2>3
<1>3. n \in T
  <2> HIDE DEF T
  <2>1. QED
    BY <1>1, <1>2, Induction
<1>4. QED
  BY <1>3

(* The loop of getSwapAmountFromQuoteToBase ...                            *)
LEMMA ClientBuyLoop ==
  ASSUME NEW curve, NEW price, NEW amount, pointsSeen(curve) \in Nat
  PROVE  LET f == buyWalks(curve, price, amount)
         IN  /\ f[0] = {startWalk(price, amount)}
             /\ \A i \in 1 .. pointsSeen(curve) :
                  f[i] = UNION {buyStep(curve, i, walk) : walk \in f[i - 1]}
<1> DEFINE start == {startWalk(price, amount)}
           n == pointsSeen(curve)
           next(i, walks) == UNION {buyStep(curve, i, walk) : walk \in walks}
           Is(f) == f = [i \in 0 .. n |-> IF i = 0 THEN start ELSE next(i, f[i - 1])]
<1>1. buyWalks(curve, price, amount) = CHOOSE f : Is(f)
  BY DEF buyWalks
<1>2. n \in Nat
  OBVIOUS
<1> HIDE DEF start, n
<1>3. \E f : Is(f)
  <2>1. PICK f : IsClientLoop("buy", curve, start, n, f)
    BY <1>2, ClientLoopExists
  <2>2. Is(f)
    BY <2>1 DEF IsClientLoop, client_pass
  <2> HIDE DEF Is
  <2>3. QED
    BY <2>2
<1>4. Is(buyWalks(curve, price, amount))
  <2> HIDE DEF Is
  <2>1. Is(CHOOSE f : Is(f))
    BY <1>3
  <2>2. QED
    BY <1>1, <2>1
<1> HIDE DEF next
<1>5. PICK f : f = buyWalks(curve, price, amount) /\ Is(f)
  BY <1>4
<1>6. f[0] = start /\ \A i \in 1 .. n : f[i] = next(i, f[i - 1])
  BY <1>2, <1>5
<1>7. QED
  BY <1>5, <1>6 DEF start, n, next

(* ... and that of getSwapAmountFromBaseToQuote.                           *)
LEMMA ClientSellLoop ==
  ASSUME NEW curve, NEW price, NEW amount, pointsSeen(curve) \in Nat
  PROVE  LET f == sellWalks(curve, price, amount)
         IN  /\ f[0] = {startWalk(price, amount)}
             /\ \A i \in 1 .. pointsSeen(curve) :
                  f[i] = UNION {sellStep(curve, pointsSeen(curve) + 1 - i, walk) : walk \in f[i - 1]}
<1> DEFINE start == {startWalk(price, amount)}
           n == pointsSeen(curve)
           next(i, walks) == UNION {sellStep(curve, n + 1 - i, walk) : walk \in walks}
           Is(f) == f = [i \in 0 .. n |-> IF i = 0 THEN start ELSE next(i, f[i - 1])]
<1>1. sellWalks(curve, price, amount) = CHOOSE f : Is(f)
  BY DEF sellWalks
<1>2. n \in Nat
  OBVIOUS
<1>3. \E f : Is(f)
  <2>1. PICK f : IsClientLoop("sell", curve, start, n, f)
    BY <1>2, ClientLoopExists
  <2>2. Is(f)
    BY <2>1 DEF IsClientLoop, client_pass
  <2> HIDE DEF Is
  <2>3. QED
    BY <2>2
<1> HIDE DEF start, n
<1>4. Is(sellWalks(curve, price, amount))
  <2> HIDE DEF Is
  <2>1. Is(CHOOSE f : Is(f))
    BY <1>3
  <2>2. QED
    BY <1>1, <2>1
<1> HIDE DEF next
<1>5. PICK f : f = sellWalks(curve, price, amount) /\ Is(f)
  BY <1>4
<1>6. f[0] = start /\ \A i \in 1 .. n : f[i] = next(i, f[i - 1])
  BY <1>2, <1>5
<1>7. QED
  BY <1>5, <1>6 DEF start, n, next

-----------------------------------------------------------------------------
(* The client reads the curve the program stored.                          *)
LEMMA ClientCurve ==
  /\ Len(configState.curve) = MAX_CURVE_POINT
  /\ \A i \in 1 .. MAX_CURVE_POINT :
       /\ configState.curve[i].sqrtPrice = Curve[i].sqrt_price
       /\ configState.curve[i].liquidity = Curve[i].liquidity
<1> DEFINE points == [i \in 1 .. MAX_CURVE_POINT |->
                        [sqrtPrice |-> Curve[i].sqrt_price, liquidity |-> Curve[i].liquidity]]
<1>1. DOMAIN Curve = 1 .. MAX_CURVE_POINT
  BY DEF Curve, padded
<1>2. configState.curve = points
  BY <1>1 DEF configState
<1>3. MAX_CURVE_POINT \in Nat
  BY PriceAssumption
<1>4. Len(points) = MAX_CURVE_POINT
  BY <1>3
<1>5. \A i \in 1 .. MAX_CURVE_POINT :
        points[i].sqrtPrice = Curve[i].sqrt_price /\ points[i].liquidity = Curve[i].liquidity
  OBVIOUS
<1> HIDE DEF points
<1>6. QED
  BY <1>2, <1>4, <1>5

(* It looks at some of the points, from the first on.                      *)
LEMMA ClientPoints ==
  LET P == pointsSeen(configState.curve)
  IN  P = minimum(CLIENT_MAX_CURVE_POINT, MAX_CURVE_POINT) /\ P \in 1 .. MAX_CURVE_POINT /\ P \in Nat
<1>1. CLIENT_MAX_CURVE_POINT \in Nat \ {0} /\ MAX_CURVE_POINT \in Nat \ {0}
  BY ClientAssumption, PriceAssumption
<1>2. pointsSeen(configState.curve) = minimum(CLIENT_MAX_CURVE_POINT, MAX_CURVE_POINT)
  BY ClientCurve DEF pointsSeen
<1>3. QED
  BY <1>1, <1>2 DEF minimum

(* The walk of the client that a walk of the program is.                   *)
client_walk(x) ==
  [sqrtPrice |-> x.sqrt_price, amountLeft |-> x.amount_left, output |-> x.output, done |-> x.done]

(* One pass up the curve computes what the program's pass does.            *)
LEMMA BuyStepComputes ==
  ASSUME NEW i \in 1 .. MAX_CURVE_POINT, NEW amount \in Nat, NEW reserve \in Int, NEW issued \in Int,
         NEW x, BuyState(i - 1, x, amount, reserve, issued)
  PROVE  Computes(buyStep(configState.curve, i, client_walk(x)),
                  client_walk(quote_to_base_step(x, Curve[i])))
<1> DEFINE p == x.sqrt_price
           left == x.amount_left
           w == client_walk(x)
           y == quote_to_base_step(x, Curve[i])
<1>1. /\ p \in Nat /\ left \in 0 .. amount /\ left \in Nat /\ x.output \in Nat /\ x.done \in BOOLEAN
      /\ OnCurve(p, reserve + (amount - left), issued + x.output)
  BY DEF BuyState, WalkStates
<1>2. sqrt_start_price <= p /\ p <= MAX_SQRT_PRICE /\ MAX_SQRT_PRICE \in Nat
      /\ sqrt_start_price \in Nat
  <2>1. reserve + (amount - left) \in Int /\ issued + x.output \in Int
    BY <1>1
  <2>2. Price(0) \in Nat /\ MAX_SQRT_PRICE \in Nat
    BY CurveFacts
  <2>3. QED
    BY <1>1, <2>1, <2>2, OnCurvePrice DEF Price
<1>3. w.sqrtPrice = p /\ w.amountLeft = left /\ w.output = x.output /\ w.done = x.done
  BY DEF client_walk
<1>4. /\ configState.curve[i].sqrtPrice = Curve[i].sqrt_price
      /\ configState.curve[i].liquidity = Curve[i].liquidity
  BY ClientCurve
<1>5. i \in Nat /\ Segments \in Nat
  BY CurveFacts
<1>6. Curve[i].sqrt_price \in Nat
  BY <1>2, <1>5, CurvePoints, CurveFacts
<1>7. CASE x.done \/ Curve[i].sqrt_price <= p
  <2>1. y = x
    BY <1>7 DEF quote_to_base_step
  <2>2. buyStep(configState.curve, i, w) = {w}
    BY <1>1, <1>3, <1>4, <1>6, <1>7 DEF buyStep
  <2>3. QED
    BY <2>1, <2>2 DEF Computes
<1>8. CASE ~x.done /\ ~(Curve[i].sqrt_price <= p)
  <2>1. i \in 1 .. Segments
    <3>1. ASSUME i > Segments PROVE FALSE
      <4>1. minimum(i - 1, Segments) = Segments
        BY <1>5, <3>1 DEF minimum
      <4>2. MAX_SQRT_PRICE <= p
        BY <1>8, <4>1, CurveFacts DEF BuyState
      <4>3. Curve[i].sqrt_price = MAX_SQRT_PRICE
        BY <3>1, CurvePoints
      <4>4. QED
        BY <1>8, <4>2, <4>3
    <3>2. QED
      BY <1>5, <3>1
  <2> DEFINE u == Price(i)
             L == Liquidity(i)
             max_in == get_delta_amount_quote_up(p, u, L)
             partial == left < max_in
             bought_to == get_next_sqrt_price_from_amount_quote_rounding_down(p, L, left)
             q == IF partial THEN bought_to ELSE u
             bought == get_delta_amount_base_down(p, q, L)
  <2>2. Curve[i].sqrt_price = u /\ Curve[i].liquidity = L
    BY <1>5, <2>1, CurvePoints
  <2>3. L \in Nat \ {0} /\ u \in Nat /\ p < u /\ u \in sqrt_start_price .. MAX_SQRT_PRICE
        /\ ONE_SQUARED \in Nat \ {0}
    <3>1. L \in Nat \ {0} /\ u \in Nat /\ ONE_SQUARED \in Nat \ {0}
      BY <2>1, CurveFacts
    <3>2. p < u
      BY <1>1, <1>8, <2>2, <3>1
    <3>3. u <= MAX_SQRT_PRICE
      BY <1>5, <2>1, CurveFacts, PricesGrow
    <3>4. QED
      BY <1>1, <1>2, <3>1, <3>2, <3>3
  <2>4. y = [sqrt_price  |-> q,
             amount_left |-> IF partial THEN 0 ELSE left - max_in,
             output      |-> x.output + bought,
             done        |-> partial]
    BY <1>8, <2>2 DEF quote_to_base_step
  <2>5. buyStep(configState.curve, i, w) = buySegment(w, u, L)
    BY <1>1, <1>3, <1>4, <1>8, <2>2, <2>3 DEF buyStep
  <2>6. client_walk(y) = afterSegment(w, max_in, q, bought)
    BY <1>3, <2>4 DEF client_walk, afterSegment
  <2>7. q \in Nat /\ p <= q /\ q <= MAX_SQRT_PRICE
    <3>1. BuyState(i, y, amount, reserve, issued)
      BY BuyPass
    <3>2. y.sqrt_price = q
      BY <2>4
    <3> HIDE DEF y, q
    <3>3. /\ q \in Nat /\ y.amount_left \in 0 .. amount /\ y.output \in Nat
          /\ OnCurve(q, reserve + (amount - y.amount_left), issued + y.output)
      BY <3>1, <3>2 DEF BuyState, WalkStates
    <3>4. reserve + (amount - y.amount_left) \in Int /\ issued + y.output \in Int
      BY <3>3
    <3>5. q <= MAX_SQRT_PRICE
      BY <3>3, <3>4, OnCurvePrice
    <3>6. p <= q
      <4>1. mul_div_down(left, ONE_SQUARED, L) \in Nat
        BY <1>1, <2>3, MulDiv
      <4>2. p <= bought_to
        BY <1>1, <4>1 DEF get_next_sqrt_price_from_amount_quote_rounding_down
      <4>3. QED
        BY <1>1, <2>3, <4>2 DEF q
    <3>7. QED
      BY <3>3, <3>5, <3>6
  <2>8. Computes(getDeltaAmountQuoteUnsigned(p, u, L, "Up"), max_in)
    <3>1. p \in 0 .. u
      BY <1>1, <2>3
    <3>2. QED
      BY <2>1, <2>3, <3>1, QuoteAmountFits
  <2>9. partial => Computes(getNextSqrtPriceFromInput(p, L, left, FALSE), bought_to)
    <3>1. p \in sqrt_start_price .. MAX_SQRT_PRICE
      BY <1>1, <1>2
    <3>2. QED
      BY <1>1, <2>1, <3>1, NextAfterBuy
  <2>10. Computes(getDeltaAmountBaseUnsigned(p, q, L, "Down"), bought)
    <3>1. q \in sqrt_start_price .. MAX_SQRT_PRICE /\ p \in sqrt_start_price .. q
      BY <1>1, <1>2, <2>7
    <3> HIDE DEF q
    <3>2. QED
      BY <2>1, <3>1, BaseAmountFits
  <2> DEFINE nexts(most) == IF left < most
                            THEN getNextSqrtPriceFromInput(p, L, left, FALSE) ELSE {u}
             ends(most, next) == {afterSegment(w, most, next, output) :
                                    output \in getDeltaAmountBaseUnsigned(p, next, L, "Down")}
             walked(most) == UNION {ends(most, next) : next \in nexts(most)}
  <2>11. buySegment(w, u, L) =
           UNION {walked(most) : most \in getDeltaAmountQuoteUnsigned(p, u, L, "Up")}
    BY <1>3 DEF buySegment
  <2>12. Computes(nexts(max_in), q)
    BY <2>9 DEF Computes
  <2>13. Computes(ends(max_in, q), client_walk(y))
    <3> HIDE DEF max_in, q, bought, y, w
    <3>1. QED
      BY <2>6, <2>10 DEF Computes, Throws
  <2> HIDE DEF ends, nexts, max_in, q, y, w
  <2>14. Computes(walked(max_in), client_walk(y))
    BY <2>12, <2>13 DEF Computes, Throws
  <2> HIDE DEF walked
  <2>15. Computes(buySegment(w, u, L), client_walk(y))
    BY <2>8, <2>11, <2>14 DEF Computes, Throws
  <2>16. QED
    BY <2>5, <2>15 DEF w, y
<1>9. QED
  BY <1>7, <1>8

(* Neither walk down stops at a point of the maximum price.                *)
LEMMA SellStepSkips ==
  ASSUME NEW i \in 1 .. MAX_CURVE_POINT, i >= Segments, NEW amount \in Nat,
         NEW x \in WalkStates(amount), x.sqrt_price <= MAX_SQRT_PRICE
  PROVE  /\ sellStep(configState.curve, i, client_walk(x)) = {client_walk(x)}
         /\ base_to_quote_step(Curve, i, x) = x
<1>1. i \in Nat /\ Segments \in Nat /\ MAX_SQRT_PRICE \in Nat /\ x.sqrt_price \in Nat
  BY CurveFacts DEF WalkStates
<1>2. Curve[i].sqrt_price = MAX_SQRT_PRICE
  <2>1. CASE i = Segments
    BY <1>1, <2>1, CurvePoints, CurveFacts
  <2>2. CASE i > Segments
    BY <2>2, CurvePoints
  <2>3. QED
    BY <1>1, <2>1, <2>2
<1>3. configState.curve[i].sqrtPrice = MAX_SQRT_PRICE
  BY <1>2, ClientCurve
<1>4. client_walk(x).sqrtPrice = x.sqrt_price
  BY DEF client_walk
<1>5. sellStep(configState.curve, i, client_walk(x)) = {client_walk(x)}
  BY <1>1, <1>3, <1>4 DEF sellStep
<1>6. base_to_quote_step(Curve, i, x) = x
  BY <1>1, <1>2 DEF base_to_quote_step
<1>7. QED
  BY <1>5, <1>6

(* One pass down the curve computes what the program's pass does.          *)
LEMMA SellStepComputes ==
  ASSUME NEW i \in 1 .. MAX_CURVE_POINT - 1, NEW amount \in Nat,
         NEW reserve \in Int, NEW issued \in Int,
         NEW x, SellState(i + 1, x, amount, reserve, issued)
  PROVE  Computes(sellStep(configState.curve, i, client_walk(x)),
                  client_walk(base_to_quote_step(Curve, i, x)))
<1> DEFINE p == x.sqrt_price
           left == x.amount_left
           w == client_walk(x)
           y == base_to_quote_step(Curve, i, x)
<1>1. /\ p \in Nat /\ left \in 0 .. amount /\ left \in Nat /\ x.output \in Nat /\ x.done \in BOOLEAN
      /\ x \in WalkStates(amount)
      /\ OnCurve(p, reserve - x.output, issued - (amount - left))
  BY DEF SellState, WalkStates
<1>2. sqrt_start_price <= p /\ p <= MAX_SQRT_PRICE /\ MAX_SQRT_PRICE \in Nat
      /\ sqrt_start_price \in Nat
  <2>1. reserve - x.output \in Int /\ issued - (amount - left) \in Int
    BY <1>1
  <2>2. Price(0) \in Nat /\ MAX_SQRT_PRICE \in Nat
    BY CurveFacts
  <2>3. QED
    BY <1>1, <2>1, <2>2, OnCurvePrice DEF Price
<1>3. w.sqrtPrice = p /\ w.amountLeft = left /\ w.output = x.output /\ w.done = x.done
  BY DEF client_walk
<1>5. i \in Nat /\ Segments \in Nat /\ MAX_CURVE_POINT \in Nat /\ i \in 1 .. MAX_CURVE_POINT
      /\ i + 1 \in 1 .. MAX_CURVE_POINT
  BY CurveFacts
<1>4. /\ configState.curve[i].sqrtPrice = Curve[i].sqrt_price
      /\ liquidityAbove(configState.curve, i) = Curve[i + 1].liquidity
  <2>1. Len(configState.curve) = MAX_CURVE_POINT
    BY ClientCurve
  <2>2. liquidityAbove(configState.curve, i) = configState.curve[i + 1].liquidity
    BY <1>5, <2>1 DEF liquidityAbove
  <2>3. QED
    BY <1>5, <2>2, ClientCurve
<1>6. Curve[i].sqrt_price \in Nat
  BY <1>2, <1>5, CurvePoints, CurveFacts
<1>7. CASE x.done \/ Curve[i].sqrt_price >= p
  <2>1. y = x
    BY <1>7 DEF base_to_quote_step
  <2>2. sellStep(configState.curve, i, w) = {w}
    BY <1>1, <1>3, <1>4, <1>6, <1>7 DEF sellStep
  <2>3. QED
    BY <2>1, <2>2 DEF Computes
<1>8. CASE ~x.done /\ ~(Curve[i].sqrt_price >= p)
  <2>1. i < Segments
    <3>1. ASSUME i >= Segments PROVE FALSE
      <4>1. sellStep(configState.curve, i, w) = {w} /\ base_to_quote_step(Curve, i, x) = x
        BY <1>1, <1>2, <1>5, <3>1, SellStepSkips
      <4>2. Curve[i].sqrt_price = MAX_SQRT_PRICE
        BY <1>5, <3>1, CurvePoints, CurveFacts
      <4>3. QED
        BY <1>1, <1>2, <1>8, <4>2
    <3>2. QED
      BY <1>5, <3>1
  <2> DEFINE j == i + 1
             l == Price(i)
             L == Liquidity(j)
             max_in == get_delta_amount_base_up(l, p, L)
             partial == left < max_in
             sold_to == get_next_sqrt_price_from_amount_base_rounding_up(p, L, left)
             q == IF partial THEN sold_to ELSE l
             received == get_delta_amount_quote_down(q, p, L)
  <2>2. Curve[i].sqrt_price = l /\ Curve[i + 1].liquidity = L
    BY <1>5, <2>1, CurvePoints
  <2>3. L \in Nat \ {0} /\ l \in Nat /\ l < p /\ sqrt_start_price <= l
        /\ j \in 1 .. Segments
    <3>1. j \in 1 .. Segments /\ i \in 0 .. Segments /\ 0 \in 0 .. Segments /\ i \in 0 .. Segments
      BY <1>5, <2>1
    <3>2. L \in Nat \ {0} /\ l \in Nat
      BY <3>1, CurveFacts
    <3>3. l < p
      BY <1>1, <1>8, <2>2, <3>2
    <3>4. Price(0) <= Price(i)
      BY <3>1, PricesGrow
    <3>5. QED
      BY <3>1, <3>2, <3>3, <3>4 DEF Price
  <2>4. y = [sqrt_price  |-> q,
             amount_left |-> IF partial THEN 0 ELSE left - max_in,
             output      |-> x.output + received,
             done        |-> partial]
    BY <1>8, <2>2 DEF base_to_quote_step
  <2> HIDE DEF L, l, j
  <2>5. sellStep(configState.curve, i, w) = sellSegment(w, l, L)
    BY <1>1, <1>3, <1>4, <1>8, <2>2, <2>3 DEF sellStep
  <2>6. client_walk(y) = afterSegment(w, max_in, q, received)
    BY <1>3, <2>4 DEF client_walk, afterSegment
  <2>7. q \in 0 .. p
    <3>1. p \in Nat \ {0}
      BY <1>1, <2>3
    <3>2. sold_to \in Nat /\ sold_to <= p
      BY <1>1, <2>3, <3>1, PriceAfterSale
    <3>3. QED
      BY <1>1, <2>3, <3>2
  <2>8. Computes(getDeltaAmountBaseUnsigned(l, p, L, "Up"), max_in)
    <3>1. p \in sqrt_start_price .. MAX_SQRT_PRICE /\ l \in sqrt_start_price .. p
      BY <1>1, <1>2, <2>3
    <3>2. QED
      BY <2>3, <3>1, BaseAmountFits DEF L
  <2>9. Computes(getNextSqrtPriceFromInput(p, L, left, TRUE), sold_to)
    <3>1. p \in sqrt_start_price .. MAX_SQRT_PRICE
      BY <1>1, <1>2
    <3>2. QED
      BY <1>1, <2>3, <3>1, NextAfterSale DEF L
  <2>10. Computes(getDeltaAmountQuoteUnsigned(q, p, L, "Down"), received)
    <3>1. p \in sqrt_start_price .. MAX_SQRT_PRICE
      BY <1>1, <1>2
    <3> HIDE DEF q
    <3>2. QED
      BY <2>3, <2>7, <3>1, QuoteAmountFits DEF L
  <2> DEFINE nexts(most) == IF left < most
                            THEN getNextSqrtPriceFromInput(p, L, left, TRUE) ELSE {l}
             ends(most, next) == {afterSegment(w, most, next, output) :
                                    output \in getDeltaAmountQuoteUnsigned(next, p, L, "Down")}
             walked(most) == UNION {ends(most, next) : next \in nexts(most)}
  <2>11. sellSegment(w, l, L) =
           UNION {walked(most) : most \in getDeltaAmountBaseUnsigned(l, p, L, "Up")}
    BY <1>3 DEF sellSegment
  <2>12. Computes(nexts(max_in), q)
    BY <2>9 DEF Computes
  <2>13. Computes(ends(max_in, q), client_walk(y))
    <3> HIDE DEF max_in, q, received, y, w
    <3>1. QED
      BY <2>6, <2>10 DEF Computes, Throws
  <2> HIDE DEF ends, nexts, max_in, q, y, w
  <2>14. Computes(walked(max_in), client_walk(y))
    BY <2>12, <2>13 DEF Computes, Throws
  <2> HIDE DEF walked
  <2>15. Computes(sellSegment(w, l, L), client_walk(y))
    BY <2>8, <2>11, <2>14 DEF Computes, Throws
  <2>16. QED
    BY <2>5, <2>15 DEF w, y
<1>9. QED
  BY <1>1, <1>6, <1>7, <1>8

(* A walk starts alike on both sides.                                      *)
LEMMA WalkStarts ==
  ASSUME NEW price, NEW amount
  PROVE  client_walk(walk_start(price, amount)) = startWalk(price, amount)
BY DEF client_walk, walk_start, startWalk

(* Nothing has moved: what a walk without an amount looks like.            *)
StandsStill(price, output, x) == x.sqrt_price = price /\ x.amount_left = 0 /\ x.output = output

(* Nothing divided is nothing ...                                          *)
LEMMA NothingDivided ==
  ASSUME NEW x \in Nat, NEW d \in Nat \ {0}
  PROVE  mul_div_down(x, 0, d) = 0 /\ mul_div_down(0, x, d) = 0
         /\ mul_div_up(x, 0, d) = 0 /\ mul_div_up(0, x, d) = 0
<1>1. x * 0 = 0 /\ 0 * x = 0 /\ 0 \div d = 0 /\ (0 + d - 1) \div d = 0
  OBVIOUS
<1>2. QED
  BY <1>1 DEF mul_div_down, mul_div_up

(* ... and something divided and rounded up is something.                  *)
LEMMA SomethingDivided ==
  ASSUME NEW x \in Nat \ {0}, NEW y \in Nat \ {0}, NEW d \in Nat \ {0}
  PROVE  mul_div_up(x, y, d) \in Nat \ {0}
<1>1. mul_div_up(x, y, d) \in Nat /\ x * y <= mul_div_up(x, y, d) * d
  BY RoundedUp
<1>2. x * y # 0 /\ x * y \in Nat
  OBVIOUS
<1>3. ASSUME mul_div_up(x, y, d) = 0 PROVE FALSE
  <2>1. 0 * d = 0
    OBVIOUS
  <2>2. QED
    BY <1>1, <1>2, <1>3, <2>1
<1>4. QED
  BY <1>1, <1>3

(* A pass up the curve with nothing left to spend.                         *)
LEMMA BuyPassOfNothing ==
  ASSUME NEW i \in 1 .. MAX_CURVE_POINT, NEW amount \in Nat, NEW reserve \in Int, NEW issued \in Int,
         NEW price, NEW output, NEW x, BuyState(i - 1, x, amount, reserve, issued),
         StandsStill(price, output, x)
  PROVE  StandsStill(price, output, quote_to_base_step(x, Curve[i]))
<1> DEFINE p == x.sqrt_price
           o == x.output
<1>1. /\ p \in Nat /\ x.amount_left = 0 /\ o \in Nat /\ o = output /\ x.done \in BOOLEAN /\ p = price
      /\ OnCurve(p, reserve + (amount - 0), issued + o)
  BY DEF BuyState, WalkStates, StandsStill
<1>2. reserve + (amount - 0) \in Int /\ issued + o \in Int
  BY <1>1
<1>3. p <= MAX_SQRT_PRICE /\ MAX_SQRT_PRICE \in Nat /\ p # 0
  BY <1>1, <1>2, OnCurvePrice, CurveFacts
<1>4. i \in Nat /\ Segments \in Nat
  BY CurveFacts
<1>5. CASE x.done \/ Curve[i].sqrt_price <= p
  BY <1>5 DEF quote_to_base_step
<1>6. CASE ~x.done /\ ~(Curve[i].sqrt_price <= p)
  <2>1. i \in 1 .. Segments
    <3>1. ASSUME i > Segments PROVE FALSE
      <4>1. minimum(i - 1, Segments) = Segments
        BY <1>4, <3>1 DEF minimum
      <4>2. MAX_SQRT_PRICE <= p
        BY <1>6, <4>1, CurveFacts DEF BuyState
      <4>3. Curve[i].sqrt_price = MAX_SQRT_PRICE
        BY <3>1, CurvePoints
      <4>4. QED
        BY <1>6, <4>2, <4>3
    <3>2. QED
      BY <1>4, <3>1
  <2> DEFINE u == Price(i)
             L == Liquidity(i)
  <2>2. Curve[i].sqrt_price = u /\ Curve[i].liquidity = L
    BY <1>4, <2>1, CurvePoints
  <2>3. L \in Nat \ {0} /\ u - p \in Nat \ {0} /\ ONE_SQUARED \in Nat \ {0}
    <3>1. L \in Nat \ {0} /\ u \in Nat /\ ONE_SQUARED \in Nat \ {0}
      BY <2>1, CurveFacts
    <3>2. QED
      BY <1>1, <1>6, <2>2, <3>1
  <2> HIDE DEF u, L
  <2>4. 0 < get_delta_amount_quote_up(p, u, L)
    <3>1. get_delta_amount_quote_up(p, u, L) \in Nat \ {0}
      BY <2>3, SomethingDivided DEF get_delta_amount_quote_up
    <3>2. QED
      BY <3>1
  <2>5. get_next_sqrt_price_from_amount_quote_rounding_down(p, L, 0) = p
    <3>1. mul_div_down(0, ONE_SQUARED, L) = 0
      BY <2>3, NothingDivided
    <3>2. QED
      BY <1>1, <3>1 DEF get_next_sqrt_price_from_amount_quote_rounding_down
  <2>6. get_delta_amount_base_down(p, p, L) = 0
    <3>1. p - p = 0 /\ p * p \in Nat \ {0}
      BY <1>1, <1>3
    <3>2. mul_div_down(L, 0, p * p) = 0
      BY <2>3, <3>1, NothingDivided
    <3>3. QED
      BY <3>1, <3>2 DEF get_delta_amount_base_down
  <2> DEFINE max_in == get_delta_amount_quote_up(p, u, L)
             partial == 0 < max_in
             q == IF partial
                  THEN get_next_sqrt_price_from_amount_quote_rounding_down(p, L, 0) ELSE u
             bought == get_delta_amount_base_down(p, q, L)
             y == quote_to_base_step(x, Curve[i])
  <2>7. y = [sqrt_price |-> q, amount_left |-> IF partial THEN 0 ELSE 0 - max_in,
             output |-> o + bought, done |-> partial]
    BY <1>1, <1>6, <2>2 DEF quote_to_base_step
  <2>8. partial /\ q = p
    BY <2>4, <2>5
  <2>9. bought = 0
    BY <2>6, <2>8
  <2> HIDE DEF max_in, partial, q, bought, y
  <2>10. y.sqrt_price = p /\ y.amount_left = 0 /\ y.output = o
    BY <1>1, <2>7, <2>8, <2>9
  <2>11. QED
    BY <1>1, <2>10 DEF StandsStill, y
<1>7. QED
  BY <1>5, <1>6

(* A walk up that has spent its amount stays where it is.                  *)
LEMMA BuyEnds ==
  ASSUME NEW price \in Nat, NEW reserve \in Int, NEW issued \in Int, OnCurve(price, reserve, issued),
         NEW amount \in Nat, NEW from \in 0 .. MAX_CURVE_POINT,
         quote_to_base_walk(Curve, price, amount)[from].amount_left = 0
  PROVE  LET f == quote_to_base_walk(Curve, price, amount)
         IN  StandsStill(f[from].sqrt_price, f[from].output, f[MAX_CURVE_POINT])
<1> DEFINE f == quote_to_base_walk(Curve, price, amount)
           at == f[from].sqrt_price
           out == f[from].output
           T == {m \in Nat : from + m <= MAX_CURVE_POINT => StandsStill(at, out, f[from + m])}
<1>1. \A i \in 1 .. MAX_CURVE_POINT : f[i] = quote_to_base_step(f[i - 1], Curve[i])
  BY BuyLoop
<1>2. MAX_CURVE_POINT \in Nat /\ from \in Nat /\ from <= MAX_CURVE_POINT
  BY CurveFacts
<1>3. \A m \in 0 .. MAX_CURVE_POINT : BuyState(m, f[m], amount, reserve, issued)
  BY BuyPasses
<1>4. 0 \in T
  <2>1. from + 0 = from
    BY <1>2
  <2>2. QED
    BY <2>1 DEF StandsStill
<1> HIDE DEF f, at, out
<1>5. ASSUME NEW m \in Nat, m \in T PROVE m + 1 \in T
  <2> SUFFICES ASSUME from + (m + 1) <= MAX_CURVE_POINT
               PROVE  StandsStill(at, out, f[from + (m + 1)])
    OBVIOUS
  <2> DEFINE i == from + (m + 1)
  <2>1. i \in 1 .. MAX_CURVE_POINT /\ i - 1 = from + m /\ i - 1 \in 0 .. MAX_CURVE_POINT
        /\ from + m <= MAX_CURVE_POINT
    BY <1>2
  <2>2. StandsStill(at, out, f[i - 1])
    BY <1>5, <2>1
  <2> HIDE DEF i
  <2>3. f[i] = quote_to_base_step(f[i - 1], Curve[i]) /\ BuyState(i - 1, f[i - 1], amount, reserve, issued)
    BY <1>1, <1>3, <2>1
  <2>4. StandsStill(at, out, f[i])
    BY <2>1, <2>2, <2>3, BuyPassOfNothing
  <2>5. QED
    BY <2>4 DEF i
<1>6. MAX_CURVE_POINT - from \in T
  <2>1. MAX_CURVE_POINT - from \in Nat
    BY <1>2
  <2> HIDE DEF T
  <2>2. QED
    BY <1>4, <1>5, <2>1, Induction
<1>7. from + (MAX_CURVE_POINT - from) = MAX_CURVE_POINT
  BY <1>2
<1>8. QED
  BY <1>2, <1>6, <1>7 DEF f, at, out

(* A buy for nothing gets nothing.                                         *)
LEMMA BuyOfNothing ==
  ASSUME NEW price \in Nat, NEW reserve \in Int, NEW issued \in Int, OnCurve(price, reserve, issued)
  PROVE  get_swap_amount_from_quote_to_base(Curve, price, 0) =
           [ok |-> TRUE, output_amount |-> 0, next_sqrt_price |-> price]
<1> DEFINE f == quote_to_base_walk(Curve, price, 0)
<1>1. f[0].sqrt_price = price /\ f[0].amount_left = 0 /\ f[0].output = 0
  <2>1. f[0] = walk_start(price, 0)
    BY BuyLoop
  <2> HIDE DEF f
  <2>2. QED
    BY <2>1 DEF walk_start
<1>2. 0 \in 0 .. MAX_CURVE_POINT
  BY CurveFacts
<1>3. StandsStill(f[0].sqrt_price, f[0].output, f[MAX_CURVE_POINT])
  BY <1>1, <1>2, BuyEnds
<1>4. StandsStill(price, 0, f[MAX_CURVE_POINT])
  BY <1>1, <1>3
<1> HIDE DEF f
<1>5. QED
  BY <1>4 DEF get_swap_amount_from_quote_to_base, StandsStill, f

(* Over the points the client looks at, its walk up is the program's.      *)
LEMMA BuyWalkComputes ==
  ASSUME NEW price \in Nat, NEW reserve \in Int, NEW issued \in Int,
         OnCurve(price, reserve, issued), NEW amount \in Nat
  PROVE  LET P == pointsSeen(configState.curve)
         IN  Computes(buyWalks(configState.curve, price, amount)[P],
                      client_walk(quote_to_base_walk(Curve, price, amount)[P]))
<1> DEFINE f == quote_to_base_walk(Curve, price, amount)
           g == buyWalks(configState.curve, price, amount)
           P == pointsSeen(configState.curve)
           T == {m \in Nat : m <= P => Computes(g[m], client_walk(f[m]))}
<1>1. /\ f[0] = walk_start(price, amount)
      /\ \A i \in 1 .. MAX_CURVE_POINT : f[i] = quote_to_base_step(f[i - 1], Curve[i])
      /\ \A m \in 0 .. MAX_CURVE_POINT : BuyState(m, f[m], amount, reserve, issued)
  <2>1. /\ f[0] = walk_start(price, amount)
        /\ \A i \in 1 .. MAX_CURVE_POINT : f[i] = quote_to_base_step(f[i - 1], Curve[i])
    BY BuyLoop
  <2>2. \A m \in 0 .. MAX_CURVE_POINT : BuyState(m, f[m], amount, reserve, issued)
    BY BuyPasses
  <2>3. QED
    BY <2>1, <2>2
<1>2. P \in Nat /\ P <= MAX_CURVE_POINT /\ MAX_CURVE_POINT \in Nat
  BY ClientPoints, CurveFacts
<1>3. /\ g[0] = {startWalk(price, amount)}
      /\ \A i \in 1 .. P : g[i] = UNION {buyStep(configState.curve, i, walk) : walk \in g[i - 1]}
  BY <1>2, ClientBuyLoop
<1> HIDE DEF f, g, P
<1>4. 0 \in T
  BY <1>1, <1>3, WalkStarts DEF Computes
<1>5. ASSUME NEW m \in Nat, m \in T PROVE m + 1 \in T
  <2> SUFFICES ASSUME m + 1 <= P PROVE Computes(g[m + 1], client_walk(f[m + 1]))
    OBVIOUS
  <2> DEFINE i == m + 1
             x == f[m]
  <2>1. i \in 1 .. P /\ i \in 1 .. MAX_CURVE_POINT /\ i - 1 = m /\ m \in 0 .. MAX_CURVE_POINT /\ m <= P
    BY <1>2
  <2>2. BuyState(i - 1, x, amount, reserve, issued) /\ Computes(g[i - 1], client_walk(x))
    BY <1>1, <1>5, <2>1
  <2>3. f[i] = quote_to_base_step(x, Curve[i])
        /\ g[i] = UNION {buyStep(configState.curve, i, walk) : walk \in g[i - 1]}
    BY <1>1, <1>3, <2>1
  <2> HIDE DEF i, x
  <2>4. Computes(buyStep(configState.curve, i, client_walk(x)), client_walk(f[i]))
    BY <2>1, <2>2, <2>3, BuyStepComputes
  <2>5. Computes(g[i], client_walk(f[i]))
    BY <2>2, <2>3, <2>4 DEF Computes, Throws
  <2>6. QED
    BY <2>5 DEF i
<1>6. P \in T
  <2> HIDE DEF T
  <2>1. QED
    BY <1>2, <1>4, <1>5, Induction
<1>7. QED
  BY <1>2, <1>6 DEF f, g, P

(* What the walk returns goes back through its decimal text.               *)
LEMMA WalkReturns ==
  ASSUME NEW x, x.output \in Nat
  PROVE  Computes(swapAmounts(client_walk(x)), swapAmount(x.output, x.sqrt_price))
<1>1. client_walk(x).output = x.output /\ client_walk(x).sqrtPrice = x.sqrt_price
  BY DEF client_walk
<1>2. Computes(decimalToBN(x.output, 1, "Down"), x.output)
  BY ConvertsInteger
<1>3. swapAmounts(client_walk(x)) =
        {swapAmount(output, x.sqrt_price) : output \in decimalToBN(x.output, 1, "Down")}
  BY <1>1 DEF swapAmounts
<1>4. QED
  BY <1>2, <1>3 DEF Computes, Throws

(* What the client returns for a buy is what the program does: where its   *)
(* points end before the amount is spent, it throws.                       *)
LEMMA BuyComputes ==
  ASSUME NEW price \in Nat, NEW reserve \in Int, NEW issued \in Int,
         OnCurve(price, reserve, issued), NEW amount \in Nat, NEW buy,
         buy = get_swap_amount_from_quote_to_base(Curve, price, amount),
         NEW quote \in getSwapAmountFromQuoteToBase(configState.curve, price, amount)
  PROVE  buy.ok /\ quote = swapAmount(buy.output_amount, buy.next_sqrt_price)
<1> DEFINE f == quote_to_base_walk(Curve, price, amount)
           P == pointsSeen(configState.curve)
           x == f[P]
           walked == buyWalks(configState.curve, price, amount)[P]
<1>1. CASE amount = 0
  <2>1. buy = [ok |-> TRUE, output_amount |-> 0, next_sqrt_price |-> price]
    BY <1>1, BuyOfNothing
  <2>2. quote = swapAmount(0, price)
    BY <1>1 DEF getSwapAmountFromQuoteToBase
  <2>3. QED
    BY <2>1, <2>2
<1>2. CASE amount # 0
  <2>1. Computes(walked, client_walk(x))
    BY BuyWalkComputes
  <2>2. P \in 0 .. MAX_CURVE_POINT
    BY ClientPoints, CurveFacts
  <2>3. x.output \in Nat
    BY <2>2, BuyPasses DEF BuyState, WalkStates
  <2>4. quote \in UNION {swapAmounts(walk) : walk \in {w \in walked : w.amountLeft = 0}}
    BY <1>2 DEF getSwapAmountFromQuoteToBase
  <2>5. client_walk(x).amountLeft = x.amount_left
    BY DEF client_walk
  <2>6. /\ buy.ok = (f[MAX_CURVE_POINT].amount_left = 0)
        /\ buy.output_amount = f[MAX_CURVE_POINT].output
        /\ buy.next_sqrt_price = f[MAX_CURVE_POINT].sqrt_price
    BY DEF get_swap_amount_from_quote_to_base
  <2>7. x.amount_left = 0 => StandsStill(x.sqrt_price, x.output, f[MAX_CURVE_POINT])
    BY <2>2, BuyEnds
  <2> HIDE DEF x, walked, f, P
  <2>8. PICK walk \in walked : walk.amountLeft = 0 /\ quote \in swapAmounts(walk)
    BY <2>4
  <2>9. walk = client_walk(x)
    BY <2>1, <2>8 DEF Computes, Throws
  <2>10. quote = swapAmount(x.output, x.sqrt_price)
    BY <2>3, <2>8, <2>9, WalkReturns DEF Computes, Throws
  <2>11. StandsStill(x.sqrt_price, x.output, f[MAX_CURVE_POINT])
    BY <2>5, <2>7, <2>8, <2>9
  <2>12. buy.ok /\ buy.output_amount = x.output /\ buy.next_sqrt_price = x.sqrt_price
    BY <2>6, <2>11 DEF StandsStill
  <2>13. QED
    BY <2>10, <2>12
<1>3. QED
  BY <1>1, <1>2

-----------------------------------------------------------------------------
(* The prices of the stored points only grow, padding included.            *)
LEMMA PointsGrow ==
  ASSUME NEW i \in 1 .. MAX_CURVE_POINT, NEW j \in i .. MAX_CURVE_POINT
  PROVE  Curve[i].sqrt_price \in Nat /\ Curve[i].sqrt_price <= Curve[j].sqrt_price
<1>1. /\ Segments \in Nat /\ MAX_CURVE_POINT \in Nat /\ MAX_SQRT_PRICE \in Nat
      /\ Price(Segments) = MAX_SQRT_PRICE
      /\ \A k \in 0 .. Segments : Price(k) \in Nat
  BY CurveFacts
<1>2. j \in 1 .. MAX_CURVE_POINT /\ i \in Nat /\ j \in Nat /\ i <= j
  BY <1>1
<1>3. CASE j <= Segments
  <2>1. i \in 0 .. Segments /\ j \in i .. Segments /\ i <= Segments
    BY <1>1, <1>2, <1>3
  <2>2. Price(i) <= Price(j) /\ Price(i) \in Nat
    BY <1>1, <2>1, PricesGrow
  <2>3. QED
    BY <1>2, <1>3, <2>1, <2>2, CurvePoints
<1>4. CASE j > Segments /\ i <= Segments
  <2>1. i \in 0 .. Segments /\ Segments \in i .. Segments
    BY <1>1, <1>2, <1>4
  <2>2. Price(i) <= MAX_SQRT_PRICE /\ Price(i) \in Nat
    BY <1>1, <2>1, PricesGrow
  <2>3. QED
    BY <1>2, <1>4, <2>2, CurvePoints
<1>5. CASE i > Segments
  <2>1. Curve[i].sqrt_price = MAX_SQRT_PRICE /\ Curve[j].sqrt_price = MAX_SQRT_PRICE
    BY <1>1, <1>2, <1>5, CurvePoints
  <2>2. QED
    BY <1>1, <2>1
<1>6. QED
  BY <1>1, <1>2, <1>3, <1>4, <1>5

(* A sale that starts within the points the client looks at: its walk down *)
(* ends where the program's does.                                          *)
LEMMA SellWalkComputes ==
  ASSUME NEW price \in Nat, NEW reserve \in Int, NEW issued \in Int,
         OnCurve(price, reserve, issued), NEW amount \in Nat,
         pointsSeen(configState.curve) < Len(configState.curve) =>
           price <= configState.curve[pointsSeen(configState.curve) + 1].sqrtPrice
  PROVE  Computes(sellWalks(configState.curve, price, amount)[pointsSeen(configState.curve)],
                  client_walk(base_to_quote_walk(Curve, price, amount)[MAX_CURVE_POINT - 1]))
<1> DEFINE f == base_to_quote_walk(Curve, price, amount)
           g == sellWalks(configState.curve, price, amount)
           P == pointsSeen(configState.curve)
           last == MAX_CURVE_POINT - 1
           start == walk_start(price, amount)
           \* the client's passes down to point i
           passes(i) == IF i > P THEN 0 ELSE P + 1 - i
           T == {m \in Nat : m <= last =>
                   /\ Computes(g[passes(MAX_CURVE_POINT - m)], client_walk(f[m]))
                   /\ MAX_CURVE_POINT - m > P => f[m] = start}
<1>1. /\ f[0] = start
      /\ \A i \in 1 .. last : f[i] = base_to_quote_step(Curve, MAX_CURVE_POINT - i, f[i - 1])
  BY SellLoop
<1>2. P \in Nat /\ P # 0 /\ P <= MAX_CURVE_POINT /\ MAX_CURVE_POINT \in Nat /\ last \in Nat
      /\ Segments \in Nat /\ Segments <= MAX_CURVE_POINT
  BY ClientPoints, CurveFacts, PriceAssumption
<1>3. /\ g[0] = {startWalk(price, amount)}
      /\ \A i \in 1 .. P : g[i] = UNION {sellStep(configState.curve, P + 1 - i, walk) : walk \in g[i - 1]}
  BY <1>2, ClientSellLoop
<1>4. \A m \in 0 .. last : SellState(MAX_CURVE_POINT - m, f[m], amount, reserve, issued)
  BY SellPasses
<1>5. P < MAX_CURVE_POINT => price <= Curve[P + 1].sqrt_price
  BY <1>2, ClientCurve
<1>6. /\ start.sqrt_price = price /\ start \in WalkStates(amount)
      /\ client_walk(start) = startWalk(price, amount)
  BY WalkStarts DEF walk_start, WalkStates
<1> HIDE DEF f, g, P, start
<1>7. 0 \in T
  <2>1. MAX_CURVE_POINT - 0 = MAX_CURVE_POINT
    BY <1>2
  <2>2. Computes(g[passes(MAX_CURVE_POINT)], client_walk(start))
    <3>1. CASE MAX_CURVE_POINT > P
      BY <1>3, <1>6, <3>1 DEF Computes
    <3>2. CASE MAX_CURVE_POINT = P
      <4>1. passes(MAX_CURVE_POINT) = 1 /\ 1 \in 1 .. P /\ P + 1 - 1 = MAX_CURVE_POINT /\ 1 - 1 = 0
            /\ MAX_CURVE_POINT \in 1 .. MAX_CURVE_POINT /\ MAX_CURVE_POINT >= Segments
        BY <1>2, <3>2
      <4>2. g[1] = UNION {sellStep(configState.curve, MAX_CURVE_POINT, walk) : walk \in g[0]}
        BY <1>3, <4>1
      <4>3. start.sqrt_price <= MAX_SQRT_PRICE
        BY <1>6, OnCurvePrice
      <4>4. sellStep(configState.curve, MAX_CURVE_POINT, client_walk(start)) = {client_walk(start)}
        BY <1>6, <4>1, <4>3, SellStepSkips
      <4>5. g[1] = {client_walk(start)}
        BY <1>3, <1>6, <4>2, <4>4
      <4>6. QED
        BY <4>1, <4>5 DEF Computes
    <3>3. QED
      BY <1>2, <3>1, <3>2
  <2>3. QED
    BY <1>1, <2>1, <2>2
<1>8. ASSUME NEW m \in Nat, m \in T PROVE m + 1 \in T
  <2> SUFFICES ASSUME m + 1 <= last
               PROVE  /\ Computes(g[passes(MAX_CURVE_POINT - (m + 1))], client_walk(f[m + 1]))
                      /\ MAX_CURVE_POINT - (m + 1) > P => f[m + 1] = start
    OBVIOUS
  <2> DEFINE i == MAX_CURVE_POINT - (m + 1)
             x == f[m]
             y == f[m + 1]
  <2>1. /\ m + 1 \in 1 .. last /\ (m + 1) - 1 = m /\ m \in 0 .. last /\ m <= last
        /\ i \in 1 .. MAX_CURVE_POINT - 1 /\ MAX_CURVE_POINT - m = i + 1
        /\ i \in Nat /\ i \in 1 .. MAX_CURVE_POINT
    BY <1>2
  <2>2. /\ SellState(i + 1, x, amount, reserve, issued)
        /\ Computes(g[passes(i + 1)], client_walk(x))
        /\ i + 1 > P => x = start
    BY <1>4, <1>8, <2>1
  <2>3. y = base_to_quote_step(Curve, i, x)
    BY <1>1, <2>1
  <2> HIDE DEF i, x, y
  <2>4. CASE i <= P
    <3> DEFINE k == P + 1 - i
    <3>1. passes(i) = k /\ passes(i + 1) = k - 1 /\ k \in 1 .. P /\ P + 1 - k = i
      BY <1>2, <2>1, <2>4
    <3> HIDE DEF k, passes
    <3>2. g[k] = UNION {sellStep(configState.curve, i, walk) : walk \in g[k - 1]}
      BY <1>3, <3>1
    <3>3. Computes(sellStep(configState.curve, i, client_walk(x)), client_walk(y))
      BY <2>1, <2>2, <2>3, SellStepComputes
    <3>4. Computes(g[k - 1], client_walk(x))
      BY <2>2, <3>1
    <3>5. Computes(g[k], client_walk(y))
      BY <3>2, <3>3, <3>4 DEF Computes, Throws
    <3>6. ~(i > P)
      BY <1>2, <2>1, <2>4
    <3>7. QED
      BY <3>1, <3>5, <3>6 DEF i, y
  <2>5. CASE i > P
    <3>1. passes(i) = 0 /\ passes(i + 1) = 0 /\ i + 1 > P /\ P < MAX_CURVE_POINT
          /\ P + 1 \in 1 .. MAX_CURVE_POINT /\ i \in P + 1 .. MAX_CURVE_POINT
      BY <1>2, <2>1, <2>5
    <3>2. price <= Curve[i].sqrt_price /\ Curve[i].sqrt_price \in Nat
      <4>1. Curve[P + 1].sqrt_price \in Nat /\ Curve[P + 1].sqrt_price <= Curve[i].sqrt_price
        BY <3>1, PointsGrow
      <4>2. Curve[i].sqrt_price \in Nat
        <5>1. i \in i .. MAX_CURVE_POINT
          BY <1>2, <2>1
        <5>2. QED
          BY <2>1, <5>1, PointsGrow
      <4>3. QED
        BY <1>5, <3>1, <4>1, <4>2
    <3>3. x = start
      BY <2>2, <3>1
    <3>4. y = x
      BY <1>6, <2>3, <3>2, <3>3 DEF base_to_quote_step
    <3> HIDE DEF passes
    <3>5. QED
      BY <2>2, <3>1, <3>3, <3>4 DEF i, y
  <2>6. QED
    BY <1>2, <2>1, <2>4, <2>5
<1>9. last \in T
  <2> HIDE DEF T, last
  <2>1. QED
    BY <1>2, <1>7, <1>8, Induction
<1>10. passes(MAX_CURVE_POINT - last) = P /\ last <= last
  BY <1>2
<1>11. QED
  <2> HIDE DEF passes
  <2>1. QED
    BY <1>9, <1>10 DEF f, g, P

(* A pass down the curve with nothing to sell.                             *)
LEMMA SellPassOfNothing ==
  ASSUME NEW i \in 1 .. MAX_CURVE_POINT - 1, NEW reserve \in Int, NEW issued \in Int, NEW price,
         NEW x, SellState(i + 1, x, 0, reserve, issued), StandsStill(price, 0, x)
  PROVE  StandsStill(price, 0, base_to_quote_step(Curve, i, x))
<1> DEFINE p == x.sqrt_price
<1>1. /\ p \in Nat /\ x.amount_left = 0 /\ x.output = 0 /\ x.done \in BOOLEAN /\ p = price
      /\ x \in WalkStates(0) /\ OnCurve(p, reserve - 0, issued - (0 - 0))
  BY DEF SellState, WalkStates, StandsStill
<1>2. reserve - 0 \in Int /\ issued - (0 - 0) \in Int
  OBVIOUS
<1>3. p <= MAX_SQRT_PRICE /\ MAX_SQRT_PRICE \in Nat /\ p # 0
  BY <1>1, <1>2, OnCurvePrice, CurveFacts
<1>4. i \in Nat /\ Segments \in Nat /\ MAX_CURVE_POINT \in Nat /\ i \in 1 .. MAX_CURVE_POINT
      /\ i + 1 \in 1 .. MAX_CURVE_POINT
  BY CurveFacts
<1>5. CASE i >= Segments
  BY <1>1, <1>3, <1>4, <1>5, SellStepSkips
<1>6. CASE i < Segments /\ (x.done \/ Curve[i].sqrt_price >= p)
  BY <1>6 DEF base_to_quote_step
<1>7. CASE i < Segments /\ ~x.done /\ ~(Curve[i].sqrt_price >= p)
  <2> DEFINE l == Price(i)
             L == Liquidity(i + 1)
  <2>1. Curve[i].sqrt_price = l /\ Curve[i + 1].liquidity = L
    BY <1>4, <1>7, CurvePoints
  <2>2. L \in Nat \ {0} /\ l \in Nat \ {0} /\ p - l \in Nat \ {0} /\ ONE_SQUARED \in Nat \ {0}
    <3>1. i + 1 \in 1 .. Segments /\ i \in 0 .. Segments
      BY <1>4, <1>7
    <3>2. L \in Nat \ {0} /\ l \in Nat \ {0} /\ ONE_SQUARED \in Nat \ {0}
      BY <3>1, CurveFacts
    <3>3. QED
      BY <1>1, <1>7, <2>1, <3>2
  <2> HIDE DEF l, L
  <2>3. 0 < get_delta_amount_base_up(l, p, L)
    <3>1. l * p \in Nat \ {0}
      BY <1>1, <1>3, <2>2
    <3>2. get_delta_amount_base_up(l, p, L) \in Nat \ {0}
      BY <2>2, <3>1, SomethingDivided DEF get_delta_amount_base_up
    <3>3. QED
      BY <3>2
  <2>4. get_next_sqrt_price_from_amount_base_rounding_up(p, L, 0) = p
    BY DEF get_next_sqrt_price_from_amount_base_rounding_up
  <2>5. get_delta_amount_quote_down(p, p, L) = 0
    <3>1. p - p = 0
      BY <1>1
    <3>2. QED
      BY <2>2, <3>1, NothingDivided DEF get_delta_amount_quote_down
  <2> DEFINE max_in == get_delta_amount_base_up(l, p, L)
             partial == 0 < max_in
             q == IF partial
                  THEN get_next_sqrt_price_from_amount_base_rounding_up(p, L, 0) ELSE l
             received == get_delta_amount_quote_down(q, p, L)
             y == base_to_quote_step(Curve, i, x)
  <2>6. y = [sqrt_price |-> q, amount_left |-> IF partial THEN 0 ELSE 0 - max_in,
             output |-> 0 + received, done |-> partial]
    BY <1>1, <1>7, <2>1 DEF base_to_quote_step
  <2>7. partial /\ q = p
    BY <2>3, <2>4
  <2>8. received = 0
    BY <2>5, <2>7
  <2> HIDE DEF max_in, partial, q, received, y
  <2>9. y.sqrt_price = p /\ y.amount_left = 0 /\ y.output = 0
    BY <2>6, <2>7, <2>8
  <2>10. QED
    BY <1>1, <2>9 DEF StandsStill, y
<1>8. QED
  BY <1>4, <1>5, <1>6, <1>7

(* A walk down that has nothing left does nothing on the first segment.    *)
LEMMA NothingRests ==
  ASSUME NEW p \in Nat
  PROVE  LET next == get_next_sqrt_price_from_amount_base_rounding_up(p, Curve[1].liquidity, 0)
         IN  next = p /\ get_delta_amount_quote_down(next, p, Curve[1].liquidity) = 0
<1>1. 1 \in 1 .. Segments /\ 1 \in 1 .. MAX_CURVE_POINT /\ 1 <= Segments
  BY CurveFacts
<1>2. Curve[1].liquidity = Liquidity(1) /\ Liquidity(1) \in Nat /\ ONE_SQUARED \in Nat \ {0}
  BY <1>1, CurvePoints, CurveFacts
<1>3. p - p = 0
  OBVIOUS
<1>4. get_delta_amount_quote_down(p, p, Curve[1].liquidity) = 0
  BY <1>2, <1>3, NothingDivided DEF get_delta_amount_quote_down
<1>5. QED
  BY <1>4 DEF get_next_sqrt_price_from_amount_base_rounding_up

(* A sale of nothing pays nothing.                                         *)
LEMMA SaleOfNothing ==
  ASSUME NEW price \in Nat, NEW reserve \in Int, NEW issued \in Int, OnCurve(price, reserve, issued)
  PROVE  get_swap_amount_from_base_to_quote(Curve, price, 0) =
           [ok |-> TRUE, output_amount |-> 0, next_sqrt_price |-> price]
<1> DEFINE f == base_to_quote_walk(Curve, price, 0)
           last == MAX_CURVE_POINT - 1
           T == {m \in Nat : m <= last =>
                   SellState(MAX_CURVE_POINT - m, f[m], 0, reserve, issued)
                   /\ StandsStill(price, 0, f[m])}
<1>1. /\ f[0] = walk_start(price, 0)
      /\ \A i \in 1 .. last : f[i] = base_to_quote_step(Curve, MAX_CURVE_POINT - i, f[i - 1])
  BY SellLoop
<1>2. MAX_CURVE_POINT \in Nat /\ Segments \in Nat /\ Segments <= MAX_CURVE_POINT /\ last \in Nat
      /\ Price(Segments) = MAX_SQRT_PRICE
  BY CurveFacts, PriceAssumption
<1> HIDE DEF f
<1>3. 0 \in T
  <2> DEFINE x == [sqrt_price |-> price, amount_left |-> 0, output |-> 0, done |-> FALSE]
  <2>1. f[0] = x
    BY <1>1 DEF walk_start
  <2>2. x \in WalkStates(0) /\ StandsStill(price, 0, x)
    BY DEF WalkStates, StandsStill
  <2>3. reserve - 0 = reserve /\ issued - (0 - 0) = issued /\ MAX_CURVE_POINT - 0 = MAX_CURVE_POINT
    BY <1>2
  <2>4. price <= Price(minimum(MAX_CURVE_POINT, Segments))
    <3>1. minimum(MAX_CURVE_POINT, Segments) = Segments
      BY <1>2 DEF minimum
    <3>2. QED
      BY <1>2, <3>1, OnCurvePrice
  <2>5. SellState(MAX_CURVE_POINT, x, 0, reserve, issued)
    BY <2>2, <2>3, <2>4 DEF SellState
  <2>6. QED
    BY <2>1, <2>2, <2>3, <2>5
<1>4. ASSUME NEW m \in Nat, m \in T PROVE m + 1 \in T
  <2> SUFFICES ASSUME m + 1 <= last
               PROVE  SellState(MAX_CURVE_POINT - (m + 1), f[m + 1], 0, reserve, issued)
                      /\ StandsStill(price, 0, f[m + 1])
    OBVIOUS
  <2> DEFINE i == MAX_CURVE_POINT - (m + 1)
  <2>1. /\ m + 1 \in 1 .. last /\ (m + 1) - 1 = m /\ m <= last
        /\ i \in 1 .. MAX_CURVE_POINT - 1 /\ MAX_CURVE_POINT - m = i + 1
    BY <1>2
  <2>2. SellState(i + 1, f[m], 0, reserve, issued) /\ StandsStill(price, 0, f[m])
    BY <1>4, <2>1
  <2>3. f[m + 1] = base_to_quote_step(Curve, i, f[m])
    BY <1>1, <2>1
  <2> HIDE DEF i
  <2>4. SellState(i, f[m + 1], 0, reserve, issued)
    BY <2>1, <2>2, <2>3, SellPass
  <2>5. StandsStill(price, 0, f[m + 1])
    BY <2>1, <2>2, <2>3, SellPassOfNothing
  <2>6. QED
    BY <2>4, <2>5 DEF i
<1>5. last \in T
  <2> HIDE DEF T, last
  <2>1. QED
    BY <1>2, <1>3, <1>4, Induction
<1>6. StandsStill(price, 0, f[last])
  BY <1>2, <1>5
<1>7. PICK x : x = f[last]
  OBVIOUS
<1>8. /\ x = base_to_quote_walk(Curve, price, 0)[MAX_CURVE_POINT - 1]
      /\ x.sqrt_price = price /\ x.amount_left = 0 /\ x.output = 0
  BY <1>6, <1>7 DEF StandsStill, f
<1> DEFINE next == get_next_sqrt_price_from_amount_base_rounding_up(x.sqrt_price, Curve[1].liquidity,
                                                                    x.amount_left)
           received == get_delta_amount_quote_down(next, x.sqrt_price, Curve[1].liquidity)
<1>9. get_swap_amount_from_base_to_quote(Curve, price, 0) =
        [ok |-> TRUE, output_amount |-> x.output + received, next_sqrt_price |-> next]
  BY <1>8 DEF get_swap_amount_from_base_to_quote
<1>10. next = price /\ received = 0
  BY <1>8, NothingRests
<1> HIDE DEF next, received
<1>11. x.output + received = 0
  BY <1>8, <1>10
<1>12. QED
  BY <1>9, <1>10, <1>11

(* What the client returns for a sale is what the program does, for a sale *)
(* that starts within the points it looks at.                              *)
LEMMA SaleComputes ==
  ASSUME NEW price \in Nat, NEW reserve \in Int, NEW issued \in Int,
         OnCurve(price, reserve, issued), NEW amount \in Nat, NEW sale,
         pointsSeen(configState.curve) < Len(configState.curve) =>
           price <= configState.curve[pointsSeen(configState.curve) + 1].sqrtPrice,
         sale = get_swap_amount_from_base_to_quote(Curve, price, amount)
  PROVE  /\ sale.ok /\ sale.output_amount \in Nat
         /\ Computes(getSwapAmountFromBaseToQuote(configState.curve, price, amount),
                     swapAmount(sale.output_amount, sale.next_sqrt_price))
<1> DEFINE quotes == getSwapAmountFromBaseToQuote(configState.curve, price, amount)
           x == base_to_quote_walk(Curve, price, amount)[MAX_CURVE_POINT - 1]
           walked == sellWalks(configState.curve, price, amount)[pointsSeen(configState.curve)]
           w == client_walk(x)
           p == x.sqrt_price
           left == x.amount_left
           L == Liquidity(1)
           next == get_next_sqrt_price_from_amount_base_rounding_up(p, L, left)
           received == get_delta_amount_quote_down(next, p, L)
           y == [sqrt_price |-> next, amount_left |-> left, output |-> x.output + received,
                 done |-> x.done]
<1>1. /\ 1 \in 1 .. Segments /\ 1 \in 1 .. MAX_CURVE_POINT /\ 1 <= Segments
      /\ L \in Nat \ {0} /\ ONE_SQUARED \in Nat \ {0}
  BY CurveFacts
<1>2. Curve[1].liquidity = L /\ configState.curve[1].liquidity = L
  BY <1>1, CurvePoints, ClientCurve
<1>3. sale = [ok |-> TRUE, output_amount |-> x.output + received, next_sqrt_price |-> next]
  BY <1>2 DEF get_swap_amount_from_base_to_quote
<1>4. SellState(1, x, amount, reserve, issued)
  BY SellWalk
<1>5. Computes(walked, w)
  BY SellWalkComputes
<1>6. w.sqrtPrice = p /\ w.amountLeft = left /\ w.output = x.output /\ w.done = x.done
  BY DEF client_walk
<1>7. quotes = IF amount = 0 THEN {swapAmount(0, price)}
               ELSE UNION {swapAmounts(walk) : walk \in
                      UNION {IF walk.amountLeft = 0 \/ configState.curve[1].liquidity = 0
                             THEN {walk} ELSE sellRest(configState.curve, walk) : walk \in walked}}
  BY DEF getSwapAmountFromBaseToQuote
<1> HIDE DEF x, L, walked, quotes
<1>8. /\ p \in Nat /\ left \in 0 .. amount /\ left \in Nat /\ x.output \in Nat
      /\ OnCurve(p, reserve - x.output, issued - (amount - left))
  BY <1>4 DEF SellState, WalkStates
<1>9. p \in sqrt_start_price .. MAX_SQRT_PRICE /\ p \in Nat \ {0}
  <2>1. reserve - x.output \in Int /\ issued - (amount - left) \in Int
    BY <1>8
  <2>2. sqrt_start_price \in Nat /\ MAX_SQRT_PRICE \in Nat
    BY CurveFacts DEF Price
  <2>3. sqrt_start_price <= p /\ p <= MAX_SQRT_PRICE /\ p # 0
    BY <1>8, <2>1, OnCurvePrice
  <2> HIDE DEF p
  <2>4. QED
    BY <1>8, <2>2, <2>3
<1>10. next \in 0 .. p
  <2>1. next \in Nat /\ next <= p
    BY <1>1, <1>8, <1>9, PriceAfterSale
  <2>2. QED
    BY <1>8, <2>1
<1>11. received \in Nat
  <2>1. p - next \in Nat
    BY <1>8, <1>10
  <2> HIDE DEF next
  <2>2. QED
    BY <1>1, <2>1, MulDiv DEF get_delta_amount_quote_down
<1>12. sale.ok /\ sale.output_amount = y.output /\ sale.next_sqrt_price = y.sqrt_price
       /\ y.output \in Nat
  BY <1>3, <1>8, <1>11
<1>13. CASE amount = 0
  <2>1. sale = [ok |-> TRUE, output_amount |-> 0, next_sqrt_price |-> price]
    BY <1>13, SaleOfNothing
  <2>2. quotes = {swapAmount(0, price)}
    BY <1>7, <1>13
  <2> HIDE DEF y
  <2>3. QED
    BY <2>1, <2>2 DEF Computes, quotes
<1>14. CASE amount # 0
  <2> DEFINE rests(walk) == IF walk.amountLeft = 0 \/ configState.curve[1].liquidity = 0
                            THEN {walk} ELSE sellRest(configState.curve, walk)
             ends == UNION {rests(walk) : walk \in walked}
  <2>1. Computes(rests(w), client_walk(y))
    <3>1. CASE left = 0
      <4>1. next = p /\ received = 0
        BY <1>2, <1>8, <3>1, NothingRests
      <4>2. y.sqrt_price = p /\ y.amount_left = left /\ y.output = x.output /\ y.done = x.done
        BY <1>8, <4>1
      <4> HIDE DEF y
      <4>3. client_walk(y) = w
        BY <4>2 DEF client_walk
      <4>4. rests(w) = {w}
        BY <1>6, <3>1
      <4>5. QED
        BY <4>3, <4>4 DEF Computes
    <3>2. CASE left # 0
      <4>1. rests(w) = sellRest(configState.curve, w)
        BY <1>1, <1>2, <1>6, <3>2
      <4> DEFINE ended(at, output) == [sqrtPrice |-> at, amountLeft |-> w.amountLeft,
                                       output |-> w.output + output, done |-> w.done]
                 rest(at) == {ended(at, output) :
                                output \in getDeltaAmountQuoteUnsigned(at, p, L, "Down")}
                 nexts == getNextSqrtPriceFromInput(p, L, left, TRUE)
      <4>2. sellRest(configState.curve, w) =
              UNION {rest(at) : at \in nexts}
        BY <1>2, <1>6 DEF sellRest
      <4>3. ended(next, received) = client_walk(y)
        <5> HIDE DEF p, left, next, received
        <5>1. client_walk(y) = [sqrtPrice |-> next, amountLeft |-> left,
                                output |-> x.output + received, done |-> x.done]
          BY DEF client_walk
        <5> HIDE DEF w, y
        <5>2. QED
          BY <1>6, <5>1
      <4>4. Computes(nexts, next)
        BY <1>1, <1>8, <1>9, NextAfterSale DEF L
      <4>5. Computes(getDeltaAmountQuoteUnsigned(next, p, L, "Down"), received)
        <5> HIDE DEF next
        <5>1. QED
          BY <1>1, <1>9, <1>10, QuoteAmountFits DEF L
      <4> HIDE DEF ended, next, received, y, w
      <4>6. Computes(rest(next), client_walk(y))
        BY <4>3, <4>5 DEF Computes, Throws
      <4> HIDE DEF rest, nexts
      <4>7. Computes(sellRest(configState.curve, w), client_walk(y))
        BY <4>2, <4>4, <4>6 DEF Computes, Throws
      <4>8. QED
        BY <4>1, <4>7
    <3>3. QED
      BY <3>1, <3>2
  <2> HIDE DEF y, w, next, received
  <2>2. quotes = UNION {swapAmounts(walk) : walk \in ends}
    BY <1>7, <1>14
  <2> HIDE DEF rests
  <2>3. Computes(ends, client_walk(y))
    BY <1>5, <2>1 DEF Computes, Throws
  <2> HIDE DEF ends
  <2>4. Computes(swapAmounts(client_walk(y)), swapAmount(y.output, y.sqrt_price))
    BY <1>12, WalkReturns
  <2>5. Computes(quotes, swapAmount(y.output, y.sqrt_price))
    BY <2>2, <2>3, <2>4 DEF Computes, Throws
  <2>6. QED
    BY <1>12, <2>5 DEF quotes
<1>15. QED
  BY <1>13, <1>14

(* On the curve the two implementations of the walks agree.                *)
LEMMA WalksAgreeOnCurve ==
  ASSUME TypeOK, CurveBooks
  PROVE  WalksAgree
<1>1. sqrt_price \in Nat /\ quote_reserve \in Nat /\ sold \in Int
  BY PoolQuantities
<1>2. SwapAmounts \subseteq Nat
  BY BoundAssumption
<1> SUFFICES ASSUME NEW amount \in SwapAmounts
             PROVE  LET curve == configState.curve
                        buys  == get_swap_amount_from_quote_to_base(Curve, sqrt_price, amount)
                        sells == get_swap_amount_from_base_to_quote(Curve, sqrt_price, amount)
                        same(walk, ours) ==
                          /\ ours.ok
                          /\ walk = swapAmount(ours.output_amount, ours.next_sqrt_price)
                    IN  /\ \A walk \in getSwapAmountFromQuoteToBase(curve, sqrt_price, amount) :
                             same(walk, buys)
                        /\ saleIsSeen =>
                             \A walk \in getSwapAmountFromBaseToQuote(curve, sqrt_price, amount) :
                               same(walk, sells)
  BY DEF WalksAgree
<1> DEFINE buys  == get_swap_amount_from_quote_to_base(Curve, sqrt_price, amount)
           sells == get_swap_amount_from_base_to_quote(Curve, sqrt_price, amount)
<1>3. OnCurve(sqrt_price, quote_reserve, sold)
  BY DEF CurveBooks
<1>4. ASSUME NEW walk \in getSwapAmountFromQuoteToBase(configState.curve, sqrt_price, amount)
      PROVE  buys.ok /\ walk = swapAmount(buys.output_amount, buys.next_sqrt_price)
  <2>1. PICK price \in Nat, reserve \in Int, issued \in Int, n \in Nat :
          price = sqrt_price /\ reserve = quote_reserve /\ issued = sold /\ n = amount
    BY <1>1, <1>2
  <2>2. PICK buy : buy = get_swap_amount_from_quote_to_base(Curve, price, n)
    OBVIOUS
  <2>3. OnCurve(price, reserve, issued) /\ buys = buy
        /\ walk \in getSwapAmountFromQuoteToBase(configState.curve, price, n)
    BY <1>3, <1>4, <2>1, <2>2
  <2> HIDE DEF buys
  <2>4. buy.ok /\ walk = swapAmount(buy.output_amount, buy.next_sqrt_price)
    BY <2>2, <2>3, BuyComputes
  <2>5. QED
    BY <2>3, <2>4
<1>5. ASSUME saleIsSeen,
             NEW walk \in getSwapAmountFromBaseToQuote(configState.curve, sqrt_price, amount)
      PROVE  sells.ok /\ walk = swapAmount(sells.output_amount, sells.next_sqrt_price)
  <2>1. PICK price \in Nat, reserve \in Int, issued \in Int, n \in Nat :
          price = sqrt_price /\ reserve = quote_reserve /\ issued = sold /\ n = amount
    BY <1>1, <1>2
  <2>2. PICK sale : sale = get_swap_amount_from_base_to_quote(Curve, price, n)
    OBVIOUS
  <2>3. OnCurve(price, reserve, issued) /\ sells = sale
        /\ walk \in getSwapAmountFromBaseToQuote(configState.curve, price, n)
    BY <1>3, <1>5, <2>1, <2>2
  <2>4. pointsSeen(configState.curve) < Len(configState.curve) =>
          price <= configState.curve[pointsSeen(configState.curve) + 1].sqrtPrice
    BY <1>5, <2>1 DEF saleIsSeen
  <2> HIDE DEF sells
  <2>5. /\ sale.ok
        /\ Computes(getSwapAmountFromBaseToQuote(configState.curve, price, n),
                    swapAmount(sale.output_amount, sale.next_sqrt_price))
    BY <2>2, <2>3, <2>4, SaleComputes
  <2>6. QED
    BY <2>3, <2>5 DEF Computes, Throws
<1>6. QED
  BY <1>4, <1>5

(* For every curve of up to MAX_CURVE_POINT points, every reachable price  *)
(* and every amount: what the client's walks return is what the program's  *)
(* walks do, whatever CLIENT_MAX_CURVE_POINT and EXP_LIMIT are.            *)
THEOREM WalksAreSound == QuoteSpec => []WalksAgree
<1>1. TypeOK /\ CurveBooks => WalksAgree
  BY WalksAgreeOnCurve
<1>2. QED
  BY <1>1, QuotedPoolIsPool, PoolTypeCorrect, PoolOnCurve, PTL

-----------------------------------------------------------------------------
(* A trader's session.  The fee depends on the volatility accumulated, not *)
(* on the time: the base fee of an accepted config stays at its cliff, and *)
(* the references that time moves are read only after the swap.            *)
LEMMA FeeOfAccumulator ==
  ASSUME NEW before, NEW after,
         before.volatility_accumulator = after.volatility_accumulator,
         NEW amount, NEW has_referral, NEW earlier, NEW later, NEW activation
  PROVE  get_fee_on_amount(before, amount, has_referral, earlier, activation)
           = get_fee_on_amount(after, amount, has_referral, later, activation)
<1>1. get_variable_fee_numerator(before) = get_variable_fee_numerator(after)
  BY DEF get_variable_fee_numerator
<1>2. get_total_trading_fee(before, earlier, activation) = get_total_trading_fee(after, later, activation)
  BY <1>1, BaseFeeIsCliff DEF get_total_trading_fee
<1>3. QED
  BY <1>2 DEF get_fee_on_amount

(* So what a copy of the pool pays for an order is the same at any time.   *)
LEMMA SwapAnyTime ==
  ASSUME NEW pool, pool.volatility_tracker \in VolatilityTracker, NEW order, NEW earlier, NEW later
  PROVE  swap_of(pool, order, earlier) = swap_of(pool, order, later)
<1> DEFINE before == update_pre_swap(pool.volatility_tracker, pool.sqrt_price, earlier)
           after  == update_pre_swap(pool.volatility_tracker, pool.sqrt_price, later)
           mode   == get_fee_mode(order.direction, order.has_referral)
           charged(amount) ==
             get_fee_on_amount(before, amount, mode.has_referral, earlier, ACTIVATION_POINT)
<1>1. /\ before.volatility_accumulator = pool.volatility_tracker.volatility_accumulator
      /\ after.volatility_accumulator = pool.volatility_tracker.volatility_accumulator
  BY DEF VolatilityTracker, update_pre_swap, update_references
<1>2. /\ swap_of(pool, order, earlier) =
           swap_result_at(pool.sqrt_price, earlier, before, order.amountIn, mode, order.direction)
      /\ swap_of(pool, order, later) =
           swap_result_at(pool.sqrt_price, later, after, order.amountIn, mode, order.direction)
  BY DEF swap_of
<1> HIDE DEF before, after, mode
<1>3. ASSUME NEW amount
      PROVE  get_fee_on_amount(after, amount, mode.has_referral, later, ACTIVATION_POINT)
               = charged(amount)
  BY <1>1, FeeOfAccumulator
<1> HIDE DEF charged
<1>4. swap_result_at(pool.sqrt_price, earlier, before, order.amountIn, mode, order.direction)
        = swap_result_at(pool.sqrt_price, later, after, order.amountIn, mode, order.direction)
  BY <1>3 DEF swap_result_at, charged
<1>5. QED
  BY <1>2, <1>4

(* What the program pays for an order changes with the curve's state only: *)
(* neither time nor any other instruction matters.                         *)
LEMMA OutcomeUnlessTraded ==
  ASSUME TypeOK, UNCHANGED curve_vars, NEW order
  PROVE  program_outcome(order)' = program_outcome(order)
<1>1. poolCopy' = poolCopy
  BY DEF curve_vars, poolCopy
<1>2. poolCopy.volatility_tracker \in VolatilityTracker
  BY DEF TypeOK, poolCopy
<1>3. swap_of(poolCopy, order, now') = swap_of(poolCopy, order, now)
  BY <1>2, SwapAnyTime
<1>4. program_outcome(order)' = swap_of(poolCopy', order, now')
  BY DEF program_outcome
<1>5. QED
  BY <1>1, <1>3, <1>4 DEF program_outcome

(* Until the next swap a session's copy of the pool is the pool, and its   *)
(* quote what a trade would pay.                                           *)
QuoteBooks ==
  /\ session.stage = "fetched" /\ session.seen = swaps => session.pool = poolCopy
  /\ QuoteStaysExact

(* A quote computed from a copy of the pool as it is, at any time.         *)
LEMMA QuoteIsExact ==
  ASSUME TypeOK, QuoteBooks, NEW point, Quote(point),
         session.seen = swaps, session'.stage = "quoted"
  PROVE  session'.output_amount = program_outcome(session.order).result.output_amount
<1>1. session.pool = poolCopy
  BY DEF Quote, QuoteBooks
<1>2. session'.output_amount = quote_exact_in(poolCopy, session.order, point).result.output_amount
  <2>1. session' # NoQuote
    BY DEF NoQuote
  <2>2. QED
    BY <1>1, <2>1 DEF Quote
<1>3. quote_exact_in(poolCopy, session.order, point).result = swap_of(poolCopy, session.order, point).result
  BY DEF quote_exact_in, swap_of, swap_result_at
<1>4. swap_of(poolCopy, session.order, point) = swap_of(poolCopy, session.order, now)
  <2>1. poolCopy.volatility_tracker \in VolatilityTracker
    BY DEF TypeOK, poolCopy
  <2>2. QED
    BY <2>1, SwapAnyTime
<1>5. QED
  BY <1>2, <1>3, <1>4 DEF program_outcome

(* What other instructions and time leave of a session's knowledge.        *)
LEMMA QuoteUnlessTraded ==
  ASSUME TypeOK, SessionBooks, QuoteBooks, [PoolNext]_pool_vars, UNCHANGED session
  PROVE  QuoteBooks'
<1>1. session.stage # "idle" => session.seen <= swaps /\ session.seen \in Nat
  BY DEF SessionBooks
<1>2. /\ swaps \in Nat /\ swaps' \in Nat /\ swaps <= swaps'
      /\ swaps' = swaps => UNCHANGED curve_vars
  BY SwapsGrow
<1> SUFFICES ASSUME session.stage # "idle", session.seen = swaps' PROVE QuoteBooks'
  BY DEF QuoteBooks, QuoteStaysExact
<1>3. session.seen = swaps /\ UNCHANGED curve_vars
  BY <1>1, <1>2
<1>4. poolCopy' = poolCopy
  BY <1>3 DEF curve_vars, poolCopy
<1>5. program_outcome(session.order)' = program_outcome(session.order)
  <2>1. PICK order : order = session.order
    OBVIOUS
  <2>2. program_outcome(order)' = program_outcome(order)
    BY <1>3, OutcomeUnlessTraded
  <2>3. QED
    BY <2>1, <2>2
<1>6. QED
  BY <1>3, <1>4, <1>5 DEF QuoteBooks, QuoteStaysExact

(* Every step keeps what a session knows true, or is a swap.               *)
LEMMA QuoteBooksStep ==
  ASSUME TypeOK, SessionBooks, QuoteBooks, [QuoteNext]_quote_vars
  PROVE  QuoteBooks'
<1>1. ASSUME NEW order \in QuotedOrders, FetchPool(order) PROVE QuoteBooks'
  <2>1. session'.stage = "fetched" /\ session'.pool = poolCopy /\ UNCHANGED pool_vars
    BY <1>1 DEF FetchPool
  <2>2. poolCopy' = poolCopy
    BY <2>1 DEF pool_vars, curve_vars, poolCopy
  <2>3. QED
    BY <2>1, <2>2 DEF QuoteBooks, QuoteStaysExact
<1>2. ASSUME NEW point \in ClientClock, Quote(point) PROVE QuoteBooks'
  <2>1. CASE session' = NoQuote
    BY <2>1 DEF NoQuote, QuoteBooks, QuoteStaysExact
  <2>2. CASE session' # NoQuote
    <3>1. /\ session'.stage = "quoted" /\ session'.order = session.order
          /\ session'.seen = session.seen /\ UNCHANGED pool_vars
      BY <1>2, <2>2 DEF Quote
    <3>2. UNCHANGED <<curve_vars, swaps>>
      BY <3>1 DEF pool_vars, world_vars
    <3>3. session'.seen = swaps' =>
            session'.output_amount = program_outcome(session.order).result.output_amount
      BY <1>2, <3>1, <3>2, QuoteIsExact
    <3>4. PICK order : order = session.order
      OBVIOUS
    <3>5. program_outcome(order)' = program_outcome(order)
      BY <3>2, OutcomeUnlessTraded
    <3>6. QED
      BY <3>1, <3>3, <3>4, <3>5 DEF QuoteBooks, QuoteStaysExact
  <2>3. QED
    BY <2>1, <2>2
<1>3. CASE Trade \/ GiveUp
  <2>1. session' = NoQuote
    BY <1>3 DEF Trade, GiveUp
  <2>2. QED
    BY <2>1 DEF NoQuote, QuoteBooks, QuoteStaysExact
<1>4. CASE PoolNext /\ UNCHANGED session
  BY <1>4, QuoteUnlessTraded
<1>5. CASE UNCHANGED quote_vars
  BY <1>5, QuoteUnlessTraded DEF quote_vars
<1>6. QED
  BY <1>1, <1>2, <1>3, <1>4, <1>5 DEF QuoteNext

(* Claims, withdrawals, donations and time, on the chain's clock and on    *)
(* the caller's, leave a quote of the Rust SDK exact until the next swap.  *)
THEOREM QuotesStayExact == QuoteSpec => []QuoteStaysExact
<1>1. QuoteInit => SessionBooks /\ QuoteBooks
  BY SessionInit DEF QuoteInit, NoQuote, QuoteBooks, QuoteStaysExact
<1>2. TypeOK /\ SessionBooks /\ QuoteBooks /\ [QuoteNext]_quote_vars
        => SessionBooks' /\ QuoteBooks'
  BY SessionStep, QuoteBooksStep
<1>3. QuoteBooks => QuoteStaysExact
  BY DEF QuoteBooks
<1>4. QED
  BY <1>1, <1>2, <1>3, QuotedPoolIsPool, PoolTypeCorrect, PTL DEF QuoteSpec


-----------------------------------------------------------------------------
(* A quote promises no more than the trade pays.  On the curve a smaller   *)
(* amount buys less ...                                                    *)
LEMMA BoughtGrows ==
  ASSUME NEW L \in Nat \ {0}, NEW p \in Nat \ {0}, NEW q \in Nat, NEW r \in Nat, p <= q, q <= r
  PROVE  /\ get_delta_amount_base_down(p, q, L) \in Nat
         /\ get_delta_amount_base_down(p, r, L) \in Nat
         /\ get_delta_amount_base_down(p, q, L) <= get_delta_amount_base_down(p, r, L)
<1> DEFINE a == get_delta_amount_base_down(p, q, L)
           b == get_delta_amount_base_down(p, r, L)
           e == a * p
<1>1. /\ q \in Nat \ {0} /\ r \in Nat \ {0} /\ q - p \in Nat /\ r - p \in Nat /\ r - q \in Nat
  OBVIOUS
<1>2. p * q \in Nat \ {0} /\ p * r \in Nat \ {0}
  <2>1. ASSUME NEW m \in Nat \ {0}, NEW n \in Nat \ {0} PROVE m * n \in Nat \ {0}
    OBVIOUS
  <2>2. QED
    BY <1>1, <2>1
<1>3. a \in Nat /\ a * (p * q) <= L * (q - p)
  BY <1>1, <1>2, RoundedDown DEF get_delta_amount_base_down
<1>4. b \in Nat /\ b * (p * r) <= L * (r - p) /\ L * (r - p) < b * (p * r) + p * r
  BY <1>1, <1>2, RoundedDown DEF get_delta_amount_base_down
<1> HIDE DEF a, b
<1>5. e \in Nat
  BY <1>3, ProductMonotone
<1>6. a * (p * q) = q * e /\ a * (p * r) = e * r /\ q * e \in Nat /\ e * r \in Nat
  BY <1>1, <1>3, <1>5
<1>7. /\ L * (q - p) = q * L - L * p /\ L * (q - p) + L * (r - q) = L * (r - p)
      /\ L * p \in Nat \ {0} /\ q * L \in Nat
  BY <1>1
<1> HIDE DEF e
<1>8. q * e < q * L
  BY <1>3, <1>6, <1>7
<1>9. e < L
  BY <1>1, <1>5, <1>8, ProductCancel
<1>10. e * (r - q) <= L * (r - q) /\ e * (r - q) \in Nat
  BY <1>1, <1>5, <1>9, ProductMonotone
<1>11. e * r = q * e + e * (r - q)
  BY <1>1, <1>5
<1>12. L * (r - q) \in Nat /\ L * (r - p) \in Nat /\ L * (q - p) \in Nat
  BY <1>1, ProductMonotone
<1>13. a * (p * r) <= L * (r - p)
  BY <1>3, <1>6, <1>7, <1>10, <1>11, <1>12
<1>14. a <= b
  <2> DEFINE d == p * r
             x == L * (r - p)
  <2>1. d \in Nat \ {0} /\ x \in Int /\ b * d <= x /\ x < b * d + d /\ a * d <= x
    BY <1>2, <1>4, <1>12, <1>13
  <2> HIDE DEF d, x
  <2>2. QED
    BY <1>3, <1>4, <2>1, FloorIsGreatest
<1>15. QED
  BY <1>3, <1>4, <1>14 DEF a, b

(* ... a part of a segment ends within it, and further up for more ...     *)
LEMMA PartialBuyStays ==
  ASSUME NEW L \in Nat \ {0}, NEW p \in Nat, NEW u \in Nat, p < u, NEW left \in Nat,
         left < get_delta_amount_quote_up(p, u, L)
  PROVE  LET q == get_next_sqrt_price_from_amount_quote_rounding_down(p, L, left)
         IN  q \in Nat /\ p <= q /\ q <= u
<1> DEFINE max_in == get_delta_amount_quote_up(p, u, L)
           f == mul_div_down(left, ONE_SQUARED, L)
           q == p + f
<1>1. ONE_SQUARED \in Nat \ {0} /\ u - p \in Nat
  BY CurveFacts
<1>2. max_in \in Nat /\ max_in * ONE_SQUARED < L * (u - p) + ONE_SQUARED
  BY <1>1, RoundedUp DEF get_delta_amount_quote_up
<1>3. f \in Nat /\ f * L <= left * ONE_SQUARED
  BY <1>1, RoundedDown
<1>4. left <= max_in - 1
  BY <1>2
<1> HIDE DEF max_in, f
<1>5. left * ONE_SQUARED <= (max_in - 1) * ONE_SQUARED
  BY <1>1, <1>2, <1>4
<1>6. (max_in - 1) * ONE_SQUARED = max_in * ONE_SQUARED - ONE_SQUARED
  BY <1>1, <1>2
<1>7. /\ max_in * ONE_SQUARED \in Int /\ left * ONE_SQUARED \in Int /\ L * (u - p) \in Int
      /\ f * L \in Int
  BY <1>1, <1>2, <1>3
<1>8. f * L < L * (u - p)
  BY <1>1, <1>2, <1>3, <1>5, <1>6, <1>7
<1>9. f < u - p
  <2>1. f * L = L * f
    BY <1>3
  <2>2. QED
    BY <1>1, <1>3, <1>8, <2>1, ProductCancel
<1>10. q \in Nat /\ p <= q /\ q <= u
  BY <1>3, <1>9
<1>11. QED
  BY <1>10 DEF get_next_sqrt_price_from_amount_quote_rounding_down, q, f

LEMMA PartialBuyGrows ==
  ASSUME NEW L \in Nat \ {0}, NEW p \in Nat, NEW less \in Nat, NEW more \in Nat, less <= more
  PROVE  get_next_sqrt_price_from_amount_quote_rounding_down(p, L, less)
           <= get_next_sqrt_price_from_amount_quote_rounding_down(p, L, more)
<1> DEFINE f == mul_div_down(less, ONE_SQUARED, L)
           g == mul_div_down(more, ONE_SQUARED, L)
<1>1. ONE_SQUARED \in Nat \ {0}
  BY CurveFacts
<1>2. /\ f \in Nat /\ f * L <= less * ONE_SQUARED
      /\ g \in Nat /\ g * L <= more * ONE_SQUARED /\ more * ONE_SQUARED < g * L + L
  BY <1>1, RoundedDown
<1>3. less * ONE_SQUARED <= more * ONE_SQUARED /\ more * ONE_SQUARED \in Nat
      /\ less * ONE_SQUARED \in Nat
  BY <1>1, ProductMonotone
<1> HIDE DEF f, g
<1>4. f * L \in Nat
  BY <1>2, ProductMonotone
<1>5. f * L <= more * ONE_SQUARED
  BY <1>2, <1>3, <1>4
<1> DEFINE x == more * ONE_SQUARED
<1>6. x \in Int /\ f * L <= x /\ g * L <= x /\ x < g * L + L
  BY <1>2, <1>3, <1>5
<1> HIDE DEF x
<1>7. f <= g
  BY <1>2, <1>6, FloorIsGreatest
<1>8. p + f <= p + g
  BY <1>2, <1>7
<1>9. QED
  BY <1>8 DEF get_next_sqrt_price_from_amount_quote_rounding_down, f, g

(* ... a pass that buys has a segment before it ...                        *)
LEMMA SegmentAhead ==
  ASSUME NEW i \in 1 .. MAX_CURVE_POINT, NEW amount \in Nat, NEW reserve \in Int, NEW issued \in Int,
         NEW x, BuyState(i - 1, x, amount, reserve, issued),
         ~x.done, ~(Curve[i].sqrt_price <= x.sqrt_price)
  PROVE  /\ x.sqrt_price \in Nat \ {0} /\ x.amount_left \in Nat /\ x.output \in Nat
         /\ Curve[i].sqrt_price \in Nat /\ x.sqrt_price < Curve[i].sqrt_price
         /\ Curve[i].liquidity \in Nat \ {0}
<1> DEFINE p == x.sqrt_price
<1>1. /\ p \in Nat /\ x.amount_left \in 0 .. amount /\ x.amount_left \in Nat /\ x.output \in Nat
      /\ OnCurve(p, reserve + (amount - x.amount_left), issued + x.output)
      /\ Price(minimum(i - 1, Segments)) <= p
  BY DEF BuyState, WalkStates
<1>2. reserve + (amount - x.amount_left) \in Int /\ issued + x.output \in Int
  BY <1>1
<1> HIDE DEF p
<1>3. p # 0
  BY <1>1, <1>2, OnCurvePrice
<1>4. /\ i \in Nat /\ i # 0 /\ Segments \in Nat /\ Segments # 0 /\ MAX_SQRT_PRICE \in Nat
      /\ Price(Segments) = MAX_SQRT_PRICE
  BY CurveFacts
<1>5. i <= Segments
  <2>1. CASE i > Segments
    <3>1. Curve[i].sqrt_price = MAX_SQRT_PRICE
      BY <2>1, CurvePoints
    <3>2. minimum(i - 1, Segments) = Segments
      BY <1>4, <2>1 DEF minimum
    <3>3. QED
      BY <1>1, <1>4, <3>1, <3>2 DEF p
  <2>2. QED
    BY <1>4, <2>1
<1>6. Curve[i].sqrt_price = Price(i) /\ Curve[i].liquidity = Liquidity(i)
  BY <1>5, CurvePoints
<1>7. Price(i) \in Nat /\ Liquidity(i) \in Nat \ {0}
  BY <1>4, <1>5, SegmentFacts
<1>8. p < Price(i)
  BY <1>1, <1>6, <1>7 DEF p
<1>9. QED
  BY <1>1, <1>3, <1>6, <1>7, <1>8 DEF p

(* ... and takes the walk up to u or less, for some tokens.                *)
LEMMA PassEnds ==
  ASSUME NEW i \in 1 .. MAX_CURVE_POINT, NEW amount \in Nat, NEW reserve \in Int, NEW issued \in Int,
         NEW x, BuyState(i - 1, x, amount, reserve, issued),
         ~x.done, ~(Curve[i].sqrt_price <= x.sqrt_price)
  PROVE  LET p       == x.sqrt_price
             L       == Curve[i].liquidity
             max_in  == get_delta_amount_quote_up(p, Curve[i].sqrt_price, L)
             partial == x.amount_left < max_in
             q       == IF partial
                        THEN get_next_sqrt_price_from_amount_quote_rounding_down(p, L, x.amount_left)
                        ELSE Curve[i].sqrt_price
             y       == quote_to_base_step(x, Curve[i])
         IN  /\ max_in \in Nat
             /\ q \in Nat /\ p <= q /\ q <= Curve[i].sqrt_price
             /\ y.sqrt_price = q /\ y.done = partial
             /\ y.amount_left = IF partial THEN 0 ELSE x.amount_left - max_in
             /\ y.output = x.output + get_delta_amount_base_down(p, q, L)
<1> DEFINE p       == x.sqrt_price
           u       == Curve[i].sqrt_price
           L       == Curve[i].liquidity
           left    == x.amount_left
           max_in  == get_delta_amount_quote_up(p, u, L)
           partial == left < max_in
           q       == IF partial
                      THEN get_next_sqrt_price_from_amount_quote_rounding_down(p, L, left)
                      ELSE u
           y       == quote_to_base_step(x, Curve[i])
<1>1. p \in Nat \ {0} /\ left \in Nat /\ u \in Nat /\ p < u /\ L \in Nat \ {0}
  BY SegmentAhead
<1>2. y = [sqrt_price |-> q, amount_left |-> IF partial THEN 0 ELSE left - max_in,
           output |-> x.output + get_delta_amount_base_down(p, q, L), done |-> partial]
  BY DEF quote_to_base_step
<1> HIDE DEF p, u, L, left
<1>3. max_in \in Nat
  <2>1. ONE_SQUARED \in Nat \ {0} /\ u - p \in Nat
    BY <1>1, CurveFacts
  <2>2. QED
    BY <1>1, <2>1, RoundedUp DEF get_delta_amount_quote_up
<1>4. q \in Nat /\ p <= q /\ q <= u
  <2>1. CASE partial
    BY <1>1, <2>1, PartialBuyStays
  <2>2. CASE ~partial
    BY <1>1, <2>2
  <2>3. QED
    BY <2>1, <2>2
<1> HIDE DEF y
<1>5. /\ y.sqrt_price = q /\ y.done = partial
      /\ y.amount_left = IF partial THEN 0 ELSE left - max_in
      /\ y.output = x.output + get_delta_amount_base_down(p, q, L)
  BY <1>2
<1>6. QED
  BY <1>3, <1>4, <1>5 DEF p, u, L, left, y

(* The walk of a smaller amount x and of a larger one y after a pass: they *)
(* are at the same price, or the smaller amount is spent.                  *)
NotAhead(x, y) ==
  \/ /\ x.sqrt_price = y.sqrt_price /\ x.output = y.output
     /\ ~x.done /\ ~y.done /\ x.amount_left <= y.amount_left
  \/ x.done /\ x.output <= y.output

(* No pass takes from what was bought.                                     *)
LEMMA OutputGrows ==
  ASSUME NEW i \in 1 .. MAX_CURVE_POINT, NEW amount \in Nat, NEW reserve \in Int, NEW issued \in Int,
         NEW x, BuyState(i - 1, x, amount, reserve, issued)
  PROVE  /\ x.output \in Nat
         /\ quote_to_base_step(x, Curve[i]).output \in Nat
         /\ x.output <= quote_to_base_step(x, Curve[i]).output
<1>1. x.output \in Nat
  BY DEF BuyState, WalkStates
<1>2. CASE x.done \/ Curve[i].sqrt_price <= x.sqrt_price
  BY <1>1, <1>2 DEF quote_to_base_step
<1>3. CASE ~x.done /\ ~(Curve[i].sqrt_price <= x.sqrt_price)
  <2>1. /\ x.sqrt_price \in Nat \ {0} /\ Curve[i].liquidity \in Nat \ {0}
    BY <1>3, SegmentAhead
  <2>2. PICK q \in Nat :
          /\ x.sqrt_price <= q
          /\ quote_to_base_step(x, Curve[i]).output =
               x.output + get_delta_amount_base_down(x.sqrt_price, q, Curve[i].liquidity)
    BY <1>3, PassEnds
  <2>3. get_delta_amount_base_down(x.sqrt_price, q, Curve[i].liquidity) \in Nat
    <3>1. q <= q
      OBVIOUS
    <3>2. QED
      BY <2>1, <2>2, <3>1, BoughtGrows
  <2>4. QED
    BY <1>1, <2>2, <2>3
<1>4. QED
  BY <1>2, <1>3

LEMMA NotAheadStep ==
  ASSUME NEW i \in 1 .. MAX_CURVE_POINT, NEW less \in Nat, NEW more \in Nat,
         NEW reserve \in Int, NEW issued \in Int,
         NEW x, BuyState(i - 1, x, less, reserve, issued),
         NEW y, BuyState(i - 1, y, more, reserve, issued),
         NotAhead(x, y)
  PROVE  NotAhead(quote_to_base_step(x, Curve[i]), quote_to_base_step(y, Curve[i]))
<1> DEFINE v == quote_to_base_step(x, Curve[i])
           w == quote_to_base_step(y, Curve[i])
<1>1. CASE x.done
  <2>1. v = x
    BY <1>1 DEF quote_to_base_step
  <2>2. x.output \in Nat /\ y.output \in Nat /\ w.output \in Nat /\ y.output <= w.output
    BY OutputGrows
  <2>3. x.output <= y.output
    BY <1>1 DEF NotAhead
  <2> HIDE DEF v, w
  <2>4. x.output <= w.output
    BY <2>2, <2>3
  <2>5. QED
    BY <1>1, <2>1, <2>4 DEF NotAhead, v, w
<1>2. CASE ~x.done
  <2>1. /\ x.sqrt_price = y.sqrt_price /\ x.output = y.output
        /\ ~x.done /\ ~y.done /\ x.amount_left <= y.amount_left
    BY <1>2 DEF NotAhead
  <2>2. CASE Curve[i].sqrt_price <= x.sqrt_price
    <3>1. v = x /\ w = y
      BY <2>1, <2>2 DEF quote_to_base_step
    <3>2. QED
      BY <3>1
  <2>3. CASE ~(Curve[i].sqrt_price <= x.sqrt_price)
    <3> DEFINE p == x.sqrt_price
               u == Curve[i].sqrt_price
               L == Curve[i].liquidity
               max_in == get_delta_amount_quote_up(p, u, L)
               to(left) == IF left < max_in
                           THEN get_next_sqrt_price_from_amount_quote_rounding_down(p, L, left)
                           ELSE u
    <3>1. /\ p \in Nat \ {0} /\ x.amount_left \in Nat /\ x.output \in Nat
          /\ u \in Nat /\ p < u /\ L \in Nat \ {0}
      BY <2>1, <2>3, SegmentAhead
    <3>2. y.amount_left \in Nat
      BY <2>1, <2>3, SegmentAhead
    <3>3. /\ max_in \in Nat
          /\ to(x.amount_left) \in Nat /\ p <= to(x.amount_left) /\ to(x.amount_left) <= u
          /\ v.sqrt_price = to(x.amount_left) /\ v.done = (x.amount_left < max_in)
          /\ v.amount_left = IF x.amount_left < max_in THEN 0 ELSE x.amount_left - max_in
          /\ v.output = x.output + get_delta_amount_base_down(p, to(x.amount_left), L)
      BY <2>1, <2>3, PassEnds
    <3>4. /\ to(y.amount_left) \in Nat /\ p <= to(y.amount_left) /\ to(y.amount_left) <= u
          /\ w.sqrt_price = to(y.amount_left) /\ w.done = (y.amount_left < max_in)
          /\ w.amount_left = IF y.amount_left < max_in THEN 0 ELSE y.amount_left - max_in
          /\ w.output = x.output + get_delta_amount_base_down(p, to(y.amount_left), L)
      BY <2>1, <2>3, PassEnds
    <3> HIDE DEF p, u, L, max_in, v, w
    <3>5. CASE ~(x.amount_left < max_in)
      <4>1. ~(y.amount_left < max_in) /\ to(x.amount_left) = u /\ to(y.amount_left) = u
        BY <2>1, <3>1, <3>2, <3>3, <3>5
      <4>2. ~v.done /\ ~w.done /\ v.sqrt_price = w.sqrt_price /\ v.output = w.output
        BY <3>3, <3>4, <3>5, <4>1
      <4>3. v.amount_left <= w.amount_left
        BY <2>1, <3>1, <3>2, <3>3, <3>4, <3>5, <4>1
      <4>4. QED
        BY <4>2, <4>3 DEF NotAhead, v, w
    <3>6. CASE x.amount_left < max_in
      <4>1. to(x.amount_left) <= to(y.amount_left)
        <5>1. CASE y.amount_left < max_in
          BY <2>1, <3>1, <3>2, <3>6, <5>1, PartialBuyGrows
        <5>2. CASE ~(y.amount_left < max_in)
          BY <3>3, <5>2
        <5>3. QED
          BY <5>1, <5>2
      <4> PICK q \in Nat : q = to(x.amount_left)
        BY <3>3
      <4> PICK r \in Nat : r = to(y.amount_left)
        BY <3>4
      <4>2. p <= q /\ q <= r
        BY <3>3, <4>1
      <4> PICK a \in Nat, b \in Nat :
            /\ a = get_delta_amount_base_down(p, q, L) /\ b = get_delta_amount_base_down(p, r, L)
            /\ a <= b
        BY <3>1, <4>2, BoughtGrows
      <4>3. v.output = x.output + a /\ w.output = x.output + b
        BY <3>3, <3>4
      <4>4. v.done
        BY <3>3, <3>6
      <4>5. v.output <= w.output
        BY <3>1, <4>3
      <4>6. QED
        BY <4>4, <4>5 DEF NotAhead, v, w
    <3>7. QED
      BY <3>5, <3>6
  <2>4. QED
    BY <2>2, <2>3
<1>3. QED
  BY <1>1, <1>2

(* So what a larger amount buys is not less.                               *)
LEMMA BuyGrows ==
  ASSUME NEW price \in Nat, NEW reserve \in Int, NEW issued \in Int, OnCurve(price, reserve, issued),
         NEW less \in Nat, NEW more \in Nat, less <= more
  PROVE  /\ get_swap_amount_from_quote_to_base(Curve, price, less).output_amount \in Nat
         /\ get_swap_amount_from_quote_to_base(Curve, price, more).output_amount \in Nat
         /\ get_swap_amount_from_quote_to_base(Curve, price, less).output_amount
              <= get_swap_amount_from_quote_to_base(Curve, price, more).output_amount
<1> DEFINE f == quote_to_base_walk(Curve, price, less)
           g == quote_to_base_walk(Curve, price, more)
           T == {m \in Nat : m <= MAX_CURVE_POINT => NotAhead(f[m], g[m])}
<1>1. /\ f[0] = walk_start(price, less)
      /\ \A i \in 1 .. MAX_CURVE_POINT : f[i] = quote_to_base_step(f[i - 1], Curve[i])
  BY BuyLoop
<1>2. /\ g[0] = walk_start(price, more)
      /\ \A i \in 1 .. MAX_CURVE_POINT : g[i] = quote_to_base_step(g[i - 1], Curve[i])
  BY BuyLoop
<1>3. \A m \in 0 .. MAX_CURVE_POINT : /\ BuyState(m, f[m], less, reserve, issued)
                                      /\ BuyState(m, g[m], more, reserve, issued)
  BY BuyPasses
<1>4. MAX_CURVE_POINT \in Nat
  BY CurveFacts
<1>5. /\ get_swap_amount_from_quote_to_base(Curve, price, less).output_amount = f[MAX_CURVE_POINT].output
      /\ get_swap_amount_from_quote_to_base(Curve, price, more).output_amount = g[MAX_CURVE_POINT].output
  BY DEF get_swap_amount_from_quote_to_base
<1> HIDE DEF f, g
<1>6. 0 \in T
  <2>1. NotAhead(walk_start(price, less), walk_start(price, more))
    BY DEF NotAhead, walk_start
  <2>2. QED
    BY <1>1, <1>2, <2>1
<1>7. ASSUME NEW m \in Nat, m \in T PROVE m + 1 \in T
  <2> SUFFICES ASSUME m + 1 <= MAX_CURVE_POINT PROVE NotAhead(f[m + 1], g[m + 1])
    OBVIOUS
  <2>1. /\ m + 1 \in 1 .. MAX_CURVE_POINT /\ (m + 1) - 1 = m /\ m <= MAX_CURVE_POINT
        /\ m \in 0 .. MAX_CURVE_POINT
    BY <1>4
  <2>2. NotAhead(f[m], g[m])
    BY <1>7, <2>1
  <2>3. /\ BuyState((m + 1) - 1, f[m], less, reserve, issued)
        /\ BuyState((m + 1) - 1, g[m], more, reserve, issued)
    BY <1>3, <2>1
  <2>4. /\ f[m + 1] = quote_to_base_step(f[m], Curve[m + 1])
        /\ g[m + 1] = quote_to_base_step(g[m], Curve[m + 1])
    BY <1>1, <1>2, <2>1
  <2>5. QED
    BY <2>1, <2>2, <2>3, <2>4, NotAheadStep
<1>8. Nat \subseteq T
  <2> HIDE DEF T
  <2>1. QED
    BY <1>6, <1>7, Induction
<1>9. NotAhead(f[MAX_CURVE_POINT], g[MAX_CURVE_POINT])
  BY <1>4, <1>8
<1>10. f[MAX_CURVE_POINT].output \in Nat /\ g[MAX_CURVE_POINT].output \in Nat
  <2>1. MAX_CURVE_POINT \in 0 .. MAX_CURVE_POINT
    BY <1>4
  <2>2. QED
    BY <1>3, <2>1 DEF BuyState, WalkStates
<1>11. f[MAX_CURVE_POINT].output <= g[MAX_CURVE_POINT].output
  BY <1>9, <1>10 DEF NotAhead
<1>12. QED
  BY <1>5, <1>10, <1>11

-----------------------------------------------------------------------------
(* The client's trading fee.  mulDiv of feeMath.ts, with its shortcuts, is *)
(* mul_div_u256, rounded up.                                               *)
LEMMA MulDivUp ==
  ASSUME NEW x \in Nat, NEW y \in Nat, NEW d \in Nat \ {0}
  PROVE  Computes(mulDiv(x, y, d, "Up"), mul_div_up(x, y, d))
<1>1. CASE d = 1 \/ x = 0 \/ y = 0
  <2>1. mul_div_up(x, y, d) = x * y
    <3>1. CASE d = 1
      <4>1. x * y \in Nat
        BY ProductMonotone
      <4>2. mul_div_up(x, y, 1) = x * y
        BY <4>1 DEF mul_div_up
      <4>3. QED
        BY <3>1, <4>2
    <3>2. CASE x = 0
      BY <3>2, NothingDivided
    <3>3. CASE y = 0
      BY <3>3, NothingDivided
    <3>4. QED
      BY <1>1, <3>1, <3>2, <3>3
  <2>2. mulDiv(x, y, d, "Up") = {x * y}
    BY <1>1 DEF mulDiv
  <2>3. QED
    BY <2>1, <2>2 DEF Computes
<1>2. CASE ~(d = 1 \/ x = 0 \/ y = 0) /\ SmallBN(x) /\ SmallBN(y) /\ SmallBN(d)
  <2>1. mulDiv(x, y, d, "Up") = mulDivBN(x, y, d, "Up")
    BY <1>2 DEF mulDiv
  <2>2. mulDivBN(x, y, d, "Up") = {mul_div_up(x, y, d)}
    BY DEF mulDivBN, mul_div_up
  <2>3. QED
    BY <2>1, <2>2 DEF Computes
<1>3. CASE ~(d = 1 \/ x = 0 \/ y = 0) /\ ~(SmallBN(x) /\ SmallBN(y) /\ SmallBN(d))
  <2>1. mulDiv(x, y, d, "Up") = decimalToBN(x * y, d, "Up")
    BY <1>3 DEF mulDiv
  <2>2. QED
    BY <2>1, ConvertsUp
<1>4. QED
  BY <1>1, <1>2, <1>3

(* The client's capped share of an amount is at least the program's fee.   *)
LEMMA ShareCoversFee ==
  ASSUME NEW amount \in Nat, NEW numerator \in 0 .. MAX_FEE_NUMERATOR
  PROVE  LET share == mul_div_up(amount, CLIENT_MAX_FEE_NUMERATOR, CLIENT_FEE_DENOMINATOR)
         IN  /\ share \in Nat
             /\ mul_div_up(amount, numerator, FEE_DENOMINATOR) \in Nat
             /\ mul_div_up(amount, numerator, FEE_DENOMINATOR) <= share
<1> DEFINE C == CLIENT_FEE_DENOMINATOR
           M == CLIENT_MAX_FEE_NUMERATOR
           D == FEE_DENOMINATOR
           share == mul_div_up(amount, M, C)
           fee == mul_div_up(amount, numerator, D)
<1>1. /\ C \in Nat \ {0} /\ M \in Nat /\ D \in Nat \ {0} /\ MAX_FEE_NUMERATOR \in Nat
      /\ numerator \in Nat /\ numerator <= MAX_FEE_NUMERATOR
      /\ MAX_FEE_NUMERATOR * C <= M * D
  BY ClientAssumption, FeeAssumption, FeeScaleAssumption
<1> HIDE DEF C, M, D
<1>2. share \in Nat /\ amount * M <= share * C
  BY <1>1, RoundedUp
<1>3. /\ fee \in Nat /\ amount * numerator <= fee * D /\ fee * D < amount * numerator + D
  BY <1>1, RoundedUp
<1> HIDE DEF share, fee
<1>4. numerator * C <= MAX_FEE_NUMERATOR * C /\ numerator * C \in Nat /\ MAX_FEE_NUMERATOR * C \in Nat
      /\ M * D \in Nat
  BY <1>1, ProductMonotone
<1>5. numerator * C <= M * D
  BY <1>1, <1>4
<1>6. amount * (numerator * C) <= amount * (M * D)
  BY <1>4, <1>5, ProductMonotone
<1>7. (amount * M) * D <= (share * C) * D
  <2>1. amount * M \in Nat /\ share * C \in Nat
    BY <1>1, <1>2, ProductMonotone
  <2>2. QED
    BY <1>1, <1>2, <2>1, ProductMonotone
<1>8. /\ amount * (numerator * C) = C * (amount * numerator)
      /\ amount * (M * D) = (amount * M) * D
      /\ (share * C) * D = C * (share * D)
  BY <1>1, <1>2
<1> DEFINE a == amount * numerator
           b == share * D
<1>9. a \in Nat /\ b \in Nat /\ C * a <= C * b
  <2>1. a \in Nat /\ b \in Nat
    BY <1>1, <1>2, ProductMonotone
  <2>2. C * a \in Nat /\ C * b \in Nat /\ (amount * M) * D \in Int
    BY <1>1, <1>2, <2>1
  <2>3. QED
    BY <1>6, <1>7, <1>8, <2>1, <2>2
<1>10. a <= b
  <2> HIDE DEF a, b
  <2>1. CASE b < a
    <3>1. C * b < C * a
      BY <1>1, <1>9, <2>1
    <3>2. C * a \in Int /\ C * b \in Int
      BY <1>1, <1>9
    <3>3. QED
      BY <1>9, <3>1, <3>2
  <2>2. QED
    BY <1>9, <2>1
<1>11. share >= fee
  <2>1. /\ a \in Int /\ a <= fee * D /\ fee * D < a + D /\ share * D >= a
    BY <1>3, <1>9, <1>10
  <2> HIDE DEF a, b
  <2>2. QED
    BY <1>1, <1>2, <1>3, <2>1, CeilingIsLeast
<1>12. QED
  BY <1>2, <1>3, <1>11 DEF share, fee, C, M, D

(* The fees of the pool as the program means them: whatever the variable   *)
(* fee, the client charges its highest.                                    *)
LEMMA NumeratorIsCapped ==
  ASSUME TypeOK, NEW point, NEW activation,
         NEW base \in getCurrentBaseFeeNumerator(poolFees.baseFee, point, activation),
         NEW variable \in getVariableFee(poolFees.dynamicFee)
  PROVE  minimum(base + variable, CLIENT_MAX_FEE_NUMERATOR) = CLIENT_MAX_FEE_NUMERATOR
<1>1. BaseFee.period_frequency = 0
  <2>1. get_base_fee_numerator(0, 1) # None
    BY ConfigAssumption DEF Accepts, validate_base_fee
  <2>2. QED
    BY <2>1 DEF get_base_fee_numerator
<1>2. poolFees.baseFee.periodFrequency = 0 /\ poolFees.baseFee.cliffFeeNumerator = BaseFee.cliff_fee_numerator
  BY <1>1 DEF poolFees
<1>3. base = BaseFee.cliff_fee_numerator
  BY <1>2 DEF getCurrentBaseFeeNumerator
<1>4. MIN_FEE_NUMERATOR <= BaseFee.cliff_fee_numerator
  <2>1. MIN_FEE_NUMERATOR <= get_base_fee_numerator(0, 1)
    BY ConfigAssumption DEF Accepts, validate_base_fee
  <2>2. QED
    BY <2>1, BaseFeeIsCliff
<1>5. variable \in Nat
  <2> DEFINE fee == poolFees.dynamicFee
             binned == fee.volatilityAccumulator * fee.binStep
             n == binned * binned * fee.variableFeeControl
  <2>1. /\ fee.volatilityAccumulator \in Nat /\ fee.binStep \in Nat /\ fee.variableFeeControl \in Nat
        /\ CLIENT_V_FEE_SCALE \in Nat \ {0}
    BY FeeAssumption, ClientAssumption, Widths DEF TypeOK, VolatilityTracker, poolFees
  <2> HIDE DEF fee
  <2>2. binned \in Nat
    BY <2>1, ProductMonotone
  <2> HIDE DEF binned
  <2>3. binned * binned \in Nat
    BY <2>2, ProductMonotone
  <2>4. n \in Nat
    BY <2>1, <2>3, ProductMonotone
  <2>5. variable \in {0} \/ variable \in decimalToBN(n + CLIENT_V_FEE_SCALE - 1, CLIENT_V_FEE_SCALE, "Down")
    BY DEF getVariableFee, fee, binned
  <2> HIDE DEF n
  <2>6. n + CLIENT_V_FEE_SCALE - 1 \in Nat
    BY <2>1, <2>4
  <2>7. (n + CLIENT_V_FEE_SCALE - 1) \div CLIENT_V_FEE_SCALE \in Nat
    BY <2>1, <2>6, DivisionOfNat
  <2>8. QED
    BY <2>5, <2>7 DEF decimalToBN, Throws
<1>6. /\ CLIENT_MAX_FEE_NUMERATOR \in Nat /\ MIN_FEE_NUMERATOR \in Nat
      /\ BaseFee.cliff_fee_numerator \in Nat /\ CLIENT_MAX_FEE_NUMERATOR <= MIN_FEE_NUMERATOR
  BY ClientAssumption, FeeAssumption, FeeScaleAssumption
<1> PICK cliff \in Nat : cliff = BaseFee.cliff_fee_numerator
  BY <1>6
<1>7. CLIENT_MAX_FEE_NUMERATOR <= base + variable
  BY <1>3, <1>4, <1>5, <1>6
<1>8. QED
  BY <1>3, <1>5, <1>6, <1>7 DEF minimum

(* So it leaves at most what the program leaves.                           *)
LEMMA FeeIsCautious ==
  ASSUME TypeOK, NEW amount \in Nat, NEW has_referral \in BOOLEAN, NEW point, NEW activation,
         NEW fee \in getFeeOnAmount(amount, poolFees, has_referral, point, activation),
         NEW tracker, tracker.volatility_accumulator \in Nat, NEW time, NEW from
  PROVE  /\ fee.amount \in Nat
         /\ get_fee_on_amount(tracker, amount, has_referral, time, from).amount \in Nat
         /\ fee.amount <= get_fee_on_amount(tracker, amount, has_referral, time, from).amount
<1> DEFINE share == mul_div_up(amount, CLIENT_MAX_FEE_NUMERATOR, CLIENT_FEE_DENOMINATOR)
           numerator == get_total_trading_fee(tracker, time, from)
           total == mul_div_up(amount, numerator, FEE_DENOMINATOR)
           ours == get_fee_on_amount(tracker, amount, has_referral, time, from)
<1>1. ours.amount = amount - total
  BY DEF get_fee_on_amount
<1>2. ours.amount \in Nat
  BY FeeIsSplit
<1>3. numerator \in 0 .. MAX_FEE_NUMERATOR
  BY TradingFeeNumerator
<1> HIDE DEF numerator, ours
<1>4. share \in Nat /\ total \in Nat /\ total <= share
  BY <1>3, ShareCoversFee
<1>5. PICK base \in getCurrentBaseFeeNumerator(poolFees.baseFee, point, activation),
           variable \in getVariableFee(poolFees.dynamicFee) :
        \E trading \in feeShare(amount, base + variable) :
          \E left \in sub(amount, trading) : fee.amount = left
  BY DEF getFeeOnAmount
<1>6. minimum(base + variable, CLIENT_MAX_FEE_NUMERATOR) = CLIENT_MAX_FEE_NUMERATOR
  BY NumeratorIsCapped
<1>7. PICK trading \in mulDiv(amount, CLIENT_MAX_FEE_NUMERATOR, CLIENT_FEE_DENOMINATOR, "Up") :
        \E left \in sub(amount, trading) : fee.amount = left
  BY <1>5, <1>6 DEF feeShare
<1>8. trading = share
  <2>1. Computes(mulDiv(amount, CLIENT_MAX_FEE_NUMERATOR, CLIENT_FEE_DENOMINATOR, "Up"), share)
    BY ClientAssumption, MulDivUp
  <2> HIDE DEF share
  <2>2. QED
    BY <1>7, <2>1 DEF Computes, Throws
<1> HIDE DEF share, total
<1>9. share <= amount /\ fee.amount = amount - share
  BY <1>4, <1>7, <1>8 DEF sub, Throws
<1>10. fee.amount \in Nat /\ fee.amount <= ours.amount
  BY <1>1, <1>4, <1>9
<1>11. QED
  BY <1>2, <1>10 DEF ours

-----------------------------------------------------------------------------
(* The pool the client fetches has the price 0, from which its loop finds  *)
(* no way: there is no quote of any amount but none.                       *)
LEMMA NothingFromZero ==
  ASSUME NEW amount, NEW quote \in getSwapAmountFromQuoteToBase(configState.curve, 0, amount)
  PROVE  amount = 0 /\ quote.outputAmount = 0
<1> DEFINE P == pointsSeen(configState.curve)
           f == buyWalks(configState.curve, 0, amount)
           T == {m \in Nat : m + 1 <= P => f[m + 1] = {}}
<1>1. CASE amount = 0
  BY <1>1 DEF getSwapAmountFromQuoteToBase, swapAmount
<1>2. CASE amount # 0
  <2>1. P \in 1 .. MAX_CURVE_POINT /\ P \in Nat /\ 1 \in 1 .. MAX_CURVE_POINT
    BY ClientPoints, CurveFacts
  <2>2. /\ f[0] = {startWalk(0, amount)}
        /\ \A i \in 1 .. P : f[i] = UNION {buyStep(configState.curve, i, walk) : walk \in f[i - 1]}
    BY <2>1, ClientBuyLoop
  <2>3. quote \in UNION {swapAmounts(walk) : walk \in {w \in f[P] : w.amountLeft = 0}}
    BY <1>2 DEF getSwapAmountFromQuoteToBase
  <2> HIDE DEF f, P
  <2>4. buyStep(configState.curve, 1, startWalk(0, amount)) = {}
    <3> DEFINE w == startWalk(0, amount)
               u == configState.curve[1].sqrtPrice
               L == configState.curve[1].liquidity
    <3>1. u \in Nat \ {0} /\ L \in Nat \ {0}
      <4>1. 1 \in 1 .. Segments /\ 1 \in 0 .. Segments
        BY CurveFacts
      <4>2. 1 <= Segments
        BY <4>1
      <4>3. u = Price(1) /\ L = Liquidity(1)
        BY <2>1, <4>2, ClientCurve, CurvePoints
      <4>4. QED
        BY <4>1, <4>3, CurveFacts
    <3>2. w.sqrtPrice = 0 /\ w.amountLeft = amount /\ w.done = FALSE
      BY DEF startWalk
    <3> HIDE DEF w, u, L
    <3>3. buyStep(configState.curve, 1, w) = buySegment(w, u, L)
      BY <3>1, <3>2 DEF buyStep, u, L
    <3>4. getNextSqrtPriceFromInput(0, L, amount, FALSE) = {}
      BY DEF getNextSqrtPriceFromInput, Throws
    <3>5. getDeltaAmountBaseUnsigned(0, u, L, "Down") = {}
      BY <3>1 DEF getDeltaAmountBaseUnsigned, Throws
    <3>6. buySegment(w, u, L) = {}
      <4> SUFFICES ASSUME NEW walk \in buySegment(w, u, L) PROVE FALSE
        OBVIOUS
      <4> DEFINE nexts(max_in) == IF amount < max_in
                                  THEN getNextSqrtPriceFromInput(0, L, amount, FALSE) ELSE {u}
                 outputs(next) == getDeltaAmountBaseUnsigned(0, next, L, "Down")
                 ends(max_in, next) == {afterSegment(w, max_in, next, output) : output \in outputs(next)}
                 max_ins == getDeltaAmountQuoteUnsigned(0, u, L, "Up")
      <4>1. buySegment(w, u, L) =
              UNION {UNION {ends(max_in, next) : next \in nexts(max_in)} : max_in \in max_ins}
        BY <3>2 DEF buySegment
      <4>2. \A max_in : \A next \in nexts(max_in) : next = u
        BY <3>4
      <4>3. outputs(u) = {}
        BY <3>5
      <4> HIDE DEF nexts, outputs, max_ins
      <4>4. \A max_in : ends(max_in, u) = {}
        BY <4>3
      <4> HIDE DEF ends
      <4>5. QED
        BY <4>1, <4>2, <4>4
    <3>7. QED
      BY <3>3, <3>6 DEF w
  <2>5. f[1] = {}
    BY <2>1, <2>2, <2>4
  <2>6. 0 \in T
    BY <2>5
  <2>7. ASSUME NEW m \in Nat, m \in T PROVE m + 1 \in T
    <3> SUFFICES ASSUME m + 2 <= P PROVE f[m + 2] = {}
      BY <2>1
    <3>1. m + 2 \in 1 .. P /\ (m + 2) - 1 = m + 1 /\ m + 1 <= P
      BY <2>1
    <3>2. f[m + 1] = {}
      BY <2>7, <3>1
    <3>3. QED
      BY <2>2, <3>1, <3>2
  <2>8. Nat \subseteq T
    <3> HIDE DEF T
    <3>1. QED
      BY <2>6, <2>7, Induction
  <2>9. f[P] = {}
    <3>1. P - 1 \in Nat /\ (P - 1) + 1 = P
      BY <2>1
    <3>2. P - 1 \in T
      BY <2>8, <3>1
    <3>3. QED
      BY <3>1, <3>2
  <2>10. QED
    BY <2>3, <2>9
<1>3. QED
  BY <1>1, <1>2

(* swapQuote of the fetched pool.                                          *)
LEMMA FetchedQuoteIsNothing ==
  ASSUME NEW order \in Order, order.amountIn > 0, NEW point, NEW result \in swapQuote(order, point)
  PROVE  result.outputAmount = 0
<1> DEFINE mode == getFeeMode(configState.collectFeeMode, "QuoteToBase", order.has_referral)
           feeOn(amount) == getFeeOnAmount(amount, fetchedPool.poolFees, mode.hasReferral,
                                           point, fetchedPool.activationPoint)
           walked(amount) == getSwapAmountFromQuoteToBase(configState.curve, 0, amount)
<1>1. fetchedPool.sqrtPrice = 0
  BY DEF fetchedPool
<1>2. result \in getSwapResult(fetchedPool, configState, order.amountIn, mode, "QuoteToBase", point)
  BY DEF swapQuote, swapResultOf
<1> HIDE DEF mode
<1>3. CASE mode.feesOnInput
  <2>1. \E fee \in feeOn(order.amountIn) : \E walk \in walked(fee.amount) :
          result.outputAmount = walk.outputAmount
    BY <1>1, <1>2, <1>3 DEF getSwapResult
  <2> HIDE DEF feeOn
  <2>2. QED
    BY <2>1, NothingFromZero
<1>4. CASE ~mode.feesOnInput
  <2>1. \E walk \in walked(order.amountIn) : TRUE
    BY <1>1, <1>2, <1>4 DEF getSwapResult
  <2>2. order.amountIn = 0
    BY <2>1, NothingFromZero
  <2>3. QED
    BY <2>2
<1>5. QED
  BY <1>3, <1>4

-----------------------------------------------------------------------------
(* A sale of any amount pays a natural number.                             *)
LEMMA SalePays ==
  ASSUME NEW price \in Nat, NEW reserve \in Int, NEW issued \in Int,
         OnCurve(price, reserve, issued), NEW amount \in Nat
  PROVE  get_swap_amount_from_base_to_quote(Curve, price, amount).output_amount \in Nat
<1> DEFINE x == base_to_quote_walk(Curve, price, amount)[MAX_CURVE_POINT - 1]
           p == x.sqrt_price
           left == x.amount_left
           L == Liquidity(1)
           next == get_next_sqrt_price_from_amount_base_rounding_up(p, L, left)
           received == get_delta_amount_quote_down(next, p, L)
<1>1. /\ 1 \in 1 .. Segments /\ 1 \in 1 .. MAX_CURVE_POINT /\ 1 <= Segments
      /\ L \in Nat \ {0} /\ ONE_SQUARED \in Nat \ {0}
  BY CurveFacts
<1>2. Curve[1].liquidity = L
  BY <1>1, CurvePoints
<1>3. get_swap_amount_from_base_to_quote(Curve, price, amount).output_amount = x.output + received
  BY <1>2 DEF get_swap_amount_from_base_to_quote
<1>4. SellState(1, x, amount, reserve, issued)
  BY SellWalk
<1> HIDE DEF x, L
<1>5. /\ p \in Nat /\ left \in 0 .. amount /\ left \in Nat /\ x.output \in Nat
      /\ OnCurve(p, reserve - x.output, issued - (amount - left))
  BY <1>4 DEF SellState, WalkStates
<1>6. p \in Nat \ {0}
  <2>1. reserve - x.output \in Int /\ issued - (amount - left) \in Int
    BY <1>5
  <2>2. p # 0
    BY <1>5, <2>1, OnCurvePrice
  <2> HIDE DEF p
  <2>3. QED
    BY <1>5, <2>2
<1>7. next \in Nat /\ next <= p
  BY <1>1, <1>5, <1>6, PriceAfterSale
<1>8. received \in Nat
  <2>1. p - next \in Nat
    BY <1>5, <1>7
  <2> HIDE DEF next
  <2>2. QED
    BY <1>1, <2>1, MulDiv DEF get_delta_amount_quote_down
<1>9. QED
  BY <1>3, <1>5, <1>8

(* The parts of a result of getSwapResult: the walk and the fee.           *)
LEMMA ResultParts ==
  ASSUME NEW order, NEW direction, NEW point,
         NEW result \in swapResultOf(poolState, direction, order, point)
  PROVE  LET feeOn(amount) == getFeeOnAmount(amount, poolFees, order.has_referral, point,
                                             ACTIVATION_POINT)
             walked(amount) ==
               IF direction = "BaseToQuote"
               THEN getSwapAmountFromBaseToQuote(configState.curve, sqrt_price, amount)
               ELSE getSwapAmountFromQuoteToBase(configState.curve, sqrt_price, amount)
         IN  IF COLLECT_FEE_MODE = "QuoteToken" /\ direction = "QuoteToBase"
             THEN \E fee \in feeOn(order.amountIn) : \E walk \in walked(fee.amount) :
                    result.outputAmount = walk.outputAmount
             ELSE \E walk \in walked(order.amountIn) : \E fee \in feeOn(walk.outputAmount) :
                    result.outputAmount = fee.amount
<1> DEFINE mode == getFeeMode(configState.collectFeeMode, direction, order.has_referral)
           feeOn(amount) == getFeeOnAmount(amount, poolFees, order.has_referral, point,
                                           ACTIVATION_POINT)
           walked(amount) ==
             IF direction = "BaseToQuote"
             THEN getSwapAmountFromBaseToQuote(configState.curve, sqrt_price, amount)
             ELSE getSwapAmountFromQuoteToBase(configState.curve, sqrt_price, amount)
<1>1. result \in getSwapResult(poolState, configState, order.amountIn, mode, direction, point)
  BY DEF swapResultOf
<1>2. /\ poolState.poolFees = poolFees /\ poolState.sqrtPrice = sqrt_price
      /\ poolState.activationPoint = ACTIVATION_POINT
  BY DEF poolState
<1>3. /\ mode.hasReferral = order.has_referral
      /\ mode.feesOnInput <=> COLLECT_FEE_MODE = "QuoteToken" /\ direction = "QuoteToBase"
  BY DEF getFeeMode, configState
<1> HIDE DEF mode
<1>4. CASE mode.feesOnInput
  <2>1. \E fee \in feeOn(order.amountIn) : \E walk \in walked(fee.amount) :
          result.outputAmount = walk.outputAmount
    BY <1>1, <1>2, <1>3, <1>4 DEF getSwapResult
  <2> HIDE DEF feeOn, walked
  <2>2. QED
    BY <1>3, <1>4, <2>1 DEF feeOn, walked
<1>5. CASE ~mode.feesOnInput
  <2>1. \E walk \in walked(order.amountIn) : \E fee \in feeOn(walk.outputAmount) :
          result.outputAmount = fee.amount
    BY <1>1, <1>2, <1>3, <1>5 DEF getSwapResult
  <2> HIDE DEF feeOn, walked
  <2>2. QED
    BY <1>3, <1>5, <2>1 DEF feeOn, walked
<1>6. QED
  BY <1>4, <1>5

-----------------------------------------------------------------------------
(* What the program pays for an order, and what the client quotes for it   *)
(* from the pool as the program means it: a sale ...                       *)
LEMMA SaleQuoteIsCautious ==
  ASSUME TypeOK, CurveBooks, NEW order \in Order, order.direction = "BaseToQuote", NEW point
  PROVE  /\ program_outcome(order).result.output_amount \in Nat
         /\ saleIsSeen =>
              \A result \in swapResultOf(poolState, order.direction, order, point) :
                result.outputAmount <= program_outcome(order).result.output_amount
<1> DEFINE mode    == get_fee_mode(order.direction, order.has_referral)
           tracker == update_pre_swap(volatility_tracker, sqrt_price, now)
           ours(amount) == get_fee_on_amount(tracker, amount, order.has_referral, now, ACTIVATION_POINT)
           theirs(amount) == getFeeOnAmount(amount, poolFees, order.has_referral, point, ACTIVATION_POINT)
           sale    == get_swap_amount_from_base_to_quote(Curve, sqrt_price, order.amountIn)
           walked  == getSwapAmountFromBaseToQuote(configState.curve, sqrt_price, order.amountIn)
<1>1. order.amountIn \in Nat /\ order.has_referral \in BOOLEAN
  BY BoundAssumption DEF Order
<1>2. tracker.volatility_accumulator \in Nat
  BY Widths DEF TypeOK, VolatilityTracker, update_pre_swap, update_references
<1>3. program_outcome(order).result.output_amount = ours(sale.output_amount).amount
  BY DEF program_outcome, swap_of, poolCopy, swap_result_at, get_fee_mode
<1>4. ASSUME NEW result \in swapResultOf(poolState, order.direction, order, point)
      PROVE  \E walk \in walked : \E fee \in theirs(walk.outputAmount) : result.outputAmount = fee.amount
  BY <1>4, ResultParts
<1> HIDE DEF tracker
<1>5. /\ sale.output_amount \in Nat
      /\ saleIsSeen => \A walk \in walked : walk.outputAmount = sale.output_amount
  <2>1. sqrt_price \in Nat /\ quote_reserve \in Nat /\ sold \in Int
    BY PoolQuantities
  <2>2. PICK price \in Nat, reserve \in Int, issued \in Int, n \in Nat :
          price = sqrt_price /\ reserve = quote_reserve /\ issued = sold /\ n = order.amountIn
    BY <1>1, <2>1
  <2>3. OnCurve(price, reserve, issued)
    BY <2>2 DEF CurveBooks
  <2>4. sale = get_swap_amount_from_base_to_quote(Curve, price, n)
    BY <2>2
  <2>5. walked = getSwapAmountFromBaseToQuote(configState.curve, price, n)
    BY <2>2
  <2> HIDE DEF sale, walked
  <2>6. sale.output_amount \in Nat
    BY <2>3, <2>4, SalePays
  <2>7. ASSUME saleIsSeen, NEW walk \in walked PROVE walk.outputAmount = sale.output_amount
    <3>1. pointsSeen(configState.curve) < Len(configState.curve) =>
            price <= configState.curve[pointsSeen(configState.curve) + 1].sqrtPrice
      BY <2>2, <2>7 DEF saleIsSeen
    <3>2. Computes(walked, swapAmount(sale.output_amount, sale.next_sqrt_price))
      BY <2>3, <2>4, <2>5, <3>1, SaleComputes
    <3>3. walk = swapAmount(sale.output_amount, sale.next_sqrt_price)
      BY <2>7, <3>2 DEF Computes, Throws
    <3>4. QED
      BY <3>3 DEF swapAmount
  <2>8. QED
    BY <2>6, <2>7
<1> HIDE DEF sale, walked
<1>6. ours(sale.output_amount).amount \in Nat
  BY <1>1, <1>2, <1>5, FeeIsSplit
<1>7. ASSUME saleIsSeen, NEW result \in swapResultOf(poolState, order.direction, order, point)
      PROVE  result.outputAmount <= ours(sale.output_amount).amount
  <2> HIDE DEF ours, theirs
  <2>1. PICK fee \in theirs(sale.output_amount) : result.outputAmount = fee.amount
    BY <1>4, <1>5, <1>7
  <2>2. fee.amount <= ours(sale.output_amount).amount
    BY <1>1, <1>2, <1>5, <2>1, FeeIsCautious DEF ours, theirs
  <2>3. QED
    BY <2>1, <2>2
<1> HIDE DEF ours
<1>8. QED
  BY <1>3, <1>6, <1>7

(* ... and a buy, with its fee on either side.                             *)
LEMMA BuyQuoteIsCautious ==
  ASSUME TypeOK, CurveBooks, NEW order \in Order, order.direction = "QuoteToBase", NEW point
  PROVE  /\ program_outcome(order).result.output_amount \in Nat
         /\ \A result \in swapResultOf(poolState, order.direction, order, point) :
              result.outputAmount <= program_outcome(order).result.output_amount
<1> DEFINE tracker == update_pre_swap(volatility_tracker, sqrt_price, now)
           ours(amount) == get_fee_on_amount(tracker, amount, order.has_referral, now, ACTIVATION_POINT)
           theirs(amount) == getFeeOnAmount(amount, poolFees, order.has_referral, point, ACTIVATION_POINT)
           buy(amount) == get_swap_amount_from_quote_to_base(Curve, sqrt_price, amount)
           walked(amount) == getSwapAmountFromQuoteToBase(configState.curve, sqrt_price, amount)
           amountIn == order.amountIn
           given == program_outcome(order).result.output_amount
           quotes == swapResultOf(poolState, order.direction, order, point)
<1>1. amountIn \in Nat /\ order.has_referral \in BOOLEAN
  BY BoundAssumption DEF Order
<1>2. tracker.volatility_accumulator \in Nat
  BY Widths DEF TypeOK, VolatilityTracker, update_pre_swap, update_references
<1>3. given = IF COLLECT_FEE_MODE = "QuoteToken"
             THEN buy(ours(amountIn).amount).output_amount
             ELSE ours(buy(amountIn).output_amount).amount
  BY DEF program_outcome, swap_of, poolCopy, swap_result_at, get_fee_mode
<1>4. ASSUME COLLECT_FEE_MODE = "QuoteToken", NEW result \in quotes
      PROVE  \E fee \in theirs(amountIn) : \E walk \in walked(fee.amount) :
               result.outputAmount = walk.outputAmount
  BY <1>4, ResultParts
<1>5. ASSUME COLLECT_FEE_MODE # "QuoteToken", NEW result \in quotes
      PROVE  \E walk \in walked(amountIn) : \E fee \in theirs(walk.outputAmount) :
               result.outputAmount = fee.amount
  BY <1>5, ResultParts
<1> HIDE DEF tracker, amountIn, given, quotes
<1>6. ASSUME NEW amount \in Nat
      PROVE  /\ buy(amount).output_amount \in Nat
             /\ \A walk \in walked(amount) : walk.outputAmount = buy(amount).output_amount
             /\ \A more \in Nat : amount <= more =>
                  buy(amount).output_amount <= buy(more).output_amount
  <2>1. sqrt_price \in Nat /\ quote_reserve \in Nat /\ sold \in Int
    BY PoolQuantities
  <2>2. PICK price \in Nat, reserve \in Int, issued \in Int :
          price = sqrt_price /\ reserve = quote_reserve /\ issued = sold
    BY <2>1
  <2>3. OnCurve(price, reserve, issued)
    BY <2>2 DEF CurveBooks
  <2>4. \A a : buy(a) = get_swap_amount_from_quote_to_base(Curve, price, a)
    BY <2>2
  <2>5. \A a : walked(a) = getSwapAmountFromQuoteToBase(configState.curve, price, a)
    BY <2>2
  <2> HIDE DEF buy, walked
  <2>6. amount <= amount
    OBVIOUS
  <2>7. buy(amount).output_amount \in Nat
    BY <2>3, <2>4, <2>6, BuyGrows
  <2>8. ASSUME NEW walk \in walked(amount) PROVE walk.outputAmount = buy(amount).output_amount
    <3>1. walk \in getSwapAmountFromQuoteToBase(configState.curve, price, amount)
      BY <2>5, <2>8
    <3>2. PICK bought : bought = get_swap_amount_from_quote_to_base(Curve, price, amount)
      OBVIOUS
    <3>3. walk = swapAmount(bought.output_amount, bought.next_sqrt_price)
      BY <2>3, <3>1, <3>2, BuyComputes
    <3>4. QED
      BY <2>4, <3>2, <3>3 DEF swapAmount
  <2>9. ASSUME NEW more \in Nat, amount <= more
        PROVE  buy(amount).output_amount <= buy(more).output_amount
    BY <2>3, <2>4, <2>9, BuyGrows
  <2>10. QED
    BY <2>7, <2>8, <2>9
<1>7. ASSUME NEW amount \in Nat, NEW fee \in theirs(amount)
      PROVE  fee.amount \in Nat /\ fee.amount <= ours(amount).amount
  BY <1>1, <1>2, <1>7, FeeIsCautious
<1>8. ASSUME NEW amount \in Nat PROVE ours(amount).amount \in Nat
  BY <1>1, <1>2, FeeIsSplit
<1> HIDE DEF ours, theirs, buy, walked
<1>9. CASE COLLECT_FEE_MODE = "QuoteToken"
  <2>1. given = buy(ours(amountIn).amount).output_amount /\ ours(amountIn).amount \in Nat
    BY <1>1, <1>3, <1>8, <1>9
  <2>2. given \in Nat
    BY <1>6, <2>1
  <2>3. ASSUME NEW result \in quotes PROVE result.outputAmount <= given
    <3>1. PICK fee \in theirs(amountIn) : \E walk \in walked(fee.amount) :
            result.outputAmount = walk.outputAmount
      BY <1>4, <1>9, <2>3
    <3>2. fee.amount \in Nat /\ fee.amount <= ours(amountIn).amount
      BY <1>1, <1>7, <3>1
    <3>3. result.outputAmount = buy(fee.amount).output_amount
      BY <1>6, <3>1, <3>2
    <3>4. QED
      BY <1>6, <2>1, <3>2, <3>3
  <2>4. QED
    BY <2>2, <2>3 DEF given, quotes
<1>10. CASE COLLECT_FEE_MODE # "QuoteToken"
  <2>1. given = ours(buy(amountIn).output_amount).amount /\ buy(amountIn).output_amount \in Nat
    BY <1>1, <1>3, <1>6, <1>10
  <2>2. given \in Nat
    BY <1>8, <2>1
  <2>3. ASSUME NEW result \in quotes PROVE result.outputAmount <= given
    <3>1. PICK walk \in walked(amountIn) : \E fee \in theirs(walk.outputAmount) :
            result.outputAmount = fee.amount
      BY <1>5, <1>10, <2>3
    <3>2. walk.outputAmount = buy(amountIn).output_amount
      BY <1>1, <1>6, <3>1
    <3>3. PICK fee \in theirs(buy(amountIn).output_amount) : result.outputAmount = fee.amount
      BY <3>1, <3>2
    <3>4. QED
      BY <1>7, <2>1, <3>3
  <2>4. QED
    BY <2>2, <2>3 DEF given, quotes
<1>11. QED
  BY <1>9, <1>10

(* Whatever is wrong with the client's constants, with its curve length    *)
(* and with the account it decodes, and whatever numbers it cannot read: a *)
(* quote of its is at most what the trade pays.                            *)
THEOREM QuotesAreCautious == QuoteSpec => []QuoteNeverOverpromises
<1>1. TypeOK /\ CurveBooks => QuoteNeverOverpromises
  <2> SUFFICES ASSUME TypeOK, CurveBooks, NEW order \in Order, NEW point \in ClientClock,
                      order.amountIn > 0
               PROVE  LET outcome == program_outcome(order)
                      IN  /\ (order.direction = "BaseToQuote" => saleIsSeen) =>
                               \A result \in swapResultOf(poolState, order.direction, order, point) :
                                 result.outputAmount <= outcome.result.output_amount
                          /\ \A result \in swapQuote(order, point) :
                               result.outputAmount <= outcome.result.output_amount
    BY DEF QuoteNeverOverpromises
  <2> DEFINE given == program_outcome(order).result.output_amount
             quotes == swapResultOf(poolState, order.direction, order, point)
  <2>1. /\ given \in Nat
        /\ (order.direction = "BaseToQuote" => saleIsSeen) =>
             \A result \in quotes : result.outputAmount <= given
    <3>1. CASE order.direction = "BaseToQuote"
      BY <3>1, SaleQuoteIsCautious
    <3>2. CASE order.direction = "QuoteToBase"
      BY <3>2, BuyQuoteIsCautious
    <3>3. order.direction \in {"BaseToQuote", "QuoteToBase"}
      BY DEF Order, TradeDirection
    <3>4. QED
      BY <3>1, <3>2, <3>3
  <2>2. ASSUME NEW result \in swapQuote(order, point) PROVE result.outputAmount <= given
    <3>1. result.outputAmount = 0
      BY <2>2, FetchedQuoteIsNothing
    <3> HIDE DEF given
    <3>2. QED
      BY <2>1, <3>1
  <2> HIDE DEF given, quotes
  <2>3. QED
    BY <2>1, <2>2 DEF given, quotes
<1>2. QED
  BY <1>1, QuotedPoolIsPool, PoolTypeCorrect, PoolOnCurve, PTL
=============================================================================
