----------------------------- MODULE PoolProofs -----------------------------
(***************************************************************************)
(* One pool, for every config that create_config accepts, every amount     *)
(* traded and every order of instructions: the widths of its fields, and   *)
(* what its curve promises to the traders.                                 *)
(***************************************************************************)
EXTENDS VirtualPool, WalkProofs

(* What create_config establishes of the constants of a pool.              *)
LEMMA ConfigFacts ==
  /\ migration_quote_threshold \in Nat /\ migration_quote_threshold > 0
  /\ migration_base_threshold \in Nat
  /\ initial_base_supply \in U64
  /\ vesting_total \in Nat
  /\ sqrt_start_price \in U128
<1>1. /\ migration_quote_threshold \in U64 /\ migration_quote_threshold # 0
      /\ migration_base_threshold \in U64
      /\ initial_base_supply \in U64
      /\ vesting_total \in U64
  BY ConfigAssumption DEF Accepts, validate_vesting
<1>2. sqrt_start_price \in U128
  BY ConfigAssumption DEF U128
<1>3. QED
  BY <1>1, <1>2, Widths

-----------------------------------------------------------------------------
(* Swaps.                                                                  *)
(* Whatever the direction, the fee mode and the referral: a vault moves    *)
(* exactly as its reserve and its two pending fees do.                     *)
Balanced(trading_quote, protocol_quote, trading_base, protocol_base, quote, base) ==
  /\ trading_quote_fee' = trading_quote_fee + trading_quote
  /\ protocol_quote_fee' = protocol_quote_fee + protocol_quote
  /\ trading_base_fee' = trading_base_fee + trading_base
  /\ protocol_base_fee' = protocol_base_fee + protocol_base
  /\ metrics' = [trading_base   |-> metrics.trading_base + trading_base,
                 trading_quote  |-> metrics.trading_quote + trading_quote,
                 protocol_base  |-> metrics.protocol_base + protocol_base,
                 protocol_quote |-> metrics.protocol_quote + protocol_quote]
  /\ quote_reserve' = quote_reserve + quote
  /\ quote_vault' = quote_vault + quote + trading_quote + protocol_quote
  /\ base_reserve' = base_reserve + base
  /\ base_vault' = base_vault + base + trading_base + protocol_base

SwapBalances ==
  \E trading_quote \in Nat, protocol_quote \in Nat, trading_base \in Nat, protocol_base \in Nat,
     quote \in Int, base \in Int :
    Balanced(trading_quote, protocol_quote, trading_base, protocol_base, quote, base)

(* The six amounts by which a swap moves the books, as witnesses.          *)
LEMMA BalancedWitness ==
  ASSUME NEW a \in Nat, NEW b \in Nat, NEW c \in Nat, NEW d \in Nat, NEW e \in Int, NEW f \in Int,
         Balanced(a, b, c, d, e, f)
  PROVE  SwapBalances
BY Zenon DEF SwapBalances

(* What is known of the outcome of a swap, whatever the curve computed.    *)
LEMMA SwapOutcome ==
  ASSUME TypeOK, NEW direction \in TradeDirection, NEW amount_in \in Nat,
         NEW least \in Nat, NEW has_referral \in BOOLEAN, Swap(direction, amount_in, least, has_referral)
  PROVE  \E result, tracker :
           LET mode == get_fee_mode(direction, has_referral)
           IN  /\ result \in SwapResult
               /\ apply_swap_result(result, mode, direction, tracker)
               /\ swap_transfers(result, mode, direction, amount_in)
               /\ mode.fees_on_input =>
                    amount_in = result.actual_input_amount + result.trading_fee
                                  + result.protocol_fee + result.referral_fee
               /\ ~mode.fees_on_input => result.actual_input_amount = amount_in
<1> DEFINE mode    == get_fee_mode(direction, has_referral)
           tracker == update_pre_swap(volatility_tracker, sqrt_price, now)
           outcome == get_swap_result(tracker, amount_in, mode, direction)
           result  == outcome.result
           fee     == get_fee_on_amount(tracker, amount_in, mode.has_referral, now, ACTIVATION_POINT)
<1>1. /\ result \in SwapResult
      /\ apply_swap_result(result, mode, direction, tracker)
      /\ swap_transfers(result, mode, direction, amount_in)
  BY DEF Swap
<1>2. tracker.volatility_accumulator \in Nat
  BY Widths DEF TypeOK, VolatilityTracker, update_pre_swap, update_references
<1>3. mode.has_referral \in BOOLEAN
  BY DEF get_fee_mode
<1>4. ~mode.fees_on_input => result.actual_input_amount = amount_in
  BY DEF get_swap_result, swap_result_at
<1>5. mode.fees_on_input => /\ result.actual_input_amount = fee.amount
                            /\ result.trading_fee = fee.trading_fee
                            /\ result.protocol_fee = fee.protocol_fee
                            /\ result.referral_fee = fee.referral_fee
  BY DEF get_swap_result, swap_result_at
<1>6. amount_in = fee.amount + fee.trading_fee + fee.protocol_fee + fee.referral_fee
  <2> HIDE DEF tracker, mode
  <2>1. QED
    BY <1>2, <1>3, FeeIsSplit
<1> HIDE DEF mode, tracker, outcome, result, fee
<1>7. mode.fees_on_input =>
        amount_in = result.actual_input_amount + result.trading_fee
                      + result.protocol_fee + result.referral_fee
  BY <1>5, <1>6
<1>8. QED
  BY <1>1, <1>4, <1>7 DEF mode

(* A swap moves vaults, reserves, fees and metrics by the same amounts.    *)
LEMMA SwapBooks ==
  ASSUME TypeOK, NEW direction \in TradeDirection, NEW amount_in \in Nat,
         NEW least \in Nat, NEW has_referral \in BOOLEAN, Swap(direction, amount_in, least, has_referral)
  PROVE  SwapBalances /\ outside_base' \in Nat /\ sqrt_price' \in U128
<1> DEFINE mode == get_fee_mode(direction, has_referral)
<1>1. PICK result, tracker :
        /\ result \in SwapResult
        /\ apply_swap_result(result, mode, direction, tracker)
        /\ swap_transfers(result, mode, direction, amount_in)
        /\ mode.fees_on_input =>
             amount_in = result.actual_input_amount + result.trading_fee
                           + result.protocol_fee + result.referral_fee
        /\ ~mode.fees_on_input => result.actual_input_amount = amount_in
  BY SwapOutcome
<1>2. PICK input \in Nat, output \in Nat, trading \in Nat, protocol \in Nat, referral \in Nat :
        /\ input = result.actual_input_amount /\ output = result.output_amount
        /\ trading = result.trading_fee /\ protocol = result.protocol_fee
        /\ referral = result.referral_fee
  BY <1>1, Widths DEF SwapResult
<1>3. /\ outside_base \in Nat
      /\ base_reserve \in Nat /\ quote_reserve \in Nat /\ base_vault \in Nat /\ quote_vault \in Nat
      /\ trading_base_fee \in Nat /\ trading_quote_fee \in Nat
      /\ protocol_base_fee \in Nat /\ protocol_quote_fee \in Nat
      /\ metrics.trading_base \in Nat /\ metrics.trading_quote \in Nat
      /\ metrics.protocol_base \in Nat /\ metrics.protocol_quote \in Nat
  BY Widths DEF TypeOK, PoolMetrics
<1>4. sqrt_price' \in U128
  BY <1>1 DEF apply_swap_result, SwapResult
<1>5. CASE direction = "BaseToQuote"
  <2>1. mode.fees_on_input = FALSE /\ mode.fees_on_base_token = FALSE
    BY <1>5 DEF get_fee_mode
  <2>2. input = amount_in
    BY <1>1, <1>2, <2>1
  <2>3. Balanced(trading, protocol, 0, 0, 0 - (output + trading + protocol + referral), amount_in)
    <3>1. /\ trading_base_fee' = trading_base_fee + 0
          /\ trading_quote_fee' = trading_quote_fee + trading
          /\ protocol_base_fee' = protocol_base_fee + 0
          /\ protocol_quote_fee' = protocol_quote_fee + protocol
          /\ metrics' = [trading_base   |-> metrics.trading_base + 0,
                         trading_quote  |-> metrics.trading_quote + trading,
                         protocol_base  |-> metrics.protocol_base + 0,
                         protocol_quote |-> metrics.protocol_quote + protocol]
      BY <1>1, <1>2, <2>1 DEF apply_swap_result
    <3>2. /\ base_reserve' = base_reserve + input
          /\ quote_reserve' = quote_reserve - (output + trading + protocol + referral)
      BY <1>1, <1>2, <1>5, <2>1 DEF apply_swap_result, reserve_out
    <3>3. /\ base_vault' = base_vault + amount_in
          /\ quote_vault' = quote_vault - output - referral
      BY <1>1, <1>2, <1>5, <2>1 DEF swap_transfers
    <3>4. QED
      BY <1>3, <2>2, <3>1, <3>2, <3>3 DEF Balanced
  <2>4. outside_base' \in Nat
    BY <1>1, <1>3, <1>5 DEF swap_transfers
  <2>5. SwapBalances
    <3>1. 0 - (output + trading + protocol + referral) \in Int /\ amount_in \in Int /\ input \in Int /\ 0 \in Nat
      OBVIOUS
    <3>2. QED
      BY <2>3, <3>1, BalancedWitness
  <2>6. QED
    BY <1>4, <2>4, <2>5
<1>6. CASE direction = "QuoteToBase" /\ mode.fees_on_input
  <2>1. mode.fees_on_base_token = FALSE
    BY <1>6 DEF get_fee_mode
  <2>2. amount_in = input + trading + protocol + referral
    BY <1>1, <1>2, <1>6
  <2>3. Balanced(trading, protocol, 0, 0, input, 0 - output)
    <3>1. /\ trading_base_fee' = trading_base_fee + 0
          /\ trading_quote_fee' = trading_quote_fee + trading
          /\ protocol_base_fee' = protocol_base_fee + 0
          /\ protocol_quote_fee' = protocol_quote_fee + protocol
          /\ metrics' = [trading_base   |-> metrics.trading_base + 0,
                         trading_quote  |-> metrics.trading_quote + trading,
                         protocol_base  |-> metrics.protocol_base + 0,
                         protocol_quote |-> metrics.protocol_quote + protocol]
      BY <1>1, <1>2, <2>1 DEF apply_swap_result
    <3>2. /\ quote_reserve' = quote_reserve + input
          /\ base_reserve' = base_reserve - output
      BY <1>1, <1>2, <1>6, <2>1 DEF apply_swap_result, reserve_out
    <3>3. /\ quote_vault' = quote_vault + amount_in - (referral - 0)
          /\ base_vault' = base_vault - output - 0
      BY <1>1, <1>2, <1>6, <2>1 DEF swap_transfers
    <3>4. QED
      BY <1>3, <2>2, <3>1, <3>2, <3>3 DEF Balanced
  <2>4. outside_base' \in Nat
    BY <1>1, <1>2, <1>3, <1>6, <2>1 DEF swap_transfers
  <2>5. SwapBalances
    <3>1. 0 - output \in Int /\ amount_in \in Int /\ input \in Int /\ 0 \in Nat
      OBVIOUS
    <3>2. QED
      BY <2>3, <3>1, BalancedWitness
  <2>6. QED
    BY <1>4, <2>4, <2>5
<1>7. CASE direction = "QuoteToBase" /\ ~mode.fees_on_input
  <2>1. COLLECT_FEE_MODE = "OutputToken" /\ mode.fees_on_base_token = TRUE
    BY <1>7, FeeAssumption DEF get_fee_mode
  <2>2. input = amount_in
    BY <1>1, <1>2, <1>7
  <2>3. Balanced(0, 0, trading, protocol, amount_in, 0 - (output + trading + protocol + referral))
    <3>1. /\ trading_base_fee' = trading_base_fee + trading
          /\ trading_quote_fee' = trading_quote_fee + 0
          /\ protocol_base_fee' = protocol_base_fee + protocol
          /\ protocol_quote_fee' = protocol_quote_fee + 0
          /\ metrics' = [trading_base   |-> metrics.trading_base + trading,
                         trading_quote  |-> metrics.trading_quote + 0,
                         protocol_base  |-> metrics.protocol_base + protocol,
                         protocol_quote |-> metrics.protocol_quote + 0]
      BY <1>1, <1>2, <2>1 DEF apply_swap_result
    <3>2. /\ quote_reserve' = quote_reserve + input
          /\ base_reserve' = base_reserve - (output + trading + protocol + referral)
      BY <1>1, <1>2, <1>7, <2>1 DEF apply_swap_result, reserve_out
    <3>3. /\ quote_vault' = quote_vault + amount_in - (referral - referral)
          /\ base_vault' = base_vault - output - referral
      BY <1>1, <1>2, <1>7, <2>1 DEF swap_transfers
    <3>4. QED
      BY <1>3, <2>2, <3>1, <3>2, <3>3 DEF Balanced
  <2>4. outside_base' \in Nat
    BY <1>1, <1>2, <1>3, <1>7, <2>1 DEF swap_transfers
  <2>5. SwapBalances
    <3>1. 0 - (output + trading + protocol + referral) \in Int /\ amount_in \in Int /\ input \in Int /\ 0 \in Nat
      OBVIOUS
    <3>2. QED
      BY <2>3, <3>1, BalancedWitness
  <2>6. QED
    BY <1>4, <2>4, <2>5
<1>8. QED
  BY <1>5, <1>6, <1>7 DEF TradeDirection

-----------------------------------------------------------------------------
(* initialize_virtual_pool writes fields of their types ...                *)
LEMMA InitPoolTypes == Init => TypeOK
<1> SUFFICES ASSUME Init PROVE TypeOK
  OBVIOUS
<1>1. /\ initial_base_supply \in U64 /\ sqrt_start_price \in U128
      /\ 0 \in U64 /\ 0 \in U128 /\ START_TIME \in Nat /\ MAX_TIME \in Nat /\ START_TIME <= MAX_TIME
  BY ConfigFacts, ConfigAssumption, BoundAssumption, Widths DEF U64, U128
<1>2. /\ metrics \in PoolMetrics
      /\ volatility_tracker \in VolatilityTracker
      /\ paid \in Payments
  BY <1>1 DEF Init, Payments, PoolMetrics, VolatilityTracker, InitialTracker
<1>3. /\ swaps \in 0 .. MAX_SWAPS
      /\ donated \in [base : 0 .. MAX_DONATED, quote : 0 .. MAX_DONATED]
      /\ now \in START_TIME .. MAX_TIME
      /\ finish_curve_timestamp \in 0 .. now
  BY <1>1, BoundAssumption DEF Init
<1>4. QED
  BY <1>1, <1>2, <1>3 DEF Init, TypeOK, MigrationProgress

(* The pool's own instructions keep the types.                             *)
LEMMA SurplusShares ==
  ASSUME quote_reserve \in Nat, is_curve_complete
  PROVE  /\ get_partner_surplus \in Nat /\ get_protocol_surplus \in Nat
         /\ quote_reserve = migration_quote_threshold + get_partner_surplus + get_protocol_surplus
<1>1. get_total_surplus \in Nat
  BY ConfigFacts DEF is_curve_complete, get_total_surplus
<1>2. get_partner_surplus \in Nat /\ get_partner_surplus <= get_total_surplus
  BY <1>1, MulDiv, ShareOf DEF get_partner_surplus, PARTNER_SURPLUS_SHARE
<1>3. get_protocol_surplus = get_total_surplus - get_partner_surplus
  BY DEF get_protocol_surplus
<1>4. quote_reserve = migration_quote_threshold + get_total_surplus
  BY ConfigFacts DEF get_total_surplus
<1>5. QED
  BY <1>1, <1>2, <1>3, <1>4, ConfigFacts

(* What a claim takes of a pending fee, and what it leaves.                *)
LEMMA MinimumOfNats ==
  ASSUME NEW a \in Nat, NEW b \in Nat
  PROVE  minimum(a, b) \in Nat /\ a - minimum(a, b) \in Nat /\ minimum(a, b) <= b
BY DEF minimum

(* A checked subtraction that does not fail stays in its width.            *)
LEMMA DifferenceFits ==
  ASSUME NEW a \in U64, NEW b \in Nat, b <= a
  PROVE  a - b \in U64
BY ConfigAssumption DEF U64

(* A payment to one receiver keeps the type of the payments ...            *)
LEMMA PaymentGrows ==
  ASSUME NEW p \in Payments, NEW amount \in Nat
  PROVE  /\ [p EXCEPT !.partner_base = @ + amount] \in Payments
         /\ [p EXCEPT !.partner_quote = @ + amount] \in Payments
         /\ [p EXCEPT !.treasury_base = @ + amount] \in Payments
         /\ [p EXCEPT !.treasury_quote = @ + amount] \in Payments
<1>1. [p EXCEPT !.partner_base = @ + amount] \in Payments
  BY DEF Payments
<1>2. [p EXCEPT !.partner_quote = @ + amount] \in Payments
  BY DEF Payments
<1>3. [p EXCEPT !.treasury_base = @ + amount] \in Payments
  BY DEF Payments
<1>4. [p EXCEPT !.treasury_quote = @ + amount] \in Payments
  BY DEF Payments
<1>5. QED
  BY <1>1, <1>2, <1>3, <1>4

(* ... and so do two at once.                                              *)
LEMMA PaymentsGrow ==
  ASSUME NEW p \in Payments, NEW base \in Nat, NEW quote \in Nat
  PROVE  /\ [p EXCEPT !.partner_base = @ + base, !.partner_quote = @ + quote] \in Payments
         /\ [p EXCEPT !.treasury_base = @ + base, !.treasury_quote = @ + quote] \in Payments
<1>1. PICK partner \in Payments, treasury \in Payments :
        /\ partner = [p EXCEPT !.partner_base = @ + base]
        /\ treasury = [p EXCEPT !.treasury_base = @ + base]
  BY PaymentGrows
<1>2. /\ [partner EXCEPT !.partner_quote = @ + quote] \in Payments
      /\ [treasury EXCEPT !.treasury_quote = @ + quote] \in Payments
  BY PaymentGrows
<1>3. /\ [p EXCEPT !.partner_base = @ + base, !.partner_quote = @ + quote]
           = [partner EXCEPT !.partner_quote = @ + quote]
      /\ [p EXCEPT !.treasury_base = @ + base, !.treasury_quote = @ + quote]
           = [treasury EXCEPT !.treasury_quote = @ + quote]
  BY <1>1 DEF Payments
<1>4. QED
  BY <1>2, <1>3

(* swap: the checked operations of apply_swap_result keep the widths.      *)
LEMMA SwapTypes ==
  ASSUME TypeOK, NEW direction \in TradeDirection, NEW amount_in \in Nat,
         NEW least \in Nat, NEW has_referral \in BOOLEAN, Swap(direction, amount_in, least, has_referral)
  PROVE  TypeOK'
<1>1. sqrt_price' \in U128 /\ outside_base' \in Nat
  BY SwapBooks
<1>2. PICK result, tracker : LET mode == get_fee_mode(direction, has_referral)
                             IN  /\ apply_swap_result(result, mode, direction, tracker)
                                 /\ swap_transfers(result, mode, direction, amount_in)
  BY SwapOutcome
<1>3. /\ {base_reserve', quote_reserve', trading_base_fee', trading_quote_fee',
           protocol_base_fee', protocol_quote_fee', base_vault', quote_vault'} \subseteq U64
      /\ metrics' \in PoolMetrics
      /\ volatility_tracker' \in VolatilityTracker
  BY <1>2 DEF apply_swap_result, swap_transfers
<1>4. /\ complete_curve /\ swaps < MAX_SWAPS /\ swaps' = swaps + 1
      /\ UNCHANGED <<is_migrated, surplus_vars, paid, donated, now>>
  BY DEF Swap
<1>5. /\ migration_progress' \in MigrationProgress
      /\ finish_curve_timestamp' \in 0 .. now'
  <2>1. /\ migration_progress \in MigrationProgress
        /\ finish_curve_timestamp \in 0 .. now /\ now \in 0 .. now
    BY BoundAssumption, Widths DEF TypeOK
  <2>2. after_bonding \in MigrationProgress
    BY DEF after_bonding, MigrationProgress
  <2>3. QED
    BY <1>4, <2>1, <2>2 DEF complete_curve
<1>6. swaps' \in 0 .. MAX_SWAPS
  BY <1>4, BoundAssumption DEF TypeOK
<1>7. QED
  BY <1>1, <1>3, <1>4, <1>5, <1>6 DEF TypeOK, surplus_vars

(* claim_trading_fee                                                       *)
LEMMA ClaimTradingFeeTypes ==
  ASSUME TypeOK, NEW max_base \in Nat, NEW max_quote \in Nat,
         ClaimTradingFee(max_base, max_quote)
  PROVE  TypeOK'
<1> DEFINE base  == minimum(trading_base_fee, max_base)
           quote == minimum(trading_quote_fee, max_quote)
<1>1. /\ base \in Nat /\ trading_base_fee - base \in U64
      /\ quote \in Nat /\ trading_quote_fee - quote \in U64
  <2>1. trading_base_fee \in U64 /\ trading_quote_fee \in U64
    BY DEF TypeOK
  <2>2. /\ base \in Nat /\ base <= trading_base_fee
        /\ quote \in Nat /\ quote <= trading_quote_fee
    BY <2>1, Widths DEF minimum
  <2>3. QED
    BY <2>1, <2>2, DifferenceFits
<1> HIDE DEF base, quote
<1>2. /\ trading_base_fee' = trading_base_fee - base
      /\ trading_quote_fee' = trading_quote_fee - quote
      /\ {base_vault', quote_vault'} \subseteq U64
      /\ outside_base' = outside_base + base
      /\ paid' = [paid EXCEPT !.partner_base = @ + base, !.partner_quote = @ + quote]
      /\ UNCHANGED <<curve_vars, protocol_base_fee, protocol_quote_fee, metrics,
                     stage_vars, surplus_vars, world_vars>>
  BY DEF ClaimTradingFee, base, quote
<1>3. paid' \in Payments /\ outside_base' \in Nat
  <2>1. paid \in Payments /\ outside_base \in Nat
    BY DEF TypeOK
  <2>2. [paid EXCEPT !.partner_base = @ + base, !.partner_quote = @ + quote] \in Payments
    BY <1>1, <2>1, PaymentsGrow
  <2>3. QED
    BY <1>1, <1>2, <2>1, <2>2
<1>4. QED
  BY <1>1, <1>2, <1>3 DEF TypeOK, curve_vars, stage_vars, surplus_vars, world_vars

(* claim_protocol_fee                                                      *)
LEMMA ClaimProtocolFeeTypes ==
  ASSUME TypeOK, ClaimProtocolFee
  PROVE  TypeOK'
<1>1. 0 \in U64 /\ protocol_base_fee \in Nat /\ protocol_quote_fee \in Nat
  BY ConfigAssumption, Widths DEF TypeOK, U64
<1>2. paid' \in Payments /\ outside_base' \in Nat
  <2>1. paid \in Payments /\ outside_base \in Nat
    BY DEF TypeOK
  <2>2. [paid EXCEPT !.treasury_base = @ + protocol_base_fee,
                     !.treasury_quote = @ + protocol_quote_fee] \in Payments
    BY <1>1, <2>1, PaymentsGrow
  <2>3. QED
    BY <1>1, <2>1, <2>2 DEF ClaimProtocolFee
<1>3. QED
  BY <1>1, <1>2 DEF ClaimProtocolFee, TypeOK, curve_vars, stage_vars, surplus_vars, world_vars

(* The two surplus withdrawals.                                            *)
LEMMA SurplusTypes ==
  ASSUME TypeOK, PartnerWithdrawSurplus \/ ProtocolWithdrawSurplus
  PROVE  TypeOK'
<1>1. is_curve_complete /\ quote_reserve \in Nat
  BY Widths DEF PartnerWithdrawSurplus, ProtocolWithdrawSurplus, TypeOK
<1>2. get_partner_surplus \in Nat /\ get_protocol_surplus \in Nat
  BY <1>1, SurplusShares
<1>3. CASE PartnerWithdrawSurplus
  <2>1. paid' \in Payments
    BY <1>2, <1>3 DEF PartnerWithdrawSurplus, TypeOK, Payments
  <2>2. QED
    BY <1>3, <2>1
       DEF PartnerWithdrawSurplus, TypeOK, curve_vars, fee_vars, stage_vars, world_vars
<1>4. CASE ProtocolWithdrawSurplus
  <2>1. paid' \in Payments
    BY <1>2, <1>4 DEF ProtocolWithdrawSurplus, TypeOK, Payments
  <2>2. QED
    BY <1>4, <2>1
       DEF ProtocolWithdrawSurplus, TypeOK, curve_vars, fee_vars, stage_vars, world_vars
<1>5. QED
  BY <1>3, <1>4

(* Donations and the clock.                                                *)
LEMMA WorldTypes ==
  ASSUME TypeOK,
         \/ \E amount \in DonationAmounts : DonateBase(amount) \/ DonateQuote(amount)
         \/ Tick
  PROVE  TypeOK'
<1> USE BoundAssumption DEF TypeOK, curve_vars, fee_vars, stage_vars, surplus_vars
<1>1. ASSUME NEW amount \in DonationAmounts, DonateBase(amount) PROVE TypeOK'
  BY <1>1 DEF DonateBase
<1>2. ASSUME NEW amount \in DonationAmounts, DonateQuote(amount) PROVE TypeOK'
  BY <1>2 DEF DonateQuote
<1>3. CASE Tick
  BY <1>3, Widths DEF Tick
<1>4. QED
  BY <1>1, <1>2, <1>3

(* Every step of the pool keeps the types.                                 *)
LEMMA PoolTypes ==
  ASSUME TypeOK, [PoolNext]_pool_vars
  PROVE  TypeOK'
<1>1. CASE UNCHANGED pool_vars
  BY <1>1 DEF TypeOK, pool_vars, curve_vars, fee_vars, stage_vars, surplus_vars, world_vars
<1>2. CASE PoolNext
  BY <1>2, BoundAssumption, SwapTypes, ClaimTradingFeeTypes, ClaimProtocolFeeTypes,
     SurplusTypes, WorldTypes DEF PoolNext
<1>3. QED
  BY <1>1, <1>2

(* The widths of the pool's fields, for every behaviour of the pool.       *)
THEOREM PoolTypeCorrect == PoolSpec => []TypeOK
<1>1. TypeOK /\ [PoolNext]_pool_vars => TypeOK'
  BY PoolTypes
<1>2. QED
  BY <1>1, InitPoolTypes, PTL DEF PoolSpec

(* Among the pool's own instructions only a swap moves curve and stage.    *)
LEMMA OnlySwapsTrade ==
  ASSUME PoolNext
  PROVE  \/ \E direction \in TradeDirection, amount_in \in Nat, least \in Nat, has_referral \in BOOLEAN :
              Swap(direction, amount_in, least, has_referral)
         \/ UNCHANGED <<curve_vars, stage_vars>>
<1>1. CASE \E direction \in TradeDirection, amount \in SwapAmounts, least \in SwapMinimums, has_referral \in BOOLEAN :
             Swap(direction, amount, least, has_referral)
  BY <1>1, BoundAssumption
<1>2. CASE \/ \E max_base \in ClaimLimits, max_quote \in ClaimLimits :
                ClaimTradingFee(max_base, max_quote)
           \/ ClaimProtocolFee
  BY <1>2 DEF ClaimTradingFee, ClaimProtocolFee
<1>3. CASE PartnerWithdrawSurplus \/ ProtocolWithdrawSurplus
  BY <1>3 DEF PartnerWithdrawSurplus, ProtocolWithdrawSurplus
<1>4. CASE \/ \E amount \in DonationAmounts : DonateBase(amount)
           \/ \E amount \in DonationAmounts : DonateQuote(amount)
           \/ Tick
  BY <1>4 DEF DonateBase, DonateQuote, Tick
<1>5. QED
  BY <1>1, <1>2, <1>3, <1>4 DEF PoolNext

(* Completeness changes only with the quote reserve.                       *)
LEMMA CompleteUnlessTraded ==
  ASSUME UNCHANGED curve_vars
  PROVE  is_curve_complete' = is_curve_complete
BY DEF curve_vars, is_curve_complete

-----------------------------------------------------------------------------
(* The curve.  Price, reserves and the base tokens sold are those of a     *)
(* point of the curve.  Until the curve is complete all base tokens are in *)
(* the vault or in circulation, and each vault holds its reserve, the      *)
(* pending fees and what was sent to it from outside.                      *)
sold == initial_base_supply - base_reserve

CurveBooks ==
  /\ OnCurve(sqrt_price, quote_reserve, sold)
  /\ ~is_curve_complete =>
       /\ base_vault + outside_base = initial_base_supply
       /\ base_vault = base_reserve + trading_base_fee + protocol_base_fee + donated.base
       /\ quote_vault = quote_reserve + trading_quote_fee + protocol_quote_fee + donated.quote

(* The amounts and the price of a typed pool are naturals.                 *)
LEMMA PoolQuantities ==
  ASSUME TypeOK
  PROVE  /\ sqrt_price \in Nat /\ base_reserve \in Nat /\ quote_reserve \in Nat
         /\ trading_base_fee \in Nat /\ trading_quote_fee \in Nat
         /\ protocol_base_fee \in Nat /\ protocol_quote_fee \in Nat
         /\ base_vault \in Nat /\ quote_vault \in Nat /\ outside_base \in Nat
         /\ donated.base \in Nat /\ donated.quote \in Nat
         /\ initial_base_supply \in Nat /\ sold \in Int
<1>1. initial_base_supply \in Nat
  BY ConfigFacts, Widths
<1>2. donated.base \in Nat /\ donated.quote \in Nat
  BY BoundAssumption DEF TypeOK
<1>3. sqrt_price \in Nat /\ outside_base \in Nat
  BY Widths DEF TypeOK
<1>4. /\ base_reserve \in Nat /\ quote_reserve \in Nat
      /\ trading_base_fee \in Nat /\ trading_quote_fee \in Nat
      /\ protocol_base_fee \in Nat /\ protocol_quote_fee \in Nat
      /\ base_vault \in Nat /\ quote_vault \in Nat
  BY Widths DEF TypeOK
<1>5. QED
  BY <1>1, <1>2, <1>3, <1>4 DEF sold

(* A swap moves price and reserves by exactly what its walk computes,      *)
(* whatever fee is charged on whatever side.                               *)
LEMMA SaleIsWalk ==
  ASSUME TypeOK, NEW amount_in \in Nat, NEW least \in Nat, NEW has_referral \in BOOLEAN,
         Swap("BaseToQuote", amount_in, least, has_referral)
  PROVE  LET sale == get_swap_amount_from_base_to_quote(Curve, sqrt_price, amount_in)
         IN  /\ amount_in <= outside_base
             /\ sqrt_price' = sale.next_sqrt_price
             /\ base_reserve' = base_reserve + amount_in
             /\ quote_reserve' = quote_reserve - sale.output_amount
<1> DEFINE mode    == get_fee_mode("BaseToQuote", has_referral)
           tracker == update_pre_swap(volatility_tracker, sqrt_price, now)
           outcome == get_swap_result(tracker, amount_in, mode, "BaseToQuote")
           result  == outcome.result
           sale    == get_swap_amount_from_base_to_quote(Curve, sqrt_price, amount_in)
           fee     == get_fee_on_amount(tracker, sale.output_amount, mode.has_referral, now,
                                        ACTIVATION_POINT)
<1>1. mode.fees_on_input = FALSE /\ mode.has_referral \in BOOLEAN
  BY DEF get_fee_mode
<1>2. /\ sale.output_amount \in Nat
      /\ apply_swap_result(result, mode, "BaseToQuote", tracker)
      /\ swap_transfers(result, mode, "BaseToQuote", amount_in)
  <2>1. /\ outcome.ok
        /\ apply_swap_result(result, mode, "BaseToQuote", tracker)
        /\ swap_transfers(result, mode, "BaseToQuote", amount_in)
    BY DEF Swap
  <2>2. outcome.ok => sale.output_amount \in U64
    BY <1>1 DEF get_swap_result, swap_result_at
  <2>3. QED
    BY <2>1, <2>2, Widths
<1>3. /\ result.actual_input_amount = amount_in
      /\ result.next_sqrt_price = sale.next_sqrt_price
      /\ result.output_amount = fee.amount
      /\ result.trading_fee = fee.trading_fee
      /\ result.protocol_fee = fee.protocol_fee
      /\ result.referral_fee = fee.referral_fee
  BY <1>1 DEF get_swap_result, swap_result_at
<1>4. tracker.volatility_accumulator \in Nat
  BY Widths DEF TypeOK, VolatilityTracker, update_pre_swap, update_references
<1> HIDE DEF tracker, mode, outcome, result, sale
<1>5. /\ {fee.amount, fee.trading_fee, fee.protocol_fee, fee.referral_fee} \subseteq Nat
      /\ sale.output_amount = fee.amount + fee.trading_fee + fee.protocol_fee + fee.referral_fee
  BY <1>1, <1>2, <1>4, FeeIsSplit
<1> HIDE DEF fee
<1>6. reserve_out(result, mode) = sale.output_amount
  BY <1>1, <1>3, <1>5 DEF reserve_out
<1>7. QED
  BY <1>2, <1>3, <1>6 DEF apply_swap_result, swap_transfers, sale

(* A buy, likewise.                                                        *)
LEMMA BuyIsWalk ==
  ASSUME TypeOK, NEW amount_in \in Nat, NEW least \in Nat, NEW has_referral \in BOOLEAN,
         Swap("QuoteToBase", amount_in, least, has_referral)
  PROVE  \E amount \in Nat :
           LET buy == get_swap_amount_from_quote_to_base(Curve, sqrt_price, amount)
           IN  /\ buy.ok
               /\ sqrt_price' = buy.next_sqrt_price
               /\ quote_reserve' = quote_reserve + amount
               /\ base_reserve' = base_reserve - buy.output_amount
<1> DEFINE mode    == get_fee_mode("QuoteToBase", has_referral)
           tracker == update_pre_swap(volatility_tracker, sqrt_price, now)
           outcome == get_swap_result(tracker, amount_in, mode, "QuoteToBase")
           result  == outcome.result
           paid_fee == get_fee_on_amount(tracker, amount_in, mode.has_referral, now, ACTIVATION_POINT)
           amount  == IF mode.fees_on_input THEN paid_fee.amount ELSE amount_in
           buy     == get_swap_amount_from_quote_to_base(Curve, sqrt_price, amount)
           fee     == get_fee_on_amount(tracker, buy.output_amount, mode.has_referral, now,
                                        ACTIVATION_POINT)
<1>1. mode.has_referral \in BOOLEAN
  BY DEF get_fee_mode
<1>2. /\ buy.ok /\ buy.output_amount \in Nat
      /\ apply_swap_result(result, mode, "QuoteToBase", tracker)
  <2>1. outcome.ok /\ apply_swap_result(result, mode, "QuoteToBase", tracker)
    BY DEF Swap
  <2>2. outcome.ok => buy.ok /\ buy.output_amount \in U64
    BY DEF get_swap_result, swap_result_at
  <2>3. QED
    BY <2>1, <2>2, Widths
<1>3. /\ result.actual_input_amount = amount
      /\ result.next_sqrt_price = buy.next_sqrt_price
      /\ mode.fees_on_input => result.output_amount = buy.output_amount
      /\ ~mode.fees_on_input => /\ result.output_amount = fee.amount
                                /\ result.trading_fee = fee.trading_fee
                                /\ result.protocol_fee = fee.protocol_fee
                                /\ result.referral_fee = fee.referral_fee
  BY DEF get_swap_result, swap_result_at
<1>4. tracker.volatility_accumulator \in Nat
  BY Widths DEF TypeOK, VolatilityTracker, update_pre_swap, update_references
<1> HIDE DEF tracker, mode, outcome, result
<1>5. amount \in Nat
  BY <1>1, <1>4, FeeIsSplit
<1> HIDE DEF amount, buy
<1>6. /\ {fee.amount, fee.trading_fee, fee.protocol_fee, fee.referral_fee} \subseteq Nat
      /\ buy.output_amount = fee.amount + fee.trading_fee + fee.protocol_fee + fee.referral_fee
  BY <1>1, <1>2, <1>4, FeeIsSplit
<1> HIDE DEF fee
<1>7. reserve_out(result, mode) = buy.output_amount
  BY <1>3, <1>6 DEF reserve_out
<1>8. /\ sqrt_price' = buy.next_sqrt_price
      /\ quote_reserve' = quote_reserve + amount
      /\ base_reserve' = base_reserve - buy.output_amount
  BY <1>2, <1>3, <1>7 DEF apply_swap_result
<1>9. QED
  BY <1>2, <1>5, <1>8 DEF buy

(* A new pool stands at the start of its curve.                            *)
LEMMA CurveInit == Init => CurveBooks
<1> SUFFICES ASSUME Init PROVE CurveBooks
  OBVIOUS
<1>1. initial_base_supply \in Nat
  BY ConfigFacts, Widths
<1>2. 1 \in 1 .. Segments /\ Price(1 - 1) = sqrt_start_price
  BY CurveFacts DEF Price
<1>3. InSegment(1, sqrt_start_price, 0, 0)
  <2>1. quote_up_to[1 - 1] = 0 /\ base_up_to[1 - 1] = 0
    BY SumFacts
  <2>2. InSegment(1, Price(1 - 1), 0, 0)
    BY <1>2, <2>1, AtLowerEnd
  <2>3. QED
    BY <1>2, <2>2
<1>4. OnCurve(sqrt_start_price, 0, 0)
  BY <1>2, <1>3 DEF OnCurve
<1>5. sold = 0
  BY <1>1 DEF Init, sold
<1>6. QED
  BY <1>1, <1>4, <1>5 DEF Init, CurveBooks

(* Until the curve is complete what circulates was sold by the curve.      *)
LEMMA CirculatingWasSold ==
  ASSUME TypeOK, CurveBooks, ~is_curve_complete
  PROVE  outside_base <= sold
BY PoolQuantities DEF CurveBooks, sold

(* A swap moves the pool along its curve ...                               *)
LEMMA SwapStaysOnCurve ==
  ASSUME TypeOK, CurveBooks, NEW direction \in TradeDirection, NEW amount_in \in Nat,
         NEW least \in Nat, NEW has_referral \in BOOLEAN, Swap(direction, amount_in, least, has_referral)
  PROVE  OnCurve(sqrt_price', quote_reserve', sold')
<1> USE PoolQuantities
<1>1. OnCurve(sqrt_price, quote_reserve, sold) /\ ~is_curve_complete
  BY DEF CurveBooks, Swap, may_swap
<1>2. CASE direction = "BaseToQuote"
  <2> DEFINE sale == get_swap_amount_from_base_to_quote(Curve, sqrt_price, amount_in)
  <2>1. /\ amount_in <= outside_base
        /\ sqrt_price' = sale.next_sqrt_price
        /\ base_reserve' = base_reserve + amount_in
        /\ quote_reserve' = quote_reserve - sale.output_amount
    BY <1>2, SaleIsWalk
  <2>2. amount_in <= sold
    BY <1>1, <2>1, CirculatingWasSold
  <2>3. OnCurve(sale.next_sqrt_price, quote_reserve - sale.output_amount, sold - amount_in)
    BY <1>1, <2>2, SaleStaysOnCurve
  <2>4. sold' = sold - amount_in
    BY <2>1 DEF sold
  <2>5. QED
    BY <2>1, <2>3, <2>4
<1>3. CASE direction = "QuoteToBase"
  <2>1. PICK amount \in Nat :
          LET buy == get_swap_amount_from_quote_to_base(Curve, sqrt_price, amount)
          IN  /\ buy.ok
              /\ sqrt_price' = buy.next_sqrt_price
              /\ quote_reserve' = quote_reserve + amount
              /\ base_reserve' = base_reserve - buy.output_amount
    BY <1>3, BuyIsWalk
  <2> DEFINE buy == get_swap_amount_from_quote_to_base(Curve, sqrt_price, amount)
  <2>2. /\ buy.output_amount \in Nat
        /\ OnCurve(buy.next_sqrt_price, quote_reserve + amount, sold + buy.output_amount)
    <3>1. sqrt_price \in Nat /\ quote_reserve \in Int /\ sold \in Int
      OBVIOUS
    <3>2. buy.ok
      BY <2>1
    <3>3. QED
      BY <1>1, <3>1, <3>2, BuyStaysOnCurve
  <2>3. sold' = sold + buy.output_amount
    BY <2>1, <2>2 DEF sold
  <2>4. QED
    BY <2>1, <2>2, <2>3
<1>4. QED
  BY <1>2, <1>3 DEF TradeDirection

(* ... and no token appears or disappears in it.                           *)
LEMMA SwapKeepsVaults ==
  ASSUME TypeOK, NEW direction \in TradeDirection, NEW amount_in \in Nat,
         NEW least \in Nat, NEW has_referral \in BOOLEAN, Swap(direction, amount_in, least, has_referral)
  PROVE  /\ base_vault' + outside_base' = base_vault + outside_base
         /\ base_vault' - base_reserve' - trading_base_fee' - protocol_base_fee'
              = base_vault - base_reserve - trading_base_fee - protocol_base_fee
         /\ quote_vault' - quote_reserve' - trading_quote_fee' - protocol_quote_fee'
              = quote_vault - quote_reserve - trading_quote_fee - protocol_quote_fee
<1> USE PoolQuantities
<1>1. PICK result, tracker :
        LET mode == get_fee_mode(direction, has_referral)
        IN  /\ result \in SwapResult
            /\ swap_transfers(result, mode, direction, amount_in)
  BY SwapOutcome
<1>2. result.output_amount \in Nat /\ result.referral_fee \in Nat
  BY <1>1, Widths DEF SwapResult
<1>3. base_vault' + outside_base' = base_vault + outside_base
  BY <1>1, <1>2 DEF swap_transfers
<1>4. PICK tq \in Nat, pq \in Nat, tb \in Nat, pb \in Nat, quote \in Int, base \in Int :
        Balanced(tq, pq, tb, pb, quote, base)
  <2>1. SwapBalances
    BY SwapBooks
  <2>2. QED
    BY <2>1, Zenon DEF SwapBalances
<1>5. QED
  BY <1>3, <1>4 DEF Balanced

(* The other instructions of the pool leave the curve alone and take of a  *)
(* vault what they take of its pending fees, until the curve is complete.  *)
LEMMA OthersKeepVaults ==
  ASSUME TypeOK, TypeOK', CurveBooks,
         \/ \E max_base \in Nat, max_quote \in Nat : ClaimTradingFee(max_base, max_quote)
         \/ ClaimProtocolFee
         \/ PartnerWithdrawSurplus \/ ProtocolWithdrawSurplus
         \/ \E amount \in Nat : DonateBase(amount) \/ DonateQuote(amount)
         \/ Tick
         \/ UNCHANGED pool_vars
  PROVE  CurveBooks'
<1> USE PoolQuantities DEF curve_vars, fee_vars, stage_vars, surplus_vars, world_vars
<1>1. ASSUME UNCHANGED <<sqrt_price, base_reserve, quote_reserve>>,
             base_vault' + outside_base' = base_vault + outside_base,
             base_vault' - trading_base_fee' - protocol_base_fee' - donated'.base
               = base_vault - trading_base_fee - protocol_base_fee - donated.base,
             ~is_curve_complete =>
               quote_vault' - trading_quote_fee' - protocol_quote_fee' - donated'.quote
                 = quote_vault - trading_quote_fee - protocol_quote_fee - donated.quote
      PROVE  CurveBooks'
  <2>1. sold' = sold /\ is_curve_complete' = is_curve_complete
    BY <1>1 DEF sold, is_curve_complete
  <2>2. /\ base_vault' \in Nat /\ trading_base_fee' \in Nat /\ protocol_base_fee' \in Nat
        /\ quote_vault' \in Nat /\ trading_quote_fee' \in Nat /\ protocol_quote_fee' \in Nat
        /\ donated'.base \in Nat /\ donated'.quote \in Nat
    <3>1. donated'.base \in Nat /\ donated'.quote \in Nat
      BY BoundAssumption DEF TypeOK
    <3>2. {base_vault', quote_vault', trading_base_fee', protocol_base_fee',
           trading_quote_fee', protocol_quote_fee'} \subseteq Nat
      BY Widths DEF TypeOK
    <3>3. QED
      BY <3>1, <3>2
  <2>3. QED
    BY <1>1, <2>1, <2>2 DEF CurveBooks
<1>2. ASSUME NEW max_base \in Nat, NEW max_quote \in Nat, ClaimTradingFee(max_base, max_quote)
      PROVE  CurveBooks'
  <2>1. PICK base \in Nat, quote \in Nat : base = minimum(trading_base_fee, max_base)
                                         /\ quote = minimum(trading_quote_fee, max_quote)
    BY MinimumOfNats
  <2>2. /\ trading_base_fee' = trading_base_fee - base
        /\ trading_quote_fee' = trading_quote_fee - quote
        /\ base_vault' = base_vault - base
        /\ quote_vault' = quote_vault - quote
        /\ outside_base' = outside_base + base
        /\ UNCHANGED <<sqrt_price, base_reserve, quote_reserve, protocol_base_fee,
                       protocol_quote_fee, donated>>
    BY <1>2, <2>1 DEF ClaimTradingFee
  <2>3. QED
    BY <1>1, <2>2
<1>3. CASE ClaimProtocolFee
  BY <1>1, <1>3 DEF ClaimProtocolFee
<1>4. CASE PartnerWithdrawSurplus \/ ProtocolWithdrawSurplus \/ Tick \/ UNCHANGED pool_vars
  BY <1>1, <1>4 DEF PartnerWithdrawSurplus, ProtocolWithdrawSurplus, Tick, pool_vars
<1>5. ASSUME NEW amount \in Nat, DonateBase(amount) PROVE CurveBooks'
  <2>1. donated'.base = donated.base + amount /\ donated'.quote = donated.quote
    BY <1>5 DEF DonateBase, TypeOK
  <2>2. QED
    BY <1>1, <1>5, <2>1 DEF DonateBase
<1>6. ASSUME NEW amount \in Nat, DonateQuote(amount) PROVE CurveBooks'
  <2>1. donated'.base = donated.base /\ donated'.quote = donated.quote + amount
    BY <1>6 DEF DonateQuote, TypeOK
  <2>2. QED
    BY <1>1, <1>6, <2>1 DEF DonateQuote
<1>7. QED
  BY <1>2, <1>3, <1>4, <1>5, <1>6

(* Every step of the pool keeps it on the curve.                           *)
LEMMA CurveStep ==
  ASSUME TypeOK, CurveBooks, [PoolNext]_pool_vars
  PROVE  CurveBooks'
<1>1. ASSUME NEW direction \in TradeDirection, NEW amount_in \in Nat, NEW least \in Nat, NEW has_referral \in BOOLEAN,
             Swap(direction, amount_in, least, has_referral)
      PROVE  CurveBooks'
  <2>1. OnCurve(sqrt_price', quote_reserve', sold')
    BY <1>1, SwapStaysOnCurve
  <2>2. ~is_curve_complete /\ UNCHANGED donated
    BY <1>1 DEF Swap, may_swap
  <2>3. /\ base_vault' + outside_base' = base_vault + outside_base
        /\ base_vault' - base_reserve' - trading_base_fee' - protocol_base_fee'
             = base_vault - base_reserve - trading_base_fee - protocol_base_fee
        /\ quote_vault' - quote_reserve' - trading_quote_fee' - protocol_quote_fee'
             = quote_vault - quote_reserve - trading_quote_fee - protocol_quote_fee
    BY <1>1, SwapKeepsVaults
  <2>4. TypeOK'
    BY <1>1, SwapTypes
  <2>5. /\ base_vault' \in Nat /\ base_reserve' \in Nat
        /\ trading_base_fee' \in Nat /\ protocol_base_fee' \in Nat
        /\ quote_vault' \in Nat /\ quote_reserve' \in Nat
        /\ trading_quote_fee' \in Nat /\ protocol_quote_fee' \in Nat
    BY <2>4, Widths DEF TypeOK
  <2>6. QED
    BY <2>1, <2>2, <2>3, <2>5, PoolQuantities DEF CurveBooks
<1>2. QED
  BY <1>1, PoolTypes, OthersKeepVaults, BoundAssumption DEF PoolNext

(* In every reachable state price, reserves and base tokens are those of a *)
(* point of the curve, for every config and every sequence of swaps.       *)
THEOREM PoolOnCurve == PoolSpec => []CurveBooks
<1>1. TypeOK /\ CurveBooks /\ [PoolNext]_pool_vars => CurveBooks'
  BY CurveStep
<1>2. QED
  BY <1>1, CurveInit, PoolTypeCorrect, PTL DEF PoolSpec

-----------------------------------------------------------------------------
(* What being on the curve is worth to the traders.                        *)
LEMMA PriceFromCurve ==
  ASSUME TypeOK, CurveBooks
  PROVE  PriceWithinCurve
<1>1. OnCurve(sqrt_price, quote_reserve, sold)
  BY DEF CurveBooks
<1>2. sqrt_price \in Nat /\ quote_reserve \in Int /\ sold \in Int
  BY PoolQuantities
<1>3. QED
  BY <1>1, <1>2, OnCurvePrice DEF PriceWithinCurve

(* A sale of what circulates ends on the curve, where no reserve is        *)
(* negative.                                                               *)
LEMMA ExitFromCurve ==
  ASSUME TypeOK, CurveBooks
  PROVE  HoldersCanExit
<1> SUFFICES ASSUME ~is_curve_complete, NEW amount \in 1 .. outside_base
             PROVE  get_swap_amount_from_base_to_quote(Curve, sqrt_price, amount).output_amount
                      <= quote_reserve
  BY DEF HoldersCanExit
<1> DEFINE sale == get_swap_amount_from_base_to_quote(Curve, sqrt_price, amount)
<1> USE PoolQuantities
<1>1. amount \in Nat /\ amount <= sold
  BY CirculatingWasSold
<1>2. OnCurve(sqrt_price, quote_reserve, sold)
  BY DEF CurveBooks
<1>3. /\ sale.output_amount \in Nat /\ sale.next_sqrt_price \in Nat
      /\ OnCurve(sale.next_sqrt_price, quote_reserve - sale.output_amount, sold - amount)
  BY <1>1, <1>2, SaleStaysOnCurve
<1> HIDE DEF sale
<1>4. quote_reserve - sale.output_amount \in Int /\ sold - amount \in Int
  BY <1>1, <1>3
<1>5. quote_reserve - sale.output_amount >= 0
  BY <1>3, <1>4, ReserveOnCurve
<1>6. QED
  BY <1>3, <1>5 DEF sale

(* The supply create_config computes: both thresholds and a buffer.        *)
LEMMA SupplyCovers ==
  /\ swap_base_amount \in Nat /\ migration_base_threshold \in Nat
  /\ initial_base_supply >= migration_base_threshold + swap_base_amount
<1>1. swap_base_amount \in Nat /\ migration_base_threshold \in Nat /\ vesting_total \in Nat
  BY ConfigAssumption, ConfigFacts, Widths DEF Accepts
<1>2. ASSUME NEW x \in Nat PROVE (5 * x) \div 4 \in Nat /\ (5 * x) \div 4 >= x
  OBVIOUS
<1>3. total_amount_with_buffer \in Nat
      /\ total_amount_with_buffer >= migration_base_threshold + swap_base_amount
  BY <1>1, <1>2 DEF total_amount_with_buffer
<1>4. QED
  BY <1>1, <1>3 DEF initial_base_supply

(* A buy that pays at most what is missing ends at a price of at most the  *)
(* migration's, and create_config counted the base sold up to there: it    *)
(* succeeds and leaves in the reserve what the migration needs.            *)
LEMMA BuyLeavesMigration ==
  ASSUME TypeOK, CurveBooks, NEW amount \in Nat,
         quote_reserve + amount <= migration_quote_threshold
  PROVE  LET buy == get_swap_amount_from_quote_to_base(Curve, sqrt_price, amount)
         IN  /\ buy.ok /\ buy.output_amount \in Nat
             /\ base_reserve >= buy.output_amount + migration_base_threshold
<1> DEFINE buy == get_swap_amount_from_quote_to_base(Curve, sqrt_price, amount)
<1>1. /\ OnCurve(sqrt_price, quote_reserve, sold)
      /\ sqrt_price \in Nat /\ quote_reserve \in Int /\ sold \in Int
  BY PoolQuantities DEF CurveBooks
<1>2. /\ quote_reserve + amount \in Int /\ threshold \in Int
      /\ quote_reserve + amount <= threshold
  BY <1>1, ConfigFacts DEF threshold
<1>3. /\ buy.output_amount \in Nat /\ buy.next_sqrt_price \in Nat
      /\ buy.ok => OnCurve(buy.next_sqrt_price, quote_reserve + amount, sold + buy.output_amount)
      /\ quote_reserve + amount <= quote_up_to[Segments] => buy.ok
  BY <1>1, BuyStaysOnCurve
<1> HIDE DEF buy
<1>4. buy.ok
  <2>1. Segments \in 0 .. Segments
    BY CurveFacts
  <2>2. threshold <= quote_up_to[Segments] /\ quote_up_to[Segments] \in Nat
    BY <2>1, MigrationPrice, SumFacts
  <2>3. QED
    BY <1>2, <1>3, <2>2
<1>5. OnCurve(buy.next_sqrt_price, quote_reserve + amount, sold + buy.output_amount)
  BY <1>3, <1>4
<1>6. sold + buy.output_amount \in Int
  BY <1>1, <1>3
<1>7. buy.next_sqrt_price <= migration_sqrt_price
  BY <1>2, <1>3, <1>5, <1>6, PriceBelowMigration
<1>8. sold + buy.output_amount <= swap_base_amount
  BY <1>2, <1>3, <1>5, <1>6, <1>7, SoldWithinSwapBase
<1>9. base_reserve >= buy.output_amount + migration_base_threshold
  BY <1>3, <1>8, SupplyCovers, PoolQuantities DEF sold
<1>10. QED
  BY <1>3, <1>4, <1>9 DEF buy

(* So the buy of what is missing passes the check of the base tokens.      *)
LEMMA GraduationFromCurve ==
  ASSUME TypeOK, CurveBooks
  PROVE  CanGraduate
<1> SUFFICES ASSUME ~is_curve_complete PROVE CanGraduate
  BY DEF CanGraduate
<1> DEFINE missing == migration_quote_threshold - quote_reserve
           buy     == get_swap_amount_from_quote_to_base(Curve, sqrt_price, missing)
<1>1. missing \in Nat /\ quote_reserve + missing <= migration_quote_threshold
  BY PoolQuantities, ConfigFacts DEF is_curve_complete
<1> HIDE DEF missing
<1>2. /\ buy.ok /\ buy.output_amount \in Nat
      /\ base_reserve >= buy.output_amount + migration_base_threshold
  BY <1>1, BuyLeavesMigration
<1> HIDE DEF buy
<1>3. /\ base_vault = base_reserve + base_fees + donated.base
      /\ base_fees \in Nat /\ donated.base \in Nat /\ base_reserve \in Nat
      /\ migration_base_threshold \in Nat
  BY PoolQuantities, ConfigFacts DEF CurveBooks, base_fees
<1>4. base_vault >= buy.output_amount + migration_base_threshold + base_fees
  BY <1>2, <1>3
<1>5. QED
  BY <1>2, <1>4 DEF CanGraduate, buy, missing

(* No sequence of trades moves the price off the curve, although the walk  *)
(* down has no lower bound in the code.                                    *)
THEOREM PriceStaysWithinCurve == PoolSpec => []PriceWithinCurve
<1>1. TypeOK /\ CurveBooks => PriceWithinCurve
  BY PriceFromCurve
<1>2. QED
  BY <1>1, PoolTypeCorrect, PoolOnCurve, PTL

(* All base tokens in circulation, or any part of them, can be sold back   *)
(* at once: apply_swap_result's checked subtraction of the quote reserve   *)
(* never rejects a sale.                                                   *)
THEOREM HoldersCanAlwaysExit == PoolSpec => []HoldersCanExit
<1>1. TypeOK /\ CurveBooks => HoldersCanExit
  BY ExitFromCurve
<1>2. QED
  BY <1>1, PoolTypeCorrect, PoolOnCurve, PTL

(* The check of the base tokens at the end of handle_swap cannot lock a    *)
(* pool in its bonding phase: the buy that pays what is missing passes it. *)
THEOREM PoolCanGraduate == PoolSpec => []CanGraduate
<1>1. TypeOK /\ CurveBooks => CanGraduate
  BY GraduationFromCurve
<1>2. QED
  BY <1>1, PoolTypeCorrect, PoolOnCurve, PTL

-----------------------------------------------------------------------------
(* The volatility tracker: since the first swap the accumulator is what    *)
(* update_volatility_accumulator makes of the current price.               *)
TrackerBooks ==
  DynamicFee.initialized =>
    LET tracker   == volatility_tracker
        reference == tracker.sqrt_price_reference
        distance  == get_delta_bin_id(sqrt_price, reference) * BASIS_POINT_MAX
    IN  /\ tracker.last_update_timestamp <= now
        /\ swaps = 0 => tracker.last_update_timestamp = 0 /\ tracker.volatility_accumulator = 0
        /\ swaps > 0 =>
             /\ sqrt_start_price <= reference /\ reference <= MAX_SQRT_PRICE
             /\ tracker.volatility_accumulator =
                  minimum(tracker.volatility_reference + distance,
                          DynamicFee.max_volatility_accumulator)

Tracker == [last_update_timestamp : Nat, sqrt_price_reference : Nat,
            volatility_accumulator : Nat, volatility_reference : Nat]

(* The distance of two prices, in bins.                                    *)
LEMMA BinDistance ==
  ASSUME NEW a \in Nat \ {0}, NEW b \in Nat \ {0}
  PROVE  get_delta_bin_id(a, b) \in Nat
<1> DEFINE upper == maximum(a, b)
           lower == minimum(a, b)
           ratio == (upper * ONE) \div lower
<1>1. upper \in Nat /\ lower \in Nat \ {0} /\ lower <= upper
  BY DEF maximum, minimum
<1>2. ONE \in Nat \ {0} /\ DynamicFee.bin_step_u128 \in Nat \ {0}
  BY OneAssumption, FeeAssumption
<1> DEFINE bins == (ratio - ONE) \div DynamicFee.bin_step_u128
<1>3. get_delta_bin_id(a, b) = 2 * bins
  BY DEF get_delta_bin_id
<1> HIDE DEF upper, lower
<1>4. ratio - ONE \in Nat
  <2>1. upper * ONE \in Nat /\ lower * ONE <= upper * ONE
    BY <1>1, <1>2, ProductMonotone
  <2>2. ratio \in Int /\ upper * ONE < lower * ratio + lower
    <3>1. PICK product \in Nat : product = upper * ONE
      BY <2>1
    <3>2. product \div lower \in Int /\ product < lower * (product \div lower) + lower
      BY <1>1, Division
    <3>3. QED
      BY <3>1, <3>2
  <2> HIDE DEF ratio
  <2>3. lower * ONE < lower * (ratio + 1)
    BY <1>1, <1>2, <2>1, <2>2
  <2>4. ONE < ratio + 1
    BY <1>1, <1>2, <2>2, <2>3, ProductCancel
  <2>5. QED
    BY <1>2, <2>2, <2>4
<1>5. bins \in Nat
  <2> HIDE DEF ratio
  <2>1. QED
    BY <1>2, <1>4, DivisionOfNat
<1>6. QED
  BY <1>3, <1>5

(* The first swap of a pool takes the current price as the reference, as a *)
(* pool is created long after the epoch.                                   *)
LEMMA ReferenceIsOnCurve ==
  ASSUME TypeOK, CurveBooks, TrackerBooks, DynamicFee.initialized
  PROVE  LET tracker == update_pre_swap(volatility_tracker, sqrt_price, now)
         IN  /\ tracker \in Tracker
             /\ tracker.last_update_timestamp <= now
             /\ sqrt_start_price <= tracker.sqrt_price_reference
             /\ tracker.sqrt_price_reference <= MAX_SQRT_PRICE
<1> DEFINE old     == volatility_tracker
           tracker == update_pre_swap(old, sqrt_price, now)
           decayed == mul_div_down(old.volatility_accumulator, DynamicFee.reduction_factor,
                                   BASIS_POINT_MAX)
<1>1. old \in Tracker /\ sqrt_price \in Nat /\ now \in Nat /\ START_TIME <= now
  BY BoundAssumption, Widths DEF TypeOK, VolatilityTracker, Tracker
<1>2. tracker = update_references(old, sqrt_price, now)
  BY DEF update_pre_swap
<1>3. CASE now - old.last_update_timestamp < DynamicFee.filter_period
  <2>1. tracker = old
    BY <1>2, <1>3 DEF update_references
  <2>2. swaps # 0
    <3>1. SUFFICES ASSUME old.last_update_timestamp = 0 PROVE FALSE
      BY DEF TrackerBooks
    <3>2. DynamicFee.filter_period < DynamicFee.decay_period
      BY ConfigAssumption DEF Accepts, validate_dynamic_fee
    <3>3. DynamicFee.filter_period \in Nat /\ DynamicFee.decay_period \in Nat
      BY FeeAssumption
    <3>4. DynamicFee.decay_period <= START_TIME /\ START_TIME \in Nat
      BY BoundAssumption, Widths
    <3>5. QED
      BY <1>1, <1>3, <3>1, <3>2, <3>3, <3>4
  <2>3. swaps > 0
    BY <2>2, BoundAssumption DEF TypeOK
  <2>4. QED
    BY <1>1, <2>1, <2>3 DEF TrackerBooks
<1>4. CASE ~ (now - old.last_update_timestamp < DynamicFee.filter_period)
  <2>1. decayed \in Nat
    BY <1>1, FeeAssumption, MulDiv DEF Tracker
  <2> DEFINE carried == IF now - old.last_update_timestamp < DynamicFee.decay_period
                        THEN decayed ELSE 0
  <2>2. tracker = [old EXCEPT !.sqrt_price_reference = sqrt_price,
                              !.volatility_reference = carried]
    BY <1>2, <1>4 DEF update_references
  <2>3. carried \in Nat
    BY <2>1
  <2>4. sqrt_start_price <= sqrt_price /\ sqrt_price <= MAX_SQRT_PRICE
    BY PriceFromCurve DEF PriceWithinCurve
  <2>5. old.last_update_timestamp <= now
    BY DEF TrackerBooks
  <2> HIDE DEF tracker, carried, old
  <2>6. QED
    BY <1>1, <2>2, <2>3, <2>4, <2>5 DEF Tracker, old, tracker
<1>5. QED
  BY <1>3, <1>4

(* A swap computes the accumulator from the price it leaves behind.        *)
LEMMA SwapKeepsTracker ==
  ASSUME TypeOK, CurveBooks, TrackerBooks, NEW direction \in TradeDirection,
         NEW amount_in \in Nat, NEW least \in Nat, NEW has_referral \in BOOLEAN,
         Swap(direction, amount_in, least, has_referral)
  PROVE  TrackerBooks'
<1> SUFFICES ASSUME DynamicFee.initialized PROVE TrackerBooks'
  BY DEF TrackerBooks
<1> DEFINE mode    == get_fee_mode(direction, has_referral)
           tracker == update_pre_swap(volatility_tracker, sqrt_price, now)
           result  == get_swap_result(tracker, amount_in, mode, direction).result
           distance == get_delta_bin_id(sqrt_price', tracker.sqrt_price_reference) * BASIS_POINT_MAX
           accumulator == minimum(tracker.volatility_reference + distance,
                                  DynamicFee.max_volatility_accumulator)
           updated == IF get_delta_bin_id(sqrt_price, sqrt_price') > 0
                      THEN now ELSE tracker.last_update_timestamp
<1>1. /\ tracker \in Tracker
      /\ tracker.last_update_timestamp <= now
      /\ sqrt_start_price <= tracker.sqrt_price_reference
      /\ tracker.sqrt_price_reference <= MAX_SQRT_PRICE
  BY ReferenceIsOnCurve
<1>2. /\ sqrt_price' = result.next_sqrt_price
      /\ volatility_tracker' = update_post_swap(tracker, sqrt_price, result.next_sqrt_price, now)
      /\ swaps' = swaps + 1 /\ now' = now
  BY DEF Swap, apply_swap_result
<1> HIDE DEF tracker, result
<1>3. volatility_tracker' = [tracker EXCEPT !.volatility_accumulator = accumulator,
                                            !.last_update_timestamp = updated]
  <2>1. volatility_tracker' = update_post_swap(tracker, sqrt_price, sqrt_price', now)
    BY <1>2
  <2>2. QED
    BY <1>1, <2>1 DEF update_post_swap, update_volatility_accumulator, Tracker
<1>4. updated <= now
  BY <1>1, BoundAssumption, Widths DEF TypeOK
<1> HIDE DEF accumulator, updated
<1>5. /\ volatility_tracker'.last_update_timestamp = updated
      /\ volatility_tracker'.volatility_accumulator = accumulator
      /\ volatility_tracker'.sqrt_price_reference = tracker.sqrt_price_reference
      /\ volatility_tracker'.volatility_reference = tracker.volatility_reference
  BY <1>1, <1>3 DEF Tracker
<1>6. swaps \in Nat
  BY BoundAssumption DEF TypeOK
<1>7. QED
  BY <1>1, <1>2, <1>4, <1>5, <1>6 DEF TrackerBooks, accumulator

(* Only a swap counts as one, and time does not run back.                  *)
LEMMA OnlySwapsCount ==
  ASSUME TypeOK, [PoolNext]_pool_vars
  PROVE  \/ \E direction \in TradeDirection, amount_in \in Nat, least \in Nat, has_referral \in BOOLEAN :
              Swap(direction, amount_in, least, has_referral)
         \/ UNCHANGED <<curve_vars, swaps>> /\ now' \in Nat /\ now <= now'
<1>1. now \in Nat
  BY BoundAssumption, Widths DEF TypeOK
<1> USE DEF world_vars
<1>2. CASE \E direction \in TradeDirection, amount \in SwapAmounts, least \in SwapMinimums, has_referral \in BOOLEAN :
             Swap(direction, amount, least, has_referral)
  BY <1>2, BoundAssumption
<1>3. CASE \/ \E max_base \in ClaimLimits, max_quote \in ClaimLimits :
                ClaimTradingFee(max_base, max_quote)
           \/ ClaimProtocolFee
           \/ PartnerWithdrawSurplus \/ ProtocolWithdrawSurplus
  <2>1. UNCHANGED <<curve_vars, swaps, now>>
    BY <1>3 DEF ClaimTradingFee, ClaimProtocolFee, PartnerWithdrawSurplus, ProtocolWithdrawSurplus
  <2>2. QED
    BY <1>1, <2>1
<1>4. CASE \/ \E amount \in DonationAmounts : DonateBase(amount)
           \/ \E amount \in DonationAmounts : DonateQuote(amount)
           \/ Tick
           \/ UNCHANGED pool_vars
  BY <1>1, <1>4 DEF DonateBase, DonateQuote, Tick, pool_vars
<1>5. QED
  BY <1>2, <1>3, <1>4 DEF PoolNext

(* Every step of the pool keeps the tracker in step with the price.        *)
LEMMA TrackerStep ==
  ASSUME TypeOK, CurveBooks, TrackerBooks, [PoolNext]_pool_vars
  PROVE  TrackerBooks'
<1>1. CASE UNCHANGED <<curve_vars, swaps>> /\ now' \in Nat /\ now <= now'
  <2>1. now \in Nat
    BY BoundAssumption, Widths DEF TypeOK
  <2>2. volatility_tracker.last_update_timestamp \in Nat
    BY Widths DEF TypeOK, VolatilityTracker
  <2>3. QED
    BY <1>1, <2>1, <2>2 DEF TrackerBooks, curve_vars
<1>2. QED
  BY <1>1, OnlySwapsCount, SwapKeepsTracker

(* A new pool has an untouched tracker.                                    *)
LEMMA TrackerInit == Init => TrackerBooks
BY BoundAssumption, Widths DEF Init, InitialTracker, TrackerBooks

(* The accumulator stays within its maximum.                               *)
LEMMA AccumulatorWithin ==
  ASSUME TypeOK, CurveBooks, TrackerBooks, DynamicFee.initialized
  PROVE  volatility_tracker.volatility_accumulator \in 0 .. DynamicFee.max_volatility_accumulator
<1> DEFINE accumulator == volatility_tracker.volatility_accumulator
           limit == DynamicFee.max_volatility_accumulator
<1>1. accumulator \in Nat /\ limit \in Nat
  BY Widths, FeeAssumption DEF TypeOK, VolatilityTracker
<1>2. CASE swaps = 0
  BY <1>1, <1>2 DEF TrackerBooks
<1>3. CASE swaps > 0
  <2>1. PICK sum : accumulator = minimum(sum, limit)
    BY <1>3 DEF TrackerBooks
  <2>2. accumulator = limit \/ (accumulator = sum /\ sum <= limit)
    BY <2>1 DEF minimum
  <2>3. QED
    BY <1>1, <2>2
<1>4. swaps \in Nat
  BY BoundAssumption DEF TypeOK
<1>5. QED
  BY <1>2, <1>3, <1>4

(* A tracker in step with the price is sound.                              *)
LEMMA TrackerFromBooks ==
  ASSUME TypeOK, CurveBooks, TrackerBooks
  PROVE  TrackerSound
<1> SUFFICES ASSUME DynamicFee.initialized, swaps > 0 PROVE TrackerSound
  BY DEF TrackerSound
<1> DEFINE reference == volatility_tracker.sqrt_price_reference
           distance  == get_delta_bin_id(sqrt_price, reference) * BASIS_POINT_MAX
           limit     == DynamicFee.max_volatility_accumulator
           carried   == volatility_tracker.volatility_reference
<1>1. /\ volatility_tracker.last_update_timestamp <= now
      /\ sqrt_start_price <= reference /\ reference <= MAX_SQRT_PRICE
      /\ volatility_tracker.volatility_accumulator = minimum(carried + distance, limit)
  BY DEF TrackerBooks
<1>2. carried \in Nat /\ reference \in Nat /\ limit \in Nat
  BY Widths, FeeAssumption DEF TypeOK, VolatilityTracker
<1>3. distance \in Nat
  <2>1. sqrt_start_price \in Nat \ {0}
    BY CurveFacts DEF Price
  <2>2. reference \in Nat \ {0} /\ sqrt_price \in Nat \ {0}
    BY <1>1, <1>2, <2>1, PoolQuantities, PriceFromCurve DEF PriceWithinCurve
  <2>3. get_delta_bin_id(sqrt_price, reference) \in Nat /\ BASIS_POINT_MAX \in Nat
    BY <2>2, BinDistance, FeeAssumption
  <2>4. QED
    BY <2>3
<1> HIDE DEF distance, carried, limit
<1>4. /\ minimum(carried + distance, limit) <= limit
      /\ minimum(carried + distance, limit) >= minimum(distance, limit)
  BY <1>2, <1>3 DEF minimum
<1>5. QED
  BY <1>1, <1>4 DEF TrackerSound, distance, limit

(* In every reachable state the tracker is in step with the price.         *)
LEMMA TrackerInStep == PoolSpec => []TrackerBooks
<1>1. TypeOK /\ CurveBooks /\ TrackerBooks /\ [PoolNext]_pool_vars => TrackerBooks'
  BY TrackerStep
<1>2. QED
  BY <1>1, TrackerInit, PoolTypeCorrect, PoolOnCurve, PTL DEF PoolSpec

(* The tracker never makes a swap fail and never understates the distance  *)
(* the price has moved, for every fee config and every pattern of swaps.   *)
THEOREM TrackerStaysSound == PoolSpec => []TrackerSound
<1>1. TypeOK /\ CurveBooks /\ TrackerBooks => TrackerSound
  BY TrackerFromBooks
<1>2. QED
  BY <1>1, TrackerInStep, PoolTypeCorrect, PoolOnCurve, PTL

=============================================================================
