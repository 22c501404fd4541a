---------------------------- MODULE VirtualPool ----------------------------
(***************************************************************************)
(* One launched token: the VirtualPool account, the two token vaults the   *)
(* program holds for it, and the base tokens in circulation.  The actions  *)
(* are the instructions that work on these accounts while the curve trades *)
(* and after it completed: swap, the two fee claims and the two surplus    *)
(* withdrawals, next to what anyone may do from outside the program (send  *)
(* tokens to a vault, let time pass).  Migration adds what follows.        *)
(*                                                                         *)
(* A Solana instruction is atomic: a failed require!, checked operation or *)
(* token transfer rolls all of it back.  So an action holds every          *)
(* condition of its handler as a conjunct, and a rejected call is no step. *)
(* Instructions of all users interleave freely.                            *)
(*                                                                         *)
(* A definition marked "Wrong:" is a bug the code does not have.  No       *)
(* specification uses it; substituted for the definition after it, it      *)
(* shows that the properties would notice.                                 *)
(***************************************************************************)
EXTENDS PoolConfig

CONSTANTS
  SwapAmounts,      \* the amount_in values a trader tries
  SwapMinimums,     \* the minimum_amount_out values tried
  ClaimLimits,      \* the max_base_amount / max_quote_amount values tried
  DonationAmounts,  \* amounts sent to a vault from outside
  MAX_SWAPS,        \* bound: number of swaps in a behaviour
  MAX_DONATED,      \* bound: tokens of each kind sent from outside
  START_TIME,       \* the timestamp at which the pool is created
  MAX_TIME          \* bound: the clock

ASSUME BoundAssumption ==
  /\ SwapAmounts \subseteq Nat
  /\ SwapMinimums \subseteq Nat
  /\ ClaimLimits \subseteq Nat
  /\ DonationAmounts \subseteq Nat
  /\ MAX_SWAPS \in Nat
  /\ MAX_DONATED \in Nat
  /\ START_TIME \in U64
  /\ MAX_TIME \in Nat
  /\ START_TIME <= MAX_TIME
  /\ DynamicFee.decay_period <= START_TIME    \* unix time is far from 0

VARIABLES
  sqrt_price, base_reserve, quote_reserve,        \* the curve's own books
  trading_base_fee, trading_quote_fee,            \* the partner's pending fees
  protocol_base_fee, protocol_quote_fee,          \* the protocol's pending fees
  metrics,                                        \* fees ever charged
  volatility_tracker,
  migration_progress, is_migrated, finish_curve_timestamp,
  is_partner_withdraw_surplus, is_protocol_withdraw_surplus,
  base_vault, quote_vault,                        \* token balances of the vaults
  outside_base,   \* base tokens held by traders, partner, protocol, referrers
  paid,           \* history: what the vaults paid to partner and protocol
  swaps,          \* number of swaps so far
  donated,        \* history: base and quote tokens sent to the vaults from outside
  now             \* Clock: the unix timestamp, also the current point

curve_vars   == <<sqrt_price, base_reserve, quote_reserve, volatility_tracker>>
fee_vars     == <<trading_base_fee, trading_quote_fee, protocol_base_fee, protocol_quote_fee>>
stage_vars   == <<migration_progress, is_migrated, finish_curve_timestamp>>
surplus_vars == <<is_partner_withdraw_surplus, is_protocol_withdraw_surplus>>
world_vars   == <<swaps, donated, now>>
pool_vars    == <<curve_vars, fee_vars, metrics, stage_vars, surplus_vars,
                  base_vault, quote_vault, outside_base, paid, world_vars>>

MigrationProgress == {"PreBondingCurve", "PostBondingCurve", "LockedVesting", "CreatedPool"}
TradeDirection    == {"BaseToQuote", "QuoteToBase"}

ACTIVATION_POINT == START_TIME     \* initialize_virtual_pool: the current point

PoolMetrics ==
  [trading_base : U64, trading_quote : U64, protocol_base : U64, protocol_quote : U64]

Payments ==
  [partner_base : Nat, partner_quote : Nat, treasury_base : Nat, treasury_quote : Nat,
   partner_surplus : Nat, treasury_surplus : Nat]

VolatilityTracker ==
  [last_update_timestamp : U64, sqrt_price_reference : U128,
   volatility_accumulator : U128, volatility_reference : U128]

base_fees  == trading_base_fee + protocol_base_fee   \* get_protocol_and_partner_base_fee
quote_fees == trading_quote_fee + protocol_quote_fee

is_curve_complete == quote_reserve >= migration_quote_threshold

-----------------------------------------------------------------------------
(* initialize_virtual_pool: the whole supply is minted to the base vault.  *)
Init ==
  /\ sqrt_price = sqrt_start_price
  /\ base_reserve = initial_base_supply
  /\ quote_reserve = 0
  /\ trading_base_fee = 0 /\ trading_quote_fee = 0
  /\ protocol_base_fee = 0 /\ protocol_quote_fee = 0
  /\ metrics = [trading_base |-> 0, trading_quote |-> 0, protocol_base |-> 0, protocol_quote |-> 0]
  /\ volatility_tracker = InitialTracker
  /\ migration_progress = "PreBondingCurve"
  /\ is_migrated = FALSE
  /\ finish_curve_timestamp = 0
  /\ is_partner_withdraw_surplus = FALSE /\ is_protocol_withdraw_surplus = FALSE
  /\ base_vault = initial_base_supply
  /\ quote_vault = 0
  /\ outside_base = 0
  /\ paid = [partner_base |-> 0, partner_quote |-> 0, treasury_base |-> 0, treasury_quote |-> 0,
             partner_surplus |-> 0, treasury_surplus |-> 0]
  /\ swaps = 0
  /\ donated = [base |-> 0, quote |-> 0]
  /\ now = START_TIME

-----------------------------------------------------------------------------
(* swap *)
SwapResult ==
  [actual_input_amount : U64, output_amount : U64, next_sqrt_price : U128,
   trading_fee : U64, protocol_fee : U64, referral_fee : U64]

(* The swap of an amount on a pool with this price and tracker, at point.  *)
swap_result_at(price, point, tracker, amount_in, mode, direction) ==
  LET fee_on(amount) ==
        get_fee_on_amount(tracker, amount, mode.has_referral, point, ACTIVATION_POINT)
      actual_in == IF mode.fees_on_input THEN fee_on(amount_in).amount ELSE amount_in
      walk == IF direction = "BaseToQuote"
              THEN get_swap_amount_from_base_to_quote(Curve, price, actual_in)
              ELSE get_swap_amount_from_quote_to_base(Curve, price, actual_in)
      fee  == IF mode.fees_on_input THEN fee_on(amount_in) ELSE fee_on(walk.output_amount)
  IN  [ok     |-> walk.ok /\ walk.output_amount \in U64,
       result |->
         [actual_input_amount |-> actual_in,
          output_amount       |-> IF mode.fees_on_input THEN walk.output_amount ELSE fee.amount,
          next_sqrt_price     |-> walk.next_sqrt_price,
          trading_fee         |-> fee.trading_fee,
          protocol_fee        |-> fee.protocol_fee,
          referral_fee        |-> fee.referral_fee]]

get_swap_result(tracker, amount_in, mode, direction) ==
  swap_result_at(sqrt_price, now, tracker, amount_in, mode, direction)

(* The reserves move by what crossed the curve: an output fee leaves the   *)
(* reserve with the output.                                                *)
(* Wrong: the referral fee is forgotten.                                   *)
reserve_out_no_referral(result, mode) ==
  IF mode.fees_on_input
  THEN result.output_amount
  ELSE result.output_amount + result.trading_fee + result.protocol_fee

reserve_out(result, mode) ==
  IF mode.fees_on_input
  THEN result.output_amount
  ELSE result.output_amount + result.trading_fee + result.protocol_fee + result.referral_fee

(* The pool account after the swap.                                        *)
apply_swap_result(result, mode, direction, tracker) ==
  LET on_base  == mode.fees_on_base_token
      trading(base)  == IF on_base = base THEN result.trading_fee ELSE 0
      protocol(base) == IF on_base = base THEN result.protocol_fee ELSE 0
  IN  /\ sqrt_price' = result.next_sqrt_price
      /\ trading_base_fee' = trading_base_fee + trading(TRUE)
      /\ trading_quote_fee' = trading_quote_fee + trading(FALSE)
      /\ protocol_base_fee' = protocol_base_fee + protocol(TRUE)
      /\ protocol_quote_fee' = protocol_quote_fee + protocol(FALSE)
      /\ metrics' = [trading_base   |-> metrics.trading_base + trading(TRUE),
                     trading_quote  |-> metrics.trading_quote + trading(FALSE),
                     protocol_base  |-> metrics.protocol_base + protocol(TRUE),
                     protocol_quote |-> metrics.protocol_quote + protocol(FALSE)]
      /\ metrics' \in PoolMetrics
      /\ IF direction = "BaseToQuote"
         THEN /\ base_reserve' = base_reserve + result.actual_input_amount
              /\ quote_reserve' = quote_reserve - reserve_out(result, mode)
         ELSE /\ quote_reserve' = quote_reserve + result.actual_input_amount
              /\ base_reserve' = base_reserve - reserve_out(result, mode)
      /\ {base_reserve', quote_reserve', trading_base_fee', trading_quote_fee',
          protocol_base_fee', protocol_quote_fee'} \subseteq U64
      /\ volatility_tracker' =
           update_post_swap(tracker, sqrt_price, result.next_sqrt_price, now)
      /\ volatility_tracker' \in VolatilityTracker

(* The token transfers: the input to its vault, the output to the trader   *)
(* and the referral fee to the referrer.  The trader owns what it sells.   *)
swap_transfers(result, mode, direction, amount_in) ==
  /\ IF direction = "BaseToQuote"
     THEN /\ amount_in <= outside_base
          /\ base_vault' = base_vault + amount_in
          /\ outside_base' = outside_base - amount_in
          /\ quote_vault' = quote_vault - result.output_amount - result.referral_fee
     ELSE LET base_referral == IF mode.fees_on_base_token THEN result.referral_fee ELSE 0
          IN  /\ quote_vault' = quote_vault + amount_in - (result.referral_fee - base_referral)
              /\ base_vault' = base_vault - result.output_amount - base_referral
              /\ outside_base' = outside_base + result.output_amount + base_referral
  /\ {base_vault', quote_vault'} \subseteq U64

(* The swap that reaches the threshold must leave enough base tokens for   *)
(* the migrated pool next to the pending base fees, and moves the stage.   *)
(* Wrong: not checked.                                                     *)
enough_base_unchecked == TRUE

(* Wrong: the pending base fees are forgotten.                             *)
enough_base_no_fees == base_vault' >= migration_base_threshold

enough_base_for_migration == base_vault' >= migration_base_threshold + base_fees'

(* Wrong: a vesting is not waited for.                                     *)
after_bonding_no_vesting == "LockedVesting"

after_bonding == IF has_vesting THEN "PostBondingCurve" ELSE "LockedVesting"

complete_curve ==
  IF is_curve_complete'
  THEN /\ enough_base_for_migration
       /\ finish_curve_timestamp' = now
       /\ migration_progress' = after_bonding
  ELSE UNCHANGED <<finish_curve_timestamp, migration_progress>>

(* Wrong: a completed curve goes on trading.                               *)
may_swap_always(amount_in) == amount_in > 0

may_swap(amount_in) == amount_in > 0 /\ ~is_curve_complete

Swap(direction, amount_in, minimum_amount_out, has_referral) ==
  LET mode    == get_fee_mode(direction, has_referral)
      tracker == update_pre_swap(volatility_tracker, sqrt_price, now)
  IN  /\ swaps < MAX_SWAPS
      /\ swaps' = swaps + 1
      /\ may_swap(amount_in)
      /\ \E outcome \in {get_swap_result(tracker, amount_in, mode, direction)} :
           /\ outcome.ok
           /\ outcome.result \in SwapResult
           /\ minimum_amount_out <= outcome.result.output_amount
           /\ apply_swap_result(outcome.result, mode, direction, tracker)
           /\ swap_transfers(outcome.result, mode, direction, amount_in)
      /\ complete_curve
      /\ UNCHANGED <<is_migrated, surplus_vars, paid, donated, now>>

-----------------------------------------------------------------------------
(* claim_trading_fee: the partner, up to the limits it names.              *)
(* Wrong: what is above the limit is forgotten.                            *)
ClaimTradingFee_forgets_rest(max_base_amount, max_quote_amount) ==
  LET base  == minimum(trading_base_fee, max_base_amount)
      quote == minimum(trading_quote_fee, max_quote_amount)
  IN  /\ trading_base_fee' = 0
      /\ trading_quote_fee' = 0
      /\ base_vault' = base_vault - base
      /\ quote_vault' = quote_vault - quote
      /\ {base_vault', quote_vault'} \subseteq U64
      /\ outside_base' = outside_base + base
      /\ paid' = [paid EXCEPT !.partner_base = @ + base, !.partner_quote = @ + quote]
      /\ UNCHANGED <<curve_vars, protocol_base_fee, protocol_quote_fee, metrics,
                     stage_vars, surplus_vars, world_vars>>

ClaimTradingFee(max_base_amount, max_quote_amount) ==
  LET base  == minimum(trading_base_fee, max_base_amount)
      quote == minimum(trading_quote_fee, max_quote_amount)
  IN  /\ trading_base_fee' = trading_base_fee - base
      /\ trading_quote_fee' = trading_quote_fee - quote
      /\ base_vault' = base_vault - base
      /\ quote_vault' = quote_vault - quote
      /\ {base_vault', quote_vault'} \subseteq U64
      /\ outside_base' = outside_base + base
      /\ paid' = [paid EXCEPT !.partner_base = @ + base, !.partner_quote = @ + quote]
      /\ UNCHANGED <<curve_vars, protocol_base_fee, protocol_quote_fee, metrics,
                     stage_vars, surplus_vars, world_vars>>

(* claim_protocol_fee: an operator, for the treasury, all of it.           *)
(* Wrong: the base fee is not reset.                                       *)
ClaimProtocolFee_keeps_base ==
  /\ UNCHANGED protocol_base_fee
  /\ protocol_quote_fee' = 0
  /\ base_vault' = base_vault - protocol_base_fee
  /\ quote_vault' = quote_vault - protocol_quote_fee
  /\ {base_vault', quote_vault'} \subseteq U64
  /\ outside_base' = outside_base + protocol_base_fee
  /\ paid' = [paid EXCEPT !.treasury_base = @ + protocol_base_fee,
                          !.treasury_quote = @ + protocol_quote_fee]
  /\ UNCHANGED <<curve_vars, trading_base_fee, trading_quote_fee, metrics,
                 stage_vars, surplus_vars, world_vars>>

ClaimProtocolFee ==
  /\ protocol_base_fee' = 0
  /\ protocol_quote_fee' = 0
  /\ base_vault' = base_vault - protocol_base_fee
  /\ quote_vault' = quote_vault - protocol_quote_fee
  /\ {base_vault', quote_vault'} \subseteq U64
  /\ outside_base' = outside_base + protocol_base_fee
  /\ paid' = [paid EXCEPT !.treasury_base = @ + protocol_base_fee,
                          !.treasury_quote = @ + protocol_quote_fee]
  /\ UNCHANGED <<curve_vars, trading_base_fee, trading_quote_fee, metrics,
                 stage_vars, surplus_vars, world_vars>>

-----------------------------------------------------------------------------
(* The surplus: what the last buy raised over the threshold.               *)
PARTNER_SURPLUS_SHARE == 90

get_total_surplus == quote_reserve - migration_quote_threshold
get_partner_surplus == mul_div_down(get_total_surplus, PARTNER_SURPLUS_SHARE, 100)
(* Wrong: the protocol takes the partner's share too.                      *)
get_protocol_surplus_all == get_total_surplus

get_protocol_surplus == get_total_surplus - get_partner_surplus

(* Wrong: the flag is not set.                                             *)
PartnerWithdrawSurplus_again ==
  /\ is_curve_complete
  /\ ~is_partner_withdraw_surplus
  /\ quote_vault' = quote_vault - get_partner_surplus
  /\ quote_vault' \in U64
  /\ paid' = [paid EXCEPT !.partner_surplus = @ + get_partner_surplus]
  /\ UNCHANGED <<curve_vars, fee_vars, metrics, stage_vars, surplus_vars,
                 base_vault, outside_base, world_vars>>

(* Wrong: before the curve is complete.                                    *)
PartnerWithdrawSurplus_early ==
  /\ ~is_partner_withdraw_surplus
  /\ is_partner_withdraw_surplus' = TRUE
  /\ quote_vault' = quote_vault - get_partner_surplus
  /\ quote_vault' \in U64
  /\ paid' = [paid EXCEPT !.partner_surplus = @ + get_partner_surplus]
  /\ UNCHANGED <<curve_vars, fee_vars, metrics, stage_vars, is_protocol_withdraw_surplus,
                 base_vault, outside_base, world_vars>>

PartnerWithdrawSurplus ==
  /\ is_curve_complete
  /\ ~is_partner_withdraw_surplus
  /\ is_partner_withdraw_surplus' = TRUE
  /\ quote_vault' = quote_vault - get_partner_surplus
  /\ quote_vault' \in U64
  /\ paid' = [paid EXCEPT !.partner_surplus = @ + get_partner_surplus]
  /\ UNCHANGED <<curve_vars, fee_vars, metrics, stage_vars, is_protocol_withdraw_surplus,
                 base_vault, outside_base, world_vars>>

ProtocolWithdrawSurplus ==
  /\ is_curve_complete
  /\ ~is_protocol_withdraw_surplus
  /\ is_protocol_withdraw_surplus' = TRUE
  /\ quote_vault' = quote_vault - get_protocol_surplus
  /\ quote_vault' \in U64
  /\ paid' = [paid EXCEPT !.treasury_surplus = @ + get_protocol_surplus]
  /\ UNCHANGED <<curve_vars, fee_vars, metrics, stage_vars, is_partner_withdraw_surplus,
                 base_vault, outside_base, world_vars>>

-----------------------------------------------------------------------------
(* Outside the program: the token program lets anyone send tokens to a     *)
(* vault, and the clock advances.                                          *)
DonateBase(amount) ==
  /\ donated.base + amount <= MAX_DONATED
  /\ amount <= outside_base
  /\ donated' = [donated EXCEPT !.base = @ + amount]
  /\ outside_base' = outside_base - amount
  /\ base_vault' = base_vault + amount
  /\ base_vault' \in U64
  /\ UNCHANGED <<curve_vars, fee_vars, metrics, stage_vars, surplus_vars, quote_vault, paid, swaps, now>>

DonateQuote(amount) ==
  /\ donated.quote + amount <= MAX_DONATED
  /\ donated' = [donated EXCEPT !.quote = @ + amount]
  /\ quote_vault' = quote_vault + amount
  /\ quote_vault' \in U64
  /\ UNCHANGED <<curve_vars, fee_vars, metrics, stage_vars, surplus_vars, base_vault,
                 outside_base, paid, swaps, now>>

Tick ==
  /\ now < MAX_TIME
  /\ now' = now + 1
  /\ UNCHANGED <<curve_vars, fee_vars, metrics, stage_vars, surplus_vars, base_vault,
                 quote_vault, outside_base, paid, swaps, donated>>

-----------------------------------------------------------------------------
PoolNext ==
  \/ \E direction \in TradeDirection, amount \in SwapAmounts, minimum_out \in SwapMinimums,
        has_referral \in BOOLEAN :
       Swap(direction, amount, minimum_out, has_referral)
  \/ \E max_base \in ClaimLimits, max_quote \in ClaimLimits :
       ClaimTradingFee(max_base, max_quote)
  \/ ClaimProtocolFee
  \/ PartnerWithdrawSurplus
  \/ ProtocolWithdrawSurplus
  \/ \E amount \in DonationAmounts : DonateBase(amount)
  \/ \E amount \in DonationAmounts : DonateQuote(amount)
  \/ Tick

PoolSpec == Init /\ [][PoolNext]_pool_vars

-----------------------------------------------------------------------------
(* Properties of the curve's books, with PoolSpec: what the rounding of    *)
(* the two walks must guarantee over any sequence of buys and sells.       *)

(* Every field holds a value of its width.                                 *)
TypeOK ==
  /\ sqrt_price \in U128
  /\ {base_reserve, quote_reserve, trading_base_fee, trading_quote_fee,
      protocol_base_fee, protocol_quote_fee, base_vault, quote_vault} \subseteq U64
  /\ metrics \in PoolMetrics
  /\ volatility_tracker \in VolatilityTracker
  /\ migration_progress \in MigrationProgress
  /\ {is_migrated, is_partner_withdraw_surplus, is_protocol_withdraw_surplus} \subseteq BOOLEAN
  /\ outside_base \in Nat
  /\ paid \in Payments
  /\ swaps \in 0 .. MAX_SWAPS
  /\ donated \in [base : 0 .. MAX_DONATED, quote : 0 .. MAX_DONATED]
  /\ now \in START_TIME .. MAX_TIME
  /\ finish_curve_timestamp \in 0 .. now

(* A run on the pool cannot fail: whatever part of the base tokens in      *)
(* circulation is sold back at once, the quote reserve covers what the     *)
(* curve pays, so apply_swap_result's checked subtraction never rejects a  *)
(* sale before completion.                                                 *)
HoldersCanExit ==
  ~is_curve_complete =>
    \A amount \in 1 .. outside_base :
      get_swap_amount_from_base_to_quote(Curve, sqrt_price, amount).output_amount
        <= quote_reserve

(* Sales cannot push the price below where the curve starts, although the  *)
(* walk down has no lower bound: the circulating base tokens run out first.*)
PriceWithinCurve == sqrt_start_price <= sqrt_price /\ sqrt_price <= MAX_SQRT_PRICE

(* The pool can always graduate: before completion there is one buy that   *)
(* reaches the threshold, stays on the curve and leaves the base tokens    *)
(* the migrated pool needs, so the check at the end of handle_swap cannot  *)
(* lock a pool in its bonding phase.                                       *)
CanGraduate ==
  ~is_curve_complete =>
    LET missing == migration_quote_threshold - quote_reserve
        buy     == get_swap_amount_from_quote_to_base(Curve, sqrt_price, missing)
    IN  buy.ok /\ base_vault >= buy.output_amount + migration_base_threshold + base_fees

(* A completed curve is closed: no instruction moves price or reserves.    *)
CompletedCurveFrozen ==
  [][is_curve_complete => UNCHANGED <<sqrt_price, base_reserve, quote_reserve>>]_pool_vars

-----------------------------------------------------------------------------
(* The dynamic fee.                                                        *)

(* The tracker can never make a swap fail: its timestamp is not ahead of   *)
(* the clock (elapsed is a checked subtraction), its reference price is a  *)
(* price of the curve (get_delta_bin_id divides by it), and its            *)
(* accumulator, capped by the config, covers the whole distance between    *)
(* that reference and the current price, however the swaps and pauses came.*)
TrackerSound ==
  DynamicFee.initialized /\ swaps > 0 =>
    LET reference == volatility_tracker.sqrt_price_reference
        distance  == get_delta_bin_id(sqrt_price, reference) * BASIS_POINT_MAX
    IN  /\ volatility_tracker.last_update_timestamp <= now
        /\ sqrt_start_price <= reference /\ reference <= MAX_SQRT_PRICE
        /\ volatility_tracker.volatility_accumulator <= DynamicFee.max_volatility_accumulator
        /\ volatility_tracker.volatility_accumulator
             >= minimum(distance, DynamicFee.max_volatility_accumulator)

(* A full reduction factor, "BASIS_POINT_MAX = 100% reduction" in          *)
(* params/fee_parameters.rs, leaves no volatility to carry into the first  *)
(* swap after the filter period.                                           *)
FullReductionResets ==
  [][swaps' > swaps
       /\ DynamicFee.reduction_factor = BASIS_POINT_MAX
       /\ now - volatility_tracker.last_update_timestamp >= DynamicFee.filter_period
     => volatility_tracker'.volatility_reference = 0]_pool_vars

=============================================================================
