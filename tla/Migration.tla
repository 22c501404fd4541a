----------------------------- MODULE Migration -----------------------------
(***************************************************************************)
(* The whole life of a launched token: the pool of VirtualPool and, when   *)
(* its curve is complete, the way out of it.  A creator vesting (if the    *)
(* config has one) is locked first; then the migration instruction of the  *)
(* configured AMM takes the migration amounts out of the two vaults,       *)
(* creates the AMM pool and burns the base tokens left over; for DAMM v1   *)
(* the LP tokens the program received are then handed out, each share by   *)
(* an instruction of its own, tracked by four flags in the migration       *)
(* metadata account.  DAMM v2 hands out two positions at once.             *)
(*                                                                         *)
(* Every instruction here may be sent by anyone, in any order, and runs    *)
(* interleaved with claims, surplus withdrawals and donations.             *)
(*                                                                         *)
(* The AMMs and the locker are other programs: what they take from the     *)
(* vaults is modelled from the accounts and amounts this program passes.   *)
(***************************************************************************)
EXTENDS VirtualPool

CONSTANTS
  PARTNER,       \* config.fee_claimer
  CREATOR,       \* virtual_pool.creator
  LpMinted       \* what DAMM v1 may mint for the migration amounts

ASSUME MigrationAssumption ==
  /\ LpMinted \subseteq U64
  /\ MAX_SQRT_PRICE <= ONE_SQUARED      \* about 2^96 and 2^128 in the program

VARIABLES
  escrow_base,          \* base tokens in the creator's vesting escrow
  damm,                 \* tokens in the AMM pool
  migration_metadata,   \* the metadata account: shares and the four flags
  virtual_pool_lp,      \* LP tokens the program holds
  lp_received           \* history: liquidity each owner was given

migration_vars == <<escrow_base, damm, migration_metadata, virtual_pool_lp, lp_received>>
vars == <<pool_vars, migration_vars>>

Roles  == {"partner", "creator"}
Owners == {PARTNER, CREATOR}
Item   == [unlocked : Nat, locked : Nat]

MigrationMetadata ==
  [created : BOOLEAN, share : [Roles -> Item],
   lock_status : [Roles -> BOOLEAN], claim_status : [Roles -> BOOLEAN]]

key_of == [partner |-> PARTNER, creator |-> CREATOR]

NoLiquidity == [role \in Roles |-> [unlocked |-> 0, locked |-> 0]]
NoFlag      == [role \in Roles |-> FALSE]

MigrationInit ==
  /\ Init
  /\ escrow_base = 0
  /\ damm = [base |-> 0, quote |-> 0]
  /\ migration_metadata =
       [created |-> FALSE, share |-> NoLiquidity, lock_status |-> NoFlag, claim_status |-> NoFlag]
  /\ virtual_pool_lp = 0
  /\ lp_received = [owner \in Owners |-> [unlocked |-> 0, locked |-> 0]]

-----------------------------------------------------------------------------
(* migration_meteora_damm_create_metadata, migration_damm_v2_create_       *)
(* metadata: the account is initialised once, at any time.                 *)
CreateMetadata ==
  /\ ~migration_metadata.created
  /\ migration_metadata' = [migration_metadata EXCEPT !.created = TRUE]
  /\ UNCHANGED <<pool_vars, escrow_base, damm, virtual_pool_lp, lp_received>>

(* create_locker: the whole vesting moves from the base vault to an escrow *)
(* of the locker program, which is told when the cliff ends.  That time is *)
(* a checked u64 sum, of a duration that create_config does not bound.     *)
cliff_time == finish_curve_timestamp + LockedVesting.cliff_duration_from_migration_time

CreateLocker ==
  /\ migration_progress = "PostBondingCurve"
  /\ cliff_time \in U64
  /\ base_vault' = base_vault - vesting_total
  /\ base_vault' \in U64
  /\ escrow_base' = escrow_base + vesting_total
  /\ migration_progress' = "LockedVesting"
  /\ UNCHANGED <<curve_vars, fee_vars, metrics, is_migrated, finish_curve_timestamp, surplus_vars,
                 quote_vault, outside_base, paid, world_vars,
                 damm, migration_metadata, virtual_pool_lp, lp_received>>

-----------------------------------------------------------------------------
(* What both migrations do to the pool and the vaults: the AMM takes its   *)
(* deposit, and everything left of the base vault is burnt, except the     *)
(* fees still to be claimed.                                               *)
can_migrate(option) ==
  /\ migration_progress = "LockedVesting"
  /\ migration_metadata.created
  /\ is_curve_complete
  /\ migration_option = option

(* Wrong: the pending base fees are burnt too.                             *)
left_base_token_all(deposit_base) == base_vault - deposit_base

left_base_token(deposit_base) == base_vault - deposit_base - base_fees

create_pool(deposit_base, deposit_quote) ==
  /\ left_base_token(deposit_base) \in U64
  /\ base_vault' = base_vault - deposit_base - left_base_token(deposit_base)
  /\ quote_vault' = quote_vault - deposit_quote
  /\ quote_vault' \in U64
  /\ damm' = [base |-> deposit_base, quote |-> deposit_quote]
  /\ is_migrated' = TRUE
  /\ migration_progress' = "CreatedPool"
  /\ UNCHANGED <<curve_vars, fee_vars, metrics, finish_curve_timestamp, surplus_vars,
                 outside_base, paid, world_vars, escrow_base>>

(* migrate_meteora_damm: the LP tokens stay with the program, split into   *)
(* the four shares.                                                        *)
(* Wrong: the surplus is migrated with the threshold.                      *)
MigrateMeteoraDamm_all(lp_minted_amount) ==
  /\ can_migrate("MeteoraDamm")
  /\ create_pool(migration_base_threshold, quote_reserve)
  /\ virtual_pool_lp' = virtual_pool_lp + lp_minted_amount
  /\ migration_metadata' =
       [migration_metadata EXCEPT !.share = get_lp_distribution(lp_minted_amount)]
  /\ UNCHANGED lp_received

MigrateMeteoraDamm(lp_minted_amount) ==
  /\ can_migrate("MeteoraDamm")
  /\ create_pool(migration_base_threshold, migration_quote_threshold)
  /\ virtual_pool_lp' = virtual_pool_lp + lp_minted_amount
  /\ migration_metadata' =
       [migration_metadata EXCEPT !.share = get_lp_distribution(lp_minted_amount)]
  /\ UNCHANGED lp_received

-----------------------------------------------------------------------------
(* Wrong: the scarcer token does not limit.                                *)
get_liquidity_unlimited(base_amount, quote_amount) ==
  maximum(
    get_initial_liquidity_from_delta_base(base_amount, MAX_SQRT_PRICE, migration_sqrt_price),
    get_initial_liquidity_from_delta_quote(quote_amount, MIN_SQRT_PRICE, migration_sqrt_price))

get_liquidity_for_adding_liquidity(base_amount, quote_amount) ==
  minimum(
    get_initial_liquidity_from_delta_base(base_amount, MAX_SQRT_PRICE, migration_sqrt_price),
    get_initial_liquidity_from_delta_quote(quote_amount, MIN_SQRT_PRICE, migration_sqrt_price))

(* Both are cast to u128, the smaller one too.  The second position's are  *)
(* of smaller amounts, so the first position's casts stand for all four.   *)
liquidity_fits(base_amount, quote_amount) ==
  {get_initial_liquidity_from_delta_base(base_amount, MAX_SQRT_PRICE, migration_sqrt_price),
   get_initial_liquidity_from_delta_quote(quote_amount, MIN_SQRT_PRICE, migration_sqrt_price)}
    \subseteq U128

(* DAMM v2 takes the rounded-up amounts of the liquidity it is asked for.  *)
deposit_of(liquidity) ==
  get_initialize_amounts(MIN_SQRT_PRICE, MAX_SQRT_PRICE, migration_sqrt_price, liquidity)

give(received, owner, item) ==
  [received EXCEPT ![owner] = [unlocked |-> @.unlocked + item.unlocked,
                               locked   |-> @.locked + item.locked]]

(* The larger share becomes the first position and creates the pool; the   *)
(* second position gets what liquidity the rest of the two amounts is      *)
(* still worth, its unlocked part first.  (The checked divisions by a      *)
(* price distance fail at either end of the price range.)                  *)
first_role(distribution) ==
  IF get_total_liquidity(distribution.partner) > get_total_liquidity(distribution.creator)
  THEN "partner" ELSE "creator"

(* Wrong: the second position is not locked.                               *)
second_position_unlocked(item, liquidity) == [unlocked |-> liquidity, locked |-> 0]

second_position(item, liquidity) ==
  LET unlocked_lp == minimum(liquidity, item.unlocked)
  IN  [unlocked |-> unlocked_lp, locked |-> liquidity - unlocked_lp]

first_distribution ==
  get_lp_distribution(
    get_liquidity_for_adding_liquidity(base_vault - base_fees, migration_quote_threshold))

MigrateDammV2 ==
  /\ can_migrate("DammV2")
  /\ migration_sqrt_price \in MIN_SQRT_PRICE + 1 .. MAX_SQRT_PRICE - 1
  /\ base_vault >= base_fees
  /\ liquidity_fits(base_vault - base_fees, migration_quote_threshold)
  /\ \E distribution \in {first_distribution} :
       LET first      == first_role(distribution)
           second     == IF first = "partner" THEN "creator" ELSE "partner"
           deposited  == deposit_of(get_total_liquidity(distribution[first]))
           left_base  == base_vault - base_fees - deposited.base
           left_quote == migration_quote_threshold - deposited.quote
       IN  /\ get_total_liquidity(distribution[first]) > 0
           /\ left_base >= 0 /\ left_quote >= 0
           /\ \E rest \in {get_liquidity_for_adding_liquidity(left_base, left_quote)} :
                /\ create_pool(deposited.base + deposit_of(rest).base,
                               deposited.quote + deposit_of(rest).quote)
                /\ lp_received' =
                     give(give(lp_received, key_of[first], distribution[first]),
                          key_of[second], second_position(distribution[second], rest))
  /\ UNCHANGED <<migration_metadata, virtual_pool_lp>>

-----------------------------------------------------------------------------
(* Handing out the LP tokens of DAMM v1.  An owner who is the partner is   *)
(* served as the partner; only another one is compared with the creator.   *)
(* (lock for a stranger changes nothing, claim for one fails.)             *)
role_of(owner) == IF owner = PARTNER THEN "partner" ELSE "creator"

hand_out(owner, kind, amount) ==
  /\ amount # 0
  /\ virtual_pool_lp' = virtual_pool_lp - amount
  /\ virtual_pool_lp' \in U64
  /\ lp_received' = [lp_received EXCEPT ![owner][kind] = @ + amount]
  /\ UNCHANGED <<pool_vars, escrow_base, damm>>

(* migrate_meteora_damm_lock_lp_token                                      *)
(* Wrong: the flag is not set.                                             *)
LockLpToken_again(owner) ==
  LET role == role_of(owner)
  IN  /\ migration_progress = "CreatedPool"
      /\ migration_option = "MeteoraDamm"
      /\ ~migration_metadata.lock_status[role]
      /\ UNCHANGED migration_metadata
      /\ hand_out(owner, "locked", migration_metadata.share[role].locked)

LockLpToken(owner) ==
  LET role == role_of(owner)
  IN  /\ migration_progress = "CreatedPool"
      /\ migration_option = "MeteoraDamm"
      /\ ~migration_metadata.lock_status[role]
      /\ migration_metadata' = [migration_metadata EXCEPT !.lock_status[role] = TRUE]
      /\ hand_out(owner, "locked", migration_metadata.share[role].locked)

(* migrate_meteora_damm_claim_lp_token                                     *)
ClaimLpToken(owner) ==
  LET role == role_of(owner)
  IN  /\ migration_progress = "CreatedPool"
      /\ migration_option = "MeteoraDamm"
      /\ ~migration_metadata.claim_status[role]
      /\ migration_metadata' = [migration_metadata EXCEPT !.claim_status[role] = TRUE]
      /\ hand_out(owner, "unlocked", migration_metadata.share[role].unlocked)

-----------------------------------------------------------------------------
Trade == PoolNext /\ UNCHANGED migration_vars

Migrate ==
  \/ \E lp_minted_amount \in LpMinted : MigrateMeteoraDamm(lp_minted_amount)
  \/ MigrateDammV2

HandOut == \E owner \in Owners : LockLpToken(owner) \/ ClaimLpToken(owner)

Next ==
  \/ Trade
  \/ CreateMetadata
  \/ CreateLocker
  \/ Migrate
  \/ HandOut

Spec == MigrationInit /\ [][Next]_vars

(* Anyone can send these instructions for any pool ("PERMISSIONLESS        *)
(* FUNCTIONS" in lib.rs), so someone who keeps trying is assumed.  Traders, *)
(* the partner and the protocol are not obliged to do anything.            *)
Fairness ==
  /\ WF_vars(CreateMetadata)
  /\ WF_vars(CreateLocker)
  /\ WF_vars(Migrate)
  /\ \A owner \in Owners : WF_vars(LockLpToken(owner)) /\ WF_vars(ClaimLpToken(owner))

FairSpec == Spec /\ Fairness

-----------------------------------------------------------------------------
(* Type correctness of the whole launch.                                   *)
LaunchTypeOK ==
  /\ TypeOK
  /\ escrow_base \in Nat
  /\ damm \in [base : Nat, quote : Nat]
  /\ migration_metadata \in MigrationMetadata
  /\ virtual_pool_lp \in U64
  /\ lp_received \in [Owners -> Item]

(* Every token in the vaults has an owner: the vault balances are at all   *)
(* times the pool's books plus what was sent in from outside, less what    *)
(* the vesting escrow, the AMM pool and the surplus withdrawals took.  No  *)
(* rounding, referral fee or order of instructions creates a difference.   *)
(* (What the migration leaves in the base vault over the fees is burnt.)   *)
VaultsBacked ==
  /\ quote_vault = quote_reserve + quote_fees + donated.quote
                     - damm.quote - paid.partner_surplus - paid.treasury_surplus
  /\ ~is_migrated => base_vault = base_reserve + base_fees + donated.base - escrow_base
  /\ is_migrated => base_vault >= base_fees

(* Nobody's quote claim can be blocked by somebody who was faster: the     *)
(* quote vault holds the pending fees, the surplus shares not yet          *)
(* withdrawn and, until the migration, the threshold it takes.             *)
unpaid_surplus ==
  (IF is_partner_withdraw_surplus THEN 0 ELSE get_partner_surplus)
    + (IF is_protocol_withdraw_surplus THEN 0 ELSE get_protocol_surplus)

QuoteClaimsCovered ==
  quote_vault >= quote_fees
    + (IF ~is_curve_complete THEN quote_reserve
       ELSE unpaid_surplus + (IF is_migrated THEN 0 ELSE migration_quote_threshold))

(* Without a vesting the base vault covers the pending base fees at every  *)
(* stage, whatever sells, migration and burn did to it.                    *)
BaseFeesCovered == ~has_vesting => base_vault >= base_fees

(* The check at the end of handle_swap does its work: a pool waiting for   *)
(* its migration holds the base tokens the AMM pool takes, next to the     *)
(* base fees still to be claimed.  It holds without a vesting only: the    *)
(* check does not count the tokens create_locker takes afterwards.         *)
MigrationFunded ==
  migration_progress = "LockedVesting" =>
    base_vault >= migration_base_threshold + base_fees

(* Fees are neither lost nor paid twice: what was ever charged is what was *)
(* paid out plus what is pending, for both tokens and both receivers.      *)
FeesAccounted ==
  /\ metrics.trading_base   = paid.partner_base + trading_base_fee
  /\ metrics.trading_quote  = paid.partner_quote + trading_quote_fee
  /\ metrics.protocol_base  = paid.treasury_base + protocol_base_fee
  /\ metrics.protocol_quote = paid.treasury_quote + protocol_quote_fee

(* Each surplus share is paid at most once and in full, even when the      *)
(* migration comes in between, and only by a complete curve.               *)
SurplusPaidOnce ==
  /\ paid.partner_surplus =
       IF is_partner_withdraw_surplus THEN get_partner_surplus ELSE 0
  /\ paid.treasury_surplus =
       IF is_protocol_withdraw_surplus THEN get_protocol_surplus ELSE 0
  /\ is_partner_withdraw_surplus \/ is_protocol_withdraw_surplus \/ is_migrated
       => is_curve_complete

(* The LP tokens the program holds are exactly the shares not handed out:  *)
(* no share can be drawn twice or from another's.                          *)
left_of(role) ==
  (IF migration_metadata.lock_status[role] THEN 0 ELSE migration_metadata.share[role].locked)
    + (IF migration_metadata.claim_status[role] THEN 0
       ELSE migration_metadata.share[role].unlocked)

LpBacked == virtual_pool_lp = left_of("partner") + left_of("creator")

-----------------------------------------------------------------------------
(* A complete curve is migrated in the end, with FairSpec.                 *)
CompleteCurveMigrates == is_curve_complete ~> is_migrated

(* After a DAMM v1 migration every LP token reaches an owner, with         *)
(* FairSpec: the program keeps none.                                       *)
LpHandedOut == is_migrated ~> (is_migrated /\ virtual_pool_lp = 0)

-----------------------------------------------------------------------------
(* DAMM v2, without a vesting: the two owners get what the percentages     *)
(* promise of the threshold's liquidity, locked and unlocked, although the *)
(* second position is recomputed from what the first one left.  The three  *)
(* amounts rounded up cost two quote tokens and a base token at most, and  *)
(* what they are worth is all that stays behind of the threshold.          *)
promised ==
  get_lp_distribution(
    get_initial_liquidity_from_delta_quote(migration_quote_threshold, MIN_SQRT_PRICE,
                                           migration_sqrt_price))

rounding_liquidity ==
  get_initial_liquidity_from_delta_quote(2, MIN_SQRT_PRICE, migration_sqrt_price)
    + get_initial_liquidity_from_delta_base(1, MAX_SQRT_PRICE, migration_sqrt_price)

V2SharesHonoured ==
  is_migrated /\ migration_option = "DammV2" =>
    /\ damm.quote >= migration_quote_threshold - deposit_of(rounding_liquidity).quote
    /\ \A role \in Roles, kind \in {"unlocked", "locked"} :
         LET got == lp_received[key_of[role]]
         IN  /\ got[kind] <= promised[role][kind]
             /\ got[kind] >= promised[role][kind] - rounding_liquidity

-----------------------------------------------------------------------------
(* The launch implements PoolLifecycle: the books of the program are the   *)
(* raise, and the pool and the payments it made are the deliveries.        *)
Lifecycle == INSTANCE PoolLifecycle WITH
  THRESHOLD     <- migration_quote_threshold,
  WITH_LOCK     <- has_vesting,
  RAISES        <- U64,
  stage         <- migration_progress,
  raised        <- quote_reserve,
  delivered     <- damm.quote,
  partner_paid  <- paid.partner_surplus,
  protocol_paid <- paid.treasury_surplus

(* Every step of the launch is a step of the lifecycle or none ...         *)
ImplementsLifecycle == Lifecycle!LifecycleSpec

(* ... and with FairSpec the launch goes on as the lifecycle promises.     *)
ImplementsFairLifecycle == Lifecycle!FairLifecycleSpec

=============================================================================
