-------------------------- MODULE GraduationProofs --------------------------
(***************************************************************************)
(* Three promises about a curve that completed, for every accepted config: *)
(* without a vesting its vault holds the base tokens the migration takes;  *)
(* after a migration to DAMM v1 the program holds exactly the LP tokens    *)
(* that are still to be handed out; and after one to DAMM v2 partner and   *)
(* creator have their shares of the liquidity.                             *)
(***************************************************************************)
EXTENDS MigrationProofs

-----------------------------------------------------------------------------
(* MigrationFunded, as a difference, is preserved by every step when there *)
(* is no vesting.                                                          *)
Funded ==
  migration_progress = "LockedVesting" =>
    base_vault - migration_base_threshold - trading_base_fee - protocol_base_fee \in Nat

(* The instructions that neither claim nor trade keep what the vault holds *)
(* over the pending fees, or add to it.                                    *)
LEMMA FundedUnlessPaid ==
  ASSUME LaunchTypeOK, Funded, UNCHANGED <<fee_vars, migration_progress>>,
         NEW amount \in Nat, base_vault' = base_vault + amount
  PROVE  Funded'
BY Quantities, ConfigFacts DEF Funded, fee_vars

(* The swap that completes the curve checks the balance; any other leaves  *)
(* the pool in its bonding stage.                                          *)
LEMMA FundedSwap ==
  ASSUME LaunchTypeOK, LaunchTypeOK', Stages,
         NEW direction \in TradeDirection, NEW amount_in \in Nat, NEW least \in Nat, NEW has_referral \in BOOLEAN,
         Swap(direction, amount_in, least, has_referral)
  PROVE  Funded'
<1>1. complete_curve /\ migration_progress = "PreBondingCurve"
  BY DEF Swap, may_swap, Stages
<1>2. CASE is_curve_complete'
  <2>1. PICK vault \in Nat, trading \in Nat, protocol \in Nat :
          vault = base_vault' /\ trading = trading_base_fee' /\ protocol = protocol_base_fee'
    BY Widths DEF LaunchTypeOK, TypeOK
  <2>2. base_vault' >= migration_base_threshold + (trading_base_fee' + protocol_base_fee')
    BY <1>1, <1>2 DEF complete_curve, enough_base_for_migration, base_fees
  <2>3. vault >= migration_base_threshold + (trading + protocol)
    BY <2>1, <2>2
  <2>4. vault - migration_base_threshold - trading - protocol \in Nat
    BY <2>3, ConfigFacts
  <2>5. QED
    BY <2>1, <2>4 DEF Funded
<1>3. CASE ~is_curve_complete'
  BY <1>1, <1>3 DEF complete_curve, Funded
<1>4. QED
  BY <1>2, <1>3

(* A claim takes as much from the vault as from the pending fees.          *)
LEMMA FundedClaim ==
  ASSUME LaunchTypeOK, Funded,
         \/ \E max_base \in Nat, max_quote \in Nat : ClaimTradingFee(max_base, max_quote)
         \/ ClaimProtocolFee
  PROVE  Funded'
<1> USE Quantities, ConfigFacts
<1>1. ASSUME NEW max_base \in Nat, NEW max_quote \in Nat, ClaimTradingFee(max_base, max_quote)
      PROVE  Funded'
  <2>1. PICK base \in Nat : base = minimum(trading_base_fee, max_base)
    BY MinimumOfNats
  <2>2. /\ trading_base_fee' = trading_base_fee - base
        /\ base_vault' = base_vault - base
        /\ UNCHANGED <<protocol_base_fee, migration_progress>>
    BY <1>1, <2>1 DEF ClaimTradingFee, stage_vars
  <2>3. QED
    BY <2>2 DEF Funded
<1>2. CASE ClaimProtocolFee
  <2>1. /\ protocol_base_fee' = 0
        /\ base_vault' = base_vault - protocol_base_fee
        /\ UNCHANGED <<trading_base_fee, migration_progress>>
    BY <1>2 DEF ClaimProtocolFee, stage_vars
  <2>2. QED
    BY <2>1 DEF Funded
<1>3. QED
  BY <1>1, <1>2

(* Every step keeps a pool that waits for its migration funded.            *)
LEMMA FundedStep ==
  ASSUME ~has_vesting, LaunchTypeOK, LaunchTypeOK', Stages, Funded, [Next]_vars
  PROVE  Funded'
<1>1. ASSUME UNCHANGED <<fee_vars, migration_progress, base_vault>> PROVE Funded'
  BY <1>1 DEF Funded, fee_vars
<1>2. CASE UNCHANGED vars
  BY <1>1, <1>2 DEF vars, pool_vars, stage_vars
<1>3. CASE Trade
  <2>1. ASSUME NEW amount \in Nat, DonateBase(amount) PROVE Funded'
    BY <2>1, FundedUnlessPaid DEF DonateBase, stage_vars
  <2>2. ASSUME \/ PartnerWithdrawSurplus \/ ProtocolWithdrawSurplus
               \/ \E amount \in DonationAmounts : DonateQuote(amount)
               \/ Tick
        PROVE  Funded'
    BY <1>1, <2>2
       DEF PartnerWithdrawSurplus, ProtocolWithdrawSurplus, DonateQuote, Tick, stage_vars
  <2>3. ASSUME \E direction \in TradeDirection, amount \in SwapAmounts, least \in SwapMinimums, has_referral \in BOOLEAN :
                 Swap(direction, amount, least, has_referral)
        PROVE  Funded'
    BY <2>3, FundedSwap, BoundAssumption
  <2>4. ASSUME \/ \E max_base \in ClaimLimits, max_quote \in ClaimLimits :
                    ClaimTradingFee(max_base, max_quote)
               \/ ClaimProtocolFee
        PROVE  Funded'
    BY <2>4, FundedClaim, BoundAssumption
  <2>5. QED
    BY <1>3, <2>1, <2>2, <2>3, <2>4, BoundAssumption DEF Trade, PoolNext
<1>4. CASE CreateMetadata
  BY <1>1, <1>4 DEF CreateMetadata, pool_vars, stage_vars
<1>5. CASE CreateLocker
  BY <1>5 DEF CreateLocker, Stages
<1>6. CASE Migrate
  <2>1. migration_progress' = "CreatedPool"
    BY <1>6, MigrateDammV2Deposits DEF Migrate, MigrateMeteoraDamm, create_pool
  <2>2. QED
    BY <2>1 DEF Funded
<1>7. CASE HandOut
  BY <1>1, <1>7 DEF HandOut, LockLpToken, ClaimLpToken, hand_out, pool_vars, stage_vars
<1>8. QED
  BY <1>2, <1>3, <1>4, <1>5, <1>6, <1>7 DEF Next

(* Without a vesting the check at the end of handle_swap is enough: no     *)
(* claim, withdrawal or donation in any order takes from the base tokens   *)
(* the migration needs.                                                    *)
THEOREM MigrationIsFunded ==
  ASSUME ~has_vesting
  PROVE  Spec => []MigrationFunded
<1>1. MigrationInit => Funded
  BY DEF MigrationInit, Init, Funded
<1>2. LaunchInv /\ LaunchInv' /\ Funded /\ [Next]_vars => Funded'
  BY FundedStep DEF LaunchInv
<1>3. LaunchInv /\ Funded => MigrationFunded
  <2> SUFFICES ASSUME LaunchInv, Funded PROVE MigrationFunded
    OBVIOUS
  <2>1. LaunchTypeOK
    BY DEF LaunchInv
  <2>2. QED
    BY <2>1, Quantities, ConfigFacts DEF Funded, MigrationFunded, base_fees
<1>4. QED
  BY <1>1, <1>2, <1>3, LaunchInvariant, PTL DEF Spec

-----------------------------------------------------------------------------
(* The flags of the metadata account count a share out of what the program *)
(* holds exactly when it is handed out.                                    *)
LEMMA SharesAreNat ==
  ASSUME LaunchTypeOK, NEW role \in Roles
  PROVE  /\ migration_metadata.share[role].locked \in Nat
         /\ migration_metadata.share[role].unlocked \in Nat
BY DEF LaunchTypeOK, MigrationMetadata, Item

(* migrate_meteora_damm: the four shares are all of the LP tokens minted.  *)
LEMMA LpBackedByMigration ==
  ASSUME LaunchTypeOK, Stages, NEW lp_minted_amount \in Nat, MigrateMeteoraDamm(lp_minted_amount)
  PROVE  LpBacked'
<1>1. /\ virtual_pool_lp = 0
      /\ migration_metadata.lock_status = NoFlag /\ migration_metadata.claim_status = NoFlag
  BY DEF MigrateMeteoraDamm, can_migrate, Stages
<1>2. PICK distribution \in [{"partner", "creator"} -> [unlocked : Nat, locked : Nat]] :
        /\ distribution = get_lp_distribution(lp_minted_amount)
        /\ lp_minted_amount = get_total_liquidity(distribution.partner)
                                + get_total_liquidity(distribution.creator)
  BY DistributionIsSplit
<1>3. /\ virtual_pool_lp' = lp_minted_amount
      /\ migration_metadata' = [migration_metadata EXCEPT !.share = distribution]
  BY <1>1, <1>2 DEF MigrateMeteoraDamm
<1>4. /\ migration_metadata'.share = distribution
      /\ migration_metadata'.lock_status = NoFlag /\ migration_metadata'.claim_status = NoFlag
  BY <1>1, <1>3 DEF LaunchTypeOK, MigrationMetadata
<1>5. /\ left_of("partner")' = distribution.partner.locked + distribution.partner.unlocked
      /\ left_of("creator")' = distribution.creator.locked + distribution.creator.unlocked
  BY <1>4 DEF left_of, NoFlag, Roles
<1>6. /\ left_of("partner")' = get_total_liquidity(distribution.partner)
      /\ left_of("creator")' = get_total_liquidity(distribution.creator)
  <2>1. /\ distribution.partner.unlocked \in Nat /\ distribution.partner.locked \in Nat
        /\ distribution.creator.unlocked \in Nat /\ distribution.creator.locked \in Nat
    BY <1>2
  <2>2. /\ get_total_liquidity(distribution.partner)
             = distribution.partner.unlocked + distribution.partner.locked
        /\ get_total_liquidity(distribution.creator)
             = distribution.creator.unlocked + distribution.creator.locked
    BY DEF get_total_liquidity
  <2>3. QED
    BY <1>5, <2>1, <2>2
<1>7. virtual_pool_lp' = left_of("partner")' + left_of("creator")'
  BY <1>2, <1>3, <1>6
<1>8. QED
  BY <1>7 DEF LpBacked

(* A share that leaves the books is no longer counted for its role, and    *)
(* nothing changes for the other one.                                      *)
LEMMA FlagSet ==
  ASSUME LaunchTypeOK, NEW role \in Roles, NEW other \in Roles, other # role,
         NEW lock, NEW claim,
         lock = migration_metadata.lock_status, claim = migration_metadata.claim_status,
         migration_metadata'.share = migration_metadata.share,
         \/ /\ ~lock[role]
            /\ migration_metadata'.lock_status = [lock EXCEPT ![role] = TRUE]
            /\ migration_metadata'.claim_status = claim
            /\ virtual_pool_lp' = virtual_pool_lp - migration_metadata.share[role].locked
         \/ /\ ~claim[role]
            /\ migration_metadata'.claim_status = [claim EXCEPT ![role] = TRUE]
            /\ migration_metadata'.lock_status = lock
            /\ virtual_pool_lp' = virtual_pool_lp - migration_metadata.share[role].unlocked
  PROVE  /\ left_of(other)' = left_of(other)
         /\ virtual_pool_lp' - left_of(role)' = virtual_pool_lp - left_of(role)
         /\ left_of(role)' \in Nat /\ left_of(role) \in Nat /\ left_of(other) \in Nat
<1>1. lock \in [Roles -> BOOLEAN] /\ claim \in [Roles -> BOOLEAN]
  BY DEF LaunchTypeOK, MigrationMetadata
<1>2. PICK locked \in Nat, unlocked \in Nat :
        locked = migration_metadata.share[role].locked
          /\ unlocked = migration_metadata.share[role].unlocked
  BY SharesAreNat
<1>3. left_of(other) \in Nat
  BY SharesAreNat DEF left_of
<1>4. PICK lp \in Nat : lp = virtual_pool_lp
  BY Widths DEF LaunchTypeOK
<1>5. left_of(role) =
        (IF lock[role] THEN 0 ELSE locked) + (IF claim[role] THEN 0 ELSE unlocked)
  BY <1>2 DEF left_of
<1>6. left_of(role)' = (IF (migration_metadata'.lock_status)[role] THEN 0 ELSE locked)
                         + (IF (migration_metadata'.claim_status)[role] THEN 0 ELSE unlocked)
  BY <1>2 DEF left_of
<1>7. /\ (migration_metadata'.lock_status)[other] = lock[other]
      /\ (migration_metadata'.claim_status)[other] = claim[other]
  BY <1>1
<1>8. left_of(other)' = left_of(other)
  BY <1>7 DEF left_of
<1>9. CASE ~lock[role] /\ (migration_metadata'.lock_status)[role]
             /\ (migration_metadata'.claim_status)[role] = claim[role]
             /\ virtual_pool_lp' = lp - locked
  BY <1>3, <1>4, <1>5, <1>6, <1>8, <1>9
<1>10. CASE ~claim[role] /\ (migration_metadata'.claim_status)[role]
              /\ (migration_metadata'.lock_status)[role] = lock[role]
              /\ virtual_pool_lp' = lp - unlocked
  BY <1>3, <1>4, <1>5, <1>6, <1>8, <1>10
<1>11. QED
  BY <1>1, <1>2, <1>4, <1>9, <1>10

(* lock and claim: the share leaves the program and the books at once.     *)
LEMMA LpBackedByHandOut ==
  ASSUME LaunchTypeOK, LpBacked, NEW owner \in Owners, LockLpToken(owner) \/ ClaimLpToken(owner)
  PROVE  LpBacked'
<1>1. PICK role \in Roles, other \in Roles : role = role_of(owner) /\ other # role
  BY DEF role_of, Roles
<1>2. PICK lp \in Nat, next_lp \in Nat : lp = virtual_pool_lp /\ next_lp = virtual_pool_lp'
  BY Widths DEF LaunchTypeOK, LockLpToken, ClaimLpToken, hand_out
<1>3. /\ left_of(other)' = left_of(other)
      /\ virtual_pool_lp' - left_of(role)' = virtual_pool_lp - left_of(role)
      /\ left_of(role)' \in Nat /\ left_of(role) \in Nat /\ left_of(other) \in Nat
  <2>1. CASE LockLpToken(owner)
    <3>1. /\ ~migration_metadata.lock_status[role]
          /\ migration_metadata' = [migration_metadata EXCEPT !.lock_status[role] = TRUE]
          /\ virtual_pool_lp' = virtual_pool_lp - migration_metadata.share[role].locked
      BY <1>1, <2>1 DEF LockLpToken, hand_out
    <3>2. /\ migration_metadata'.share = migration_metadata.share
          /\ migration_metadata'.claim_status = migration_metadata.claim_status
          /\ migration_metadata'.lock_status =
               [migration_metadata.lock_status EXCEPT ![role] = TRUE]
      BY <3>1 DEF LaunchTypeOK, MigrationMetadata
    <3>3. QED
      BY <1>1, <3>1, <3>2, FlagSet
  <2>2. CASE ClaimLpToken(owner)
    <3>1. /\ ~migration_metadata.claim_status[role]
          /\ migration_metadata' = [migration_metadata EXCEPT !.claim_status[role] = TRUE]
          /\ virtual_pool_lp' = virtual_pool_lp - migration_metadata.share[role].unlocked
      BY <1>1, <2>2 DEF ClaimLpToken, hand_out
    <3>2. /\ migration_metadata'.share = migration_metadata.share
          /\ migration_metadata'.lock_status = migration_metadata.lock_status
          /\ migration_metadata'.claim_status =
               [migration_metadata.claim_status EXCEPT ![role] = TRUE]
      BY <3>1 DEF LaunchTypeOK, MigrationMetadata
    <3>3. QED
      BY <1>1, <3>1, <3>2, FlagSet
  <2>3. QED
    BY <2>1, <2>2
<1>4. LpBacked <=> virtual_pool_lp = left_of(role) + left_of(other)
  <2>1. left_of("partner") \in Nat /\ left_of("creator") \in Nat
    BY <1>1, <1>3 DEF Roles
  <2>2. CASE role = "partner" /\ other = "creator"
    BY <2>2 DEF LpBacked
  <2>3. CASE role = "creator" /\ other = "partner"
    BY <2>1, <2>3 DEF LpBacked
  <2>4. QED
    BY <1>1, <2>2, <2>3 DEF Roles
<1>5. LpBacked' <=> virtual_pool_lp' = left_of(role)' + left_of(other)'
  <2>1. left_of("partner")' \in Nat /\ left_of("creator")' \in Nat
    BY <1>1, <1>3 DEF Roles
  <2>2. CASE role = "partner" /\ other = "creator"
    BY <2>2 DEF LpBacked
  <2>3. CASE role = "creator" /\ other = "partner"
    BY <2>1, <2>3 DEF LpBacked
  <2>4. QED
    BY <1>1, <2>2, <2>3 DEF Roles
<1>6. QED
  BY <1>2, <1>3, <1>4, <1>5

(* Every step keeps the LP tokens backed.                                  *)
LEMMA LpBackedStep ==
  ASSUME LaunchTypeOK, Stages, LpBacked, [Next]_vars
  PROVE  LpBacked'
<1>1. ASSUME UNCHANGED <<migration_metadata, virtual_pool_lp>> PROVE LpBacked'
  BY <1>1 DEF LpBacked, left_of
<1>2. CASE CreateMetadata
  <2>1. migration_metadata' = [migration_metadata EXCEPT !.created = TRUE]
        /\ UNCHANGED virtual_pool_lp
    BY <1>2 DEF CreateMetadata
  <2>2. /\ migration_metadata'.share = migration_metadata.share
        /\ migration_metadata'.lock_status = migration_metadata.lock_status
        /\ migration_metadata'.claim_status = migration_metadata.claim_status
    BY <2>1 DEF LaunchTypeOK, MigrationMetadata
  <2>3. QED
    BY <2>1, <2>2 DEF LpBacked, left_of
<1>3. CASE Migrate
  BY <1>1, <1>3, LpBackedByMigration, MigrationAssumption, Widths DEF Migrate, MigrateDammV2
<1>4. CASE HandOut
  BY <1>4, LpBackedByHandOut DEF HandOut
<1>5. QED
  BY <1>1, <1>2, <1>3, <1>4 DEF Next, vars, migration_vars, Trade, CreateLocker

(* The LP tokens the program holds are at all times the shares not handed  *)
(* out yet: no share is drawn twice or from another's.                     *)
THEOREM LpIsBacked == Spec => []LpBacked
<1>1. MigrationInit => LpBacked
  BY DEF MigrationInit, LpBacked, left_of, NoLiquidity, NoFlag, Roles
<1>2. LaunchInv /\ LpBacked /\ [Next]_vars => LpBacked'
  BY LpBackedStep DEF LaunchInv
<1>3. QED
  BY <1>1, <1>2, LaunchInvariant, PTL DEF Spec

-----------------------------------------------------------------------------
(* DAMM v2.  The liquidity the threshold is worth, in the two prices'      *)
(* distances that the conversions of the migration share.                  *)
whole_liquidity ==
  get_initial_liquidity_from_delta_quote(migration_quote_threshold, MIN_SQRT_PRICE,
                                         migration_sqrt_price)

up   == MAX_SQRT_PRICE - migration_sqrt_price
down == migration_sqrt_price - MIN_SQRT_PRICE
base_scale == migration_sqrt_price * MAX_SQRT_PRICE

Migrates == /\ migration_option = "DammV2"
            /\ migration_sqrt_price \in MIN_SQRT_PRICE + 1 .. MAX_SQRT_PRICE - 1

(* The conversions in those terms.                                         *)
LEMMA InDistances ==
  ASSUME Migrates
  PROVE  /\ up \in Nat \ {0} /\ down \in Nat \ {0}
         /\ base_scale \in Nat \ {0} /\ ONE_SQUARED \in Nat \ {0}
         /\ up <= base_scale /\ down <= ONE_SQUARED
         /\ whole_liquidity = (migration_quote_threshold * ONE_SQUARED) \div down
         /\ migration_base_threshold = (whole_liquidity * up + base_scale - 1) \div base_scale
         /\ rounding_liquidity = (2 * ONE_SQUARED) \div down + base_scale \div up
         /\ \A liquidity \in Nat :
              deposit_of(liquidity) =
                [base  |-> (liquidity * up + base_scale - 1) \div base_scale,
                 quote |-> (liquidity * down + ONE_SQUARED - 1) \div ONE_SQUARED]
         /\ \A base \in Nat, quote \in Nat :
              get_liquidity_for_adding_liquidity(base, quote) =
                minimum((base * base_scale) \div up, (quote * ONE_SQUARED) \div down)
<1> USE DEF Migrates, up, down, base_scale
<1>1. /\ up \in Nat \ {0} /\ down \in Nat \ {0}
      /\ base_scale \in Nat \ {0} /\ ONE_SQUARED \in Nat \ {0}
      /\ migration_sqrt_price \in Nat \ {0} /\ MAX_SQRT_PRICE \in Nat
  BY PriceFacts
<1>2. up <= base_scale /\ down <= ONE_SQUARED
  <2>1. PICK price \in Nat \ {0}, highest \in Nat :
          price = migration_sqrt_price /\ highest = MAX_SQRT_PRICE
    BY <1>1
  <2>2. 1 * highest <= price * highest
    BY <2>1, ProductMonotone
  <2>3. MIN_SQRT_PRICE \in Nat /\ price <= highest /\ highest <= ONE_SQUARED
    BY <2>1, PriceAssumption, MigrationAssumption
  <2>4. highest - price <= price * highest /\ price - MIN_SQRT_PRICE <= ONE_SQUARED
    BY <1>1, <2>1, <2>2, <2>3
  <2>5. QED
    BY <2>1, <2>4
<1>3. whole_liquidity = (migration_quote_threshold * ONE_SQUARED) \div down
  BY DEF whole_liquidity, get_initial_liquidity_from_delta_quote
<1>4. migration_base_threshold = (whole_liquidity * up + base_scale - 1) \div base_scale
  BY DEF migration_base_threshold, get_migration_base_token, whole_liquidity,
         get_delta_amount_base_up, mul_div_up
<1>5. rounding_liquidity = (2 * ONE_SQUARED) \div down + base_scale \div up
  <2>1. 1 * migration_sqrt_price * MAX_SQRT_PRICE = base_scale
    BY <1>1
  <2>2. QED
    BY <2>1 DEF rounding_liquidity, get_initial_liquidity_from_delta_quote,
                get_initial_liquidity_from_delta_base
<1>6. ASSUME NEW liquidity \in Nat
      PROVE  deposit_of(liquidity) =
               [base  |-> (liquidity * up + base_scale - 1) \div base_scale,
                quote |-> (liquidity * down + ONE_SQUARED - 1) \div ONE_SQUARED]
  BY DEF deposit_of, get_initialize_amounts, get_delta_amount_base_up, get_delta_amount_quote_up,
         mul_div_up
<1>7. ASSUME NEW base \in Nat, NEW quote \in Nat
      PROVE  get_liquidity_for_adding_liquidity(base, quote) =
               minimum((base * base_scale) \div up, (quote * ONE_SQUARED) \div down)
  <2>1. base * migration_sqrt_price * MAX_SQRT_PRICE = base * base_scale
    BY <1>1
  <2>2. QED
    BY <2>1 DEF get_liquidity_for_adding_liquidity, get_initial_liquidity_from_delta_base,
                get_initial_liquidity_from_delta_quote
<1>8. QED
  BY <1>1, <1>2, <1>3, <1>4, <1>5, <1>6, <1>7

(* The base tokens create_config sets aside are worth the liquidity of the *)
(* threshold, so it is the quote token that limits.                        *)
LEMMA QuoteLimits ==
  ASSUME Migrates, NEW base_amount \in Nat, base_amount >= migration_base_threshold
  PROVE  /\ whole_liquidity \in Nat
         /\ whole_liquidity * up <= base_amount * base_scale
         /\ get_liquidity_for_adding_liquidity(base_amount, migration_quote_threshold)
              = whole_liquidity
<1>1. /\ migration_quote_threshold \in Nat /\ migration_base_threshold \in Nat
      /\ up \in Nat \ {0} /\ down \in Nat \ {0}
      /\ base_scale \in Nat \ {0} /\ ONE_SQUARED \in Nat \ {0}
  BY ConfigFacts, InDistances
<1>2. /\ base_amount * base_scale \in Nat /\ migration_quote_threshold * ONE_SQUARED \in Nat
  BY <1>1, ProductMonotone
<1>3. /\ whole_liquidity = (migration_quote_threshold * ONE_SQUARED) \div down
      /\ whole_liquidity \in Nat
  BY <1>1, <1>2, InDistances, DivisionOfNat
<1>4. whole_liquidity * up <= base_amount * base_scale
  <2>1. whole_liquidity * up \in Nat
    BY <1>1, <1>3, ProductMonotone
  <2>2. migration_base_threshold = (whole_liquidity * up + base_scale - 1) \div base_scale
    BY InDistances
  <2>3. whole_liquidity * up <= base_scale * migration_base_threshold
    BY <1>1, <2>1, <2>2, RoundedUpCovers
  <2>4. base_scale * migration_base_threshold <= base_scale * base_amount
        /\ migration_base_threshold * base_scale \in Nat
    BY <1>1, ProductMonotone
  <2>5. /\ base_scale * migration_base_threshold = migration_base_threshold * base_scale
        /\ base_scale * base_amount = base_amount * base_scale
    BY <1>1
  <2>6. QED
    BY <1>2, <2>1, <2>3, <2>4, <2>5
<1>5. PICK worth \in Nat : worth = (base_amount * base_scale) \div up
  BY <1>1, <1>2, DivisionOfNat
<1>6. worth >= whole_liquidity
  <2>1. base_amount * base_scale < up * worth + up
    BY <1>1, <1>2, <1>5, Division
  <2>2. up * (worth + 1) = up * worth + up /\ up * whole_liquidity = whole_liquidity * up
    BY <1>1, <1>3
  <2>3. whole_liquidity * up \in Nat /\ worth * up \in Nat /\ worth * up = up * worth
    BY <1>1, <1>3, ProductMonotone
  <2>4. up * whole_liquidity < up * (worth + 1)
    BY <1>1, <1>2, <1>4, <2>1, <2>2, <2>3
  <2>5. whole_liquidity < worth + 1
    BY <1>1, <1>3, <2>4, ProductCancel
  <2>6. QED
    BY <1>3, <2>5
<1>7. get_liquidity_for_adding_liquidity(base_amount, migration_quote_threshold)
        = minimum(worth, whole_liquidity)
  BY <1>1, <1>3, <1>5, InDistances
<1>8. minimum(worth, whole_liquidity) = whole_liquidity
  BY <1>3, <1>6 DEF minimum
<1>9. QED
  BY <1>3, <1>4, <1>7, <1>8

(* What the two tokens of rounding_liquidity are worth.                    *)
LEMMA RoundingLiquidity ==
  ASSUME Migrates
  PROVE  LET one_quote == ONE_SQUARED \div down
             one_base  == base_scale \div up
         IN  /\ one_quote \in Nat /\ one_base \in Nat /\ rounding_liquidity \in Nat
             /\ rounding_liquidity >= one_quote + 2
             /\ rounding_liquidity >= one_base + 2
<1> DEFINE one_quote == ONE_SQUARED \div down
           one_base  == base_scale \div up
           two_quote == (2 * ONE_SQUARED) \div down
<1>1. /\ up \in Nat \ {0} /\ down \in Nat \ {0}
      /\ base_scale \in Nat \ {0} /\ ONE_SQUARED \in Nat \ {0}
      /\ up <= base_scale /\ down <= ONE_SQUARED
      /\ rounding_liquidity = two_quote + one_base
  BY InDistances
<1>2. ASSUME NEW a \in Nat, NEW d \in Nat \ {0}, d <= a
      PROVE  a \div d \in Nat /\ a \div d >= 1
  <2>1. PICK q \in Nat : q = a \div d /\ a < d * q + d
    BY <1>2, Division, DivisionOfNat
  <2>2. q # 0
    BY <1>2, <2>1
  <2>3. QED
    BY <2>1, <2>2
<1>3. one_quote \in Nat /\ one_quote >= 1 /\ one_base \in Nat /\ one_base >= 1
  BY <1>1, <1>2
<1>4. two_quote \in Nat /\ two_quote >= 2 * one_quote
  <2>1. 2 * ONE_SQUARED \in Nat
    BY <1>1
  <2>2. two_quote \in Nat /\ 2 * ONE_SQUARED < down * two_quote + down
    BY <1>1, <2>1, Division, DivisionOfNat
  <2>3. down * one_quote <= ONE_SQUARED
    BY <1>1, Division
  <2> HIDE DEF two_quote, one_quote
  <2>4. down * (2 * one_quote) = 2 * (down * one_quote) /\ down * (two_quote + 1) = down * two_quote + down
        /\ down * one_quote \in Int /\ down * two_quote \in Int
    BY <1>1, <1>3, <2>2
  <2>5. down * (2 * one_quote) < down * (two_quote + 1)
    BY <1>1, <2>1, <2>2, <2>3, <2>4
  <2>6. 2 * one_quote < two_quote + 1
    BY <1>1, <1>3, <2>2, <2>5, ProductCancel
  <2>7. QED
    BY <1>3, <2>2, <2>6
<1> HIDE DEF one_quote, one_base, two_quote
<1>5. /\ rounding_liquidity \in Nat
      /\ rounding_liquidity >= one_quote + 2 /\ rounding_liquidity >= one_base + 2
  BY <1>1, <1>3, <1>4
<1>6. QED
  BY <1>3, <1>5 DEF one_quote, one_base

(* What the first position leaves of the two amounts is worth the second   *)
(* one but for the rounding, and never more.  What is not worth a position *)
(* is less than what the rounding's liquidity costs.                       *)
LEMMA RestOfLiquidity ==
  ASSUME Migrates, NEW base_amount \in Nat, base_amount >= migration_base_threshold,
         NEW first \in Nat, NEW second \in Nat, first + second = whole_liquidity,
         NEW left_base \in Nat, left_base = base_amount - deposit_of(first).base,
         NEW left_quote \in Nat, left_quote = migration_quote_threshold - deposit_of(first).quote
  PROVE  LET rest == get_liquidity_for_adding_liquidity(left_base, left_quote)
         IN  /\ rest \in Nat /\ rest <= second
             /\ rest >= second - rounding_liquidity + 1
<1> DEFINE one_quote == ONE_SQUARED \div down
           one_base  == base_scale \div up
           for_base  == (left_base * base_scale) \div up
           for_quote == (left_quote * ONE_SQUARED) \div down
<1>1. /\ up \in Nat \ {0} /\ down \in Nat \ {0}
      /\ base_scale \in Nat \ {0} /\ ONE_SQUARED \in Nat \ {0}
      /\ migration_quote_threshold \in Nat
  BY ConfigFacts, InDistances
<1>2. /\ left_base = base_amount - (first * up + base_scale - 1) \div base_scale
      /\ left_quote = migration_quote_threshold
                        - (first * down + ONE_SQUARED - 1) \div ONE_SQUARED
  BY InDistances
<1>3. get_liquidity_for_adding_liquidity(left_base, left_quote) = minimum(for_base, for_quote)
  BY InDistances
<1>4. first + second = (migration_quote_threshold * ONE_SQUARED) \div down
  BY InDistances
<1>5. for_base >= second - one_base - 1
  <2>1. (first + second) * up <= base_amount * base_scale
    BY QuoteLimits
  <2>2. QED
    BY <1>1, <1>2, <2>1, LeftForSecond
<1>6. for_quote >= second - one_quote - 1
  <2>1. (first + second) * down <= migration_quote_threshold * ONE_SQUARED
    <3>1. migration_quote_threshold * ONE_SQUARED \in Nat
      BY <1>1, ProductMonotone
    <3>2. down * (first + second) <= migration_quote_threshold * ONE_SQUARED
      BY <1>1, <1>4, <3>1, Division
    <3>3. (first + second) * down = down * (first + second)
      BY <1>1
    <3>4. QED
      BY <3>2, <3>3
  <2>2. QED
    BY <1>1, <1>2, <2>1, LeftForSecond
<1>7. for_quote <= second
  BY <1>1, <1>2, <1>4, LeftWithinSecond
<1>8. for_base \in Nat /\ for_quote \in Nat
  BY <1>1, ProductMonotone, DivisionOfNat
<1>9. /\ one_quote \in Nat /\ one_base \in Nat /\ rounding_liquidity \in Nat
      /\ rounding_liquidity >= one_quote + 2 /\ rounding_liquidity >= one_base + 2
  BY RoundingLiquidity
<1> HIDE DEF for_base, for_quote, one_quote, one_base
<1>10. /\ minimum(for_base, for_quote) \in Nat
       /\ minimum(for_base, for_quote) <= second
       /\ minimum(for_base, for_quote) >= second - rounding_liquidity + 1
  BY <1>5, <1>6, <1>7, <1>8, <1>9 DEF minimum
<1>11. QED
  BY <1>3, <1>10

(* So the two positions cost all of the threshold but for the cost of the  *)
(* rounding's liquidity.                                                   *)
LEMMA DepositReachesThreshold ==
  ASSUME Migrates, NEW first \in Nat, NEW second \in Nat, first + second = whole_liquidity,
         NEW rest \in Nat, rest >= second - rounding_liquidity + 1
  PROVE  deposit_of(first).quote + deposit_of(rest).quote
           >= migration_quote_threshold - deposit_of(rounding_liquidity).quote
<1> DEFINE cost(liquidity) == (liquidity * down + ONE_SQUARED - 1) \div ONE_SQUARED
<1>1. /\ down \in Nat \ {0} /\ ONE_SQUARED \in Nat \ {0}
      /\ migration_quote_threshold \in Nat /\ rounding_liquidity \in Nat
      /\ first + second = (migration_quote_threshold * ONE_SQUARED) \div down
  BY ConfigFacts, InDistances, RoundingLiquidity
<1>2. ASSUME NEW liquidity \in Nat
      PROVE  /\ deposit_of(liquidity).quote = cost(liquidity)
             /\ cost(liquidity) \in Nat
             /\ liquidity * down \in Nat
             /\ liquidity * down <= ONE_SQUARED * cost(liquidity)
  <2>1. liquidity * down \in Nat
    BY <1>1, ProductMonotone
  <2>2. deposit_of(liquidity).quote = cost(liquidity)
    BY InDistances
  <2>3. cost(liquidity) \in Nat /\ liquidity * down <= ONE_SQUARED * cost(liquidity)
    BY <1>1, <2>1, RoundedUpCovers
  <2>4. QED
    BY <2>1, <2>2, <2>3
<1>3. PICK a \in Nat, b \in Nat, c \in Nat :
        /\ a = deposit_of(first).quote /\ b = deposit_of(rest).quote
        /\ c = deposit_of(rounding_liquidity).quote
        /\ first * down <= ONE_SQUARED * a /\ rest * down <= ONE_SQUARED * b
        /\ rounding_liquidity * down <= ONE_SQUARED * c
  BY <1>1, <1>2
<1> HIDE DEF cost
<1>4. migration_quote_threshold * ONE_SQUARED < down * (first + second) + down
  <2>1. migration_quote_threshold * ONE_SQUARED \in Nat
    BY <1>1, ProductMonotone
  <2>2. QED
    BY <1>1, <2>1, Division
<1>5. down * (first + second) + down <= first * down + rest * down + rounding_liquidity * down
  <2>1. PICK r \in Nat : r = rounding_liquidity
    BY <1>1
  <2>2. first + second + 1 <= first + rest + r
    BY <2>1
  <2>3. (first + second + 1) * down <= (first + rest + r) * down
    BY <1>1, <2>2, ProductMonotone
  <2>4. /\ (first + second + 1) * down = down * (first + second) + down
        /\ (first + rest + r) * down = first * down + rest * down + r * down
    BY <1>1
  <2>5. QED
    BY <2>1, <2>3, <2>4
<1>6. ONE_SQUARED * migration_quote_threshold < ONE_SQUARED * (a + b + c)
  <2>1. /\ ONE_SQUARED * (a + b + c) = ONE_SQUARED * a + ONE_SQUARED * b + ONE_SQUARED * c
        /\ ONE_SQUARED * migration_quote_threshold = migration_quote_threshold * ONE_SQUARED
    BY <1>1
  <2>2. /\ first * down \in Nat /\ rest * down \in Nat /\ rounding_liquidity * down \in Nat
        /\ ONE_SQUARED * a \in Int /\ ONE_SQUARED * b \in Int /\ ONE_SQUARED * c \in Int
        /\ migration_quote_threshold * ONE_SQUARED \in Int
        /\ down * (first + second) + down \in Int
    BY <1>1, <1>2
  <2>3. QED
    BY <1>3, <1>4, <1>5, <2>1, <2>2
<1>7. migration_quote_threshold < a + b + c
  BY <1>1, <1>6, ProductCancel
<1>8. QED
  BY <1>1, <1>3, <1>7

-----------------------------------------------------------------------------
(* Nothing is given out before the migration, and what DAMM v2 gave out    *)
(* stays.                                                                  *)
SharesGiven ==
  /\ ~is_migrated => lp_received = [owner \in Owners |-> [unlocked |-> 0, locked |-> 0]]
  /\ V2SharesHonoured

(* One owner's position is its share, the other's its share but for the    *)
(* rounding.                                                               *)
LEMMA PositionsHonoured ==
  ASSUME PARTNER # CREATOR, Migrates,
         NEW first \in Roles, NEW second \in Roles, first # second,
         promised \in [Roles -> Item], NEW rest \in Nat,
         rest <= get_total_liquidity(promised[second]),
         rest >= get_total_liquidity(promised[second]) - rounding_liquidity + 1,
         lp_received = [owner \in Owners |-> [unlocked |-> 0, locked |-> 0]],
         lp_received' = give(give(lp_received, key_of[first], promised[first]),
                             key_of[second], second_position(promised[second], rest))
  PROVE  \A role \in Roles, kind \in {"unlocked", "locked"} :
           LET got == lp_received'[key_of[role]]
           IN  /\ got[kind] <= promised[role][kind]
               /\ got[kind] >= promised[role][kind] - rounding_liquidity
<1>1. /\ key_of[first] \in Owners /\ key_of[second] \in Owners /\ key_of[first] # key_of[second]
  BY DEF key_of, Owners, Roles
<1>2. PICK a \in Nat, b \in Nat, u \in Nat, l \in Nat, r \in Nat :
        /\ promised[first] = [unlocked |-> a, locked |-> b]
        /\ promised[second] = [unlocked |-> u, locked |-> l]
        /\ r = rounding_liquidity
  BY RoundingLiquidity DEF Item
<1>3. PICK given \in Nat : given = minimum(rest, u) /\ given <= u /\ given <= rest
        /\ (given = u \/ given = rest)
  BY <1>2 DEF minimum
<1>4. second_position(promised[second], rest) = [unlocked |-> given, locked |-> rest - given]
  BY <1>2, <1>3 DEF second_position
<1>5. lp_received'[key_of[first]] = [unlocked |-> a, locked |-> b]
  BY <1>1, <1>2, <1>4 DEF give
<1>6. lp_received'[key_of[second]] = [unlocked |-> given, locked |-> rest - given]
  BY <1>1, <1>2, <1>3, <1>4 DEF give
<1>7. rest <= u + l /\ rest >= (u + l) - r
  BY <1>2 DEF get_total_liquidity
<1>8. /\ given <= u /\ given >= u - r
      /\ rest - given <= l /\ rest - given >= l - r
  BY <1>3, <1>7
<1>9. ASSUME NEW role \in Roles, NEW kind \in {"unlocked", "locked"}
      PROVE  /\ lp_received'[key_of[role]][kind] <= promised[role][kind]
             /\ lp_received'[key_of[role]][kind] >= promised[role][kind] - rounding_liquidity
  <2>1. CASE role = first
    BY <1>2, <1>5, <2>1
  <2>2. CASE role = second
    BY <1>2, <1>6, <1>8, <2>2
  <2>3. QED
    BY <2>1, <2>2 DEF Roles
<1>10. QED
  BY <1>9

(* migrate_damm_v2, with the intermediate results as witnesses.            *)
LEMMA MigrationHonoursShares ==
  ASSUME PARTNER # CREATOR, LaunchTypeOK, Stages, MigrationFunded, SharesGiven, MigrateDammV2
  PROVE  V2SharesHonoured'
<1> DEFINE available  == base_vault - base_fees
           first      == first_role(promised)
           second     == IF first = "partner" THEN "creator" ELSE "partner"
           total      == get_total_liquidity(promised[first])
           left_base  == available - deposit_of(total).base
           left_quote == migration_quote_threshold - deposit_of(total).quote
           rest       == get_liquidity_for_adding_liquidity(left_base, left_quote)
<1>1. Migrates /\ ~is_migrated
  BY DEF MigrateDammV2, can_migrate, Migrates, Stages
<1>2. available \in Nat /\ available >= migration_base_threshold
  <2>1. base_vault >= migration_base_threshold + base_fees
    BY DEF MigrationFunded, MigrateDammV2, can_migrate
  <2>2. PICK fees \in Nat : fees = base_fees
    BY Quantities DEF base_fees
  <2>3. QED
    BY <2>1, <2>2, Quantities, ConfigFacts
<1> HIDE DEF available
<1>3. /\ whole_liquidity \in Nat
      /\ get_liquidity_for_adding_liquidity(available, migration_quote_threshold) = whole_liquidity
  BY <1>1, <1>2, QuoteLimits
<1>4. promised = get_lp_distribution(whole_liquidity)
  BY DEF promised, whole_liquidity
<1>5. first_distribution = promised
  BY <1>3, <1>4 DEF first_distribution, available
<1>6. /\ promised \in [Roles -> Item]
      /\ whole_liquidity = get_total_liquidity(promised.partner) + get_total_liquidity(promised.creator)
  BY <1>3, <1>4, DistributionIsSplit DEF Roles, Item
<1>7. first \in Roles /\ second \in Roles /\ first # second
  BY DEF first_role, Roles
<1>8. /\ total \in Nat /\ get_total_liquidity(promised[second]) \in Nat
      /\ total + get_total_liquidity(promised[second]) = whole_liquidity
  <2>1. \A role \in Roles : get_total_liquidity(promised[role]) \in Nat
    BY <1>6 DEF get_total_liquidity, Item
  <2> HIDE DEF first
  <2>2. QED
    BY <1>6, <1>7, <2>1 DEF Roles
<1>9. /\ left_base >= 0 /\ left_quote >= 0
      /\ damm'.quote = deposit_of(total).quote + deposit_of(rest).quote
      /\ lp_received' = give(give(lp_received, key_of[first], promised[first]),
                             key_of[second], second_position(promised[second], rest))
  <2>1. /\ left_base >= 0 /\ left_quote >= 0
        /\ create_pool(deposit_of(total).base + deposit_of(rest).base,
                       deposit_of(total).quote + deposit_of(rest).quote)
        /\ lp_received' = give(give(lp_received, key_of[first], promised[first]),
                               key_of[second], second_position(promised[second], rest))
    BY <1>5 DEF MigrateDammV2, available
  <2> HIDE DEF total, rest, left_base, left_quote, first, second
  <2>2. QED
    BY <2>1 DEF create_pool
<1> HIDE DEF first, second, total
<1>10. left_base \in Nat /\ left_quote \in Nat
  <2>1. deposit_of(total).base \in Nat /\ deposit_of(total).quote \in Nat
    <3>1. /\ up \in Nat \ {0} /\ down \in Nat \ {0}
          /\ base_scale \in Nat \ {0} /\ ONE_SQUARED \in Nat \ {0}
      BY <1>1, InDistances
    <3>2. total * up \in Nat /\ total * down \in Nat
      BY <1>8, <3>1, ProductMonotone
    <3>3. /\ (total * up + base_scale - 1) \div base_scale \in Nat
          /\ (total * down + ONE_SQUARED - 1) \div ONE_SQUARED \in Nat
      BY <3>1, <3>2, RoundedUpCovers
    <3>4. deposit_of(total) =
            [base  |-> (total * up + base_scale - 1) \div base_scale,
             quote |-> (total * down + ONE_SQUARED - 1) \div ONE_SQUARED]
      BY <1>1, <1>8, InDistances
    <3>5. QED
      BY <3>3, <3>4
  <2>2. migration_quote_threshold \in Nat
    BY ConfigFacts
  <2>3. QED
    BY <1>2, <1>9, <2>1, <2>2
<1>11. /\ rest \in Nat /\ rest <= get_total_liquidity(promised[second])
       /\ rest >= get_total_liquidity(promised[second]) - rounding_liquidity + 1
  <2> HIDE DEF rest
  <2>1. rest = get_liquidity_for_adding_liquidity(left_base, left_quote)
    BY DEF rest
  <2>2. /\ left_base = available - deposit_of(total).base
        /\ left_quote = migration_quote_threshold - deposit_of(total).quote
    OBVIOUS
  <2> HIDE DEF left_base, left_quote
  <2>3. QED
    BY <1>1, <1>2, <1>8, <1>10, <2>1, <2>2, RestOfLiquidity
<1> HIDE DEF rest
<1>12. damm'.quote >= migration_quote_threshold - deposit_of(rounding_liquidity).quote
  <2>1. deposit_of(total).quote + deposit_of(rest).quote
          >= migration_quote_threshold - deposit_of(rounding_liquidity).quote
    BY <1>1, <1>8, <1>11, DepositReachesThreshold
  <2>2. QED
    BY <1>9, <2>1
<1>13. \A role \in Roles, kind \in {"unlocked", "locked"} :
         LET got == lp_received'[key_of[role]]
         IN  /\ got[kind] <= promised[role][kind]
             /\ got[kind] >= promised[role][kind] - rounding_liquidity
  BY <1>1, <1>6, <1>7, <1>9, <1>11, PositionsHonoured DEF SharesGiven
<1>14. QED
  BY <1>12, <1>13 DEF V2SharesHonoured

(* Every step keeps what was given out.                                    *)
LEMMA SharesGivenStep ==
  ASSUME PARTNER # CREATOR, LaunchTypeOK, Stages, MigrationFunded, SharesGiven, [Next]_vars
  PROVE  SharesGiven'
<1>1. ASSUME UNCHANGED <<is_migrated, damm, lp_received>> PROVE SharesGiven'
  BY <1>1 DEF SharesGiven, V2SharesHonoured
<1>2. CASE Migrate
  <2>1. is_migrated'
    BY <1>2, MigrateDammV2Deposits DEF Migrate, MigrateMeteoraDamm, create_pool
  <2>2. CASE MigrateDammV2
    BY <2>1, <2>2, MigrationHonoursShares DEF SharesGiven
  <2>3. CASE ~MigrateDammV2
    <3>1. migration_option # "DammV2"
      BY <1>2, <2>3 DEF Migrate, MigrateMeteoraDamm, can_migrate
    <3>2. QED
      BY <2>1, <3>1 DEF SharesGiven, V2SharesHonoured
  <2>4. QED
    BY <2>2, <2>3
<1>3. CASE HandOut
  <2>1. /\ migration_option # "DammV2" /\ is_migrated'
    BY <1>3 DEF HandOut, LockLpToken, ClaimLpToken, hand_out, pool_vars, stage_vars, Stages
  <2>2. QED
    BY <2>1 DEF SharesGiven, V2SharesHonoured
<1>4. CASE Trade
  <2>1. UNCHANGED is_migrated
    BY <1>4 DEF Trade, PoolNext, Swap, ClaimTradingFee, ClaimProtocolFee, PartnerWithdrawSurplus,
                ProtocolWithdrawSurplus, DonateBase, DonateQuote, Tick, stage_vars
  <2>2. QED
    BY <1>1, <1>4, <2>1 DEF Trade, migration_vars
<1>5. CASE CreateMetadata \/ CreateLocker
  BY <1>1, <1>5 DEF CreateMetadata, CreateLocker, pool_vars, stage_vars
<1>6. CASE UNCHANGED vars
  BY <1>1, <1>6 DEF vars, migration_vars, pool_vars, stage_vars
<1>7. QED
  BY <1>2, <1>3, <1>4, <1>5, <1>6 DEF Next

(* Two owners get of a pool on DAMM v2 what the percentages promise of the *)
(* threshold's liquidity, up to the rounding of three conversions, and all *)
(* of the threshold but what that rounding costs reaches the pool.         *)
THEOREM V2SharesAreHonoured ==
  ASSUME ~has_vesting, PARTNER # CREATOR
  PROVE  Spec => []V2SharesHonoured
<1>1. MigrationInit => SharesGiven
  BY DEF MigrationInit, Init, SharesGiven, V2SharesHonoured
<1>2. LaunchInv /\ MigrationFunded /\ SharesGiven /\ [Next]_vars => SharesGiven'
  BY SharesGivenStep DEF LaunchInv
<1>3. SharesGiven => V2SharesHonoured
  BY DEF SharesGiven
<1>4. QED
  BY <1>1, <1>2, <1>3, LaunchInvariant, MigrationIsFunded, PTL DEF Spec

=============================================================================
