-------------------------- MODULE MigrationProofs --------------------------
(***************************************************************************)
(* A launch keeps its promises for every config that create_config         *)
(* accepts, every amount traded and every order of instructions: the       *)
(* invariants the runs check on small launches, proved from one inductive  *)
(* invariant.  What it needs of a swap is in PoolProofs.                   *)
(*                                                                         *)
(* Then, instruction by instruction: each is a step of PoolLifecycle or    *)
(* leaves what the lifecycle sees unchanged, so the program implements it; *)
(* and each changes only accounts that the IDL opens for writing.          *)
(***************************************************************************)
EXTENDS Migration, InterfaceLocks, PoolProofs

-----------------------------------------------------------------------------
(* The two deposits of DAMM v2.                                            *)
LEMMA PriceFacts ==
  ASSUME migration_sqrt_price \in MIN_SQRT_PRICE + 1 .. MAX_SQRT_PRICE - 1
  PROVE  /\ migration_sqrt_price \in Nat
         /\ MAX_SQRT_PRICE - migration_sqrt_price \in Nat \ {0}
         /\ migration_sqrt_price - MIN_SQRT_PRICE \in Nat \ {0}
         /\ MAX_SQRT_PRICE \in Nat
         /\ migration_sqrt_price * MAX_SQRT_PRICE \in Nat \ {0}
         /\ ONE_SQUARED \in Nat \ {0}
<1>1. PICK price \in Nat \ {0} : price = migration_sqrt_price
           /\ MIN_SQRT_PRICE < price /\ price < MAX_SQRT_PRICE
  BY PriceAssumption
<1>2. ASSUME NEW a \in Nat \ {0}, NEW b \in Nat \ {0} PROVE a * b \in Nat \ {0}
  OBVIOUS
<1>3. MAX_SQRT_PRICE - price \in Nat \ {0} /\ price - MIN_SQRT_PRICE \in Nat \ {0}
  BY <1>1, PriceAssumption
<1>4. price * MAX_SQRT_PRICE \in Nat \ {0} /\ ONE_SQUARED \in Nat \ {0}
  BY <1>1, <1>2, PriceAssumption, OneAssumption DEF ONE_SQUARED
<1>5. QED
  BY <1>1, <1>3, <1>4, PriceAssumption

(* The liquidity two amounts are worth is the smaller of two quotients.    *)
LEMMA LiquidityWorth ==
  ASSUME migration_sqrt_price \in MIN_SQRT_PRICE + 1 .. MAX_SQRT_PRICE - 1,
         NEW base_amount \in Nat, NEW quote_amount \in Nat
  PROVE  LET whole == get_liquidity_for_adding_liquidity(base_amount, quote_amount)
         IN  /\ whole \in Nat
             /\ whole <= (base_amount * (migration_sqrt_price * MAX_SQRT_PRICE))
                           \div (MAX_SQRT_PRICE - migration_sqrt_price)
             /\ whole <= (quote_amount * ONE_SQUARED) \div (migration_sqrt_price - MIN_SQRT_PRICE)
<1> DEFINE for_base  == (base_amount * (migration_sqrt_price * MAX_SQRT_PRICE))
                         \div (MAX_SQRT_PRICE - migration_sqrt_price)
           for_quote == (quote_amount * ONE_SQUARED) \div (migration_sqrt_price - MIN_SQRT_PRICE)
<1>1. base_amount * migration_sqrt_price * MAX_SQRT_PRICE =
        base_amount * (migration_sqrt_price * MAX_SQRT_PRICE)
  BY PriceFacts
<1>2. get_liquidity_for_adding_liquidity(base_amount, quote_amount) = minimum(for_base, for_quote)
  BY <1>1 DEF get_liquidity_for_adding_liquidity, get_initial_liquidity_from_delta_base,
              get_initial_liquidity_from_delta_quote
<1>3. for_base \in Nat /\ for_quote \in Nat
  <2>1. base_amount * (migration_sqrt_price * MAX_SQRT_PRICE) \in Nat
        /\ quote_amount * ONE_SQUARED \in Nat
    BY PriceFacts, ProductMonotone
  <2>2. QED
    BY <2>1, PriceFacts, DivisionOfNat
<1> HIDE DEF for_base, for_quote
<1>4. minimum(for_base, for_quote) \in Nat
      /\ minimum(for_base, for_quote) <= for_base /\ minimum(for_base, for_quote) <= for_quote
  BY <1>3 DEF minimum
<1>5. QED
  BY <1>2, <1>4 DEF for_base, for_quote

(* Liquidity of at most what two amounts are worth costs at most those     *)
(* amounts, although the cost is rounded up: neither position of DAMM v2   *)
(* can ask for more than the migration set aside.                          *)
THEOREM DepositCovered ==
  ASSUME migration_sqrt_price \in MIN_SQRT_PRICE + 1 .. MAX_SQRT_PRICE - 1,
         NEW base_amount \in Nat, NEW quote_amount \in Nat, NEW liquidity \in Nat,
         liquidity <= get_liquidity_for_adding_liquidity(base_amount, quote_amount)
  PROVE  /\ deposit_of(liquidity).base \in Nat /\ deposit_of(liquidity).base <= base_amount
         /\ deposit_of(liquidity).quote \in Nat /\ deposit_of(liquidity).quote <= quote_amount
<1> DEFINE up         == MAX_SQRT_PRICE - migration_sqrt_price
           down       == migration_sqrt_price - MIN_SQRT_PRICE
           base_scale == migration_sqrt_price * MAX_SQRT_PRICE
           whole      == get_liquidity_for_adding_liquidity(base_amount, quote_amount)
           for_base   == (base_amount * base_scale) \div up
           for_quote  == (quote_amount * ONE_SQUARED) \div down
<1>1. /\ up \in Nat \ {0} /\ down \in Nat \ {0}
      /\ base_scale \in Nat \ {0} /\ ONE_SQUARED \in Nat \ {0}
  BY PriceFacts
<1>2. whole \in Nat /\ whole <= for_base /\ whole <= for_quote
  BY LiquidityWorth
<1>3. deposit_of(liquidity) =
        [base  |-> mul_div_up(liquidity, up, base_scale),
         quote |-> mul_div_up(liquidity, down, ONE_SQUARED)]
  BY DEF deposit_of, get_initialize_amounts, get_delta_amount_base_up, get_delta_amount_quote_up
<1> HIDE DEF up, down, base_scale
<1>4. for_base \in Nat /\ for_quote \in Nat
  BY <1>1, ProductMonotone, DivisionOfNat
<1>5. liquidity <= for_base /\ liquidity <= for_quote
  <2> HIDE DEF for_base, for_quote, whole
  <2>1. liquidity <= whole
    BY DEF whole
  <2>2. QED
    BY <1>2, <1>4, <2>1
<1>6. mul_div_up(liquidity, up, base_scale) <= base_amount
  BY <1>1, <1>5, RoundTrip DEF mul_div_up
<1>7. mul_div_up(liquidity, down, ONE_SQUARED) <= quote_amount
  BY <1>1, <1>5, RoundTrip DEF mul_div_up
<1>8. /\ mul_div_up(liquidity, up, base_scale) \in Nat
      /\ mul_div_up(liquidity, down, ONE_SQUARED) \in Nat
  BY <1>1, MulDiv
<1>9. QED
  BY <1>3, <1>6, <1>7, <1>8

-----------------------------------------------------------------------------
(* The inductive invariant.                                                *)
(* The stage says whether the curve is complete, whether a vesting was     *)
(* locked and whether the pool was migrated; before the migration nothing  *)
(* is with the AMM and no LP token is shared out.                          *)
Stages ==
  /\ is_curve_complete <=> migration_progress # "PreBondingCurve"
  /\ is_migrated <=> migration_progress = "CreatedPool"
  /\ ~has_vesting => migration_progress # "PostBondingCurve" /\ escrow_base = 0
  /\ ~is_migrated => /\ damm = [base |-> 0, quote |-> 0]
                     /\ virtual_pool_lp = 0
                     /\ migration_metadata.share = NoLiquidity
                     /\ migration_metadata.lock_status = NoFlag
                     /\ migration_metadata.claim_status = NoFlag

(* A launch starts with fields of their types ...                          *)
LEMMA InitTypes == MigrationInit => LaunchTypeOK
<1>1. 0 \in U64
  BY ConfigAssumption DEF U64
<1>2. QED
  BY <1>1, InitPoolTypes
     DEF MigrationInit, LaunchTypeOK, MigrationMetadata, Item, NoLiquidity, NoFlag, Roles

(* ... in the first stage.                                                 *)
LEMMA InitStages == MigrationInit => Stages
BY ConfigFacts DEF MigrationInit, Init, Stages, is_curve_complete

-----------------------------------------------------------------------------
(* The instructions of the migration keep the types.                       *)
LEMMA UnchangedTypes == ASSUME TypeOK, UNCHANGED pool_vars PROVE TypeOK'
BY DEF TypeOK, pool_vars, curve_vars, fee_vars, stage_vars, surplus_vars, world_vars

(* create_locker                                                           *)
LEMMA CreateLockerTypes ==
  ASSUME LaunchTypeOK, CreateLocker
  PROVE  LaunchTypeOK'
<1>1. TypeOK'
  BY DEF LaunchTypeOK, TypeOK, CreateLocker, MigrationProgress,
         curve_vars, fee_vars, surplus_vars, world_vars
<1>2. escrow_base' \in Nat
  BY ConfigFacts DEF LaunchTypeOK, CreateLocker
<1>3. QED
  BY <1>1, <1>2 DEF LaunchTypeOK, CreateLocker

(* create_pool leaves exactly the pending base fees in the base vault.     *)
LEMMA CreatePoolTypes ==
  ASSUME TypeOK, NEW deposit_base \in Nat, NEW deposit_quote \in Nat,
         create_pool(deposit_base, deposit_quote)
  PROVE  TypeOK' /\ base_vault' = base_fees /\ base_fees \in Nat
<1>1. /\ base_vault \in U64 /\ base_vault \in Nat
      /\ trading_base_fee \in Nat /\ protocol_base_fee \in Nat
  BY Widths DEF TypeOK
<1>2. base_fees \in Nat
  BY <1>1 DEF base_fees
<1>3. left_base_token(deposit_base) \in Nat
  BY Widths DEF create_pool
<1>4. base_vault - deposit_base - left_base_token(deposit_base) = base_fees
      /\ base_fees <= base_vault
  BY <1>1, <1>2, <1>3 DEF left_base_token
<1>5. base_vault' = base_fees /\ base_fees \in U64
  <2>1. /\ base_vault - (base_vault - base_fees) = base_fees
        /\ base_vault - base_fees \in Nat /\ base_vault - base_fees <= base_vault
    BY <1>1, <1>2, <1>4
  <2>2. base_fees \in U64
    BY <1>1, <2>1, DifferenceFits
  <2>3. QED
    BY <1>4, <2>2 DEF create_pool
<1>6. TypeOK'
  BY <1>5 DEF create_pool, TypeOK, MigrationProgress, curve_vars, fee_vars, surplus_vars, world_vars
<1>7. QED
  BY <1>2, <1>5, <1>6

(* migrate_meteora_damm                                                    *)
LEMMA MigrateMeteoraDammTypes ==
  ASSUME LaunchTypeOK, Stages, NEW lp_minted_amount \in U64,
         MigrateMeteoraDamm(lp_minted_amount)
  PROVE  LaunchTypeOK'
<1>1. create_pool(migration_base_threshold, migration_quote_threshold)
  BY DEF MigrateMeteoraDamm
<1>2. TypeOK'
  BY <1>1, ConfigFacts, CreatePoolTypes DEF LaunchTypeOK
<1>3. damm' \in [base : Nat, quote : Nat] /\ escrow_base' \in Nat
  BY <1>1, ConfigFacts DEF create_pool, LaunchTypeOK
<1>4. get_lp_distribution(lp_minted_amount) \in [Roles -> Item]
  <2>1. lp_minted_amount \in Nat
    BY Widths
  <2>2. QED
    BY <2>1, DistributionIsSplit DEF Roles, Item
<1>5. migration_metadata' \in MigrationMetadata
  BY <1>4 DEF MigrateMeteoraDamm, LaunchTypeOK, MigrationMetadata
<1>6. virtual_pool_lp' \in U64
  <2>1. virtual_pool_lp = 0
    BY DEF Stages, MigrateMeteoraDamm, can_migrate
  <2>2. 0 + lp_minted_amount = lp_minted_amount
    BY Widths
  <2>3. QED
    BY <2>1, <2>2 DEF MigrateMeteoraDamm
<1>7. lp_received' \in [Owners -> Item]
  BY DEF MigrateMeteoraDamm, LaunchTypeOK
<1>8. QED
  BY <1>2, <1>3, <1>5, <1>6, <1>7 DEF LaunchTypeOK

-----------------------------------------------------------------------------
(* What migrate_damm_v2 does, with its intermediate results as witnesses.  *)
LEMMA GiveTypes ==
  ASSUME NEW received \in [Owners -> Item], NEW owner \in Owners, NEW item \in Item
  PROVE  give(received, owner, item) \in [Owners -> Item]
BY DEF give, Item

(* The second position is two amounts of liquidity.                        *)
LEMMA SecondPositionTypes ==
  ASSUME NEW item \in Item, NEW liquidity \in Nat
  PROVE  second_position(item, liquidity) \in Item
<1>1. item.unlocked \in Nat
  BY DEF Item
<1>2. minimum(liquidity, item.unlocked) \in Nat
      /\ liquidity - minimum(liquidity, item.unlocked) \in Nat
  BY <1>1, MinimumOfNats
<1>3. QED
  BY <1>2 DEF second_position, Item

(* The amounts DAMM v2 takes and the two positions it gives out.           *)
LEMMA MigrateDammV2Deposits ==
  ASSUME LaunchTypeOK, MigrateDammV2
  PROVE  /\ \E deposit_base \in Nat, deposit_quote \in Nat :
              deposit_quote <= migration_quote_threshold
                /\ create_pool(deposit_base, deposit_quote)
         /\ lp_received' \in [Owners -> Item]
<1>1. /\ migration_sqrt_price \in MIN_SQRT_PRICE + 1 .. MAX_SQRT_PRICE - 1
      /\ base_vault - base_fees \in Nat
  <2>1. base_vault \in Nat /\ trading_base_fee \in Nat /\ protocol_base_fee \in Nat
    BY Widths DEF LaunchTypeOK, TypeOK
  <2>2. /\ migration_sqrt_price \in MIN_SQRT_PRICE + 1 .. MAX_SQRT_PRICE - 1
        /\ base_vault >= base_fees
    BY DEF MigrateDammV2
  <2>3. base_vault - base_fees \in Nat
    BY <2>1, <2>2 DEF base_fees
  <2>4. QED
    BY <2>2, <2>3
<1> DEFINE all          == get_liquidity_for_adding_liquidity(base_vault - base_fees,
                                                              migration_quote_threshold)
           distribution == first_distribution
           first        == first_role(distribution)
           second       == IF first = "partner" THEN "creator" ELSE "partner"
           deposited    == deposit_of(get_total_liquidity(distribution[first]))
           left_base    == base_vault - base_fees - deposited.base
           left_quote   == migration_quote_threshold - deposited.quote
           rest         == get_liquidity_for_adding_liquidity(left_base, left_quote)
<1>2. all \in Nat
  BY <1>1, ConfigFacts, LiquidityWorth
<1>3. /\ distribution \in [Roles -> Item]
      /\ all = get_total_liquidity(distribution.partner) + get_total_liquidity(distribution.creator)
  <2> HIDE DEF all
  <2>1. distribution = get_lp_distribution(all)
    BY DEF first_distribution, all
  <2>2. QED
    BY <1>2, <2>1, DistributionIsSplit DEF Roles, Item
<1>4. first \in Roles /\ second \in Roles
  BY DEF first_role, Roles
<1>5. get_total_liquidity(distribution[first]) \in Nat
      /\ get_total_liquidity(distribution[first]) <= all
  <2> HIDE DEF all, distribution, first
  <2>1. \A role \in Roles : get_total_liquidity(distribution[role]) \in Nat
    BY <1>3 DEF get_total_liquidity, Item
  <2>2. QED
    BY <1>2, <1>3, <1>4, <2>1 DEF Roles
<1>6. /\ create_pool(deposited.base + deposit_of(rest).base, deposited.quote + deposit_of(rest).quote)
      /\ lp_received' = give(give(lp_received, key_of[first], distribution[first]),
                             key_of[second], second_position(distribution[second], rest))
  BY DEF MigrateDammV2
<1> HIDE DEF distribution, first, second
<1>7. deposited.base \in Nat /\ deposited.quote \in Nat
      /\ left_base \in Nat /\ left_quote \in Nat
  <2>1. /\ deposited.base \in Nat /\ deposited.base <= base_vault - base_fees
        /\ deposited.quote \in Nat /\ deposited.quote <= migration_quote_threshold
    BY <1>1, <1>5, ConfigFacts, DepositCovered
  <2> HIDE DEF deposited
  <2>2. PICK available \in Nat : available = base_vault - base_fees
    BY <1>1
  <2>3. available - deposited.base \in Nat /\ migration_quote_threshold - deposited.quote \in Nat
    BY <2>1, <2>2, ConfigFacts
  <2>4. QED
    BY <2>1, <2>2, <2>3
<1> HIDE DEF all, deposited
<1>8. rest \in Nat /\ rest <= rest
  <2> HIDE DEF left_base, left_quote
  <2>1. rest \in Nat
    BY <1>1, <1>7, LiquidityWorth
  <2> HIDE DEF rest
  <2>2. QED
    BY <2>1
<1>9. /\ deposit_of(rest).base \in Nat
      /\ deposit_of(rest).quote \in Nat /\ deposit_of(rest).quote <= left_quote
  BY <1>1, <1>7, <1>8, DepositCovered
<1> HIDE DEF rest
<1>10. /\ deposited.base + deposit_of(rest).base \in Nat
       /\ deposited.quote + deposit_of(rest).quote \in Nat
       /\ deposited.quote + deposit_of(rest).quote <= migration_quote_threshold
  <2>1. left_quote + deposited.quote = migration_quote_threshold
    BY <1>7, ConfigFacts
  <2> HIDE DEF left_quote
  <2>2. QED
    BY <1>7, <1>9, <2>1, ConfigFacts
<1>11. lp_received' \in [Owners -> Item]
  <2>1. key_of[first] \in Owners /\ key_of[second] \in Owners
    BY <1>4 DEF key_of, Owners, Roles
  <2>2. distribution[first] \in Item
        /\ second_position(distribution[second], rest) \in Item
    BY <1>3, <1>4, <1>8, SecondPositionTypes
  <2>3. give(lp_received, key_of[first], distribution[first]) \in [Owners -> Item]
    BY <2>1, <2>2, GiveTypes DEF LaunchTypeOK
  <2>4. QED
    BY <1>6, <2>1, <2>2, <2>3, GiveTypes
<1>12. QED
  BY <1>6, <1>10, <1>11

(* migration_damm_v2                                                       *)
LEMMA MigrateDammV2Types ==
  ASSUME LaunchTypeOK, MigrateDammV2
  PROVE  LaunchTypeOK'
<1>1. PICK deposit_base \in Nat, deposit_quote \in Nat : create_pool(deposit_base, deposit_quote)
  BY MigrateDammV2Deposits
<1>2. TypeOK'
  BY <1>1, CreatePoolTypes DEF LaunchTypeOK
<1>3. damm' \in [base : Nat, quote : Nat] /\ escrow_base' \in Nat
  BY <1>1 DEF create_pool, LaunchTypeOK
<1>4. UNCHANGED <<migration_metadata, virtual_pool_lp>>
  BY DEF MigrateDammV2
<1>5. QED
  BY <1>2, <1>3, <1>4, MigrateDammV2Deposits DEF LaunchTypeOK

-----------------------------------------------------------------------------
(* Handing out the LP tokens of DAMM v1.                                   *)
LEMMA HandOutTypes ==
  ASSUME LaunchTypeOK, NEW owner \in Owners, LockLpToken(owner) \/ ClaimLpToken(owner)
  PROVE  LaunchTypeOK'
<1> DEFINE role == role_of(owner)
<1>1. role \in Roles
  BY DEF role_of, Roles
<1>2. migration_metadata.share[role] \in Item
  BY <1>1 DEF LaunchTypeOK, MigrationMetadata
<1> HIDE DEF role
<1>3. CASE LockLpToken(owner)
  <2>1. /\ migration_metadata' = [migration_metadata EXCEPT !.lock_status[role] = TRUE]
        /\ hand_out(owner, "locked", migration_metadata.share[role].locked)
    BY <1>3 DEF LockLpToken, role
  <2>2. migration_metadata' \in MigrationMetadata
    BY <1>1, <2>1 DEF LaunchTypeOK, MigrationMetadata
  <2>3. lp_received' \in [Owners -> Item]
    BY <1>2, <2>1 DEF LaunchTypeOK, hand_out, Item
  <2>4. QED
    BY <2>1, <2>2, <2>3, UnchangedTypes DEF LaunchTypeOK, hand_out
<1>4. CASE ClaimLpToken(owner)
  <2>1. /\ migration_metadata' = [migration_metadata EXCEPT !.claim_status[role] = TRUE]
        /\ hand_out(owner, "unlocked", migration_metadata.share[role].unlocked)
    BY <1>4 DEF ClaimLpToken, role
  <2>2. migration_metadata' \in MigrationMetadata
    BY <1>1, <2>1 DEF LaunchTypeOK, MigrationMetadata
  <2>3. lp_received' \in [Owners -> Item]
    BY <1>2, <2>1 DEF LaunchTypeOK, hand_out, Item
  <2>4. QED
    BY <2>1, <2>2, <2>3, UnchangedTypes DEF LaunchTypeOK, hand_out
<1>5. QED
  BY <1>3, <1>4

(* The two instructions that create the metadata account.                  *)
LEMMA CreateMetadataTypes ==
  ASSUME LaunchTypeOK, CreateMetadata
  PROVE  LaunchTypeOK'
BY UnchangedTypes DEF CreateMetadata, LaunchTypeOK, MigrationMetadata

(* Every step of a launch keeps the types.                                 *)
LEMMA LaunchTypes ==
  ASSUME LaunchTypeOK, Stages, [Next]_vars
  PROVE  LaunchTypeOK'
<1>1. CASE UNCHANGED vars
  BY <1>1, UnchangedTypes DEF vars, migration_vars, LaunchTypeOK
<1>2. CASE Trade
  BY <1>2, PoolTypes DEF Trade, migration_vars, LaunchTypeOK
<1>3. CASE CreateMetadata
  BY <1>3, CreateMetadataTypes
<1>4. CASE CreateLocker
  BY <1>4, CreateLockerTypes
<1>5. CASE Migrate
  BY <1>5, MigrationAssumption, MigrateMeteoraDammTypes, MigrateDammV2Types DEF Migrate
<1>6. CASE HandOut
  BY <1>6, HandOutTypes DEF HandOut
<1>7. QED
  BY <1>1, <1>2, <1>3, <1>4, <1>5, <1>6 DEF Next

-----------------------------------------------------------------------------
(* The order of the stages.                                                *)
(* A swap leaves the bonding stage exactly when it completes the curve.    *)
LEMMA SwapStages ==
  ASSUME Stages, NEW direction, NEW amount_in, NEW least, NEW has_referral,
         Swap(direction, amount_in, least, has_referral), UNCHANGED migration_vars
  PROVE  Stages'
<1>1. ~is_curve_complete /\ complete_curve /\ UNCHANGED is_migrated
  BY DEF Swap, may_swap
<1>2. migration_progress = "PreBondingCurve" /\ ~is_migrated
  BY <1>1 DEF Stages
<1>3. after_bonding \in {"PostBondingCurve", "LockedVesting"}
      /\ (~has_vesting => after_bonding = "LockedVesting")
  BY DEF after_bonding
<1>4. CASE is_curve_complete'
  BY <1>1, <1>2, <1>3, <1>4 DEF Stages, complete_curve, migration_vars
<1>5. CASE ~is_curve_complete'
  BY <1>1, <1>2, <1>5 DEF Stages, complete_curve, migration_vars
<1>6. QED
  BY <1>4, <1>5

(* Every step keeps stage, flags and reserves in step.                     *)
LEMMA StagesStep ==
  ASSUME LaunchTypeOK, Stages, [Next]_vars
  PROVE  Stages'
<1>1. CASE UNCHANGED vars
  BY <1>1, CompleteUnlessTraded DEF vars, pool_vars, stage_vars, migration_vars, Stages
<1>2. CASE Trade
  <2>1. ASSUME UNCHANGED <<curve_vars, stage_vars>> PROVE Stages'
    BY <1>2, <2>1, CompleteUnlessTraded DEF Trade, stage_vars, migration_vars, Stages
  <2>2. QED
    BY <1>2, <2>1, OnlySwapsTrade, SwapStages DEF Trade
<1>3. CASE CreateMetadata
  <2>1. migration_metadata' = [migration_metadata EXCEPT !.created = TRUE]
        /\ UNCHANGED <<pool_vars, escrow_base, damm, virtual_pool_lp, lp_received>>
    BY <1>3 DEF CreateMetadata
  <2>2. /\ migration_metadata'.share = migration_metadata.share
        /\ migration_metadata'.lock_status = migration_metadata.lock_status
        /\ migration_metadata'.claim_status = migration_metadata.claim_status
    BY <2>1 DEF LaunchTypeOK, MigrationMetadata
  <2>3. QED
    BY <2>1, <2>2, CompleteUnlessTraded DEF pool_vars, stage_vars, Stages
<1>4. CASE CreateLocker
  BY <1>4, CompleteUnlessTraded DEF CreateLocker, Stages
<1>5. CASE Migrate
  <2>1. /\ is_curve_complete /\ migration_progress = "LockedVesting"
        /\ \E deposit_base, deposit_quote : create_pool(deposit_base, deposit_quote)
    BY <1>5, MigrateDammV2Deposits
       DEF Migrate, MigrateMeteoraDamm, MigrateDammV2, can_migrate
  <2>2. /\ is_migrated' = TRUE /\ migration_progress' = "CreatedPool"
        /\ UNCHANGED curve_vars /\ UNCHANGED escrow_base
    BY <2>1 DEF create_pool
  <2>3. QED
    BY <2>1, <2>2, CompleteUnlessTraded DEF Stages
<1>6. CASE HandOut
  <2>1. migration_progress = "CreatedPool" /\ UNCHANGED <<pool_vars, escrow_base>>
    BY <1>6 DEF HandOut, LockLpToken, ClaimLpToken, hand_out
  <2>2. QED
    BY <2>1, CompleteUnlessTraded DEF pool_vars, stage_vars, Stages
<1>7. QED
  BY <1>1, <1>2, <1>3, <1>4, <1>5, <1>6 DEF Next

(* Every field of a launch keeps to its type, for every accepted config.   *)
THEOREM LaunchTypeCorrect == Spec => []LaunchTypeOK
<1>1. LaunchTypeOK /\ Stages /\ [Next]_vars => LaunchTypeOK' /\ Stages'
  BY LaunchTypes, StagesStep
<1>2. QED
  BY <1>1, InitTypes, InitStages, PTL DEF Spec

(* The curve of a complete pool is closed: no instruction of the program,  *)
(* the migration included, moves its price or its reserves.                *)
THEOREM CompleteCurveIsClosed == Spec => CompletedCurveFrozen
<1>1. ASSUME [Next]_vars, is_curve_complete
      PROVE  UNCHANGED <<sqrt_price, base_reserve, quote_reserve>>
  <2>1. ASSUME PoolNext PROVE UNCHANGED curve_vars
    BY <1>1, <2>1, OnlySwapsTrade DEF Swap, may_swap
  <2>2. UNCHANGED curve_vars
    BY <1>1, <2>1 DEF Next, Trade, vars, pool_vars, CreateMetadata, CreateLocker, Migrate,
                      MigrateMeteoraDamm, MigrateDammV2, create_pool, HandOut, LockLpToken,
                      ClaimLpToken, hand_out
  <2>3. QED
    BY <2>2 DEF curve_vars
<1>2. QED
  BY <1>1, PTL DEF Spec, CompletedCurveFrozen

-----------------------------------------------------------------------------
(* The books.                                                              *)
LEMMA Quantities ==
  ASSUME LaunchTypeOK
  PROVE  /\ base_reserve \in Nat /\ quote_reserve \in Nat
         /\ trading_base_fee \in Nat /\ trading_quote_fee \in Nat
         /\ protocol_base_fee \in Nat /\ protocol_quote_fee \in Nat
         /\ base_vault \in Nat /\ quote_vault \in Nat
         /\ metrics.trading_base \in Nat /\ metrics.trading_quote \in Nat
         /\ metrics.protocol_base \in Nat /\ metrics.protocol_quote \in Nat
         /\ paid.partner_base \in Nat /\ paid.partner_quote \in Nat
         /\ paid.treasury_base \in Nat /\ paid.treasury_quote \in Nat
         /\ paid.partner_surplus \in Nat /\ paid.treasury_surplus \in Nat
         /\ donated.base \in Nat /\ donated.quote \in Nat
         /\ damm.base \in Nat /\ damm.quote \in Nat /\ escrow_base \in Nat
<1>1. metrics \in PoolMetrics /\ paid \in Payments
      /\ donated \in [base : 0 .. MAX_DONATED, quote : 0 .. MAX_DONATED]
      /\ damm \in [base : Nat, quote : Nat] /\ escrow_base \in Nat
  BY DEF LaunchTypeOK, TypeOK
<1>2. /\ donated.base \in Nat /\ donated.quote \in Nat
      /\ damm.base \in Nat /\ damm.quote \in Nat
  BY <1>1, BoundAssumption
<1>3. /\ paid.partner_base \in Nat /\ paid.partner_quote \in Nat
      /\ paid.treasury_base \in Nat /\ paid.treasury_quote \in Nat
      /\ paid.partner_surplus \in Nat /\ paid.treasury_surplus \in Nat
  BY <1>1 DEF Payments
<1>4. /\ metrics.trading_base \in Nat /\ metrics.trading_quote \in Nat
      /\ metrics.protocol_base \in Nat /\ metrics.protocol_quote \in Nat
  BY <1>1, Widths DEF PoolMetrics
<1>5. /\ base_reserve \in Nat /\ quote_reserve \in Nat
      /\ trading_base_fee \in Nat /\ trading_quote_fee \in Nat
      /\ protocol_base_fee \in Nat /\ protocol_quote_fee \in Nat
      /\ base_vault \in Nat /\ quote_vault \in Nat
  BY Widths DEF LaunchTypeOK, TypeOK
<1>6. QED
  BY <1>1, <1>2, <1>3, <1>4, <1>5

(* Fees are accounted for by every step.                                   *)
LEMMA FeesStep ==
  ASSUME LaunchTypeOK, FeesAccounted, [Next]_vars
  PROVE  FeesAccounted'
<1> USE Quantities
<1>1. ASSUME UNCHANGED <<fee_vars, metrics>>,
             /\ paid'.partner_base = paid.partner_base /\ paid'.partner_quote = paid.partner_quote
             /\ paid'.treasury_base = paid.treasury_base
             /\ paid'.treasury_quote = paid.treasury_quote
      PROVE  FeesAccounted'
  BY <1>1 DEF FeesAccounted, fee_vars
<1>2. ASSUME NEW direction \in TradeDirection, NEW amount_in \in Nat, NEW least \in Nat, NEW has_referral \in BOOLEAN,
             Swap(direction, amount_in, least, has_referral)
      PROVE  FeesAccounted'
  <2>1. PICK tq \in Nat, pq \in Nat, tb \in Nat, pb \in Nat, quote \in Int, base \in Int :
          Balanced(tq, pq, tb, pb, quote, base)
    <3>1. SwapBalances
      BY <1>2, SwapBooks DEF LaunchTypeOK
    <3>2. QED
      BY <3>1, Zenon DEF SwapBalances
  <2>2. UNCHANGED paid
    BY <1>2 DEF Swap
  <2>3. QED
    BY <2>1, <2>2 DEF Balanced, FeesAccounted
<1>3. ASSUME NEW max_base \in Nat, NEW max_quote \in Nat, ClaimTradingFee(max_base, max_quote)
      PROVE  FeesAccounted'
  <2>1. PICK base \in Nat, quote \in Nat : base = minimum(trading_base_fee, max_base)
                                         /\ quote = minimum(trading_quote_fee, max_quote)
    BY MinimumOfNats
  <2>2. /\ trading_base_fee' = trading_base_fee - base
        /\ trading_quote_fee' = trading_quote_fee - quote
        /\ paid' = [paid EXCEPT !.partner_base = @ + base, !.partner_quote = @ + quote]
        /\ UNCHANGED <<protocol_base_fee, protocol_quote_fee, metrics>>
    BY <1>3, <2>1 DEF ClaimTradingFee
  <2>3. /\ paid'.partner_base = paid.partner_base + base
        /\ paid'.partner_quote = paid.partner_quote + quote
        /\ paid'.treasury_base = paid.treasury_base
        /\ paid'.treasury_quote = paid.treasury_quote
    <3>1. paid \in Payments
      BY DEF LaunchTypeOK, TypeOK
    <3>2. QED
      BY <2>2, <3>1 DEF Payments
  <2>4. QED
    BY <2>2, <2>3 DEF FeesAccounted
<1>4. CASE ClaimProtocolFee
  <2>1. /\ protocol_base_fee' = 0 /\ protocol_quote_fee' = 0
        /\ paid' = [paid EXCEPT !.treasury_base = @ + protocol_base_fee,
                                !.treasury_quote = @ + protocol_quote_fee]
        /\ UNCHANGED <<trading_base_fee, trading_quote_fee, metrics>>
    BY <1>4 DEF ClaimProtocolFee
  <2>2. /\ paid'.partner_base = paid.partner_base
        /\ paid'.partner_quote = paid.partner_quote
        /\ paid'.treasury_base = paid.treasury_base + protocol_base_fee
        /\ paid'.treasury_quote = paid.treasury_quote + protocol_quote_fee
    <3>1. paid \in Payments
      BY DEF LaunchTypeOK, TypeOK
    <3>2. QED
      BY <2>1, <3>1 DEF Payments
  <2>3. QED
    BY <2>1, <2>2 DEF FeesAccounted
<1>5. CASE PartnerWithdrawSurplus \/ ProtocolWithdrawSurplus
  <2>1. get_partner_surplus \in Nat /\ get_protocol_surplus \in Nat
    BY <1>5, SurplusShares DEF PartnerWithdrawSurplus, ProtocolWithdrawSurplus
  <2>2. paid \in Payments
    BY DEF LaunchTypeOK, TypeOK
  <2>3. /\ \/ paid' = [paid EXCEPT !.partner_surplus = @ + get_partner_surplus]
           \/ paid' = [paid EXCEPT !.treasury_surplus = @ + get_protocol_surplus]
        /\ UNCHANGED <<fee_vars, metrics>>
    BY <1>5 DEF PartnerWithdrawSurplus, ProtocolWithdrawSurplus
  <2>4. /\ paid'.partner_base = paid.partner_base /\ paid'.partner_quote = paid.partner_quote
        /\ paid'.treasury_base = paid.treasury_base
        /\ paid'.treasury_quote = paid.treasury_quote
    BY <2>2, <2>3 DEF Payments
  <2>5. QED
    BY <1>1, <2>3, <2>4
<1>6. CASE PoolNext
  <2>1. ASSUME \/ \E amount \in DonationAmounts : DonateBase(amount) \/ DonateQuote(amount)
               \/ Tick
        PROVE  FeesAccounted'
    BY <1>1, <2>1 DEF DonateBase, DonateQuote, Tick
  <2>2. QED
    BY <1>2, <1>3, <1>4, <1>5, <1>6, <2>1, BoundAssumption DEF PoolNext
<1>7. CASE UNCHANGED <<fee_vars, metrics, paid>>
  BY <1>1, <1>7
<1>8. QED
  BY <1>6, <1>7, MigrateDammV2Deposits
     DEF Next, vars, pool_vars, Trade, CreateMetadata, CreateLocker, Migrate, MigrateMeteoraDamm,
         create_pool, HandOut, LockLpToken, ClaimLpToken, hand_out

(* VaultsBacked, with the last comparison as a difference, is preserved by *)
(* every step.                                                             *)
QuoteBooks ==
  quote_vault = quote_reserve + trading_quote_fee + protocol_quote_fee + donated.quote
                  - damm.quote - paid.partner_surplus - paid.treasury_surplus

BaseBooks ==
  /\ ~is_migrated =>
       base_vault = base_reserve + trading_base_fee + protocol_base_fee + donated.base - escrow_base
  /\ is_migrated => base_vault - trading_base_fee - protocol_base_fee \in Nat

Books == QuoteBooks /\ BaseBooks

(* The instructions of the pool keep the vaults backed ...                 *)
LEMMA PoolBooks ==
  ASSUME LaunchTypeOK, Stages, Books, PoolNext, UNCHANGED migration_vars
  PROVE  Books'
<1> USE Quantities
<1>1. UNCHANGED <<damm, escrow_base>>
  BY DEF migration_vars
<1>2. paid \in Payments
  BY DEF LaunchTypeOK, TypeOK
<1>3. ASSUME NEW direction \in TradeDirection, NEW amount_in \in Nat, NEW least \in Nat, NEW has_referral \in BOOLEAN,
             Swap(direction, amount_in, least, has_referral)
      PROVE  Books'
  <2>1. PICK tq \in Nat, pq \in Nat, tb \in Nat, pb \in Nat, quote \in Int, base \in Int :
          Balanced(tq, pq, tb, pb, quote, base)
    <3>1. SwapBalances
      BY <1>3, SwapBooks DEF LaunchTypeOK
    <3>2. QED
      BY <3>1, Zenon DEF SwapBalances
  <2>2. UNCHANGED <<is_migrated, paid, donated>> /\ ~is_curve_complete
    BY <1>3 DEF Swap, may_swap
  <2>3. ~is_migrated
    BY <2>2 DEF Stages
  <2>4. QED
    BY <1>1, <2>1, <2>2, <2>3 DEF Balanced, Books, QuoteBooks, BaseBooks
<1>4. ASSUME NEW max_base \in Nat, NEW max_quote \in Nat, ClaimTradingFee(max_base, max_quote)
      PROVE  Books'
  <2>1. PICK base \in Nat, quote \in Nat : base = minimum(trading_base_fee, max_base)
                                         /\ quote = minimum(trading_quote_fee, max_quote)
    BY MinimumOfNats
  <2>2. /\ trading_base_fee' = trading_base_fee - base
        /\ trading_quote_fee' = trading_quote_fee - quote
        /\ base_vault' = base_vault - base
        /\ quote_vault' = quote_vault - quote
        /\ paid' = [paid EXCEPT !.partner_base = @ + base, !.partner_quote = @ + quote]
        /\ UNCHANGED <<protocol_base_fee, protocol_quote_fee, base_reserve, quote_reserve,
                       is_migrated, donated>>
    BY <1>4, <2>1 DEF ClaimTradingFee, curve_vars, stage_vars, world_vars
  <2>3. /\ paid'.partner_surplus = paid.partner_surplus
        /\ paid'.treasury_surplus = paid.treasury_surplus
    BY <1>2, <2>2 DEF Payments
  <2>4. QED
    BY <1>1, <2>2, <2>3 DEF Books, QuoteBooks, BaseBooks
<1>5. CASE ClaimProtocolFee
  <2>1. /\ protocol_base_fee' = 0 /\ protocol_quote_fee' = 0
        /\ base_vault' = base_vault - protocol_base_fee
        /\ quote_vault' = quote_vault - protocol_quote_fee
        /\ paid' = [paid EXCEPT !.treasury_base = @ + protocol_base_fee,
                                !.treasury_quote = @ + protocol_quote_fee]
        /\ UNCHANGED <<trading_base_fee, trading_quote_fee, base_reserve, quote_reserve,
                       is_migrated, donated>>
    BY <1>5 DEF ClaimProtocolFee, curve_vars, stage_vars, world_vars
  <2>2. /\ paid'.partner_surplus = paid.partner_surplus
        /\ paid'.treasury_surplus = paid.treasury_surplus
    BY <1>2, <2>1 DEF Payments
  <2>3. QED
    BY <1>1, <2>1, <2>2 DEF Books, QuoteBooks, BaseBooks
<1>6. CASE PartnerWithdrawSurplus \/ ProtocolWithdrawSurplus
  <2>1. get_partner_surplus \in Nat /\ get_protocol_surplus \in Nat
    BY <1>6, SurplusShares DEF PartnerWithdrawSurplus, ProtocolWithdrawSurplus
  <2>2. PICK share \in Nat :
          /\ quote_vault' = quote_vault - share
          /\ \/ paid' = [paid EXCEPT !.partner_surplus = @ + share]
             \/ paid' = [paid EXCEPT !.treasury_surplus = @ + share]
    BY <1>6, <2>1 DEF PartnerWithdrawSurplus, ProtocolWithdrawSurplus
  <2>3. UNCHANGED <<fee_vars, base_vault, base_reserve, quote_reserve, is_migrated, donated>>
    BY <1>6 DEF PartnerWithdrawSurplus, ProtocolWithdrawSurplus, curve_vars, stage_vars, world_vars
  <2>4. \/ /\ paid'.partner_surplus = paid.partner_surplus + share
           /\ paid'.treasury_surplus = paid.treasury_surplus
        \/ /\ paid'.partner_surplus = paid.partner_surplus
           /\ paid'.treasury_surplus = paid.treasury_surplus + share
    BY <1>2, <2>2 DEF Payments
  <2>5. QED
    BY <1>1, <2>2, <2>3, <2>4 DEF Books, QuoteBooks, BaseBooks, fee_vars
<1>7. ASSUME NEW amount \in Nat, DonateBase(amount)
      PROVE  Books'
  <2>1. donated'.base = donated.base + amount /\ donated'.quote = donated.quote
    BY <1>7 DEF DonateBase, LaunchTypeOK, TypeOK
  <2>2. /\ base_vault' = base_vault + amount
        /\ UNCHANGED <<fee_vars, quote_vault, base_reserve, quote_reserve, is_migrated, paid>>
    BY <1>7 DEF DonateBase, curve_vars, stage_vars
  <2>3. QED
    BY <1>1, <2>1, <2>2 DEF Books, QuoteBooks, BaseBooks, fee_vars
<1>8. ASSUME NEW amount \in Nat, DonateQuote(amount)
      PROVE  Books'
  <2>1. donated'.quote = donated.quote + amount /\ donated'.base = donated.base
    BY <1>8 DEF DonateQuote, LaunchTypeOK, TypeOK
  <2>2. /\ quote_vault' = quote_vault + amount
        /\ UNCHANGED <<fee_vars, base_vault, base_reserve, quote_reserve, is_migrated, paid>>
    BY <1>8 DEF DonateQuote, curve_vars, stage_vars
  <2>3. QED
    BY <1>1, <2>1, <2>2 DEF Books, QuoteBooks, BaseBooks, fee_vars
<1>9. CASE Tick
  BY <1>1, <1>9 DEF Tick, Books, QuoteBooks, BaseBooks, curve_vars, fee_vars, stage_vars
<1>10. QED
  BY <1>3, <1>4, <1>5, <1>6, <1>7, <1>8, <1>9, BoundAssumption DEF PoolNext

(* ... and so do those of the migration.                                   *)
LEMMA BooksStep ==
  ASSUME LaunchTypeOK, Stages, Books, [Next]_vars
  PROVE  Books'
<1> USE Quantities
<1>1. CASE UNCHANGED <<pool_vars, damm, escrow_base>>
  BY <1>1 DEF Books, QuoteBooks, BaseBooks, pool_vars, curve_vars, fee_vars, stage_vars, world_vars
<1>2. CASE Trade
  BY <1>2, PoolBooks DEF Trade
<1>3. CASE CreateLocker
  <2>1. /\ base_vault' = base_vault - vesting_total
        /\ escrow_base' = escrow_base + vesting_total
        /\ UNCHANGED <<fee_vars, quote_vault, base_reserve, quote_reserve, is_migrated, paid,
                       donated, damm>>
    BY <1>3 DEF CreateLocker, curve_vars, world_vars
  <2>2. ~is_migrated
    BY <1>3 DEF CreateLocker, Stages
  <2>3. QED
    BY <2>1, <2>2, ConfigFacts DEF Books, QuoteBooks, BaseBooks, fee_vars
<1>4. CASE Migrate
  <2>1. PICK deposit_base \in Nat, deposit_quote \in Nat : create_pool(deposit_base, deposit_quote)
    BY <1>4, ConfigFacts, MigrateDammV2Deposits DEF Migrate, MigrateMeteoraDamm
  <2>2. ~is_migrated
    BY <1>4 DEF Migrate, MigrateMeteoraDamm, MigrateDammV2, can_migrate, Stages
  <2>3. damm.quote = 0
    BY <2>2 DEF Stages
  <2>4. /\ quote_vault' = quote_vault - deposit_quote
        /\ damm'.quote = deposit_quote
        /\ is_migrated' = TRUE
        /\ UNCHANGED <<fee_vars, base_reserve, quote_reserve, paid, donated>>
    BY <2>1 DEF create_pool, curve_vars, world_vars
  <2>5. base_vault' = trading_base_fee + protocol_base_fee
    BY <2>1, CreatePoolTypes DEF LaunchTypeOK, base_fees
  <2>6. QuoteBooks'
    BY <2>3, <2>4 DEF Books, QuoteBooks, fee_vars
  <2>7. BaseBooks'
    BY <2>4, <2>5 DEF BaseBooks, fee_vars
  <2>8. QED
    BY <2>6, <2>7 DEF Books
<1>5. CASE CreateMetadata \/ HandOut
  BY <1>1, <1>5 DEF CreateMetadata, HandOut, LockLpToken, ClaimLpToken, hand_out
<1>6. QED
  BY <1>1, <1>2, <1>3, <1>4, <1>5 DEF Next, vars, migration_vars

(* The surplus is paid once: the shares no longer change when they are     *)
(* paid, because a complete curve is closed.                               *)
LEMMA SurplusUnlessTraded ==
  ASSUME UNCHANGED curve_vars
  PROVE  get_partner_surplus' = get_partner_surplus /\ get_protocol_surplus' = get_protocol_surplus
BY DEF curve_vars, get_partner_surplus, get_protocol_surplus, get_total_surplus

(* Every step keeps the surplus payments at what the flags say.            *)
LEMMA SurplusStep ==
  ASSUME LaunchTypeOK, Stages, SurplusPaidOnce, [Next]_vars
  PROVE  SurplusPaidOnce'
<1> USE Quantities
<1>1. paid \in Payments /\ (is_migrated => is_curve_complete)
  BY DEF LaunchTypeOK, TypeOK, Stages
<1>2. ASSUME UNCHANGED <<curve_vars, surplus_vars>>,
             /\ paid'.partner_surplus = paid.partner_surplus
             /\ paid'.treasury_surplus = paid.treasury_surplus,
             is_migrated' => is_curve_complete
      PROVE  SurplusPaidOnce'
  BY <1>2, SurplusUnlessTraded, CompleteUnlessTraded DEF SurplusPaidOnce, surplus_vars
<1>3. ASSUME NEW direction \in TradeDirection, NEW amount_in \in Nat, NEW least \in Nat, NEW has_referral \in BOOLEAN,
             Swap(direction, amount_in, least, has_referral)
      PROVE  SurplusPaidOnce'
  BY <1>3 DEF Swap, may_swap, SurplusPaidOnce, surplus_vars
<1>4. ASSUME NEW max_base \in Nat, NEW max_quote \in Nat, ClaimTradingFee(max_base, max_quote)
      PROVE  SurplusPaidOnce'
  <2>1. PICK base \in Nat, quote \in Nat :
          paid' = [paid EXCEPT !.partner_base = @ + base, !.partner_quote = @ + quote]
    BY <1>4, MinimumOfNats DEF ClaimTradingFee
  <2>2. /\ paid'.partner_surplus = paid.partner_surplus
        /\ paid'.treasury_surplus = paid.treasury_surplus
    BY <1>1, <2>1 DEF Payments
  <2>3. QED
    BY <1>1, <1>2, <1>4, <2>2 DEF ClaimTradingFee, stage_vars
<1>5. CASE ClaimProtocolFee
  <2>1. paid' = [paid EXCEPT !.treasury_base = @ + protocol_base_fee,
                             !.treasury_quote = @ + protocol_quote_fee]
    BY <1>5 DEF ClaimProtocolFee
  <2>2. /\ paid'.partner_surplus = paid.partner_surplus
        /\ paid'.treasury_surplus = paid.treasury_surplus
    BY <1>1, <2>1 DEF Payments
  <2>3. QED
    BY <1>1, <1>2, <1>5, <2>2 DEF ClaimProtocolFee, stage_vars
<1>6. CASE PartnerWithdrawSurplus
  <2>1. /\ is_curve_complete /\ UNCHANGED curve_vars
        /\ ~is_partner_withdraw_surplus /\ is_partner_withdraw_surplus' = TRUE
        /\ UNCHANGED is_protocol_withdraw_surplus
        /\ paid' = [paid EXCEPT !.partner_surplus = @ + get_partner_surplus]
    BY <1>6 DEF PartnerWithdrawSurplus
  <2>2. get_partner_surplus \in Nat
    BY <2>1, SurplusShares
  <2>3. /\ paid'.partner_surplus = paid.partner_surplus + get_partner_surplus
        /\ paid'.treasury_surplus = paid.treasury_surplus
    BY <1>1, <2>1, <2>2 DEF Payments
  <2>4. paid'.partner_surplus = get_partner_surplus
    BY <2>1, <2>2, <2>3 DEF SurplusPaidOnce
  <2>5. QED
    BY <2>1, <2>3, <2>4, SurplusUnlessTraded, CompleteUnlessTraded DEF SurplusPaidOnce
<1>7. CASE ProtocolWithdrawSurplus
  <2>1. /\ is_curve_complete /\ UNCHANGED curve_vars
        /\ ~is_protocol_withdraw_surplus /\ is_protocol_withdraw_surplus' = TRUE
        /\ UNCHANGED is_partner_withdraw_surplus
        /\ paid' = [paid EXCEPT !.treasury_surplus = @ + get_protocol_surplus]
    BY <1>7 DEF ProtocolWithdrawSurplus
  <2>2. get_protocol_surplus \in Nat
    BY <2>1, SurplusShares
  <2>3. /\ paid'.treasury_surplus = paid.treasury_surplus + get_protocol_surplus
        /\ paid'.partner_surplus = paid.partner_surplus
    BY <1>1, <2>1, <2>2 DEF Payments
  <2>4. paid'.treasury_surplus = get_protocol_surplus
    BY <2>1, <2>2, <2>3 DEF SurplusPaidOnce
  <2>5. QED
    BY <2>1, <2>3, <2>4, SurplusUnlessTraded, CompleteUnlessTraded DEF SurplusPaidOnce
<1>8. CASE PoolNext
  <2>1. ASSUME \/ \E amount \in DonationAmounts : DonateBase(amount) \/ DonateQuote(amount)
               \/ Tick
        PROVE  SurplusPaidOnce'
    BY <1>1, <1>2, <2>1 DEF DonateBase, DonateQuote, Tick, stage_vars
  <2>2. QED
    BY <1>3, <1>4, <1>5, <1>6, <1>7, <1>8, <2>1, BoundAssumption DEF PoolNext
<1>9. CASE Migrate
  <2>1. is_curve_complete /\ UNCHANGED <<curve_vars, surplus_vars, paid>>
    BY <1>9, MigrateDammV2Deposits
       DEF Migrate, MigrateMeteoraDamm, MigrateDammV2, can_migrate, create_pool
  <2>2. QED
    BY <1>2, <2>1
<1>10. CASE CreateLocker
  BY <1>1, <1>2, <1>10 DEF CreateLocker
<1>11. CASE UNCHANGED pool_vars
  BY <1>1, <1>2, <1>11 DEF pool_vars, stage_vars
<1>12. QED
  BY <1>8, <1>9, <1>10, <1>11
     DEF Next, vars, Trade, CreateMetadata, HandOut, LockLpToken, ClaimLpToken, hand_out

(* The AMM pool gets at most the threshold.                                *)
AtMostThreshold == migration_quote_threshold - damm.quote \in Nat

(* No step gives the AMM pool more than the threshold.                     *)
LEMMA ThresholdStep ==
  ASSUME LaunchTypeOK, AtMostThreshold, [Next]_vars
  PROVE  AtMostThreshold'
<1>1. CASE Migrate
  <2>1. PICK deposit_base \in Nat, deposit_quote \in Nat :
          /\ deposit_quote <= migration_quote_threshold
          /\ create_pool(deposit_base, deposit_quote)
    BY <1>1, ConfigFacts, MigrateDammV2Deposits DEF Migrate, MigrateMeteoraDamm
  <2>2. damm'.quote = deposit_quote
    BY <2>1 DEF create_pool
  <2>3. migration_quote_threshold - deposit_quote \in Nat
    BY <2>1, ConfigFacts
  <2>4. QED
    BY <2>2, <2>3 DEF AtMostThreshold
<1>2. CASE UNCHANGED damm
  BY <1>2 DEF AtMostThreshold
<1>3. QED
  BY <1>1, <1>2 DEF Next, vars, migration_vars, Trade, CreateMetadata, CreateLocker, HandOut,
                    LockLpToken, ClaimLpToken, hand_out

-----------------------------------------------------------------------------
(* The inductive invariant and what follows from it.                       *)
LaunchInv ==
  /\ LaunchTypeOK
  /\ Stages
  /\ Books
  /\ FeesAccounted
  /\ SurplusPaidOnce
  /\ AtMostThreshold

(* The inductive invariant holds of a new launch ...                       *)
LEMMA LaunchInvInit == MigrationInit => LaunchInv
<1> SUFFICES ASSUME MigrationInit PROVE LaunchInv
  OBVIOUS
<1>1. initial_base_supply \in Nat
  BY ConfigFacts, Widths
<1>2. Books /\ FeesAccounted
  BY <1>1 DEF MigrationInit, Init, Books, QuoteBooks, BaseBooks, FeesAccounted
<1>3. SurplusPaidOnce /\ AtMostThreshold
  BY ConfigFacts DEF MigrationInit, Init, SurplusPaidOnce, AtMostThreshold
<1>4. QED
  BY <1>2, <1>3, InitTypes, InitStages DEF LaunchInv

(* ... and is kept by every step.                                          *)
LEMMA LaunchInvStep == LaunchInv /\ [Next]_vars => LaunchInv'
BY LaunchTypes, StagesStep, BooksStep, FeesStep, SurplusStep, ThresholdStep DEF LaunchInv

(* The inductive invariant of a launch holds in every reachable state, for *)
(* every accepted config: types, stages, fees, books and surplus.          *)
THEOREM LaunchInvariant == Spec => []LaunchInv
BY LaunchInvInit, LaunchInvStep, PTL DEF Spec

(* Every token in the two vaults is accounted for.                         *)
THEOREM VaultsAreBacked == Spec => []VaultsBacked
<1>1. LaunchInv => VaultsBacked
  BY Quantities DEF LaunchInv, Books, QuoteBooks, BaseBooks, VaultsBacked, base_fees, quote_fees
<1>2. QED
  BY <1>1, LaunchInvariant, PTL

(* Every fee ever charged was paid out once or is pending.                 *)
THEOREM FeesAreAccounted == Spec => []FeesAccounted
<1>1. LaunchInv => FeesAccounted
  BY DEF LaunchInv
<1>2. QED
  BY <1>1, LaunchInvariant, PTL

(* Each surplus share is paid at most once, and in full.                   *)
THEOREM SurplusIsPaidOnce == Spec => []SurplusPaidOnce
<1>1. LaunchInv => SurplusPaidOnce
  BY DEF LaunchInv
<1>2. QED
  BY <1>1, LaunchInvariant, PTL

(* Without a vesting nothing but claims can take the pending base fees out *)
(* of the vault.                                                           *)
THEOREM BaseFeesAreCovered == Spec => []BaseFeesCovered
<1>1. LaunchInv => BaseFeesCovered
  BY Quantities DEF LaunchInv, Stages, Books, BaseBooks, BaseFeesCovered, base_fees
<1>2. QED
  BY <1>1, LaunchInvariant, PTL

(* The quote vault covers everybody's claims, whoever comes first: fees,   *)
(* both surplus shares and the threshold the migration takes.              *)
THEOREM QuoteClaimsAreCovered == Spec => []QuoteClaimsCovered
<1>1. LaunchInv => QuoteClaimsCovered
  <2> SUFFICES ASSUME LaunchInv PROVE QuoteClaimsCovered
    OBVIOUS
  <2> USE Quantities, ConfigFacts DEF LaunchInv
  <2>1. quote_vault = quote_reserve + quote_fees + donated.quote
                        - damm.quote - paid.partner_surplus - paid.treasury_surplus
        /\ quote_fees \in Nat
    BY DEF Books, QuoteBooks, quote_fees
  <2>2. ~is_migrated => damm.quote = 0
    BY DEF Stages
  <2>3. damm.quote <= migration_quote_threshold
    BY DEF AtMostThreshold
  <2>4. CASE ~is_curve_complete
    <3>1. paid.partner_surplus = 0 /\ paid.treasury_surplus = 0 /\ ~is_migrated
      BY <2>4 DEF SurplusPaidOnce
    <3>2. QED
      BY <2>1, <2>2, <2>4, <3>1 DEF QuoteClaimsCovered
  <2>5. CASE is_curve_complete
    <3>1. PICK partner \in Nat, protocol \in Nat :
            /\ partner = get_partner_surplus /\ protocol = get_protocol_surplus
            /\ quote_reserve = migration_quote_threshold + partner + protocol
      BY <2>5, SurplusShares
    <3>2. unpaid_surplus \in Nat
          /\ unpaid_surplus = partner + protocol - paid.partner_surplus - paid.treasury_surplus
      BY <3>1 DEF unpaid_surplus, SurplusPaidOnce
    <3>3. quote_vault = migration_quote_threshold - damm.quote + unpaid_surplus
                          + quote_fees + donated.quote
      BY <2>1, <3>1, <3>2
    <3>4. CASE is_migrated
      BY <2>1, <2>3, <2>5, <3>2, <3>3, <3>4 DEF QuoteClaimsCovered
    <3>5. CASE ~is_migrated
      BY <2>1, <2>2, <2>5, <3>2, <3>3, <3>5 DEF QuoteClaimsCovered
    <3>6. QED
      BY <3>4, <3>5
  <2>6. QED
    BY <2>4, <2>5
<1>2. QED
  BY <1>1, LaunchInvariant, PTL

-----------------------------------------------------------------------------
(* The curve of a launch: the instructions of the migration need a         *)
(* complete curve and leave it alone.                                      *)
LEMMA LaunchCurveStep ==
  ASSUME LaunchTypeOK, Stages, CurveBooks, [Next]_vars
  PROVE  CurveBooks'
<1>1. TypeOK
  BY DEF LaunchTypeOK
<1>2. CASE PoolNext \/ UNCHANGED pool_vars
  BY <1>1, <1>2, CurveStep
<1>3. CASE CreateLocker \/ Migrate
  <2>1. is_curve_complete
    BY <1>3 DEF CreateLocker, Migrate, MigrateMeteoraDamm, MigrateDammV2, can_migrate, Stages
  <2>2. UNCHANGED curve_vars
    BY <1>3, MigrateDammV2Deposits
       DEF CreateLocker, Migrate, MigrateMeteoraDamm, create_pool
  <2>3. is_curve_complete' /\ sold' = sold
    BY <2>1, <2>2, CompleteUnlessTraded DEF curve_vars, sold
  <2>4. QED
    BY <2>2, <2>3 DEF CurveBooks, curve_vars
<1>4. CASE CreateMetadata \/ HandOut
  BY <1>2, <1>4 DEF CreateMetadata, HandOut, LockLpToken, ClaimLpToken, hand_out
<1>5. QED
  BY <1>2, <1>3, <1>4 DEF Next, Trade, vars

(* What a pool promises its traders holds of a launch with its migration:  *)
(* the price stays on the curve, holders can sell back at once all that    *)
(* circulates, and a buy that completes the curve passes its checks.       *)
THEOREM LaunchKeepsCurve == Spec => [](PriceWithinCurve /\ HoldersCanExit /\ CanGraduate)
<1>1. MigrationInit => CurveBooks
  BY CurveInit DEF MigrationInit
<1>2. LaunchInv /\ CurveBooks /\ [Next]_vars => CurveBooks'
  BY LaunchCurveStep DEF LaunchInv
<1>3. LaunchInv /\ CurveBooks => PriceWithinCurve /\ HoldersCanExit /\ CanGraduate
  BY PriceFromCurve, ExitFromCurve, GraduationFromCurve DEF LaunchInv, LaunchTypeOK
<1>4. QED
  BY <1>1, <1>2, <1>3, LaunchInvariant, PTL DEF Spec

-----------------------------------------------------------------------------
(* The lifecycle.                                                          *)

LifecycleStep == Lifecycle!LifecycleNext \/ UNCHANGED Lifecycle!lifecycle_vars

(* A step that moves none of the five quantities stutters.                 *)
LEMMA Stutters ==
  ASSUME UNCHANGED <<migration_progress, quote_reserve, damm>>,
         /\ paid'.partner_surplus = paid.partner_surplus
         /\ paid'.treasury_surplus = paid.treasury_surplus
  PROVE  LifecycleStep
BY DEF LifecycleStep, Lifecycle!lifecycle_vars

(* swap is Trade: it completes the raise exactly at the threshold.         *)
LEMMA SwapIsTrade ==
  ASSUME LaunchInv, LaunchInv', UNCHANGED migration_vars,
         NEW direction \in TradeDirection, NEW amount_in \in Nat, NEW least \in Nat, NEW has_referral \in BOOLEAN,
         Swap(direction, amount_in, least, has_referral)
  PROVE  LifecycleStep
<1>1. /\ complete_curve /\ ~is_curve_complete /\ UNCHANGED paid
      /\ migration_progress = "PreBondingCurve"
  BY DEF Swap, may_swap, LaunchInv, Stages
<1>2. quote_reserve' \in U64
  BY DEF LaunchInv, LaunchTypeOK, TypeOK
<1>3. migration_progress' =
        IF quote_reserve' >= migration_quote_threshold THEN Lifecycle!after_bonding
                                                       ELSE migration_progress
  BY <1>1 DEF complete_curve, is_curve_complete, after_bonding, Lifecycle!after_bonding
<1>4. Lifecycle!Trade
  BY <1>1, <1>2, <1>3 DEF Lifecycle!Trade, migration_vars
<1>5. QED
  BY <1>4 DEF LifecycleStep, Lifecycle!LifecycleNext

(* A surplus withdrawal is a payment of what the other has left.           *)
LEMMA SurplusIsPayment ==
  ASSUME LaunchInv, UNCHANGED migration_vars, PartnerWithdrawSurplus \/ ProtocolWithdrawSurplus
  PROVE  LifecycleStep
<1>1. /\ is_curve_complete
      /\ UNCHANGED <<migration_progress, quote_reserve, damm>>
  BY DEF PartnerWithdrawSurplus, ProtocolWithdrawSurplus, curve_vars, stage_vars, migration_vars
<1>2. paid \in Payments /\ quote_reserve \in Nat /\ migration_progress # "PreBondingCurve"
  BY <1>1, Quantities DEF LaunchInv, LaunchTypeOK, TypeOK, Stages
<1>3. PICK partner \in Nat, protocol \in Nat :
        /\ partner = get_partner_surplus /\ protocol = get_protocol_surplus
        /\ quote_reserve = migration_quote_threshold + partner + protocol
  BY <1>1, <1>2, SurplusShares
<1>4. CASE PartnerWithdrawSurplus
  <2>1. /\ paid.partner_surplus = 0
        /\ paid.treasury_surplus \in {0, protocol}
        /\ paid' = [paid EXCEPT !.partner_surplus = @ + partner]
    BY <1>3, <1>4 DEF PartnerWithdrawSurplus, LaunchInv, SurplusPaidOnce
  <2>2. /\ paid'.partner_surplus = partner
        /\ paid'.treasury_surplus = paid.treasury_surplus
    BY <1>2, <2>1 DEF Payments
  <2>3. partner \in 0 .. Lifecycle!surplus_left
    BY <1>3, <2>1, ConfigFacts DEF Lifecycle!surplus_left
  <2>4. Lifecycle!PayPartner
    BY <1>1, <1>2, <2>1, <2>2, <2>3 DEF Lifecycle!PayPartner
  <2>5. QED
    BY <2>4 DEF LifecycleStep, Lifecycle!LifecycleNext
<1>5. CASE ProtocolWithdrawSurplus
  <2>1. /\ paid.treasury_surplus = 0
        /\ paid.partner_surplus \in {0, partner}
        /\ paid' = [paid EXCEPT !.treasury_surplus = @ + protocol]
    BY <1>3, <1>5 DEF ProtocolWithdrawSurplus, LaunchInv, SurplusPaidOnce
  <2>2. /\ paid'.treasury_surplus = protocol
        /\ paid'.partner_surplus = paid.partner_surplus
    BY <1>2, <2>1 DEF Payments
  <2>3. protocol \in 0 .. Lifecycle!surplus_left
    BY <1>3, <2>1, ConfigFacts DEF Lifecycle!surplus_left
  <2>4. Lifecycle!PayProtocol
    BY <1>1, <1>2, <2>1, <2>2, <2>3 DEF Lifecycle!PayProtocol
  <2>5. QED
    BY <2>4 DEF LifecycleStep, Lifecycle!LifecycleNext
<1>6. QED
  BY <1>4, <1>5

(* Claims, donations and time are invisible to the lifecycle.              *)
LEMMA TradeMaps ==
  ASSUME LaunchInv, LaunchInv', Trade
  PROVE  LifecycleStep
<1>1. UNCHANGED migration_vars /\ PoolNext /\ paid \in Payments
  BY DEF Trade, LaunchInv, LaunchTypeOK, TypeOK
<1>2. ASSUME NEW max_base \in Nat, NEW max_quote \in Nat, ClaimTradingFee(max_base, max_quote)
      PROVE  LifecycleStep
  <2>1. PICK base, quote :
          paid' = [paid EXCEPT !.partner_base = @ + base, !.partner_quote = @ + quote]
    BY <1>2 DEF ClaimTradingFee
  <2>2. /\ paid'.partner_surplus = paid.partner_surplus
        /\ paid'.treasury_surplus = paid.treasury_surplus
    BY <1>1, <2>1 DEF Payments
  <2>3. QED
    BY <1>1, <1>2, <2>2, Stutters DEF ClaimTradingFee, curve_vars, stage_vars, migration_vars
<1>3. CASE ClaimProtocolFee
  <2>1. paid' = [paid EXCEPT !.treasury_base = @ + protocol_base_fee,
                             !.treasury_quote = @ + protocol_quote_fee]
    BY <1>3 DEF ClaimProtocolFee
  <2>2. /\ paid'.partner_surplus = paid.partner_surplus
        /\ paid'.treasury_surplus = paid.treasury_surplus
    BY <1>1, <2>1 DEF Payments
  <2>3. QED
    BY <1>1, <1>3, <2>2, Stutters DEF ClaimProtocolFee, curve_vars, stage_vars, migration_vars
<1>4. ASSUME \/ \E amount \in DonationAmounts : DonateBase(amount)
             \/ \E amount \in DonationAmounts : DonateQuote(amount)
             \/ Tick
      PROVE  LifecycleStep
  BY <1>1, <1>4, Stutters DEF DonateBase, DonateQuote, Tick, curve_vars, stage_vars, migration_vars
<1>5. QED
  BY <1>1, <1>2, <1>3, <1>4, SwapIsTrade, SurplusIsPayment, BoundAssumption DEF PoolNext

(* The migration delivers at most the threshold.                           *)
LEMMA MigrateIsGraduate ==
  ASSUME LaunchInv, LaunchInv', Migrate
  PROVE  LifecycleStep
<1>1. migration_progress = "LockedVesting"
  BY DEF Migrate, MigrateMeteoraDamm, MigrateDammV2, can_migrate
<1>2. PICK deposit_base \in Nat, deposit_quote \in Nat :
        /\ deposit_quote <= migration_quote_threshold
        /\ create_pool(deposit_base, deposit_quote)
  BY ConfigFacts, MigrateDammV2Deposits DEF LaunchInv, Migrate, MigrateMeteoraDamm
<1>3. /\ migration_progress' = "CreatedPool" /\ damm'.quote = deposit_quote
      /\ UNCHANGED <<quote_reserve, paid>>
  BY <1>2 DEF create_pool, curve_vars
<1>4. damm'.quote \in 0 .. migration_quote_threshold
  BY <1>2, <1>3, ConfigFacts
<1>5. Lifecycle!Graduate
  BY <1>1, <1>3, <1>4 DEF Lifecycle!Graduate
<1>6. QED
  BY <1>5 DEF LifecycleStep, Lifecycle!LifecycleNext

(* The launch implements the lifecycle: the stages come in the order the   *)
(* comment of virtual_pool.rs gives, trading ends for good at the          *)
(* threshold, one pool is created with it, and each share of the surplus   *)
(* is paid once.                                                           *)
THEOREM LaunchImplementsLifecycle == Spec => ImplementsLifecycle
<1>1. MigrationInit => Lifecycle!Launched
  BY DEF MigrationInit, Init, Lifecycle!Launched
<1>2. LaunchInv /\ LaunchInv' /\ [Next]_vars
        => [Lifecycle!LifecycleNext]_(Lifecycle!lifecycle_vars)
  <2> SUFFICES ASSUME LaunchInv, LaunchInv', [Next]_vars PROVE LifecycleStep
    BY DEF LifecycleStep
  <2>1. CASE UNCHANGED pool_vars /\ UNCHANGED damm
    BY <2>1, Stutters DEF pool_vars, curve_vars, stage_vars
  <2>2. CASE CreateLocker
    <3>1. Lifecycle!Lock
      BY <2>2 DEF CreateLocker, Lifecycle!Lock, curve_vars
    <3>2. QED
      BY <3>1 DEF LifecycleStep, Lifecycle!LifecycleNext
  <2>3. QED
    BY <2>1, <2>2, TradeMaps, MigrateIsGraduate
       DEF Next, vars, migration_vars, CreateMetadata, HandOut, LockLpToken, ClaimLpToken, hand_out
<1>3. QED
  BY <1>1, <1>2, LaunchInvariant, PTL DEF Spec, ImplementsLifecycle, Lifecycle!LifecycleSpec

-----------------------------------------------------------------------------
(* The locks.                                                              *)
(* What the IDL opens for writing, by its place in the list.               *)
LEMMA Opened ==
  ASSUME NEW accounts, NEW i \in DOMAIN accounts, NEW account, accounts[i] = IDL!writes(account)
  PROVE  account \in IDL!writable_accounts(accounts)
<1>1. accounts[i].account = account /\ accounts[i].writable
  BY DEF IDL!writes, IDL!reads
<1>2. QED
  BY <1>1 DEF IDL!writable_accounts, IDL!Range

(* Where the IDL lists what a swap, a claim or a surplus withdrawal writes,*)
(* found at its place in each list.                                        *)
LEMMA TradingOpens ==
  /\ {"pool", "baseVault", "quoteVault"} \subseteq IDL!writable_accounts(IDL!swap)
  /\ {"pool", "baseVault", "quoteVault"} \subseteq IDL!writable_accounts(IDL!claimTradingFee)
  /\ {"pool", "baseVault", "quoteVault"} \subseteq IDL!writable_accounts(IDL!claimProtocolFee)
  /\ {"virtualPool", "quoteVault"} \subseteq IDL!writable_accounts(IDL!partnerWithdrawSurplus)
  /\ {"virtualPool", "quoteVault"} \subseteq IDL!writable_accounts(IDL!protocolWithdrawSurplus)
<1>1. /\ 3 \in DOMAIN IDL!swap /\ IDL!swap[3] = IDL!writes("pool")
      /\ 6 \in DOMAIN IDL!swap /\ IDL!swap[6] = IDL!writes("baseVault")
      /\ 7 \in DOMAIN IDL!swap /\ IDL!swap[7] = IDL!writes("quoteVault")
  BY DEF IDL!swap, IDL!event_cpi
<1>2. /\ 3 \in DOMAIN IDL!claimTradingFee /\ IDL!claimTradingFee[3] = IDL!writes("pool")
      /\ 6 \in DOMAIN IDL!claimTradingFee /\ IDL!claimTradingFee[6] = IDL!writes("baseVault")
      /\ 7 \in DOMAIN IDL!claimTradingFee /\ IDL!claimTradingFee[7] = IDL!writes("quoteVault")
  BY DEF IDL!claimTradingFee, IDL!event_cpi
<1>3. /\ 3 \in DOMAIN IDL!claimProtocolFee /\ IDL!claimProtocolFee[3] = IDL!writes("pool")
      /\ 4 \in DOMAIN IDL!claimProtocolFee /\ IDL!claimProtocolFee[4] = IDL!writes("baseVault")
      /\ 5 \in DOMAIN IDL!claimProtocolFee /\ IDL!claimProtocolFee[5] = IDL!writes("quoteVault")
  BY DEF IDL!claimProtocolFee, IDL!event_cpi
<1>4. /\ 3 \in DOMAIN IDL!partnerWithdrawSurplus /\ IDL!partnerWithdrawSurplus[3] = IDL!writes("virtualPool")
      /\ 5 \in DOMAIN IDL!partnerWithdrawSurplus /\ IDL!partnerWithdrawSurplus[5] = IDL!writes("quoteVault")
  BY DEF IDL!partnerWithdrawSurplus, IDL!event_cpi
<1>5. /\ 3 \in DOMAIN IDL!protocolWithdrawSurplus /\ IDL!protocolWithdrawSurplus[3] = IDL!writes("virtualPool")
      /\ 5 \in DOMAIN IDL!protocolWithdrawSurplus /\ IDL!protocolWithdrawSurplus[5] = IDL!writes("quoteVault")
  BY DEF IDL!protocolWithdrawSurplus, IDL!event_cpi
<1>6. QED
  BY <1>1, <1>2, <1>3, <1>4, <1>5, Opened

(* The same of the metadata instructions and the two migrations.           *)
LEMMA MigrationOpens ==
  /\ "migrationMetadata" \in IDL!writable_accounts(IDL!migrationMeteoraDammCreateMetadata)
  /\ "migrationMetadata" \in IDL!writable_accounts(IDL!migrationDammV2CreateMetadata)
  /\ {"virtualPool", "migrationMetadata", "baseVault", "quoteVault", "virtualPoolLp"}
       \subseteq IDL!writable_accounts(IDL!migrateMeteoraDamm)
  /\ {"virtualPool", "baseVault", "quoteVault"} \subseteq IDL!writable_accounts(IDL!migrationDammV2)
<1>1. /\ 3 \in DOMAIN IDL!migrationMeteoraDammCreateMetadata /\ IDL!migrationMeteoraDammCreateMetadata[3] = IDL!writes("migrationMetadata")
  BY DEF IDL!migrationMeteoraDammCreateMetadata, IDL!event_cpi
<1>2. /\ 3 \in DOMAIN IDL!migrationDammV2CreateMetadata /\ IDL!migrationDammV2CreateMetadata[3] = IDL!writes("migrationMetadata")
  BY DEF IDL!migrationDammV2CreateMetadata, IDL!event_cpi
<1>3. /\ 1 \in DOMAIN IDL!migrateMeteoraDamm /\ IDL!migrateMeteoraDamm[1] = IDL!writes("virtualPool")
      /\ 2 \in DOMAIN IDL!migrateMeteoraDamm /\ IDL!migrateMeteoraDamm[2] = IDL!writes("migrationMetadata")
      /\ 18 \in DOMAIN IDL!migrateMeteoraDamm /\ IDL!migrateMeteoraDamm[18] = IDL!writes("baseVault")
      /\ 19 \in DOMAIN IDL!migrateMeteoraDamm /\ IDL!migrateMeteoraDamm[19] = IDL!writes("quoteVault")
      /\ 20 \in DOMAIN IDL!migrateMeteoraDamm /\ IDL!migrateMeteoraDamm[20] = IDL!writes("virtualPoolLp")
  BY DEF IDL!migrateMeteoraDamm
<1>4. /\ 1 \in DOMAIN IDL!migrationDammV2 /\ IDL!migrationDammV2[1] = IDL!writes("virtualPool")
      /\ 18 \in DOMAIN IDL!migrationDammV2 /\ IDL!migrationDammV2[18] = IDL!writes("baseVault")
      /\ 19 \in DOMAIN IDL!migrationDammV2 /\ IDL!migrationDammV2[19] = IDL!writes("quoteVault")
  BY DEF IDL!migrationDammV2
<1>5. QED
  BY <1>1, <1>2, <1>3, <1>4, Opened

(* An account changes when the state it holds does.                        *)
LEMMA ChangedAccounts ==
  ASSUME NEW pool \in {"pool", "virtualPool"}
  PROVE  /\ Changed(pool) \subseteq
              {pool, "baseVault", "quoteVault", "migrationMetadata", "virtualPoolLp"}
         /\ UNCHANGED base_vault => "baseVault" \notin Changed(pool)
         /\ UNCHANGED quote_vault => "quoteVault" \notin Changed(pool)
         /\ UNCHANGED migration_metadata => "migrationMetadata" \notin Changed(pool)
         /\ UNCHANGED virtual_pool_lp => "virtualPoolLp" \notin Changed(pool)
         /\ UNCHANGED <<curve_vars, fee_vars, metrics, stage_vars, surplus_vars>>
              => pool \notin Changed(pool)
BY DEF Changed, account_data

(* A step that is none of these instructions: locker, LP payouts, what     *)
(* happens outside the program.                                            *)
LEMMA OtherSteps ==
  ASSUME UNCHANGED <<swaps, paid, surplus_vars, is_migrated>>,
         migration_metadata'.created = migration_metadata.created
  PROVE  WithinLocks
BY DEF WithinLocks, swapping, claiming, surplus_vars

(* A swap changes the pool account and both vaults.                        *)
LEMMA SwapLocks ==
  ASSUME LaunchTypeOK, UNCHANGED migration_vars,
         NEW direction \in TradeDirection, NEW amount_in \in Nat, NEW least \in Nat, NEW has_referral \in BOOLEAN,
         Swap(direction, amount_in, least, has_referral)
  PROVE  WithinLocks
<1>1. /\ UNCHANGED <<paid, is_migrated, is_partner_withdraw_surplus, is_protocol_withdraw_surplus>>
      /\ UNCHANGED <<migration_metadata, virtual_pool_lp>>
  BY DEF Swap, surplus_vars, migration_vars
<1>2. Changed("pool") \subseteq {"pool", "baseVault", "quoteVault"}
  BY <1>1, ChangedAccounts
<1>3. Within("pool", IDL!swap)
  BY <1>2, TradingOpens DEF Within
<1>4. QED
  BY <1>1, <1>3 DEF WithinLocks, claiming

(* So does a claim.                                                        *)
LEMMA ClaimLocks ==
  ASSUME LaunchTypeOK, UNCHANGED migration_vars,
         (\E max_base \in Nat, max_quote \in Nat : ClaimTradingFee(max_base, max_quote))
           \/ ClaimProtocolFee
  PROVE  WithinLocks
<1>1. /\ UNCHANGED <<swaps, is_migrated, is_partner_withdraw_surplus, is_protocol_withdraw_surplus>>
      /\ UNCHANGED <<migration_metadata, virtual_pool_lp>>
  BY DEF ClaimTradingFee, ClaimProtocolFee, stage_vars, surplus_vars, world_vars, migration_vars
<1>2. Changed("pool") \subseteq {"pool", "baseVault", "quoteVault"}
  BY <1>1, ChangedAccounts
<1>3. Within("pool", IDL!claimTradingFee) /\ Within("pool", IDL!claimProtocolFee)
  BY <1>2, TradingOpens DEF Within
<1>4. QED
  BY <1>1, <1>3 DEF WithinLocks, swapping

(* A surplus withdrawal leaves the base vault alone.                       *)
LEMMA SurplusLocks ==
  ASSUME LaunchTypeOK, UNCHANGED migration_vars, PartnerWithdrawSurplus \/ ProtocolWithdrawSurplus
  PROVE  WithinLocks
<1>1. /\ UNCHANGED <<swaps, is_migrated, base_vault, migration_metadata, virtual_pool_lp>>
      /\ PartnerWithdrawSurplus \/ ProtocolWithdrawSurplus
  BY DEF PartnerWithdrawSurplus, ProtocolWithdrawSurplus, stage_vars, world_vars, migration_vars
<1>2. /\ ~claiming("partner_base", "partner_quote")
      /\ ~claiming("treasury_base", "treasury_quote")
  <2>1. PICK share : \/ paid' = [paid EXCEPT !.partner_surplus = @ + share]
                     \/ paid' = [paid EXCEPT !.treasury_surplus = @ + share]
    BY DEF PartnerWithdrawSurplus, ProtocolWithdrawSurplus
  <2>2. paid \in Payments
    BY DEF LaunchTypeOK, TypeOK
  <2>3. QED
    BY <2>1, <2>2 DEF Payments, claiming
<1>3. Changed("virtualPool") \subseteq {"virtualPool", "quoteVault"}
  BY <1>1, ChangedAccounts
<1>4. /\ Within("virtualPool", IDL!partnerWithdrawSurplus)
      /\ Within("virtualPool", IDL!protocolWithdrawSurplus)
  BY <1>3, TradingOpens DEF Within
<1>5. QED
  BY <1>1, <1>2, <1>4 DEF WithinLocks, swapping

(* The metadata instructions change nothing of the pool, which the IDL     *)
(* opens for reading only.                                                 *)
LEMMA MetadataLocks ==
  ASSUME CreateMetadata
  PROVE  WithinLocks
<1>1. UNCHANGED <<pool_vars, virtual_pool_lp>>
  BY DEF CreateMetadata
<1>2. /\ UNCHANGED <<curve_vars, fee_vars, metrics, stage_vars, surplus_vars>>
      /\ UNCHANGED <<base_vault, quote_vault, swaps, paid, is_migrated>>
      /\ UNCHANGED <<is_partner_withdraw_surplus, is_protocol_withdraw_surplus>>
  BY <1>1 DEF pool_vars, stage_vars, surplus_vars, world_vars
<1>3. Changed("virtualPool") \subseteq {"migrationMetadata"}
  BY <1>1, <1>2, ChangedAccounts
<1>4. /\ Within("virtualPool", IDL!migrationMeteoraDammCreateMetadata)
      /\ Within("virtualPool", IDL!migrationDammV2CreateMetadata)
  BY <1>3, MigrationOpens DEF Within
<1>5. QED
  BY <1>2, <1>4 DEF WithinLocks, swapping, claiming

(* The migration to DAMM v1 changes the metadata account and the           *)
(* program's LP tokens as well, the one to DAMM v2 does not.               *)
LEMMA MigrateLocks ==
  ASSUME LaunchTypeOK, Migrate
  PROVE  WithinLocks
<1>1. /\ UNCHANGED <<swaps, paid, is_partner_withdraw_surplus, is_protocol_withdraw_surplus>>
  BY DEF Migrate, MigrateMeteoraDamm, MigrateDammV2, create_pool, surplus_vars, world_vars
<1>2. migration_metadata'.created = migration_metadata.created
  BY DEF Migrate, MigrateMeteoraDamm, MigrateDammV2, LaunchTypeOK, MigrationMetadata
<1>3. CASE migration_option = "MeteoraDamm"
  <2>1. Within("virtualPool", IDL!migrateMeteoraDamm)
    BY ChangedAccounts, MigrationOpens DEF Within
  <2>2. QED
    BY <1>1, <1>2, <1>3, <2>1 DEF WithinLocks, swapping, claiming
<1>4. CASE migration_option # "MeteoraDamm"
  <2>1. UNCHANGED <<migration_metadata, virtual_pool_lp>>
    BY <1>4 DEF Migrate, MigrateMeteoraDamm, MigrateDammV2, can_migrate
  <2>2. Changed("virtualPool") \subseteq {"virtualPool", "baseVault", "quoteVault"}
    BY <2>1, ChangedAccounts
  <2>3. Within("virtualPool", IDL!migrationDammV2)
    BY <2>2, MigrationOpens DEF Within
  <2>4. QED
    BY <1>1, <1>2, <1>4, <2>3 DEF WithinLocks, swapping, claiming
<1>5. QED
  BY <1>3, <1>4

(* Whatever config was accepted: no step of a launch changes an account    *)
(* that the transaction the client builds for it does not open for         *)
(* writing.                                                                *)
THEOREM LaunchKeepsWithinLocks == Spec => LocksCover
<1>1. LaunchTypeOK /\ [Next]_vars => [WithinLocks]_vars
  <2> SUFFICES ASSUME LaunchTypeOK, Next PROVE WithinLocks
    OBVIOUS
  <2>1. CASE Trade
    <3>1. UNCHANGED migration_vars /\ PoolNext
      BY <2>1 DEF Trade
    <3>2. CASE \/ \E amount \in DonationAmounts : DonateBase(amount)
               \/ \E amount \in DonationAmounts : DonateQuote(amount)
               \/ Tick
      <4>1. UNCHANGED <<swaps, paid, surplus_vars, is_migrated, migration_metadata>>
        BY <3>1, <3>2 DEF DonateBase, DonateQuote, Tick, stage_vars, world_vars, migration_vars
      <4>2. QED
        BY <4>1, OtherSteps
    <3>3. QED
      BY <3>1, <3>2, SwapLocks, ClaimLocks, SurplusLocks, BoundAssumption DEF PoolNext
  <2>2. CASE CreateLocker \/ HandOut
    <3>1. /\ UNCHANGED <<swaps, paid, surplus_vars, is_migrated>>
      BY <2>2 DEF CreateLocker, HandOut, LockLpToken, ClaimLpToken, hand_out, pool_vars,
                  stage_vars, world_vars
    <3>2. migration_metadata'.created = migration_metadata.created
      BY <2>2 DEF CreateLocker, HandOut, LockLpToken, ClaimLpToken, LaunchTypeOK, MigrationMetadata
    <3>3. QED
      BY <3>1, <3>2, OtherSteps
  <2>3. QED
    BY <2>1, <2>2, MetadataLocks, MigrateLocks DEF Next
<1>2. QED
  BY <1>1, LaunchTypeCorrect, PTL DEF Spec, LocksCover

=============================================================================
