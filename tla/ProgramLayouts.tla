--------------------------- MODULE ProgramLayouts ---------------------------
(***************************************************************************)
(* The program's side of its interface: the Accounts struct of each        *)
(* instruction in lib.rs, with the access its constraints demand, and the  *)
(* structs of its accounts, events and arguments, byte after byte.  Names  *)
(* are spelled the way Anchor gives them to clients (base_vault is         *)
(* baseVault).                                                             *)
(***************************************************************************)
EXTENDS Layout

MAX_CURVE_POINT == 20

-----------------------------------------------------------------------------
(* Instructions.  #[event_cpi] adds two accounts.                          *)
emits_events == << reads("eventAuthority"), reads("program") >>

CreateClaimFeeOperatorCtx ==
  << writes("claimFeeOperator"), reads("operator"), pays("admin"),
     reads("systemProgram") >> \o emits_events

CloseClaimFeeOperatorCtx ==
  << writes("claimFeeOperator"), writes("rentReceiver"), signs("admin") >> \o emits_events

ClaimProtocolFeesCtx ==
  << reads("poolAuthority"), reads("config"), writes("pool"), writes("baseVault"),
     writes("quoteVault"), reads("baseMint"), reads("quoteMint"),
     writes("tokenBaseAccount"), writes("tokenQuoteAccount"), reads("claimFeeOperator"),
     signs("operator"), reads("tokenBaseProgram"),
     reads("tokenQuoteProgram") >> \o emits_events

ProtocolWithdrawSurplusCtx ==
  << reads("poolAuthority"), reads("config"), writes("virtualPool"),
     writes("tokenQuoteAccount"), writes("quoteVault"), reads("quoteMint"),
     reads("tokenQuoteProgram") >> \o emits_events

CreatePartnerMetadataCtx ==
  << writes("partnerMetadata"), pays("payer"), signs("feeClaimer"),
     reads("systemProgram") >> \o emits_events

CreateConfigCtx ==
  << pays("config"), reads("feeClaimer"), reads("owner"), reads("quoteMint"), pays("payer"),
     reads("systemProgram") >> \o emits_events

ClaimTradingFeesCtx ==
  << reads("poolAuthority"), reads("config"), writes("pool"), writes("tokenAAccount"),
     writes("tokenBAccount"), writes("baseVault"), writes("quoteVault"), reads("baseMint"),
     reads("quoteMint"), signs("feeClaimer"), reads("tokenBaseProgram"),
     reads("tokenQuoteProgram") >> \o emits_events

PartnerWithdrawSurplusCtx ==
  << reads("poolAuthority"), reads("config"), writes("virtualPool"),
     writes("tokenQuoteAccount"), writes("quoteVault"), reads("quoteMint"),
     signs("feeClaimer"), reads("tokenQuoteProgram") >> \o emits_events

InitializeVirtualPoolWithSplTokenCtx ==
  << reads("config"), reads("poolAuthority"), reads("creator"), pays("baseMint"),
     reads("quoteMint"), writes("pool"), writes("baseVault"), writes("quoteVault"),
     writes("mintMetadata"), reads("metadataProgram"), pays("payer"),
     reads("tokenQuoteProgram"), reads("tokenProgram"),
     reads("systemProgram") >> \o emits_events

InitializeVirtualPoolWithToken2022Ctx ==
  << reads("config"), reads("poolAuthority"), reads("creator"), pays("baseMint"),
     reads("quoteMint"), writes("pool"), writes("baseVault"), writes("quoteVault"),
     pays("payer"), reads("tokenQuoteProgram"), reads("tokenProgram"),
     reads("systemProgram") >> \o emits_events

CreateVirtualPoolMetadataCtx ==
  << writes("virtualPool"), writes("virtualPoolMetadata"), signs("creator"), pays("payer"),
     reads("systemProgram") >> \o emits_events

SwapCtx ==
  << reads("poolAuthority"), reads("config"), writes("pool"), writes("inputTokenAccount"),
     writes("outputTokenAccount"), writes("baseVault"), writes("quoteVault"),
     reads("baseMint"), reads("quoteMint"), signs("payer"), reads("tokenBaseProgram"),
     reads("tokenQuoteProgram"), may_write("referralTokenAccount") >> \o emits_events

CreateLockerCtx ==
  << writes("virtualPool"), reads("config"), writes("poolAuthority"), writes("baseVault"),
     writes("baseMint"), writes("base"), reads("creator"), writes("escrow"),
     writes("escrowToken"), pays("payer"), reads("tokenProgram"), reads("lockerProgram"),
     reads("lockerEventAuthority"), reads("systemProgram") >>

MigrationMeteoraDammCreateMetadataCtx ==
  << reads("virtualPool"), reads("config"), writes("migrationMetadata"), pays("payer"),
     reads("systemProgram") >> \o emits_events

MigrateMeteoraDammCtx ==
  << writes("virtualPool"), writes("migrationMetadata"), reads("config"),
     writes("poolAuthority"), writes("pool"), reads("dammConfig"), writes("lpMint"),
     writes("tokenAMint"), reads("tokenBMint"), writes("aVault"), writes("bVault"),
     writes("aTokenVault"), writes("bTokenVault"), writes("aVaultLpMint"),
     writes("bVaultLpMint"), writes("aVaultLp"), writes("bVaultLp"), writes("baseVault"),
     writes("quoteVault"), writes("virtualPoolLp"), writes("protocolTokenAFee"),
     writes("protocolTokenBFee"), pays("payer"), reads("rent"), writes("mintMetadata"),
     reads("metadataProgram"), reads("ammProgram"), reads("vaultProgram"),
     reads("tokenProgram"), reads("associatedTokenProgram"), reads("systemProgram") >>

MigrateMeteoraDammLockLpTokenCtx ==
  << reads("virtualPool"), writes("migrationMetadata"), writes("poolAuthority"),
     writes("pool"), reads("lpMint"), writes("lockEscrow"), reads("owner"),
     writes("sourceTokens"), writes("escrowVault"), reads("ammProgram"), reads("aVault"),
     reads("bVault"), reads("aVaultLp"), reads("bVaultLp"), reads("aVaultLpMint"),
     reads("bVaultLpMint"), reads("tokenProgram") >>

MigrateMeteoraDammClaimLpTokenCtx ==
  << reads("virtualPool"), writes("migrationMetadata"), writes("poolAuthority"),
     reads("lpMint"), writes("sourceToken"), writes("destinationToken"), reads("owner"),
     signs("sender"), reads("tokenProgram") >>

MigrationDammV2CreateMetadataCtx ==
  << reads("virtualPool"), reads("config"), writes("migrationMetadata"), pays("payer"),
     reads("systemProgram") >> \o emits_events

MigrateDammV2Ctx ==
  << writes("virtualPool"), reads("migrationMetadata"), reads("config"),
     writes("poolAuthority"), writes("pool"), writes("firstPositionNftMint"),
     writes("firstPositionNftAccount"), writes("firstPosition"),
     may_write("secondPositionNftMint"), may_write("secondPositionNftAccount"),
     may_write("secondPosition"), reads("dammPoolAuthority"), reads("ammProgram"),
     writes("baseMint"), writes("quoteMint"), writes("tokenAVault"), writes("tokenBVault"),
     writes("baseVault"), writes("quoteVault"), pays("payer"), reads("tokenBaseProgram"),
     reads("tokenQuoteProgram"), reads("token2022Program"), reads("dammEventAuthority"),
     reads("systemProgram") >>

handlers ==
  [createClaimFeeOperator |-> CreateClaimFeeOperatorCtx,
   closeClaimFeeOperator |-> CloseClaimFeeOperatorCtx,
   claimProtocolFee |-> ClaimProtocolFeesCtx,
   protocolWithdrawSurplus |-> ProtocolWithdrawSurplusCtx,
   createPartnerMetadata |-> CreatePartnerMetadataCtx, createConfig |-> CreateConfigCtx,
   claimTradingFee |-> ClaimTradingFeesCtx,
   partnerWithdrawSurplus |-> PartnerWithdrawSurplusCtx,
   initializeVirtualPoolWithSplToken |-> InitializeVirtualPoolWithSplTokenCtx,
   initializeVirtualPoolWithToken2022 |-> InitializeVirtualPoolWithToken2022Ctx,
   createVirtualPoolMetadata |-> CreateVirtualPoolMetadataCtx, swap |-> SwapCtx,
   createLocker |-> CreateLockerCtx,
   migrationMeteoraDammCreateMetadata |-> MigrationMeteoraDammCreateMetadataCtx,
   migrateMeteoraDamm |-> MigrateMeteoraDammCtx,
   migrateMeteoraDammLockLpToken |-> MigrateMeteoraDammLockLpTokenCtx,
   migrateMeteoraDammClaimLpToken |-> MigrateMeteoraDammClaimLpTokenCtx,
   migrationDammV2CreateMetadata |-> MigrationDammV2CreateMetadataCtx,
   migrationDammV2 |-> MigrateDammV2Ctx]

-----------------------------------------------------------------------------
(* Arguments, accounts and events.                                         *)
LockedVestingParams ==
  u64("amountPerPeriod") \o u64("cliffDurationFromMigrationTime") \o u64("frequency") \o
  u64("numberOfPeriod") \o u64("cliffUnlockAmount")

BaseFeeParameters ==
  u64("cliffFeeNumerator") \o u16("numberOfPeriod") \o u64("periodFrequency") \o
  u64("reductionFactor") \o u8("feeSchedulerMode")

DynamicFeeParameters ==
  u16("binStep") \o u128("binStepU128") \o u16("filterPeriod") \o u16("decayPeriod") \o
  u16("reductionFactor") \o u32("maxVolatilityAccumulator") \o u32("variableFeeControl")

PoolFeeParameters ==
  struct("baseFee", BaseFeeParameters) \o option("dynamicFee", DynamicFeeParameters)

LiquidityDistributionParameters ==
  u128("sqrtPrice") \o u128("liquidity")

ConfigParameters ==
  struct("poolFees", PoolFeeParameters) \o u8("collectFeeMode") \o u8("migrationOption") \o
  u8("activationType") \o u8("tokenType") \o u8("tokenDecimal") \o
  u8("partnerLpPercentage") \o u8("partnerLockedLpPercentage") \o
  u8("creatorLpPercentage") \o u8("creatorLockedLpPercentage") \o
  u64("migrationQuoteThreshold") \o u128("sqrtStartPrice") \o
  struct("lockedVesting", LockedVestingParams) \o u8("migrationFeeOption") \o
  pad("padding", 7) \o vec("curve", LiquidityDistributionParameters)

InitializePoolParameters ==
  string("name") \o string("symbol") \o string("uri")

SwapParameters ==
  u64("amountIn") \o u64("minimumAmountOut")

BaseFeeConfig ==
  u64("cliffFeeNumerator") \o u64("periodFrequency") \o u64("reductionFactor") \o
  u16("numberOfPeriod") \o u8("feeSchedulerMode") \o pad("padding0", 5)

DynamicFeeConfig ==
  u8("initialized") \o pad("padding", 7) \o u32("maxVolatilityAccumulator") \o
  u32("variableFeeControl") \o u16("binStep") \o u16("filterPeriod") \o
  u16("decayPeriod") \o u16("reductionFactor") \o pad("padding2", 8) \o u128("binStepU128")

PoolFeesConfig ==
  struct("baseFee", BaseFeeConfig) \o struct("dynamicFee", DynamicFeeConfig) \o
  pad("padding0", 40) \o pad("padding1", 6) \o u8("protocolFeePercent") \o
  u8("referralFeePercent")

LockedVestingConfig ==
  u64("amountPerPeriod") \o u64("cliffDurationFromMigrationTime") \o u64("frequency") \o
  u64("numberOfPeriod") \o u64("cliffUnlockAmount") \o pad("padding", 8)

LiquidityDistributionConfig ==
  u128("sqrtPrice") \o u128("liquidity")

PoolConfig ==
  pubkey("quoteMint") \o pubkey("feeClaimer") \o pubkey("owner") \o
  struct("poolFees", PoolFeesConfig) \o u8("collectFeeMode") \o u8("migrationOption") \o
  u8("activationType") \o u8("tokenDecimal") \o u8("version") \o u8("tokenType") \o
  u8("quoteTokenFlag") \o u8("partnerLockedLpPercentage") \o u8("partnerLpPercentage") \o
  u8("creatorLockedLpPercentage") \o u8("creatorLpPercentage") \o
  u8("migrationFeeOption") \o pad("padding0", 4) \o pad("padding1", 8) \o
  u64("swapBaseAmount") \o u64("migrationQuoteThreshold") \o
  u64("migrationBaseThreshold") \o u128("migrationSqrtPrice") \o
  struct("lockedVestingConfig", LockedVestingConfig) \o pad("padding2", 48) \o
  u128("sqrtStartPrice") \o many("curve", MAX_CURVE_POINT, LiquidityDistributionConfig)

VolatilityTracker ==
  u64("lastUpdateTimestamp") \o pad("padding", 8) \o u128("sqrtPriceReference") \o
  u128("volatilityAccumulator") \o u128("volatilityReference")

PoolMetrics ==
  u64("totalProtocolBaseFee") \o u64("totalProtocolQuoteFee") \o
  u64("totalTradingBaseFee") \o u64("totalTradingQuoteFee")

VirtualPool ==
  struct("volatilityTracker", VolatilityTracker) \o pubkey("config") \o pubkey("creator") \o
  pubkey("baseMint") \o pubkey("baseVault") \o pubkey("quoteVault") \o u64("baseReserve") \o
  u64("quoteReserve") \o u64("protocolBaseFee") \o u64("protocolQuoteFee") \o
  u64("tradingBaseFee") \o u64("tradingQuoteFee") \o u128("sqrtPrice") \o
  u64("activationPoint") \o u8("poolType") \o u8("isMigrated") \o
  u8("isPartnerWithdrawSurplus") \o u8("isProcotolWithdrawSurplus") \o
  u8("migrationProgress") \o pad("padding0", 3) \o struct("metrics", PoolMetrics) \o
  u64("finishCurveTimestamp") \o pad("padding1", 72)

ClaimFeeOperator ==
  pubkey("operator") \o pad("padding", 128)

MeteoraDammMigrationMetadata ==
  pubkey("virtualPool") \o pubkey("poolCreator") \o pubkey("partner") \o pubkey("lpMint") \o
  u64("partnerLockedLp") \o u64("partnerLp") \o u64("creatorLockedLp") \o
  u64("creatorLp") \o pad("padding0", 1) \o u8("creatorLockedStatus") \o
  u8("partnerLockedStatus") \o u8("creatorClaimStatus") \o u8("partnerClaimStatus") \o
  pad("padding", 107)

MeteoraDammV2Metadata ==
  pubkey("virtualPool") \o pubkey("poolCreator") \o pubkey("partner") \o pad("padding", 126)

SwapResult ==
  u64("actualInputAmount") \o u64("outputAmount") \o u128("nextSqrtPrice") \o
  u64("tradingFee") \o u64("protocolFee") \o u64("referralFee")

EvtCreateConfig ==
  pubkey("config") \o pubkey("quoteMint") \o pubkey("feeClaimer") \o pubkey("owner") \o
  struct("poolFees", PoolFeeParameters) \o u8("collectFeeMode") \o u8("migrationOption") \o
  u8("activationType") \o u8("tokenDecimal") \o u8("tokenType") \o
  u8("partnerLockedLpPercentage") \o u8("partnerLpPercentage") \o
  u8("creatorLockedLpPercentage") \o u8("creatorLpPercentage") \o u64("swapBaseAmount") \o
  u64("migrationQuoteThreshold") \o u64("migrationBaseAmount") \o u128("sqrtStartPrice") \o
  vec("curve", LiquidityDistributionParameters)

EvtCreateClaimFeeOperator ==
  pubkey("operator")

EvtCloseClaimFeeOperator ==
  pubkey("claimFeeOperator") \o pubkey("operator")

EvtInitializePool ==
  pubkey("pool") \o pubkey("config") \o pubkey("creator") \o pubkey("baseMint") \o
  u8("poolType") \o u64("activationPoint")

EvtSwap ==
  pubkey("pool") \o pubkey("config") \o u8("tradeDirection") \o u8("hasReferral") \o
  struct("params", SwapParameters) \o struct("swapResult", SwapResult) \o u64("amountIn") \o
  u64("currentTimestamp")

EvtCurveComplete ==
  pubkey("pool") \o pubkey("config") \o u64("baseReserve") \o u64("quoteReserve")

EvtClaimProtocolFee ==
  pubkey("pool") \o u64("tokenBaseAmount") \o u64("tokenQuoteAmount")

EvtClaimTradingFee ==
  pubkey("pool") \o u64("tokenBaseAmount") \o u64("tokenQuoteAmount")

EvtCreateMeteoraMigrationMetadata ==
  pubkey("virtualPool")

EvtCreateDammV2MigrationMetadata ==
  pubkey("virtualPool")

EvtProtocolWithdrawSurplus ==
  pubkey("pool") \o u64("surplusAmount")

EvtPartnerWithdrawSurplus ==
  pubkey("pool") \o u64("surplusAmount")

account_structs ==
  [claimFeeOperator |-> ClaimFeeOperator,
   meteoraDammMigrationMetadata |-> MeteoraDammMigrationMetadata,
   meteoraDammV2Metadata |-> MeteoraDammV2Metadata, poolConfig |-> PoolConfig,
   virtualPool |-> VirtualPool]

event_structs ==
  [evtCreateConfig |-> EvtCreateConfig,
   evtCreateClaimFeeOperator |-> EvtCreateClaimFeeOperator,
   evtCloseClaimFeeOperator |-> EvtCloseClaimFeeOperator,
   evtInitializePool |-> EvtInitializePool, evtSwap |-> EvtSwap,
   evtCurveComplete |-> EvtCurveComplete, evtClaimProtocolFee |-> EvtClaimProtocolFee,
   evtClaimTradingFee |-> EvtClaimTradingFee,
   evtCreateMeteoraMigrationMetadata |-> EvtCreateMeteoraMigrationMetadata,
   evtCreateDammV2MigrationMetadata |-> EvtCreateDammV2MigrationMetadata,
   evtProtocolWithdrawSurplus |-> EvtProtocolWithdrawSurplus,
   evtPartnerWithdrawSurplus |-> EvtPartnerWithdrawSurplus]

argument_structs ==
  [configParameters |-> ConfigParameters,
   initializePoolParameters |-> InitializePoolParameters, swapParameters |-> SwapParameters]

=============================================================================
