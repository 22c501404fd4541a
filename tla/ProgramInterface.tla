-------------------------- MODULE ProgramInterface --------------------------
(***************************************************************************)
(* The program as the TypeScript client sees it: the IDL in                *)
(* ts-client/src/amm/idl.ts (idl-type.ts repeats it as a type).  Each      *)
(* instruction is the list of accounts a transaction must name, in order,  *)
(* with the access the client asks for; each type is the list of fields    *)
(* the client's coder reads or writes, in order.                           *)
(*                                                                         *)
(* Left out: discriminators, docs, error names, and how Anchor finds the   *)
(* addresses a caller leaves out (the client's own code gives them all,    *)
(* but for programs at a fixed address).                                   *)
(***************************************************************************)
EXTENDS Layout

-----------------------------------------------------------------------------
(* Instructions.                                                           *)
event_cpi == << reads("eventAuthority"), reads("program") >>

claimProtocolFee ==
  << reads("poolAuthority"), reads("config"), writes("pool"), writes("baseVault"),
     writes("quoteVault"), reads("baseMint"), reads("quoteMint"),
     writes("tokenBaseAccount"), writes("tokenQuoteAccount"), reads("claimFeeOperator"),
     signs("operator"), reads("tokenBaseProgram"),
     reads("tokenQuoteProgram") >> \o event_cpi

claimTradingFee ==
  << reads("poolAuthority"), reads("config"), writes("pool"), writes("tokenAAccount"),
     writes("tokenBAccount"), writes("baseVault"), writes("quoteVault"), reads("baseMint"),
     reads("quoteMint"), signs("feeClaimer"), reads("tokenBaseProgram"),
     reads("tokenQuoteProgram") >> \o event_cpi

closeClaimFeeOperator ==
  << writes("claimFeeOperator"), writes("rentReceiver"), signs("admin") >> \o event_cpi

createClaimFeeOperator ==
  << writes("claimFeeOperator"), reads("operator"), pays("admin"),
     reads("systemProgram") >> \o event_cpi

createConfig ==
  << pays("config"), reads("feeClaimer"), reads("owner"), reads("quoteMint"), pays("payer"),
     reads("systemProgram") >> \o event_cpi

creatorClaimLpFromMeteoraDynamicAmm ==
  << writes("migrationMetadata"), writes("poolAuthority"), writes("pool"), reads("lpMint"),
     writes("sourceToken"), writes("destinationToken"), signs("sender"),
     reads("tokenProgram") >>

initializeVirtualPoolWithSplToken ==
  << reads("config"), reads("poolAuthority"), reads("creator"), pays("baseMint"),
     reads("quoteMint"), writes("pool"), writes("baseVault"), writes("quoteVault"),
     writes("mintMetadata"), reads("metadataProgram"), pays("payer"),
     reads("tokenQuoteProgram"), reads("tokenProgram"),
     reads("systemProgram") >> \o event_cpi

initializeVirtualPoolWithToken2022 ==
  << reads("config"), reads("poolAuthority"), reads("creator"), pays("baseMint"),
     reads("quoteMint"), writes("pool"), writes("baseVault"), writes("quoteVault"),
     pays("payer"), reads("tokenQuoteProgram"), reads("tokenProgram"),
     reads("systemProgram") >> \o event_cpi

migrateMeteoraDamm ==
  << writes("virtualPool"), writes("migrationMetadata"), reads("config"),
     writes("poolAuthority"), writes("pool"), reads("dammConfig"), writes("lpMint"),
     writes("tokenAMint"), reads("tokenBMint"), writes("aVault"), writes("bVault"),
     writes("aTokenVault"), writes("bTokenVault"), writes("aVaultLpMint"),
     writes("bVaultLpMint"), writes("aVaultLp"), writes("bVaultLp"), writes("baseVault"),
     writes("quoteVault"), writes("virtualPoolLp"), writes("protocolTokenAFee"),
     writes("protocolTokenBFee"), pays("payer"), reads("rent"), writes("mintMetadata"),
     reads("metadataProgram"), reads("ammProgram"), reads("vaultProgram"),
     reads("tokenProgram"), reads("associatedTokenProgram"), reads("systemProgram") >>

migrateMeteoraDammCreatorClaimLpToken ==
  << writes("migrationMetadata"), writes("poolAuthority"), writes("pool"), reads("lpMint"),
     writes("sourceToken"), writes("destinationToken"), signs("sender"),
     reads("tokenProgram") >>

migrateMeteoraDammLockLpTokenForCreator ==
  << writes("migrationMetadata"), writes("poolAuthority"), writes("pool"), reads("lpMint"),
     writes("lockEscrow"), reads("owner"), writes("sourceTokens"), writes("escrowVault"),
     reads("ammProgram"), reads("aVault"), reads("bVault"), reads("aVaultLp"),
     reads("bVaultLp"), reads("aVaultLpMint"), reads("bVaultLpMint"),
     reads("tokenProgram") >>

migrateMeteoraDammLockLpTokenForPartner ==
  << writes("migrationMetadata"), writes("poolAuthority"), writes("pool"), reads("lpMint"),
     writes("lockEscrow"), reads("owner"), writes("sourceTokens"), writes("escrowVault"),
     reads("ammProgram"), reads("aVault"), reads("bVault"), reads("aVaultLp"),
     reads("bVaultLp"), reads("aVaultLpMint"), reads("bVaultLpMint"),
     reads("tokenProgram") >>

migrateMeteoraDammPartnerClaimLpToken ==
  << writes("migrationMetadata"), writes("poolAuthority"), writes("pool"), reads("lpMint"),
     writes("sourceToken"), writes("destinationToken"), signs("sender"),
     reads("tokenProgram") >>

migrationDammV2 ==
  << writes("virtualPool"), writes("migrationMetadata"), reads("config"),
     writes("poolAuthority"), writes("pool"), writes("firstPositionNftMint"),
     writes("firstPositionNftAccount"), writes("firstPosition"),
     may_write("secondPositionNftMint"), may_write("secondPositionNftAccount"),
     may_write("secondPosition"), reads("dammPoolAuthority"), reads("ammProgram"),
     writes("baseMint"), writes("quoteMint"), writes("tokenAVault"), writes("tokenBVault"),
     writes("baseVault"), writes("quoteVault"), pays("payer"), reads("tokenBaseProgram"),
     reads("tokenQuoteProgram"), reads("token2022Program"), reads("dammEventAuthority"),
     reads("systemProgram") >>

migrationDammV2CreateMetadata ==
  << reads("virtualPool"), reads("config"), writes("migrationMetadata"), pays("payer"),
     reads("systemProgram") >> \o event_cpi

migrationMeteoraDammCreateMetadata ==
  << reads("virtualPool"), reads("config"), writes("migrationMetadata"), pays("payer"),
     reads("systemProgram") >> \o event_cpi

partnerClaimLpFromMeteoraDynamicAmm ==
  << writes("migrationMetadata"), writes("poolAuthority"), writes("pool"), reads("lpMint"),
     writes("sourceToken"), writes("destinationToken"), signs("sender"),
     reads("tokenProgram") >>

partnerWithdrawSurplus ==
  << reads("poolAuthority"), reads("config"), writes("virtualPool"),
     writes("tokenQuoteAccount"), writes("quoteVault"), reads("quoteMint"),
     signs("feeClaimer"), reads("tokenQuoteProgram") >> \o event_cpi

protocolWithdrawSurplus ==
  << reads("poolAuthority"), reads("config"), writes("virtualPool"),
     writes("tokenQuoteAccount"), writes("quoteVault"), reads("quoteMint"),
     reads("tokenQuoteProgram") >> \o event_cpi

(* Wrong: the quote vault is not locked for writing.                       *)
swap_reads_quote_vault ==
  << reads("poolAuthority"), reads("config"), writes("pool"), writes("inputTokenAccount"),
     writes("outputTokenAccount"), writes("baseVault"), reads("quoteVault"),
     reads("baseMint"), reads("quoteMint"), signs("payer"), reads("tokenBaseProgram"),
     reads("tokenQuoteProgram"), may_write("referralTokenAccount") >> \o event_cpi

swap ==
  << reads("poolAuthority"), reads("config"), writes("pool"), writes("inputTokenAccount"),
     writes("outputTokenAccount"), writes("baseVault"), writes("quoteVault"),
     reads("baseMint"), reads("quoteMint"), signs("payer"), reads("tokenBaseProgram"),
     reads("tokenQuoteProgram"), may_write("referralTokenAccount") >> \o event_cpi

instructions ==
  [claimProtocolFee |-> claimProtocolFee, claimTradingFee |-> claimTradingFee,
   closeClaimFeeOperator |-> closeClaimFeeOperator,
   createClaimFeeOperator |-> createClaimFeeOperator, createConfig |-> createConfig,
   creatorClaimLpFromMeteoraDynamicAmm |-> creatorClaimLpFromMeteoraDynamicAmm,
   initializeVirtualPoolWithSplToken |-> initializeVirtualPoolWithSplToken,
   initializeVirtualPoolWithToken2022 |-> initializeVirtualPoolWithToken2022,
   migrateMeteoraDamm |-> migrateMeteoraDamm,
   migrateMeteoraDammCreatorClaimLpToken |-> migrateMeteoraDammCreatorClaimLpToken,
   migrateMeteoraDammLockLpTokenForCreator |-> migrateMeteoraDammLockLpTokenForCreator,
   migrateMeteoraDammLockLpTokenForPartner |-> migrateMeteoraDammLockLpTokenForPartner,
   migrateMeteoraDammPartnerClaimLpToken |-> migrateMeteoraDammPartnerClaimLpToken,
   migrationDammV2 |-> migrationDammV2,
   migrationDammV2CreateMetadata |-> migrationDammV2CreateMetadata,
   migrationMeteoraDammCreateMetadata |-> migrationMeteoraDammCreateMetadata,
   partnerClaimLpFromMeteoraDynamicAmm |-> partnerClaimLpFromMeteoraDynamicAmm,
   partnerWithdrawSurplus |-> partnerWithdrawSurplus,
   protocolWithdrawSurplus |-> protocolWithdrawSurplus, swap |-> swap]


-----------------------------------------------------------------------------
(* Types.                                                                  *)
baseFeeConfig ==
  u64("cliffFeeNumerator") \o u64("periodFrequency") \o u64("reductionFactor") \o
  u16("numberOfPeriod") \o u8("feeSchedulerMode") \o pad("padding0", 5)

baseFeeParameters ==
  u64("cliffFeeNumerator") \o u16("numberOfPeriod") \o u64("periodFrequency") \o
  u64("reductionFactor") \o u8("feeSchedulerMode")

baseFeeStruct ==
  u64("cliffFeeNumerator") \o u8("feeSchedulerMode") \o pad("padding0", 5) \o
  u16("numberOfPeriod") \o u64("periodFrequency") \o u64("reductionFactor") \o
  pad("padding1", 8)

claimFeeOperator ==
  pubkey("operator") \o pad("padding", 128)

poolFees ==
  u64("tradeFeeNumerator") \o u64("tradeFeeDenominator") \o
  u64("protocolTradeFeeNumerator") \o u64("protocolTradeFeeDenominator")

config ==
  struct("poolFees", poolFees) \o u64("activationDuration") \o pubkey("vaultConfigKey") \o
  pubkey("poolCreatorAuthority") \o u8("activationType") \o u64("partnerFeeNumerator") \o
  pad("padding", 219)

dynamicFeeParameters ==
  u16("binStep") \o u128("binStepU128") \o u16("filterPeriod") \o u16("decayPeriod") \o
  u16("reductionFactor") \o u32("maxVolatilityAccumulator") \o u32("variableFeeControl")

poolFeeParamters ==
  struct("baseFee", baseFeeParameters) \o option("dynamicFee", dynamicFeeParameters)

liquidityDistributionParameters ==
  u128("sqrtPrice") \o u128("liquidity")

configParameters ==
  struct("poolFees", poolFeeParamters) \o u8("collectFeeMode") \o u8("migrationOption") \o
  u8("activationType") \o u8("tokenType") \o u8("tokenDecimal") \o
  u8("partnerLpPercentage") \o u8("partnerLockedLpPercentage") \o
  u8("creatorLpPercentage") \o u8("creatorLockedLpPercentage") \o
  u64("migrationQuoteThreshold") \o u128("sqrtStartPrice") \o pad("padding", 48) \o
  vec("curve", liquidityDistributionParameters)

dynamicFeeConfig ==
  u8("initialized") \o pad("padding", 7) \o u32("maxVolatilityAccumulator") \o
  u32("variableFeeControl") \o u16("binStep") \o u16("filterPeriod") \o
  u16("decayPeriod") \o u16("reductionFactor") \o pad("padding2", 8) \o u128("binStepU128")

dynamicFeeStruct ==
  u8("initialized") \o pad("padding", 7) \o u32("maxVolatilityAccumulator") \o
  u32("variableFeeControl") \o u16("binStep") \o u16("filterPeriod") \o
  u16("decayPeriod") \o u16("reductionFactor") \o u64("lastUpdateTimestamp") \o
  u128("binStepU128") \o u128("sqrtPriceReference") \o u128("volatilityAccumulator") \o
  u128("volatilityReference")

evtClaimProtocolFee ==
  pubkey("pool") \o u64("tokenBaseAmount") \o u64("tokenQuoteAmount")

evtClaimTradingFee ==
  pubkey("pool") \o u64("tokenBaseAmount") \o u64("tokenQuoteAmount")

evtCloseClaimFeeOperator ==
  pubkey("claimFeeOperator") \o pubkey("operator")

evtCreateClaimFeeOperator ==
  pubkey("operator")

evtCreateConfig ==
  pubkey("config") \o pubkey("quoteMint") \o pubkey("feeClaimer") \o pubkey("owner") \o
  struct("poolFees", poolFeeParamters) \o u8("collectFeeMode") \o u8("migrationOption") \o
  u8("activationType") \o u8("tokenDecimal") \o u8("tokenType") \o
  u8("partnerLockedLpPercentage") \o u8("partnerLpPercentage") \o
  u8("creatorLockedLpPercentage") \o u8("creatorLpPercentage") \o u64("swapBaseAmount") \o
  u64("migrationQuoteThreshold") \o u64("migrationBaseAmount") \o u128("sqrtStartPrice") \o
  vec("curve", liquidityDistributionParameters)

evtCreateDammV2MigrationMetadata ==
  pubkey("virtualPool")

evtCreateMeteoraMigrationMetadata ==
  pubkey("virtualPool")

evtCurveComplete ==
  pubkey("pool") \o pubkey("config") \o u64("baseReserve") \o u64("quoteReserve")

evtInitializePool ==
  pubkey("pool") \o pubkey("config") \o pubkey("creator") \o pubkey("baseMint") \o
  u8("poolType") \o u64("activationPoint")

evtPartnerWithdrawSurplus ==
  pubkey("pool") \o u64("surplusAmount")

evtProtocolWithdrawSurplus ==
  pubkey("pool") \o u64("surplusAmount")

swapParameters ==
  u64("amountIn") \o u64("minimumAmountOut")

swapResult ==
  u64("actualInputAmount") \o u64("outputAmount") \o u128("nextSqrtPrice") \o
  u64("tradingFee") \o u64("protocolFee") \o u64("referralFee")

evtSwap ==
  pubkey("pool") \o pubkey("config") \o u8("tradeDirection") \o u8("hasReferral") \o
  struct("params", swapParameters) \o struct("swapResult", swapResult) \o
  u64("transferFeeExcludedAmountIn") \o u64("currentTimestamp")

initializePoolParameters ==
  string("name") \o string("symbol") \o string("uri")

liquidityDistributionConfig ==
  u128("sqrtPrice") \o u128("liquidity")

lockEscrow ==
  pubkey("pool") \o pubkey("owner") \o pubkey("escrowVault") \o u8("bump") \o
  u64("totalLockedAmount") \o u128("lpPerToken") \o u64("unclaimedFeePending") \o
  u64("aFee") \o u64("bFee")

meteoraDammMigrationMetadata ==
  pubkey("virtualPool") \o pubkey("poolCreator") \o pubkey("partner") \o pubkey("lpMint") \o
  u64("partnerLockedLp") \o u64("partnerLp") \o u64("creatorLockedLp") \o
  u64("creatorLp") \o u8("progress") \o u8("creatorLockedStatus") \o
  u8("partnerLockedStatus") \o u8("creatorClaimStatus") \o u8("partnerClaimStatus") \o
  pad("padding", 107)

meteoraDammV2Metadata ==
  pubkey("virtualPool") \o pubkey("poolCreator") \o pubkey("partner") \o u8("progress") \o
  pad("padding", 125)

poolFeesConfig ==
  struct("baseFee", baseFeeConfig) \o struct("dynamicFee", dynamicFeeConfig) \o
  pad("padding0", 40) \o pad("padding1", 6) \o u8("protocolFeePercent") \o
  u8("referralFeePercent")

(* Wrong: a field the program gained takes no byte from the padding.       *)
poolConfig_lost_padding ==
  pubkey("quoteMint") \o pubkey("feeClaimer") \o pubkey("owner") \o
  struct("poolFees", poolFeesConfig) \o u8("collectFeeMode") \o u8("migrationOption") \o
  u8("activationType") \o u8("tokenDecimal") \o u8("version") \o u8("tokenType") \o
  u8("quoteTokenFlag") \o u8("partnerLockedLpPercentage") \o u8("partnerLpPercentage") \o
  u8("creatorLockedLpPercentage") \o u8("creatorLpPercentage") \o pad("padding0", 4) \o
  pad("padding1", 8) \o u64("swapBaseAmount") \o u64("migrationQuoteThreshold") \o
  u64("migrationBaseThreshold") \o u128("migrationSqrtPrice") \o pad("padding2", 96) \o
  u128("sqrtStartPrice") \o many("curve", 20, liquidityDistributionConfig)

poolConfig ==
  pubkey("quoteMint") \o pubkey("feeClaimer") \o pubkey("owner") \o
  struct("poolFees", poolFeesConfig) \o u8("collectFeeMode") \o u8("migrationOption") \o
  u8("activationType") \o u8("tokenDecimal") \o u8("version") \o u8("tokenType") \o
  u8("quoteTokenFlag") \o u8("partnerLockedLpPercentage") \o u8("partnerLpPercentage") \o
  u8("creatorLockedLpPercentage") \o u8("creatorLpPercentage") \o pad("padding0", 5) \o
  pad("padding1", 8) \o u64("swapBaseAmount") \o u64("migrationQuoteThreshold") \o
  u64("migrationBaseThreshold") \o u128("migrationSqrtPrice") \o pad("padding2", 96) \o
  u128("sqrtStartPrice") \o many("curve", 20, liquidityDistributionConfig)

poolFeesStruct ==
  struct("baseFee", baseFeeStruct) \o u8("protocolFeePercent") \o
  u8("referralFeePercent") \o pad("padding0", 6) \o
  struct("dynamicFee", dynamicFeeStruct) \o pad("padding1", 16)

poolMetrics ==
  u64("totalProtocolBaseFee") \o u64("totalProtocolQuoteFee") \o
  u64("totalTradingBaseFee") \o u64("totalTradingQuoteFee")

virtualPool ==
  struct("poolFees", poolFeesStruct) \o pubkey("config") \o pubkey("creator") \o
  pubkey("baseMint") \o pubkey("baseVault") \o pubkey("quoteVault") \o u64("baseReserve") \o
  u64("quoteReserve") \o u64("protocolBaseFee") \o u64("protocolQuoteFee") \o
  u64("tradingBaseFee") \o u64("tradingQuoteFee") \o u128("sqrtPrice") \o
  u64("activationPoint") \o u8("poolType") \o u8("isMigrated") \o
  u8("isPartnerWithdrawSurplus") \o u8("isProcotolWithdrawSurplus") \o pad("padding0", 4) \o
  struct("metrics", poolMetrics) \o pad("padding1", 80)

accounts ==
  [claimFeeOperator |-> claimFeeOperator, config |-> config, lockEscrow |-> lockEscrow,
   meteoraDammMigrationMetadata |-> meteoraDammMigrationMetadata,
   meteoraDammV2Metadata |-> meteoraDammV2Metadata, poolConfig |-> poolConfig,
   virtualPool |-> virtualPool]

events ==
  [evtClaimProtocolFee |-> evtClaimProtocolFee, evtClaimTradingFee |-> evtClaimTradingFee,
   evtCloseClaimFeeOperator |-> evtCloseClaimFeeOperator,
   evtCreateClaimFeeOperator |-> evtCreateClaimFeeOperator,
   evtCreateConfig |-> evtCreateConfig,
   evtCreateDammV2MigrationMetadata |-> evtCreateDammV2MigrationMetadata,
   evtCreateMeteoraMigrationMetadata |-> evtCreateMeteoraMigrationMetadata,
   evtCurveComplete |-> evtCurveComplete, evtInitializePool |-> evtInitializePool,
   evtPartnerWithdrawSurplus |-> evtPartnerWithdrawSurplus,
   evtProtocolWithdrawSurplus |-> evtProtocolWithdrawSurplus, evtSwap |-> evtSwap]

parameters ==
  [configParameters |-> configParameters,
   initializePoolParameters |-> initializePoolParameters, swapParameters |-> swapParameters]

=============================================================================
