SPECIFICATION FairSpec
CONSTANTS
  ONE = 128
  FEE_DENOMINATOR = 100
  MAX_FEE_NUMERATOR = 50
  MIN_FEE_NUMERATOR = 1
  PROTOCOL_FEE_PERCENT = 50
  HOST_FEE_PERCENT = 50
  BASIS_POINT_MAX = 10
  V_FEE_SCALE = 100
  BaseFee <- FlatFee
  DynamicFee <- NoDynamicFee
  COLLECT_FEE_MODE = "OutputToken"
  MIN_SQRT_PRICE = 1
  MAX_SQRT_PRICE = 512
  MAX_CURVE_POINT = 3
  Params <- TwoSegmentsV2Vesting
  U64_MAX = 10000000
  U128_MAX = 10000000
  MAX_SUPPLY = 100000
  SwapAmounts = {1400, 3700}
  SwapMinimums = {0}
  ClaimLimits = {1000}
  DonationAmounts = {}
  MAX_SWAPS = 2
  MAX_DONATED = 0
  START_TIME = 0
  MAX_TIME = 0
  PARTNER = partner
  CREATOR = creator
  LpMinted = {37}
INVARIANTS
  VaultsBacked
  FeesAccounted
PROPERTIES
  ImplementsLifecycle
  CompleteCurveMigrates
CHECK_DEADLOCK FALSE
