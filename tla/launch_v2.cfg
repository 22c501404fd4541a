SPECIFICATION Spec
CONSTANTS
  ONE = 128
  FEE_DENOMINATOR = 100
  MAX_FEE_NUMERATOR = 50
  MIN_FEE_NUMERATOR = 1
  PROTOCOL_FEE_PERCENT = 50
  HOST_FEE_PERCENT = 50
  BASIS_POINT_MAX = 10
  V_FEE_SCALE = 100
  BaseFee <- FlatFee
  DynamicFee <- NoDynamicFee
  COLLECT_FEE_MODE = "OutputToken"
  MIN_SQRT_PRICE = 1
  MAX_SQRT_PRICE = 512
  MAX_CURVE_POINT = 3
  Params <- TwoSegmentsV2
  U64_MAX = 10000000
  U128_MAX = 10000000
  MAX_SUPPLY = 100000
  SwapAmounts = {700, 3780}
  SwapMinimums = {0}
  ClaimLimits = {1000}
  DonationAmounts = {40}
  MAX_SWAPS = 3
  MAX_DONATED = 40
  START_TIME = 0
  MAX_TIME = 0
  PARTNER = partner
  CREATOR = creator
  LpMinted = {37}
INVARIANTS
  VaultsBacked
  BaseFeesCovered
  MigrationFunded
  FeesAccounted
  V2SharesHonoured
PROPERTIES
  ImplementsLifecycle
  LocksCover
CHECK_DEADLOCK FALSE
