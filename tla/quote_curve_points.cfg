SPECIFICATION QuoteSpec
CONSTANTS
  ONE = 1024
  FEE_DENOMINATOR = 100
  MAX_FEE_NUMERATOR = 50
  MIN_FEE_NUMERATOR = 5
  PROTOCOL_FEE_PERCENT = 50
  HOST_FEE_PERCENT = 50
  BASIS_POINT_MAX = 10
  V_FEE_SCALE = 100
  BaseFee <- FlatFee
  DynamicFee <- NoDynamicFee
  COLLECT_FEE_MODE = "QuoteToken"
  MIN_SQRT_PRICE = 1
  MAX_SQRT_PRICE = 4096
  MAX_CURVE_POINT = 3
  Params <- TwoSegments
  U64_MAX = 1000000
  U128_MAX = 1000000
  MAX_SUPPLY = 1000
  SwapAmounts = {3, 40}
  SwapMinimums = {0}
  ClaimLimits = {1000}
  DonationAmounts = {}
  MAX_SWAPS = 4
  MAX_DONATED = 0
  START_TIME = 0
  MAX_TIME = 0
  CLIENT_FEE_DENOMINATOR = 10
  CLIENT_MAX_FEE_NUMERATOR = 5
  CLIENT_BASIS_POINT_MAX = 10
  CLIENT_MAX_CURVE_POINT = 1
  CLIENT_V_FEE_SCALE = 100
  EXP_LIMIT = 1000000
  ClientClock = {0, 5}
  QuotedOrders <- NoOrders
INVARIANTS
  QuoteAvailable
CHECK_DEADLOCK FALSE
