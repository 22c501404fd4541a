SPECIFICATION SchedulerSpec
CONSTANTS
  ONE = 16
  FEE_DENOMINATOR = 100
  MAX_FEE_NUMERATOR = 50
  MIN_FEE_NUMERATOR = 1
  PROTOCOL_FEE_PERCENT = 50
  HOST_FEE_PERCENT = 50
  BASIS_POINT_MAX = 10
  V_FEE_SCALE = 100
  DynamicFee <- NoDynamicFee
  COLLECT_FEE_MODE = "QuoteToken"
  BaseFees <- SmallSchedules
INVARIANTS
  SchedulesAccepted
CHECK_DEADLOCK FALSE
