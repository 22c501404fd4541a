SPECIFICATION ClientSpec
CONSTANTS
  first = first
  second = second
  third = third
  alice = alice
  bob = bob
  Calls = {first, second, third}
  Payers = {alice, bob}
  FreshKeys = {1, 3, 5}
  QuoteMints <- MCQuoteMints
  Supplies = {7}
  Sessions = {s1, s2}
  Pools <- SplPools
  Amounts = {0, 3}
  Minimums = {2}
  Payouts = {1, 2}
  RENT = 2
  Lamports = 8
  Balance = 3
  ConfigFetches = {"config", "null"}
  MAX_CHANGES = 2
SYMMETRY AnyOrder
INVARIANTS
  LaunchLands
  PoolsAsRequested
  UndisturbedSwapLands
  CallsAreTaken
  FieldsArrive
PROPERTIES
  SwapIsExact
CHECK_DEADLOCK FALSE
