SPECIFICATION SwapClientSpec
CONSTANTS
  Sessions = {s1, s2}
  Pools <- UsdcPool
  Amounts = {0, 3}
  Minimums = {2}
  Payouts = {1, 2}
  RENT = 2
  Lamports = 8
  Balance = 3
  ConfigFetches = {"config"}
  MAX_CHANGES = 2
INVARIANTS
  GetOrCreate
CHECK_DEADLOCK FALSE
