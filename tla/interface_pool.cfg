SPECIFICATION InterfaceSpec
CONSTANTS
  Calls = {}
  Accounts = {"virtualPool"}
  Arguments = {}
INVARIANTS
  PoolDecodes
