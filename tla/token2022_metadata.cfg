SPECIFICATION LaunchSpec
CONSTANTS
  first = first
  second = second
  third = third
  alice = alice
  bob = bob
  Calls = {first, second}
  Payers = {alice}
  FreshKeys = {1, 3}
  QuoteMints <- SplQuoteMint
  Supplies = {7}
INVARIANT CreatorUpdatesMetadata
CHECK_DEADLOCK FALSE
