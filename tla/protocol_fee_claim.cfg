SPECIFICATION InterfaceSpec
CONSTANTS
  Calls <- SharedCalls
  Accounts <- SameAccounts
  Arguments <- AllArguments
INVARIANT ProtocolFeesPermissionless
