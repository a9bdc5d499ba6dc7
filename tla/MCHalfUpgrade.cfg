SPECIFICATION Spec
CONSTANTS
  NoCall = NoCall
  Call <- Calls
  Wallet = {"deployer", "successor"}
  MaxRuns = 2
  Attempts = 3
  Library = {"Liquidation"}
  Contract = {"Escrow"}
  Market <- TwoMarkets
  Arguments <- SomeNames
  MaxVersions = 2
INVARIANT ContractsFollowTheBuild
CHECK_DEADLOCK FALSE

