SPECIFICATION FairSpec
CONSTANTS
  NoCall = NoCall
  Call <- Calls
  Wallet = {"deployer", "successor"}
  MaxRuns = 2
  Attempts = 3
  Library = {"Liquidation"}
  Contract = {"Escrow"}
  Market <- TwoMarkets
  Arguments <- SomeNames
  MaxVersions = 2
INVARIANTS
  UpgradeTypeOK
  FileDescribesChain
  MarketsFollowTheBuild
  LinkedWithNewLibrary
PROPERTIES
  DryRunChangesNothing
  RunEnds
CHECK_DEADLOCK FALSE
