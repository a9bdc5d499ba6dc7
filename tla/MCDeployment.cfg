SPECIFICATION FairSpec
CONSTANTS
  NoCall = NoCall
  Call <- MCCalls
  Wallet = {"deployer"}
  MaxRuns = 2
  Attempts = 3
  ChainId = {"local", "public"}
  Fundable = {"dai_1M", "usdc_3M"}
INVARIANTS
  DeploymentTypeOK
  RevertsOnlyOnCollision
  OpenMarketIsConfigured
  FinishedIsHandedOver
PROPERTIES
  ImplementsPublication
  RunEnds
CHECK_DEADLOCK FALSE
