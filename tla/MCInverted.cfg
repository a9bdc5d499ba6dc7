SPECIFICATION Spec
CONSTANTS
  payer = payer
  buyer = buyer
  maker = maker
  treasury = treasury
  market = market
  ether = ether
  dai = dai
  ETH = ether
  LocalCurrency = dai
  Account <- MCAccount
  RESERVE_ACCOUNT = treasury
  CASH_MARKET = market
  Maturity <- OneMaturity
  MATURITY_LENGTH = 2
  NUM_MATURITIES = 2
  SECONDS_IN_YEAR = 4
  DECIMALS = 20
  LIQUIDITY_HAIRCUT = 16
  FCASH_HAIRCUT = 10
  FCASH_MAX_HAIRCUT = 19
  ETH_BUFFER = 28
  LOCAL_BUFFER = 28
  RATE_DECIMALS = 4
  LIQUIDATION_DISCOUNT = 23
  SETTLEMENT_DISCOUNT = 26
  REPO_INCENTIVE = 22
  LIQUIDATION_BUFFER = 21
  MUST_INVERT = TRUE
  Start <- MCStart
  Liquidator <- MCBuyer
  Payer <- MCPayer
  Amount = {15}
  Rate = {2, 4, 8}
  MaxTime = 0
  TokenKind = "plain"
  Pool <- SmallPool
  Balances <- SmallBalances
  Tokens <- SmallTokens
  Claims <- SmallClaims
  Wealth = 60
INVARIANT ShortfallIsCovered
CHECK_DEADLOCK FALSE
