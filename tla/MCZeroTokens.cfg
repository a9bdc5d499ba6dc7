SPECIFICATION PoolSpec
CONSTANTS
  a1 = a1
  a2 = a2
  treasury = treasury
  market = market
  ether = ether
  dai = dai
  ETH = ether
  LocalCurrency = dai
  Account <- MCAccount
  Trader <- MCTrader
  RESERVE_ACCOUNT = treasury
  CASH_MARKET = market
  Maturity <- OneMaturity
  MATURITY_LENGTH = 2
  NUM_MATURITIES = 1
  SECONDS_IN_YEAR = 4
  DECIMALS = 20
  LIQUIDITY_HAIRCUT = 16
  FCASH_HAIRCUT = 10
  FCASH_MAX_HAIRCUT = 19
  ETH_BUFFER = 28
  LOCAL_BUFFER = 28
  RATE_DECIMALS = 1
  Amount = {1, 2}
  Funds <- DaiFunds
  Deposits <- NoDeposits
  TRANSACTION_FEE = 20
  MAX_TRADE_SIZE = 2
  Rate = {1}
  MaxTime = 2
  MaxHeld <- DaiHeld
  MaxNotional = 4
  MaxLiquidity = 6
INVARIANTS
  AnyoneMaySettle
CHECK_DEADLOCK FALSE
SYMMETRY Sym
