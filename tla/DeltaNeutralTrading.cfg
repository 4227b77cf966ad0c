\* One position in a small market.  The pools are small because an amount of
\* each token times DECIMAL_FRACTIONAL has to fit into 32 bits.
SPECIFICATION Spec
CONSTANTS
  DECIMAL_FRACTIONAL = 10000
  MIRROR_FRACTIONAL = 1000
  Commission = 30
  Uint128Max = 16383
  CollateralRatioRange <- Range18to22
  min_reinvest_uusd_amount = 15
  InitialMarkets <- Markets
  Deposits = {240}
  Prices = {22000, 33000}
  Rewards = {0, 20}
  Trades = {30}
  MaxMoves = 4
CHECK_DEADLOCK FALSE
INVARIANTS TypeOK SearchesEndAtBoundary TradedToNeutralOnTerraswap TransactionsSucceed
