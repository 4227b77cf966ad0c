\* Two moves of others suffice to make Astroport the better exchange.
SPECIFICATION Spec
CONSTANTS
  DECIMAL_FRACTIONAL = 10000
  MIRROR_FRACTIONAL = 1000
  Commission = 30
  Uint128Max = 16383
  CollateralRatioRange <- Range18to22
  min_reinvest_uusd_amount = 15
  InitialMarkets <- Markets
  Deposits = {240}
  Prices = {22000, 33000}
  Rewards = {0, 20}
  Trades = {30}
  MaxMoves = 2
CHECK_DEADLOCK FALSE
INVARIANT TradedToNeutral
