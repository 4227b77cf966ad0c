SPECIFICATION FairSpec
CONSTANTS
  eth = eth
  avax = avax
  terra = terra
  manager = manager
  vault = vault
  alice = alice
  usdc = usdc
  weth = weth
  thisChainId = eth
  OtherChains = {avax}
  Publishers = {manager}
  Users = {alice}
  StrategyManagers = {vault}
  Tokens = {usdc, weth}
  Assets <- MCAssets
  Incoming <- MCAssets
  WethUnit = 2
  BPS = 4
  MAX_FEE_BPS = 1
  FeeChoices = {1}
  Whitelistable <- MCWhitelistable
  Routable <- MCRoutable
  MaxStrategies = 0
  MaxPositions = 0
  MaxInstructions = 1
  MaxPublished = 0
  MaxRequests = 3
  MaxAssets = 1
CHECK_DEADLOCK FALSE
PROPERTY MultiDisbursementPaid
