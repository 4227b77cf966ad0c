SPECIFICATION Spec
CONSTANTS
  eth = eth
  avax = avax
  terra = terra
  manager = manager
  vault = vault
  alice = alice
  usdc = usdc
  weth = weth
  thisChainId = eth
  OtherChains = {avax}
  Publishers = {manager}
  Users = {alice}
  StrategyManagers = {vault}
  Tokens = {usdc, weth}
  Assets <- MCAssets
  Incoming <- MCUsdc
  WethUnit = 2
  BPS = 4
  MAX_FEE_BPS = 1
  FeeChoices = {1}
  Whitelistable <- MCWhitelistable
  Routable <- MCRoutable
  MaxStrategies = 1
  MaxPositions = 1
  MaxInstructions = 1
  MaxPublished = 1
  MaxRequests = 3
  MaxAssets = 1
CHECK_DEADLOCK FALSE
INVARIANT PositionKeysUnique
