SPECIFICATION FairSpec
CONSTANTS
  terra = terra
  eth = eth
  bsc = bsc
  alice = alice
  bob = bob
  anchor = anchor
  delta = delta
  manager = manager
  former = former
  TERRA_CHAIN_ID = terra
  ExternalChains = {eth, bsc}
  Accounts = {alice}
  StrategyManagers = {anchor}
  Publishers = {manager, former}
  Deployed = manager
  Amounts = {2}
  RelayerFees = {0, 1}
  Refusals <- OpensRefused
  FeeNum = 1
  FeeDen = 2
  InitialWallet = 0
  InitialWrapped = 4
  MaxStrategies = 1
  MaxTerraPositions = 0
  MaxInstructions = 2
  MaxOutgoing = 1
  MaxAssets = 2
CHECK_DEADLOCK FALSE
INVARIANTS Solvent ExternalPositionsAuthentic
PROPERTIES ImplementsLedger OpenEventuallyProcessed
