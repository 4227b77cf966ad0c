SPECIFICATION Spec
CONSTANTS
  terra = terra
  eth = eth
  bsc = bsc
  alice = alice
  bob = bob
  anchor = anchor
  delta = delta
  manager = manager
  former = former
  TERRA_CHAIN_ID = terra
  ExternalChains = {eth}
  Accounts = {alice, bob}
  StrategyManagers = {anchor}
  Publishers = {manager}
  Deployed = manager
  Amounts = {2}
  RelayerFees = {1}
  Refusals = {}
  FeeNum = 1
  FeeDen = 2
  InitialWallet = 2
  InitialWrapped = 4
  MaxStrategies = 2
  MaxTerraPositions = 2
  MaxInstructions = 2
  MaxOutgoing = 2
  MaxAssets = 1
CHECK_DEADLOCK FALSE
INVARIANTS TypeOK Solvent HolderIndexConsistent DisbursementsBacked
SYMMETRY AccountSymmetry
