SPECIFICATION Spec
CONSTANTS
  p1 = p1
  p2 = p2
  Positions = {p1, p2}
  Deposits = {4}
  Withdrawals = {3}
  Yields = {3}
  Moves <- MCMoves
  MaxLoss = 1
  UNITY = 10
  Year = 1
  Leverage = 2
  minDebtRatio = 3
  targetDebtRatio = 5
  maxDebtRatio = 8
  withdrawFee = 3
  harvestFee = 5
  managementFee = 3
  reinvestThreshold = 5
  maxOpenPerTx = 4
  maxWithdrawPerTx = 6
  maxCapacity = 8
  MaxTime = 2
  MaxShares = 8
SYMMETRY PositionSymmetry
INVARIANTS TypeOK TotalIsSum
PROPERTIES ShareWorthKept NewcomerNotCharged
