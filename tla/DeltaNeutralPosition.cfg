\* Everything that Mirror, its oracle, the admin, the controller and the holder
\* may do to one position.
SPECIFICATION Spec
CONSTANTS
  Positions = {p1}
  p1 = p1
  MirrorAssets = {mTSLA}
  Refunds = {FALSE, TRUE}
  MaxCdps = 2
INVARIANTS TypeOK OwnedCdpsActive InactiveRedeemable PerformanceFeeOnce
PROPERTIES CloseDisburses LockNotReset LiquidatedMovesToAnchorEarn ShouldCloseHonoured
