\* One position, opened off market.
SPECIFICATION FairSpec
CONSTANTS
  p1 = p1
  Positions = {p1}
  MirrorAssets = {mTSLA}
  Refunds = {FALSE}
  MaxCdps = 1
PROPERTY OffMarketSetUp
