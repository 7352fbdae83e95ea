SPECIFICATION ProcessesSpec
CONSTANTS
  s1 = s1  s2 = s2  m1 = m1  pump = pump
  primary = primary  fallback = fallback  f1 = f1  f2 = f2
  Signatures = {s1, s2}
  Mints = {m1}
  Programs = {pump}
  Slots <- MCSlots
  Providers = {primary, fallback}
  Fingerprints = {f1, f2}
  NoMint = NoMint  NoProvider = NoProvider  NoSnapshot = NoSnapshot
  NoClassification = NoClassification  NoRow = NoRow  NoReceipt = NoReceipt
  MaxAttempts = 2
  MaxVersion = 4
  MaxUrgent = 2
  MaxLaunch = 1
  MaxClaims = 2
  Notifications <- CreationAndSibling
  Classifications = {}
  LockedSets = {{}}
  Workers = {1, 2}
  CreatedMints <- MCCreatedMints
  TradedMints <- MCTradedMints
  Threshold = 2
  Landed = {s2}
  Runners = {r1, r2}
SYMMETRY PeerSymmetry
INVARIANTS MarketIsBacked ReportFollowsChain RetractedLaunchStaysRetracted
PROPERTY OrphanedIsProven
CHECK_DEADLOCK FALSE
