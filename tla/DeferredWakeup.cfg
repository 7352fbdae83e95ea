SPECIFICATION SoloSpec
CONSTANTS
  s1 = s1  s2 = s2  m1 = m1  pump = pump
  primary = primary  f1 = f1  f2 = f2
  Signatures = {s1, s2}
  Mints = {m1}
  Programs = {pump}
  Slots <- MCSlots
  Providers = {primary}
  Fingerprints = {f1}
  NoMint = NoMint  NoProvider = NoProvider  NoSnapshot = NoSnapshot
  NoClassification = NoClassification  NoRow = NoRow  NoReceipt = NoReceipt
  MaxAttempts = 2
  MaxVersion = 2
  MaxUrgent = 2
  MaxLaunch = 1
  MaxClaims = 0
  Notifications <- CreationAndTrade
  Classifications = {}
  LockedSets = {{}}
  Workers = {1}
  CreatedMints <- MCCreatedMints
  TradedMints <- MCTradedMints
PROPERTIES EveryRowComesToRest DeferredTradeWakes
