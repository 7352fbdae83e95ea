SPECIFICATION MCSpec
CONSTANTS
  s1 = s1  s2 = s2  m1 = m1  pump = pump  amm = amm
  primary = primary  fallback = fallback  f1 = f1  f2 = f2
  Signatures = {s1, s2}
  Mints = {m1}
  Programs = {pump, amm}
  Slots <- MCSlots
  Providers = {primary, fallback}
  Fingerprints = {f1, f2}
  NoMint = NoMint  NoProvider = NoProvider  NoSnapshot = NoSnapshot
  NoClassification = NoClassification  NoRow = NoRow  NoReceipt = NoReceipt
  MaxAttempts = 2
  MaxVersion = 3
  MaxUrgent = 2
  MaxLaunch = 1
  MaxClaims = 4
  Notifications <- MCNotifications
  Classifications <- MCClassifications
  LockedSets = {{}}
INVARIANTS SchemaChecksHold ReceiptSealsRow
PROPERTIES InboxKeepsContract
