SPECIFICATION SettlingSpec
CONSTANTS
  Keys = {"launchpad"}
  Programs <- OneKey
  Touches <- MCTouchesOne
  Providers = {"primary", "fallback-1"}
  Scanners = {s1}
  MaxHead = 4
  SlotOf <- MCSlotOf
  NoRun = NoRun
  PageSize = 1
  MaxPages = 2
  Retained = 0
  Aging = TRUE
  Ids = {1, 2}
  LogicalOrder <- OneOrder
  Contents = {c1}
  Simulators = {sim1, sim2}
  DryRunners = {dry}
  NoIntent = NoIntent  NoClaim = NoClaim
  MaxTokens = 3
INVARIANTS ScanBridgesHead ArtifactDecidesIntent
PROPERTIES WalkConverges IntentSettles
CHECK_DEADLOCK FALSE
