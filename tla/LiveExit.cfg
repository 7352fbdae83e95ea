SPECIFICATION MCSpec
CONSTANTS
  Buys = {b1}
  Executors = {e1, e2}
  Recoverers = {r1}
  NoIntent = NoIntent
  NoClaim = NoClaim
  LandingOutcomes = {"LANDED", "FAILED", "ODD"}
  PromptReads = TRUE
  MaxExits = 2
  MaxAttempts = 2
  MaxTokens = 4
SYMMETRY Symmetry
CHECK_DEADLOCK FALSE
INVARIANTS OneTransactionInFlight GivenUpNeverLands NeverSoldTwice DeadExitIsReplaceable
