SPECIFICATION Spec
CONSTANTS
  Buys = {b1, b2}
  Executors = {e1}
  Recoverers = {r1}
  NoIntent = NoIntent
  NoClaim = NoClaim
  LandingOutcomes = {"LANDED", "FAILED"}
  PromptReads = TRUE
  MaxExits = 0
  MaxAttempts = 1
  MaxTokens = 4
SYMMETRY Symmetry
CHECK_DEADLOCK FALSE
INVARIANTS ExposureIsHeld UnknownEffectBlocks
