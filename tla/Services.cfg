SPECIFICATION MCSpec
CONSTANTS
  MaxClock = 3
  FaultIds = {f1, f2}
  MaxFailures = 2
  LimitUnits = 4
  EntryCostUnits = 1
  ProtectedUnits = 1
  MarginUnits = 1
  UsageMaxAge = 3
  RateLimitWindow = 1
  RateLimitThreshold = 1
  MaxOperations = 3
  NoOperation = NoOperation
  Targets = {t1, t2}
  MaxEnvelopes = 2
  EnvelopeWindow = 3
  MaxBuys = 2
  MaxLoss = 1
  ArmamentTtl = 2
  ConsentTtl = 1
  TargetTtl = 3
  Nobody = Nobody
  MaxCalls = 6
  SlotLag = 1
  MaxSlot = 2
  Amounts = {1, 2}
  NTrades = 3
  CreatorSells = {3}
  Target = 2
  MaxAttempts = 2
  Workers = {w1, w2}
  Idle = Idle
SYMMETRY CrewSymmetry
INVARIANTS ArmamentHoldsExposure DraftsAreStorable OneEntryStands ExitIsFinal
CHECK_DEADLOCK FALSE
