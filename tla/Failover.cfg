SPECIFICATION MCSpec
CONSTANTS
  NoProvider = NoProvider
  primary = primary
  fallback = fallback
  ProviderIds <- MCProviderIds
  MaxRecords = 5
  MaxDisturbances = 3
INVARIANTS RunningMissesNothing DeafnessIsRepaired SessionsAreOwned
PROPERTY CloseTerminates
\* A closed supervisor is over.
CHECK_DEADLOCK FALSE
