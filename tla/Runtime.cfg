SPECIFICATION RuntimeSpec
CONSTANTS
  Keys = {"launchpad"}
  Programs <- OneKey
  Touches <- MCTouchesThree
  Providers = {"primary"}
  Scanners = {s1, s2}
  MaxHead = 3
  SlotOf <- MCSlots3
  NoRun = NoRun
  PageSize = 2
  MaxPages = 1
  Retained = 2
  Aging = TRUE
  Claimants = {c1, c2}
  Scans = {z1}
  Readers = {r1}
  Blocks = {b1}
  RpcNames = {p, q}
  NoName = NoName
  MaxEntries = 1
  MaxRevision = 2
  MaxScans = 1
  Committers = {1, 2}
  MaxSequence = 3
  BatchSize = 2
SYMMETRY RuntimeSymmetry
INVARIANTS FailedRunProvesLoss CheckpointCoversHistory AnswersAreAffine NobodyIsForgotten StreamIsComplete
CHECK_DEADLOCK FALSE
