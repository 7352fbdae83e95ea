SPECIFICATION StandaloneSpec
CONSTANTS
  Listeners = {w1, w2}
  Mints = {k1, k2}
  Interval = 2
  CreateAge = 1
  MaxTime = 2
  Preparers = {w1, w2}
  Runs = {1, 2}
  Pairs = {k1, k2}
  Window = 5
  PrepLease = 2
  IntentLease = 2
  Reserve = 1
  Freshness = 1
  PairTtl = 4
  EvidenceTtl = 4
  Renewals = 1
  LastTime = 5
  Bots = {w1, w2}
  MaxCycles = 2
  MaxTotalFees = 9
  NetworkBudget = 4
  MaxRealizedLoss = 3
  Ticket = 10
  StakeRent = 1
  Principals = {5, 16}
  ReceiptFees = {1, 2}
  ObservationAge = 1
  ConfirmationDelay = 1
  ConfirmationGap = 2
  Validity = 1
  LastHeight = 3
  SlotOfSignature <- SlotsOfPool
  FailedOnChain <- FailedInPool
  PageSize = 2
  MaxPages = 2
  Endpoints = {p1, p2}
  NoEndpoint = none
  MaxRevision = 3
  Cadence = 3
  Saturation = 7
  DriftRoles = {"worker", "stale", "live", "live_login", "recovery"}
  DriftTables = {"venue", "signed", "fresh_execution"}
  RpcProviders = {p1, p2}
  NoWork = none
SYMMETRY PeerSymmetry
INVARIANTS EntriesAreSingle PreparedIsProven JournalCoversChain PoolHistoryIsCovered ClosedIsQuiet ReconcilerTellsTruth StartedIsExact ProvisionedIsClosed
CHECK_DEADLOCK FALSE
