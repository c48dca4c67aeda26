\* A writer, and a writer that reads too, with two updates and three CAS attempts
\* each; their updates compact the log once it holds two entries.
SPECIFICATION Spec
CONSTANTS
  Clients = {w1, m}
  Warm = {w1, m}
  Admin = {}
  Writers = {w1, m}
  Readers = {m}
  Compactors = {}
  Collectors = {}
  Migrators = {}
  Latest = 0
  Opens = 0
  Updates = 2
  Compacts = 0
  Collects = 0
  Rows = {"x", "y"}
  NoPK = {}
  Size = 3
  Txns = {"incX", "incY", "noop"}
  MaxRetries = 3
  AutoCompact = 2
  Grace = FALSE
  Faults = {}
  Version <- MCVersion
  Budget <- MCBudget
  Vals <- MCVals
  Absent = 0
  Effect <- MCEffect
  Up <- MCUp
  NoConn = NoConn
  NoManifest = NoManifest
INVARIANTS LogReplays LocalMatchesReplay ConflictNeedsContention OrphanNotLive  LogInEpoch
PROPERTIES ImplementsVersionedDB
CHECK_DEADLOCK FALSE
