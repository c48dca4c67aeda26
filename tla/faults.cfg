\* Cold clients that bootstrap, migrate, write, compact and die; every kind of failure.
SPECIFICATION Spec
CONSTANTS
  Clients = {w1, w2}
  Warm = {}
  Admin = {}
  Writers = {w1, w2}
  Readers = {}
  Compactors = {}
  Collectors = {}
  Migrators = {w1, w2}
  Latest = 1
  Opens = 1
  Updates = 1
  Compacts = 0
  Collects = 0
  Rows = {"x", "y", "z"}
  NoPK = {"z"}
  Size = 3
  Txns = {"incX", "z"}
  MaxRetries = 2
  AutoCompact = 1
  Grace = FALSE
  Faults = {"error", "phantom", "retry412", "crash"}
  Version <- MCVersion
  Budget <- MCBudget
  Vals <- MCVals
  Absent = 0
  Effect <- MCEffect
  Up <- MCUp
  NoConn = NoConn
  NoManifest = NoManifest
SYMMETRY WriterSymmetry
INVARIANTS TypeOK ConnOpen PutNeverInvalid LogReplays
PROPERTIES SeqSteps SoundSnapshotExact
CHECK_DEADLOCK FALSE
