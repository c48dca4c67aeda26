\* A writer, a compactor and a collector with a grace period.
SPECIFICATION Spec
CONSTANTS
  Clients = {w1, m1, m2}
  Warm = {w1, m1, m2}
  Admin = {}
  Writers = {w1}
  Readers = {}
  Compactors = {m1}
  Collectors = {m2}
  Migrators = {}
  Latest = 0
  Opens = 0
  Updates = 2
  Compacts = 1
  Collects = 1
  Rows = {"x", "y"}
  NoPK = {}
  Size = 3
  Txns = {"incX"}
  MaxRetries = 2
  AutoCompact = 0
  Grace = TRUE
  Faults = {}
  Version <- MCVersion
  Budget <- MCBudget
  Vals <- MCVals
  Absent = 0
  Effect <- MCEffect
  Up <- MCUp
  NoConn = NoConn
  NoManifest = NoManifest
INVARIANTS BlobsPresent
CHECK_DEADLOCK FALSE
