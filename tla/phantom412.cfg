\* Two writers; the SDK may send a Put again that had taken effect.
SPECIFICATION Spec
CONSTANTS
  Clients = {w1, w2}
  Warm = {w1, w2}
  Admin = {}
  Writers = {w1, w2}
  Readers = {}
  Compactors = {}
  Collectors = {}
  Migrators = {}
  Latest = 0
  Opens = 0
  Updates = 1
  Compacts = 0
  Collects = 0
  Rows = {"x", "y"}
  NoPK = {}
  Size = 3
  Txns = {"incX", "incY", "both"}
  MaxRetries = 2
  AutoCompact = 0
  Grace = FALSE
  Faults = {"retry412"}
  Version <- MCVersion
  Budget <- MCBudget
  Vals <- MCVals
  Absent = 0
  Effect <- MCEffect
  Up <- MCUp
  NoConn = NoConn
  NoManifest = NoManifest
INVARIANTS BlobsPresent
CHECK_DEADLOCK FALSE
