\* A client that opens the database while another compacts and collects, with a
\* grace period.
SPECIFICATION Spec
CONSTANTS
  Clients = {w1, r, m}
  Warm = {w1, m}
  Admin = {}
  Writers = {w1}
  Readers = {r}
  Compactors = {m}
  Collectors = {m}
  Migrators = {}
  Latest = 0
  Opens = 1
  Updates = 1
  Compacts = 1
  Collects = 1
  Rows = {"x", "y"}
  NoPK = {}
  Size = 3
  Txns = {"incX"}
  MaxRetries = 2
  AutoCompact = 0
  Grace = TRUE
  Faults = {}
  Version <- MCVersion
  Budget <- MCBudget
  Vals <- MCVals
  Absent = 0
  Effect <- MCEffect
  Up <- MCUp
  NoConn = NoConn
  NoManifest = NoManifest
INVARIANTS GraceKeepsSnapshot
CHECK_DEADLOCK FALSE
