\* Two transactions, each of which reads the row that the other writes.
SPECIFICATION Spec
CONSTANTS
  Clients = {w1, w2}
  Warm = {w1, w2}
  Admin = {}
  Writers = {w1, w2}
  Readers = {}
  Compactors = {}
  Collectors = {}
  Migrators = {}
  Latest = 0
  Opens = 0
  Updates = 1
  Compacts = 0
  Collects = 0
  Rows = {"x", "y"}
  NoPK = {}
  Size = 3
  Txns = {"setX", "setY"}
  MaxRetries = 2
  AutoCompact = 0
  Grace = FALSE
  Faults = {}
  Version <- MCVersion
  Budget <- MCBudget
  Vals <- MCVals
  Absent = 0
  Effect <- MCEffect
  Up <- MCUp
  NoConn = NoConn
  NoManifest = NoManifest
PROPERTIES Serializable
CHECK_DEADLOCK FALSE
