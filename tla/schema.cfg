\* A writer of the old schema, and a client that migrates.
SPECIFICATION Spec
CONSTANTS
  Clients = {w1, g1}
  Warm = {w1}
  Admin = {}
  Writers = {w1}
  Readers = {}
  Compactors = {}
  Collectors = {}
  Migrators = {g1}
  Latest = 1
  Opens = 1
  Updates = 1
  Compacts = 0
  Collects = 0
  Rows = {"x", "y"}
  NoPK = {}
  Size = 3
  Txns = {"incX"}
  MaxRetries = 2
  AutoCompact = 0
  Grace = FALSE
  Faults = {}
  Version <- MCVersion
  Budget <- MCBudget
  Vals <- MCVals
  Absent = 0
  Effect <- MCEffect
  Up <- MCUp
  NoConn = NoConn
  NoManifest = NoManifest
PROPERTIES CommitsMatchSchema
CHECK_DEADLOCK FALSE
