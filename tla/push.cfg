\* Two users pull, edit and push.
SPECIFICATION CliSpec
CONSTANTS
  Clients = {w1}
  Warm = {w1}
  Admin = {}
  Writers = {w1}
  Readers = {}
  Compactors = {}
  Collectors = {}
  Migrators = {}
  Latest = 0
  Opens = 0
  Updates = 0
  Compacts = 0
  Collects = 0
  Rows = {"x", "y"}
  NoPK = {}
  Size = 3
  Txns = {"incX"}
  MaxRetries = 2
  AutoCompact = 0
  Grace = FALSE
  Faults = {}
  Users = {u, v}
  Owners = {}
  Commands = {"pull", "edit", "push"}
  MaxCommands = 3
  NoFile = NoFile
  Version <- MCVersion
  Budget <- MCBudget
  Vals <- MCVals
  Absent = 0
  Effect <- MCEffect
  Up <- MCUp
  NoConn = NoConn
  NoManifest = NoManifest
SYMMETRY UserSymmetry
PROPERTIES PushKeepsWrites
CHECK_DEADLOCK FALSE
