\* A writer of the old schema, and a client that migrates twice, compacts and collects
\* with a grace period; answers are lost, and every method that was called keeps running.
SPECIFICATION FairSpec
CONSTANTS
  Clients = {w1, m}
  Warm = {w1}
  Admin = {}
  Writers = {w1}
  Readers = {}
  Compactors = {m}
  Collectors = {m}
  Migrators = {m}
  Latest = 2
  Opens = 1
  Updates = 2
  Compacts = 1
  Collects = 2
  Rows = {"x", "y"}
  NoPK = {}
  Size = 3
  Txns = {"incX"}
  MaxRetries = 2
  AutoCompact = 0
  Grace = TRUE
  Faults = {"phantom"}
  Version <- MCVersion
  Budget <- MCBudget
  Vals <- MCVals
  Absent = 0
  Effect <- MCEffect
  Up <- MCUp
  NoConn = NoConn
  NoManifest = NoManifest
INVARIANTS IInv BlobInv BlobsPresent GraceKeepsChangesets LocalMatchesReplay
PROPERTIES SoundSnapshotExact OperationsEnd
CHECK_DEADLOCK FALSE
