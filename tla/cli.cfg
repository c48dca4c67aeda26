\* A user of the command line tool, with every command; a handle that writes and the
\* handle of the commands compact and gc; calls fail, or only seem to.
SPECIFICATION CliSpec
CONSTANTS
  Clients = {w1, a}
  Warm = {}
  Admin = {a}
  Writers = {w1}
  Readers = {}
  Compactors = {a}
  Collectors = {a}
  Migrators = {}
  Latest = 0
  Opens = 1
  Updates = 1
  Compacts = 1
  Collects = 1
  Rows = {"x", "y"}
  NoPK = {}
  Size = 3
  Txns = {"incX"}
  MaxRetries = 2
  AutoCompact = 0
  Grace = FALSE
  Faults = {"error", "phantom"}
  Users = {u}
  Owners = {u}
  Commands = {"init", "init -f", "pull", "pull -no-seq", "edit", "push", "push -create", "push -force"}
  MaxCommands = 2
  NoFile = NoFile
  Version <- MCVersion
  Budget <- MCBudget
  Vals <- MCVals
  Absent = 0
  Effect <- MCEffect
  Up <- MCUp
  NoConn = NoConn
  NoManifest = NoManifest
INVARIANTS UserTypeOK LocalMatchesReplay PulledMatchesReplay LogReplays CliInv
PROPERTIES PushKeepsCommits SeqSteps
CHECK_DEADLOCK FALSE
