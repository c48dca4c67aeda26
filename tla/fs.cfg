\* Two processes on one directory that holds a manifest and a snapshot; one of them
\* makes two calls.  Calls fail and processes die.
SPECIFICATION FairSpec
CONSTANTS
  Procs = {p1, p2}
  Busy = {p1}
  Ops = {"get", "stat", "put", "delete", "list", "deletePrefix", "download"}
  MaxTries = 2
  Parts = 2
  Deaths = 1
  Errors = TRUE
  Keys <- MCKeys
  Requests <- MCRequests
  Stored <- MCStored
  MaxCalls <- MCMaxCalls
  None = None
INVARIANTS Rooted FsInv
PROPERTIES Linearizable CallsEnd
CHECK_DEADLOCK FALSE
