CONSTANTS
  c1 = c1
  c2 = c2
  p1 = p1
  p2 = p2
  NoPid = NoPid
  Calls <- OneCall
  Pids <- OnePid
  Handles <- OneCall
  HandleOf <- OwnHandles
  MaxLines = 1
  MaxEvents = 16
  Faults = {}
  Env = {}
SPECIFICATION Spec
INVARIANTS
  RemovedCallbackNeverRuns
