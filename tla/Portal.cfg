CONSTANTS
  c1 = c1
  c2 = c2
  p1 = p1
  p2 = p2
  NoPid = NoPid
  Calls <- TwoCalls
  Pids <- TwoPids
  Handles <- TwoCalls
  HandleOf <- OwnHandles
  MaxLines = 2
  MaxEvents = 16
  Faults = {}
  Env = {"close"}
SPECIFICATION Spec
SYMMETRY Symmetry
INVARIANTS
  IInv
  SelectionConserved
  NoFdLeak
  EveryCallAccountedFor
PROPERTIES
  TermOnlyToOwnPicker
  EofDeliversEverything
  ImplementsService
