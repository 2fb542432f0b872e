CONSTANTS
  c1 = c1
  c2 = c2
  p1 = p1
  p2 = p2
  NoPid = NoPid
  Calls <- TwoCalls
  Pids <- TwoPids
  Handles <- TwoCalls
  HandleOf <- OwnHandles
  MaxLines = 1
  MaxEvents = 2
  Faults = {}
  Env = {"term"}
SPECIFICATION FairSpec
PROPERTIES
  ZombiesAreReaped
  EndedSelectionIsTaken
  CallsAreHandled
  TermEndsDaemon
