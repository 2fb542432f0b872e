CONSTANTS
  c1 = c1
  c2 = c2
  p1 = p1
  p2 = p2
  NoPid = NoPid
  Calls <- TwoCalls
  Pids <- TwoPids
  Handles <- OneHandle
  HandleOf <- SharedHandle
  MaxLines = 1
  MaxEvents = 16
  Faults = {"parse", "exec", "vtable", "addfd", "read", "send", "setpgid"}
  Env = {"close"}
SPECIFICATION Spec
SYMMETRY Symmetry
INVARIANTS
  AtMostOneReply
  PickerPidIsOwn
  CallbackDataLive
  AnswersAreFinal
PROPERTIES
  LeaksOnlyByFailedSetup
  EofDeliversEverything
