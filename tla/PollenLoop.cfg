CONSTANTS
  f1 = f1
  t1 = t1
  a = a
  b = b
  s1 = s1
  s2 = s2
  Fds = {f1}
  Timers = {t1}
  Idles = {a, b}
  PriorityOf <- Priorities
  Sigs = {s1, s2}
  NumberOf <- Numbers
  Ignored = {s2}
  MaxCalls = 4
  MaxEvents = 2
  Faults = {"signalfd", "epoll_wait"}
SPECIFICATION FairSpec
INVARIANTS
  LoopInv
  NoOrphanSignal
  IdlesRunInOrder
  IdlesRunEveryTime
  NothingLeaks
PROPERTIES
  SignalsNotSwallowed
  SignalIsServed
  TimerIsServed
  QuitEndsLoop
