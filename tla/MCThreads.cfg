SPECIFICATION ThreadsSpec
CONSTANTS
  Threads = {th1, th2, th3}
  Fds = {3, 4}
  Hosts = {h1, h2, h3}
  Files = {f1, f2}
  None = None
  MaxPos = 1

  NoTask = NoTask
  Sleepers = {p1}
  Senders = {s1, s2}
  SigNums = {1}
  Seconds = {0, 2}
  MaxTime = 4

  MaxStray = 2
INVARIANTS
  TypeOK
  NothingUndefined
  NoLeak
  OffsetTracksFile
  SleepersCounted
PROPERTIES
  TableSpec
  CallsReturn
  PauseReturns
  AlarmBounded
  ForkHandsOver
CHECK_DEADLOCK FALSE
