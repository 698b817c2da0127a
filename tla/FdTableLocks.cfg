SPECIFICATION Spec
CONSTANTS
  Threads = {th1, th2}
  Fds = {3, 4}
  Hosts = {h1, h2}
  Files = {f1, f2}
  None = None
  MaxPos = 1
CHECK_DEADLOCK FALSE
INVARIANT
  NoLockCycle
