SPECIFICATION Spec
CONSTANTS
  init = init
  a = a
  b = b
  d = d
  Tasks = {init, a, b, d}
  init_task = init
  None = None
  Nproc <- ChainNproc
  Pgid <- OneGroup
  Exiters = {a, b, d}
  ExitCodes = {1}
  WaitCalls <- ChainWaits
  Killers = {}
  Signals = {}
  MaxKills = 0
  MaxFaults = 0
CHECK_DEADLOCK FALSE
INVARIANT
  NothingUndefined
