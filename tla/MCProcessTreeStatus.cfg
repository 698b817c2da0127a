SPECIFICATION Spec
CONSTANTS
  init = init
  a = a
  b = b
  d = d
  Tasks = {init, a, b}
  init_task = init
  None = None
  Nproc <- OneLevel
  Pgid <- OneGroup
  Exiters = {a, b}
  ExitCodes = {1}
  WaitCalls <- JobControlWaits
  Killers = {init, b}
  Signals = {"STOP", "CONT", "TERM"}
  MaxKills = 2
  MaxFaults = 0
CHECK_DEADLOCK FALSE
INVARIANT
  StatusMatchesReap
