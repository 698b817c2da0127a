SPECIFICATION Spec
CONSTANTS
  init = init
  a = a
  b = b
  d = d
  Tasks = {init, a, b, d}
  init_task = init
  None = None
  Nproc <- TwoLevels
  Pgid <- TwoGroups
  Exiters = {init, a, b}
  ExitCodes = {1}
  WaitCalls <- JobWaits
  Killers = {d}
  Signals = {"STOP", "CONT", "TERM"}
  MaxKills = 1
  MaxFaults = 1
CHECK_DEADLOCK FALSE
INVARIANTS
  TypeOK
  EveryTaskListed
  ParentAgrees
  NoLostWakeup
PROPERTY
  LifeSpec
