SPECIFICATION Spec
CONSTANTS
  Threads = {th1, th2, th3}
  Tasks = {t1, t2}
  Pids = {p1, p2}
  NoTask = NoTask
INVARIANT
  NoDangling
