SPECIFICATION ServicesSpec
CONSTANTS
  Threads = {th1, th2, th3}
  Callers = {x1, x2, x3}
  MinPid = 3
  MaxPid = 5
  Tasks = {t1, t2, t3}
  Pids = {p1, p2, p3}
  NoTask = NoTask

  NoJob = NoJob
  Jobs = {a, b, c}
  Shell = a
  Signallers = {k}
  MaxMatches = 3

  NoFile = NoFile
  NoPath = NoPath
  Tables = {p, q}
  FirstTable = p
  Users = {u}
  FileObjs = {f1, f2}
  MaxFds = 2
  Runners = {p}
  Programs = {"cmd", "sh"}
  Kind <- ProgramKind
  Cloexec = {f2}
  MaxCommands = 1

  Starters = {x1, x2}

  NoConn = NoConn
  NetThreads = {n1, n2}
  Conns = {c1, c2}
  MaxSockets = 2

  NoItem = NoItem
  EpFds = {5, 6}
  Items = {i1, i2}
  Waiters = {w}
  MaxEvents = 2
  Asked = {{"READ"}, {"READ", "WRITE"}}

  ArgWords <- Words
  MaxWords = 4
  ShortOpts <- Shorts
  LongOpts <- Longs

  PollFds = {3, 4}
  Masks = {m1, m2}
  FirstMask = m1

  Names = {"home", "a", "tmp", "proc"}
  Virtual = {"home", "tmp"}
  Kernel = {"proc"}
  Shared = {"tmp"}
  SandboxRoot <- Root
  MaxTokens = 7

  MaxLoads = 3
  MaxWasiFd = 5
  MaxHandles = 6

  MaxAddrs = 2

  DirSlots = {1, 2}
  SizeOf <- Sizes
  Block = 1
  MaxCount = 3
  Movers = {d}

  BufLens = {1, 17, 39, 40, 41, 44, 46, 100}
INVARIANTS
  PidTypeOK
  Conservation
  TypeOK
  RefCountExact
  NoDangling
  PidIdentifies
  GroupInSession
  KillpgReaches
  FileRefsExact
  ExecStartsClean
  ExecFailsEarly
  StartedIsWhole
  ConnectionsOwned
  EpollSound
  GetoptPermutes
  PathsAgree
  RuntimeOwned
  SshOrderly
  DentsOnce
  UsersAgree
PROPERTIES
  PoolSpec
  PidFreedOnce
  PollFaithful
CHECK_DEADLOCK FALSE
