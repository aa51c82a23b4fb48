SPECIFICATION MCSpec
CHECK_DEADLOCK FALSE
CONSTANTS
  Port = {1, 2}
  RandomPort = {2}
  NoPort = NoPort
  Tries = 1
  Sig = {g}
  Async = {a}
  Sender = {s1, s2}
  EventFd = FALSE
  MaxSends = 2
  MaxChanges = 2
  StatWatcher = {u, v}
  MaxPathChanges = 2
  MaxQueued = 2
  MaxStarts = 3
  Event = {e, s, t}
  Once = {o}
  signal = {s}
  timeouts = {t}
  persist = {}
  pending_w = pending_w
  MaxSteps = 3
  LoopWatcher = {"f", "p", "c1", "c2", "i", "o"}
  kind <- MCkind
  LoopPri = {0, 1}
  loop_priority <- MCpriority
  loop_pending_w = "pending_w"
  MaxDepth = 2
  MaxPolls = 2
  MaxLoopSteps = 5
  ChildWatcher = {"w0", "w1", "w2"}
  childev = "childev"
  child_pending_w = "pending_w"
  Pid = {1, 2}
  pid <- MCpid
  traced <- MCtraced
  EV_PID_HASHSIZE = 2
  EV_MAXPRI = 1
  ChildPri = {0, 1}
  MaxReports = 2
  Timer = {"t1", "t2"}
  Periodic = {"p"}
  TimerPri = {0}
  timer_priority <- MCTimerPriority
  timer_pending_w = "pending_w"
  DHEAP = 2
  MIN_TIMEJUMP = 2
  MAX_BLOCKTIME = 3
  backend_fudge = 1
  Blocktime = {0, 2}
  Delay = {0, 2}
  Interval = {0, 1}
  Skew <- MCSkew
  MaxClock = 2
  Fd = {3}
  File = {"A", "B"}
  None = "None"
  IoWatcher = {"v", "w"}
  IoPri = {0}
  io_priority <- MCIoPriority
  io_pending_w = "pending_w"
  MaxOpens = 2
  MaxGen = 3
  Backend = {"poll", "select", "kqueue", "port"}
  BackendFd = {0, 1}
  NFDBITS = 1
  MaxBackendChanges = 4
INVARIANTS
  LoopVerify
  BackendsKnow
  NeverOversleeps
  ForgottenOnlyIfCrossed
  ChangesNoticedUnlessBlind
  MappingsRemembered
PROPERTIES
  DueInOrder
  NoStaleEvent
  LoopObeys
  ReapedOneByOne
  CalledInTime
