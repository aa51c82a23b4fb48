SPECIFICATION MCSpec
CONSTANTS
  N = 2
  GPU_MINE = TRUE
  MaxJobs = 3
  Caller = {c1, c2, c3}
  BlockNum = {0, 1, 2}
  OneBlockAtATime = TRUE
  None = None
  Consumer = {"c1", "c2"}
  MaxQueued = 3
  Item = {"a", "b"}
  Null = "Null"
  NoItem = "NoItem"
  Task = {"t1", "t2", "t3"}
  Stopper = {"s1", "s2"}
INVARIANTS
  NothingRunsBetweenJobs
  ReturnsOwnResult
  FoundUnlessShared
  AnswersRight
  NobodySleepsOnWork
  StopDrains
PROPERTIES
  StopReachesWaiter
  ImplementsMailbox
  TaskStopReturns
  SendsOnlyWhenRunning
