SPECIFICATION AsyncSpec
CONSTANTS
  Sig = {}
  Async = {a}
  Sender = {s1}
  EventFd = FALSE
  MaxSends = 2
  MaxChanges = 0
CHECK_DEADLOCK FALSE
INVARIANTS
  NothingForgotten
