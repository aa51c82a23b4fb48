SPECIFICATION Spec
CONSTANTS
  N = 2
  GPU_MINE = TRUE
  MaxJobs = 1
PROPERTIES
  StopEndsMining
