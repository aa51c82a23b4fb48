SPECIFICATION Spec
CONSTANTS
  n1 = n1
  n2 = n2
  n3 = n3
  MaxDepth = 2
  MAX_BLOCKS = 2
  UINT64_MAX = 9
  NoBlock = NoBlock
  Node <- TwoNodes
  Block <- MCBlock
  Hash <- MCHash
  Genesis <- MCGenesis
  Age <- MCAge
  MaxMined = 3
  MaxFaults = 1
  MaxRestarts = 1
INVARIANTS
  AgreeBelowSharedBlock
  BroadcastOnce
SYMMETRY NodeSymmetry
