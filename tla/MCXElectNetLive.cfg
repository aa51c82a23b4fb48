SPECIFICATION Spec
CONSTANTS
  n1 = n1
  n2 = n2
  n3 = n3
  MaxDepth = 3
  MAX_BLOCKS = 2
  UINT64_MAX = 9
  NoBlock = NoBlock
  Node <- TwoNodes
  Block <- MCFewBlocks
  Hash <- MCHash
  Genesis <- MCGenesis
  Age <- MCAge
  MaxMined = 3
  MaxFaults = 0
  MaxRestarts = 0
PROPERTIES
  HeightsMeet
