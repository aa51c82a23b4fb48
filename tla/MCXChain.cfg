SPECIFICATION Spec
CONSTANTS
  Branches = 2
  MaxDepth = 5
  UINT64_MAX = 4
  MAX_BLOCKS = 3
  NoBlock = NoBlock
  Block <- MCBlock
  Hash <- MCHash
  Genesis <- MCGenesis
  Age <- MCAge
INVARIANTS
  ChainSound
  CacheTurnsAwayNoChild
PROPERTIES
  NewBlockOnlyOnHeld
  ImplementsTip
