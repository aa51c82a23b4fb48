SPECIFICATION CheckSpec
CHECK_DEADLOCK FALSE
CONSTANTS
  UINT256_SIZE = 4
  Sample <- EdgeHashes
INVARIANTS
  ExactlyLeadingZeros
