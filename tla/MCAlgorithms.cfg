SPECIFICATION MCSpec
CHECK_DEADLOCK FALSE
CONSTANTS
  Object = {"p1", "p2", "s1", "s2", "q1", "q2", "r1", "r2"}
  Kind <- MCKind
  MaxKeys = 3
  UINT256_SIZE = 4
  Sample <- EdgeHashes
  Class <- MCClass
  Hash = {0, 1}
  Num = {0, 1}
  MaxNum = 1
  Count = {0, 1, 2}
  Member = {0, 1}
INVARIANTS
  HashesAccepted
  BlocksOrdered
  ReceivedForwards
  KeysAgree
  KeysOwnedOnce
  ReadAsWritten
