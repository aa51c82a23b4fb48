SPECIFICATION Spec
CONSTANTS
  Alice = Alice
  Bob = Bob
  block = block
  junk = junk
  Null = Null
  None = None
  MaxArrived = 2
  MaxSwaps = 1
  Ann <- MCAnn
  NetBlock <- MCNetBlock
  Garbled <- MCGarbled
  Index <- MCIndex
PROPERTIES
  StopReturns
