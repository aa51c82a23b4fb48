SPECIFICATION Spec
CONSTANTS
  Alice = Alice
  Bob = Bob
  block = block
  junk = junk
  Null = Null
  None = None
  MaxArrived = 3
  MaxSwaps = 1
  Ann <- MCAnn
  NetBlock <- MCNetBlock
  Garbled <- MCGarbled
  Index <- MCIndex
INVARIANTS
  CallbackValid
  HandledInOrder
  NoAnnLost
PROPERTIES
  SilentAfterStop
  HandledUnlessStopped
  StopReturnsUnlessPushing
