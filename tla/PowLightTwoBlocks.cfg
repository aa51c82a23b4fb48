SPECIFICATION Spec
CONSTANTS
  Caller = {c1, c2, c3}
  BlockNum = {0, 1, 2}
  OneBlockAtATime = FALSE
  None = None
INVARIANTS
  AnswersRight
