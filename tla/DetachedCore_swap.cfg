SPECIFICATION FairSpec
CONSTANTS
  Streams = {out}
  out = out
  MaxCore = 2
  MaxChunk = 1
  PipeCap = 1
  MaxLine = 2
  QueueCap = 1
  Exits <- SomeExits
  Leftovers = {"ok"}
CHECK_DEADLOCK FALSE
INVARIANTS OneCore ExitCodeIsCores InterruptsInOrder
PROPERTIES SparesWorkingCore TimeoutEnds DirectiveArrives
