SPECIFICATION Spec
CONSTANTS
  g1 = g1  g2 = g2
  Guests = {g1}
  MaxTurn = 3
  LastRun = 2
  RingMax = 2
  Cap = 1
  MaxDay = 1
  Overlap = TRUE
CHECK_DEADLOCK FALSE
INVARIANTS SeqIncreases CapOverrunIsOne
PROPERTIES NeverAnsweredAgain ImplementsBoard
