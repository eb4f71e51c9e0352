SPECIFICATION FairSpec
CONSTANTS
  g1 = g1  g2 = g2
  Guests = {g1}
  MaxTurn = 2
  LastRun = 2
  RingMax = 2
  Cap = 2
  MaxDay = 1
  Overlap = TRUE
CHECK_DEADLOCK FALSE
PROPERTIES EveryTurnSettles
