SPECIFICATION FairSpec
CHECK_DEADLOCK FALSE
CONSTANTS
  a1 = a1  a2 = a2
  Agents = {a1, a2}
  None = None
  MaxJob = 2
  MaxRestarts = 2
  MaxLost = 1
INVARIANTS ReplayAgrees HandedOncePerLife
PROPERTIES ResultStands ImplementsQueue EveryJobEnds
