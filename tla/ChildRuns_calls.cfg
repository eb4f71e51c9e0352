SPECIFICATION FairCallSpec
CONSTANTS
  c1 = c1  c2 = c2  c3 = c3
  Calls <- MCCalls
  Mixes <- MCMixes
INVARIANTS OkIsHonest
PROPERTIES CallsSettle
CHECK_DEADLOCK FALSE
