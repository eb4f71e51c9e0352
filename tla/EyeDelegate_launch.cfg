SPECIFICATION FairLaunchSpec
CONSTANTS
  MaxText = 2
CHECK_DEADLOCK FALSE
INVARIANTS OneOutcome
PROPERTIES EveryLaunchEnds
