SPECIFICATION Spec
CONSTANTS
  Burst = 2  ReadWindow = 3  MinGap = 2
  PerMinute = 2  Minute = 2  PerHour = 3  Hour = 5
  DefaultRetry = 1
  Retries = {0, 3}
  MaxNow = 7  MaxCalls = 6  MaxBackoffs = 2
CHECK_DEADLOCK FALSE
INVARIANTS WindowsHold BackoffHonoured HammerSettles AcquireEnds
