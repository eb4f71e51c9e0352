SPECIFICATION FairSpec
CONSTANTS
  init = init  q1 = q1  q2 = q2
  Reqs = {init, q1}
  Handshake = {init}
  NoReq = NoReq
  MaxCore = 2
  MaxStamp = 2
  MaxCrash = 1
CHECK_DEADLOCK FALSE
INVARIANTS Tracked OnceUnlessSentAgain StaleOnlyIfMissed
PROPERTIES EveryLineAnswered EndsAfterEof
