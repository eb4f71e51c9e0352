SPECIFICATION Spec
CONSTANTS
  init = init  q1 = q1  q2 = q2
  Reqs = {init, q1}
  Handshake = {init}
  NoReq = NoReq
  MaxCore = 2
  MaxStamp = 1
  MaxCrash = 0
CHECK_DEADLOCK FALSE
INVARIANT SurvivesSwap
