SPECIFICATION Spec
CONSTANTS
  i1 = i1  p1 = p1  p2 = p2  p3 = p3  v1 = v1  v2 = v2
  Internal <- MCInternal
  Public <- MCPublic
  Visitors <- MCVisitors
  VisitorOf <- MCVisitorOf
  KsEvery = 2
  Window = 3
  Max = 1
  MaxVisitors = 1
  NoRequest = NoRequest
  MaxNow = 4
  MaxFlips = 2
  MaxCrashes = 1
SYMMETRY MCSymmetry
INVARIANTS PublicAskUnderOpenSwitch AllowanceHolds AskedOnce NothingVanishes
