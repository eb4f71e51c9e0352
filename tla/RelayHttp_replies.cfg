SPECIFICATION Spec
CONSTANTS
  Requests = {r1, r2, r3}
  Followers = {f1}
  None = None
  MaxRestarts = 1
SYMMETRY Symmetry
INVARIANTS RepliesTellEffects StreamTellsState
CHECK_DEADLOCK FALSE
