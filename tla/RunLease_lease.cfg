SPECIFICATION FairSpec
CONSTANTS
  r1 = r1  r2 = r2  r3 = r3
  Runs = {r1, r2}
  NoRun = NoRun
  StaleAfter = 3
  StatusEvery = 1
  IdleStatusEvery = 2
  HandoffAfter = 3
  MaxRun = 5
  ForceHonoured = FALSE
  MaxFaults = 1
  MaxQueued = 1
INVARIANTS OwnerIsNamed
PROPERTIES ClaimRespectsLiveLease NeverTakesBack SupersededRunDrains ServiceComesBack
