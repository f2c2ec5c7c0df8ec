SPECIFICATION FairSpec
CONSTANTS
  r1 = r1
  r2 = r2
  Call = {r1, r2}
INVARIANTS
  TypeOK
  AutoRetryArmed
  DialogOnlyWhileLost
PROPERTIES
  ReloadOnlyWhenLost
  Recovers
