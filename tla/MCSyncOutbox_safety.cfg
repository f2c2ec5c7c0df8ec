SPECIFICATION Spec
CONSTANTS
  c1 = c1
  c2 = c2
  c3 = c3
  Change <- MCChange
  PushBatchSize = 2
  AttemptCap = 2
  MaxBackoff = 2
  Backoff <- MCBackoff
  MaxLate = 3
  MaxFaults = 2
SYMMETRY MCSymmetry
INVARIANTS
  TypeOK
  LeaseAccounted
PROPERTY
  ImplementsAtLeastOnce
