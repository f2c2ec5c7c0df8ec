SPECIFICATION MCSpec
CONSTANTS
  c1 = c1
  c2 = c2
  e1 = e1
  h1 = h1
  Change = {c1, c2}
  Entity = {e1}
  Handler = {h1}
  EntityOf <- MCEntityOf
  PushBatchSize = 2
  AttemptCap = 1
  Backoff <- MCBackoff
  MaxFaults = 1
  MaxLate = 2
  MaxAhead = 0
INVARIANTS
  CloudTypeOK
  RemovedIsStored

  
  
