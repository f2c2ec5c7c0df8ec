SPECIFICATION FairSpec
CONSTANTS
  c1 = c1
  c2 = c2
  c3 = c3
  Change <- MCChange
  PushBatchSize = 1
  AttemptCap = 1
  MaxBackoff = 1
  Backoff <- MCBackoff
  MaxLate = 0
  MaxFaults = 1
PROPERTY
  LeasesEnd
