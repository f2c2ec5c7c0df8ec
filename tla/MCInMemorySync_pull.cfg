SPECIFICATION Spec
CONSTANTS
  a = a
  b = b
  x = x
  Entity = {1, 2}
  NoView = NoView
  NoData = NoData
  Change <- MCChange
  Batch <- MCBatch
PROPERTY
  PullReturnsAll
