SPECIFICATION Spec
CONSTANTS
  c1 = c1
  c2 = c2
  t1 = t1
  h1 = h1
  h2 = h2
  Food = Food
  Rent = Rent
  Category = {c1, c2}
  Transaction = {t1}
  Name = {Food, Rent}
  Handler = {h1}
  NoCategory = NoCategory
  Bad = Bad
  NoRow = NoRow
  NotTracked = NotTracked
  Thrown = Thrown
  NoView = NoView
  NoData = NoData
  Change <- SerialChange
  Batch <- SerialBatch
INVARIANTS
  TypeOK
  AuditConsistent
  AckedUpsertsStay
PROPERTIES
  ImplementsLww
  VersionsRise
