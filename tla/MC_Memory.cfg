SPECIFICATION MemSpec
CONSTANTS
  NewRows <- SmallRows
  PutKeys <- SmallPutKeys
  PutValues = {1, 2}
  Times = {1, 2}
  MaxId = 3
  MaxWrites = 5
INVARIANTS
  MemTypeOK
  IndexesAgree
  DueExact
  DueWorkExact
PROPERTY
  ImplementsStore
