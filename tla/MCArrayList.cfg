SPECIFICATION FairSpec
CONSTANTS
  a1 = a1
  a2 = a2
  e1 = e1
  e2 = e2
  e3 = e3
  v = v
  w = w
  NULL = NULL
  Arrays <- MCArrays
  Elements <- MCElements
  Values <- MCValues
  MaxIndex = 2
INVARIANTS
  ListsSound
  InsertSucceeds
PROPERTIES
  ImplementsSparseArrays
  CallsReturn
