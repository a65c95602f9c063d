CONSTANTS
  g = g
  a = a
  b = b
  c = c
  d = d
  e = e
  Block <- MCBlock
  Genesis = g
  Parent <- MCParent
  Epoch <- MCEpoch
  ExpiredEpoch = 1
  MaxEpoch = 3
SPECIFICATION Spec
INVARIANTS
  TypeOK
  PoolConsistent
  NoStrandedBlock
  ReturnedInOrder
PROPERTIES
  ReturnsWhatItRemoves
  ImplementsOrphanSet
