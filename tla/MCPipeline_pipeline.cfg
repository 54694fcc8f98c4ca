SPECIFICATION Spec
CONSTANTS
  Workers = {w1, w2}
  RingSlots = 3
  WorkCap = 2
  CollCap = 3
  WriteCap = 1
  Plans <- PlansMixed
  Faults = {"write", "decode"}
CHECK_DEADLOCK FALSE
INVARIANTS
  TypeOK
  InvKept
  SlotKept
  NoResultLost
  SlotsConserved
  OutputOrdered
  DoneMeansComplete
PROPERTIES
  RecycledInOrder
  WritesInOrder
  Drains
  WritesAll
