SPECIFICATION Spec
CONSTANTS
  Workers = {w1, w2}
  RingSlots = 2
  WorkCap = 2
  CollCap = 2
  WriteCap = 1
  Plans <- PlansThree
  Faults = {"decode"}
CHECK_DEADLOCK FALSE
PROPERTIES
  Terminates
