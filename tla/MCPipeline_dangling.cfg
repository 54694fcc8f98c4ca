SPECIFICATION SafeSpec
CONSTANTS
  Workers = {w1, w2}
  RingSlots = 2
  WorkCap = 2
  CollCap = 2
  WriteCap = 1
  Plans <- PlansThree
  Faults = {"write"}
CHECK_DEADLOCK FALSE
INVARIANTS
  SlotIntact
