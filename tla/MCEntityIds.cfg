SPECIFICATION Spec
CONSTANTS
  SlotLimit = 2
  ForeignLimit = 2
  MaxGen = 1
INVARIANTS
  OneEntityPerSlot
