SPECIFICATION Spec
CONSTANTS
  SlotLimit = 3
  ForeignLimit = 1
  MaxGen = 1
  MaxNesting = 1
  position = position
  health = health
  Comp <- MCComp
  Val = {0, 1}
INVARIANTS
  TypeOK
  FreeSlotsUnowned
  StaleHandlesRejected
  LocationsAgree
PROPERTIES
  ImplementsStore
  RowsStableDuringWalk
