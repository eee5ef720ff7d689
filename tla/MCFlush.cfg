SPECIFICATION SpecWrites
CONSTANTS
  e1 = e1
  e2 = e2
  position = position
  health = health
  Entity <- MCEntity
  Comp <- MCComps
  Val = {0, 1}
  Values <- MCValues
  MaxQueue = 2
  MaxRequeue = 1
  MaxDepth = 1
SYMMETRY Sym
INVARIANTS
  TypeOK
  FlushInOrder
  
PROPERTIES
  EventsAreNet
