SPECIFICATION SpecNested
CONSTANTS
  e1 = e1
  e2 = e2
  position = position
  health = health
  Entity <- MCEntity
  Comp <- MCPosition
  Val = {0, 1}
  Values <- MCPositionValues
  MaxQueue = 2
  MaxRequeue = 2
  MaxDepth = 2
SYMMETRY Sym
INVARIANTS
  FlushInOrder
