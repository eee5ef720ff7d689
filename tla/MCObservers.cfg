SPECIFICATION Spec
CONSTANTS
  e1 = e1
  e2 = e2
  position = position
  health = health
  all = all
  one = one
  hp = hp
  Entity <- MCEntity
  Comp <- MCComp
  Observer <- MCObserver
  Mask <- MCMask
  Filter <- MCFilter
  Match <- MCMatch
  FieldSub <- MCFieldSub
  Watched = health
  Value = {0, 1}
  MaxCalls = 5
  MaxDepth = 2
SYMMETRY Sym
INVARIANTS
  TypeOK
  MembershipFollowsWorld
  FreedNotRegistered
  FieldSubsUpToDate
PROPERTIES
  EachCalledOnce
CHECK_DEADLOCK FALSE
