SPECIFICATION Spec
CONSTANTS
  e1 = e1
  e2 = e2
  position = position
  health = health
  a0 = a0
  a1 = a1
  a2 = a2
  a3 = a3
  Entity <- MCEntity
  Comp <- MCComp
  Watched <- MCWatched
  QueryAll <- MCQueryAll
  QueryChanged <- MCQueryChanged
  Addr <- MCAddr
  RootAddr = a0
  LogCap = 2
  MaxTick = 5
  MaxQueryTick = 3
  MaxDrops = 1
SYMMETRY Sym
INVARIANTS
  TypeOK
  SteadyTakeExact
  NoLostChangeUnlessDowngraded
  OnlyChangesReported
  LogSorted
  NoLostQueryChange
