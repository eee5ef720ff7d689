SPECIFICATION Spec
CONSTANTS
  a = a
  b = b
  c = c
  g1 = g1
  g2 = g2
  elsewhere = elsewhere
  System <- MCSystem
  Group <- MCGroup
  Target <- MCTarget
  Name <- MCName
  Interval <- MCInterval
  FlushMode <- MCFlushMode
  Setups <- MCSetups
  MaxEntries <- MCMaxEntries
  MaxDepth = 2
INVARIANTS
  TypeOK
  OrderKeepsConstraints
  CommandsApplied
PROPERTIES
  NobodyStarves
