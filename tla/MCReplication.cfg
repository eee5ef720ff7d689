SPECIFICATION Spec
CONSTANTS
  e1 = e1
  e2 = e2
  position = position
  health = health
  realtime = realtime
  low = low
  spawnOnly = spawnOnly
  Entity <- MCEntity
  Comp <- MCComp
  Bucket <- MCBucket
  Interval <- MCInterval
  Val = {0, 1}
  ReconcileTicks = 3
  MaxOps = 4
  MaxFlight = 2
INVARIANTS
  TypeOK
  QuietInSync
PROPERTIES
  EventuallyInSyncIfAnyLeft
