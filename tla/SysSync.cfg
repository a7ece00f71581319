\* A tick is two milliseconds; words of four values wrap during a wait.
SPECIFICATION SyncSpec
CONSTANTS
  HZ = 1
  Second = 2
  WordMod = 4
  Tasks = {a, b}
  Waiters = {a, b}
  Sems = {s}
  NoSem = NoSem
  Counts = {0, 1}
  MaxCount = 1
  Timeouts = {0, 1}
  Main = a
  MaxDepth = 2
  NoTask = NoTask
  NoMutex = NoMutex
INVARIANTS
  SyncTypeOK
  NoLostUpdate
  SemTimeInRange
PROPERTIES
  SemSpec
  WaitsEnd
