SPECIFICATION Spec
CONSTANTS
  top = top  left = left  right = right
  mTop = mTop  mLeft = mLeft  mRight = mRight  listing = listing  search = search
  s1 = s1  noWalk = noWalk
  NoFocus = NoFocus  NoTask = NoTask
  Task <- MCTask
  Path <- MCPath
  PathOf <- MCPathOf
  Below <- MCBelow
  Urgent <- MCUrgent
  Measure <- MCMeasure
  Walk <- MCWalk
  Children <- MCChildren
  Requests <- MCRequests
  MaxWorkers = 2
  MaxThreads = 3
  MaxOps = 3
  UserOps <- AllOps
INVARIANTS
  TypeOK
  LanesMatchFocus
  NoTaskQueuedTwice
  NoLostWakeup
  TaskInOnePlace
  OneThreadPerIndex
PROPERTIES
  ImplementsPool
  EveryTaskServed
  ShutdownJoins
