SPECIFICATION Spec
CONSTANTS
  Length = 3
  PipeCap = 3
  Producers <- MCProducers
  Listeners <- MCListeners
  Oneshot <- MCOneshot
  Data <- MCData
  NoData = NoData
  Main = Main
  Nobody = Nobody
  PipeFaults = TRUE
  p1 = p1
  p2 = p2
  d1 = d1
  d2 = d2
  l1 = l1
  l2 = l2
SYMMETRY Sym
INVARIANTS CellsConserved WakeupPerItem NeverBlocksInMutex NoNullItem
PROPERTY OneshotOnce
CHECK_DEADLOCK FALSE
