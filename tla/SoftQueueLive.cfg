SPECIFICATION FairSpec
CONSTANTS
  Length = 2
  PipeCap = 2
  Producers <- MCProducers
  Listeners <- MCListeners
  Oneshot <- MCOneshot
  Data <- MCData
  NoData = NoData
  Main = Main
  Nobody = Nobody
  PipeFaults = FALSE
  p1 = p1
  p2 = p2
  d1 = d1
  d2 = d2
  l1 = l1
  l2 = l2
PROPERTIES EveryItemServed ImplementsFifo
