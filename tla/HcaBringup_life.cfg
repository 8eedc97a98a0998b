\* Two loads; every point of start() may fail.
SPECIFICATION FairSpec
CONSTANTS
  Faults = {"super", "cast", "map", "ring", "ringdma", "mbox", "mboxdma"}
  BootPolls = 2
  MaxLoads = 2
INVARIANTS TypeOK ReadyMeansInitialized ReleasedWhenDown PointersLive CommandsHaveQueue
PROPERTY StartReturns
CHECK_DEADLOCK FALSE
