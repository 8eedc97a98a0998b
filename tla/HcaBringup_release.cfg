\* The ring cannot be mapped for DMA.
SPECIFICATION Spec
CONSTANTS
  Faults = {"ringdma"}
  BootPolls = 2
  MaxLoads = 1
INVARIANT NoOverRelease
CHECK_DEADLOCK FALSE
