\* Every tool over up to two devices of either provider; any call may fail.
SPECIFICATION FairSpec
CONSTANTS
  Tools = {"vfinfo", "trace_verbs", "dump_ops", "resolve_dispatch", "resolve_got"}
  MaxDevices = 2
  MaxGids = 3
  GidLimit = 2
INVARIANTS TypeOK ParentsHeld NothingLeft GidsOfThisPort
PROPERTY Finishes
CHECK_DEADLOCK FALSE
