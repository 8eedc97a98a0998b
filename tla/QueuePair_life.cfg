\* Two clients, two lives of a QP; any allocation or command may fail or time out.
SPECIFICATION Spec
CONSTANTS
  Clients = {c1, c2}
  MaxCalls = 7
  MaxCreates = 2
INVARIANTS TypeOK FwRingsLive NoBufferLeak NotAheadOfFirmware
CHECK_DEADLOCK FALSE
