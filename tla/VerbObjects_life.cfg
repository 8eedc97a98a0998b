\* Every kind of object, two clients, the documented mailbox layout; any allocation or
\* command may fail or time out, and a destruction that failed may be tried again.
SPECIFICATION Spec
CONSTANTS
  Pds = {pd1}
  Cqs = {cq1, cq2}
  Mrs = {mr1}
  Clients = {c1, c2}
  MaxCalls = 4
  Numbers = {0, 1}
  KeySpace = 4
  IdOffset = 8
INVARIANTS TypeOK  FailedCreateFrees
CHECK_DEADLOCK FALSE
