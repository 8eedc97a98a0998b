\* One caller; the firmware may answer after the polling loop gave up.
SPECIFICATION Spec
CONSTANTS
  Callers = {c1}
  MaxCalls = 2
  PollBudget = 1
  TokenSpace = 4
  Punctual = FALSE
INVARIANT NoForeignResponse
CHECK_DEADLOCK FALSE
