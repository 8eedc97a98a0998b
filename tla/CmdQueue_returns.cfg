\* Two unsynchronised callers and a firmware that may answer at any time.
SPECIFICATION FairSpec
CONSTANTS
  Callers = {c1, c2}
  MaxCalls = 2
  PollBudget = 1
  TokenSpace = 2
  Punctual = FALSE
PROPERTY EveryCallReturns
CHECK_DEADLOCK FALSE
