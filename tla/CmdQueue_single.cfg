\* One caller at a time and a firmware that answers while it is polled.
SPECIFICATION Spec
CONSTANTS
  Callers = {c1}
  MaxCalls = 5
  PollBudget = 2
  TokenSpace = 3
  Punctual = TRUE
INVARIANTS TypeOK SuccessIsOwn SuccessMeansExecuted ErrorMeansNotExecuted AtMostOnce
PROPERTIES TokenChanges ServiceSpec
CHECK_DEADLOCK FALSE
