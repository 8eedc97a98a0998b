\* The doorbell record may be seen before the WQE.
SPECIFICATION Spec
CONSTANTS
  Queues = {"sq"}
  Posters = {p1}
  Cnt = 4
  Outstanding = 3
  MaxPosts = 4
  StoresInOrder = FALSE
INVARIANT ReadInOrder
CHECK_DEADLOCK FALSE
