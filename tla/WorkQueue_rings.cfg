\* Both rings, a poster each, over a lap; the doorbell record may overtake the WQE.
SPECIFICATION Spec
CONSTANTS
  Queues = {"sq", "rq"}
  Posters = {p1}
  Cnt = 4
  Outstanding = 3
  MaxPosts = 5
  StoresInOrder = FALSE
INVARIANTS TypeOK SlotsKept ReturnedInRecord
CHECK_DEADLOCK FALSE
