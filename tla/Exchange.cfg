SPECIFICATION Spec
CONSTANTS
  p1 = p1
  p2 = p2
  Callers = {p1, p2}
  Tasks = {t1, t2}
  NoTask = NoTask
  Readers = {r1, r2}
  Buffers = {b1, b2}
  None = None
  Setups <- ClientSetups
  Limited = {p1}
  Chains <- ChainOrders
  Ignored = {t2}
INVARIANTS TypeOK OneHand OwnReply CountsBalance PanicsAnswered NilMeansWhole
CHECK_DEADLOCK FALSE
