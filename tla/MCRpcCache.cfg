SPECIFICATION UserSpec
CONSTANTS
  Components = {"rpc"}
  Cproc = {p1, p2, p3}
  Condition = {c1, c2}
  NO_CPROC = NO_CPROC
  NoCondition = NoCondition
  condition_yield_limit = 1
  p1 = p1
  p2 = p2
  p3 = p3
  p4 = p4
  NO_CTHREAD = NO_CTHREAD
  Free = Free
  a1 = a1
  a2 = a2
  x1 = x1
  x2 = x2
INVARIANTS NotDispatchedIfCached
CHECK_DEADLOCK FALSE
