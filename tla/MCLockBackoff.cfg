SPECIFICATION FairLockSpec
CONSTANTS
  Components = {"lockclient"}
  NULL = NULL
  k1 = k1
  k2 = k2
  k3 = k3
  Settings <- EqualSizes
  NumPages = 1
  Nobody = Nobody
  p1 = p1
  p2 = p2
  h1 = h1
  h2 = h2
  None = None
  Host = {h1, h2}
  HPMBUF = 3
  MaxRfnm = 2
  MaxHeld = 2
  MaxSnd = 3
  HOSTTIMER = 2
  HOSTDEADTIMER = 1
  Budgets <- ImpBudgets
PROPERTIES BackoffEnds
