SPECIFICATION LibrarySpec
CONSTANTS
  Parts = {"cthreads", "forklocks"}
  ThreadCproc = {p1, p2, p3}
  Record = {1, 2, 3}
  NO_CTHREAD = NO_CTHREAD
  MaxForks = 2
  MaxUnixForks = 1
  Limits = {0}
  Cproc = {p1, p2}
  NLISTS = 1
  Free = Free
INVARIANTS ForkChildIsConsistent
