SPECIFICATION LibrarySpec
CONSTANTS
  Parts = {"cthreads", "forklocks", "pools", "sizes"}
  ThreadCproc = {p1, p2, p3}
  Record = {1, 2, 3, 4}
  NO_CTHREAD = NO_CTHREAD
  MaxForks = 3
  MaxUnixForks = 1
  Limits = {0, 2}
  Cproc = {p1, p2, p3}
  NLISTS = 2
  Free = Free
SYMMETRY Symmetry
INVARIANTS NoUseAfterFree JoinGetsItsThread NoCircularWait ChildOwnsCoveredLocks MemoryIsPartitioned BlockFits
