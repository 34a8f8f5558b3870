SPECIFICATION ServersSpec
CONSTANTS
  Components = {"default", "inode", "device", "nanny"}
  c1 = c1
  c2 = c2
  i1 = i1
  s1 = s1
  s2 = s2
  k1 = k1
  k2 = k2
  None = None
  Object = {o1, o2}
  Value = {v1, v2}
  NPages = 3
  Sizes <- SomeSizes
  MaxSlots = 4
  MapEntries = 2
  QMax = 1
  Budgets <- DefaultBudgets
  MaxFaults = 1
INVARIANTS PagesAreOwned PageInIsLastPageOut ObjectIsKept NothingIsLost PagerValueIsSetUp PageStructuresAreSafe PageIsOfTheDevice EveryProcessIsKnown
PROPERTIES FairFaultsAreServed FairDescriptorIsReclaimed FairServerRestarts FairSuicideEnds
