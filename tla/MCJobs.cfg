SPECIFICATION FairSpec
CONSTANTS
  Pids = {1, 2}
  MaxForks = 4
  MaxSignals = 1
  JobSlots = 1
  MaxJobsInArray = 2
  ChildMax = 1
  Signalled = {2}
INVARIANTS TableSound ChildrenKnown WaitReports
PROPERTIES StatusKept WaitsReturn
