SPECIFICATION FairSpec
CONSTANTS
  Pids = {1, 2}
  MaxForks = 3
  MaxSignals = 0
  JobSlots = 1
  MaxJobsInArray = 2
  ChildMax = 1
  Signalled = {}
INVARIANT WaitAnyFindsJob
