CONSTANTS
  j1 = j1
  j2 = j2
  j3 = j3
  j4 = j4
  w1 = w1
  w2 = w2
  NoJob = NoJob
  Jobs = {j1, j2, j4}
  Roots = {j1, j2, j4}
  CallBacks <- MCNoCallBacks
  Workers = {w1, w2}
  NumberOfWorkers = 2
  MaxQueueSize = 2
  MaxTry = 1
  FirstRetryCount <- MCFirstRetryCount
  Faults = {"panic", "late", "save"}
SPECIFICATION FairSpec
PROPERTIES EveryJobSettles StopsUnlessStuck
CHECK_DEADLOCK FALSE
