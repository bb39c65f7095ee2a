CONSTANTS
  j1 = j1
  j2 = j2
  j3 = j3
  j4 = j4
  w1 = w1
  w2 = w2
  NoJob = NoJob
  Jobs = {j1}
  Roots = {j1}
  CallBacks <- MCNoCallBacks
  Workers = {w1}
  NumberOfWorkers = 1
  MaxQueueSize = 1
  MaxTry = 1
  FirstRetryCount <- MCFirstRetryCount
  Faults = {}
SPECIFICATION FairSpec
PROPERTY CancelStops
CHECK_DEADLOCK FALSE
