CONSTANTS
  l1 = l1
  NoBlock = NoBlock
  NoJob = NoJob
  HeardLogs = {l1}
  Height <- MCHeight
  Blocks <- MCBlocks
  FirstBlock = 0
  Jobs <- MCJobs
  CallBacks <- MCCallBacks
  MaxTry = 1
  Faults = {"panic", "late", "save"}
  MaxStarts = 3
  MaxJobs = 4
  Budget = 1
SPECIFICATION FairSpec
INVARIANTS TypeOK AtMostOnce
PROPERTIES ImplementsDelivery Delivered
CHECK_DEADLOCK FALSE
