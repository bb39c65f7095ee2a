CONSTANTS
  r1 = r1
  r2 = r2
  c1 = c1
  NoJob = NoJob
  Jobs = {r1, r2}
  Callbacks = {}
  WithMethod = {}
  Disabled = {r2}
  Malformed = {}
  Limit = 2
  MaxConsecutive = 1
  MinRequests = 1
  Faults = {}
  Budget = 0
SPECIFICATION FairSpec
PROPERTY ListenersStart
CHECK_DEADLOCK FALSE
