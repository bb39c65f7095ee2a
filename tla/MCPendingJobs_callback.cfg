CONSTANTS
  r1 = r1
  r2 = r2
  c1 = c1
  NoJob = NoJob
  Jobs = {c1}
  Callbacks = {c1}
  WithMethod = {c1}
  Disabled = {}
  Malformed = {}
  Limit = 2
  MaxConsecutive = 1
  MinRequests = 1
  Faults = {}
  Budget = 0
SPECIFICATION Spec
INVARIANT NothingLost
CHECK_DEADLOCK FALSE
