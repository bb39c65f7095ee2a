CONSTANTS
  r1 = r1
  r2 = r2
  c1 = c1
  NoJob = NoJob
  Jobs = {r1, r2, c1}
  Callbacks = {c1}
  WithMethod = {c1}
  Disabled = {r2}
  Malformed = {r1}
  Limit = 2
  MaxConsecutive = 2
  MinRequests = 1
  Faults = {"search", "update", "job", "early", "save", "drop"}
  Budget = 1
SPECIFICATION FairSpec
INVARIANTS TypeOK TakenUpOnce LostOnlyAsNamed
PROPERTY ListenersStartUnlessStuck
CHECK_DEADLOCK FALSE
