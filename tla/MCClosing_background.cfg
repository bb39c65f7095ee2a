CONSTANTS
  ls1 = ls1
  ls2 = ls2
  c1 = c1
  Listeners = {ls1}
  Closers = {c1}
  Background = TRUE
  BatchSize = 1
  MaxJobs = 1
  Faults = {}
SPECIFICATION FairSpec
PROPERTY CloseReturns
CHECK_DEADLOCK FALSE
