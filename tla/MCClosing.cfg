CONSTANTS
  ls1 = ls1
  ls2 = ls2
  c1 = c1
  Listeners = {ls1, ls2}
  Closers = {c1}
  Background = FALSE
  BatchSize = 2
  MaxJobs = 3
  Faults = {"skip", "drop", "stuck", "node"}
SPECIFICATION FairSpec
INVARIANTS TypeOK ReturnMeansSettled
PROPERTIES CloseReturnsUnlessHung 
CHECK_DEADLOCK FALSE
