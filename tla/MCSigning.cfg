CONSTANTS
  s1 = s1
  s2 = s2
  Senders = {s1, s2}
  Estimates = {13}
  Ratios = {0, 12, 22}
  Percentage = 10
  Word = 256
  PushBudget = 1
SPECIFICATION FairSpec
INVARIANTS TypeOK NeverOvercounts SentWithEnoughGas
PROPERTIES FallsBetweenPushers CountsArrive
CHECK_DEADLOCK FALSE
