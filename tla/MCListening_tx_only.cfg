CONSTANTS
  l1 = l1
  l2 = l2
  l3 = l3
  t1 = t1
  t2 = t2
  s1 = s1
  s2 = s2
  s3 = s3
  k1 = k1
  k2 = k2
  k3 = k3
  NoBlock = NoBlock
  Logs = {l1}
  LogHeight <- MCLogHeight
  LogKey <- MCLogKey
  Txs = {t1}
  TxHeight <- MCTxHeight
  Subs = {s3}
  SubType <- MCSubType
  SubKey <- MCSubKey
  MaxHead = 3
  FirstHead = 1
  InitHeight = 0
  SafeBlockRange = 1
  GetLogsBatchSize = 1
  ProcessWithinBlocks = 0
  DefaultMaxRetry = 2
  BatchRetry = 2
  Word = 16
  Faults = {}
  Budget = 0
SPECIFICATION FairSpec
PROPERTY TxsHeard
CHECK_DEADLOCK FALSE
