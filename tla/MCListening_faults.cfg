CONSTANTS
  l1 = l1
  l2 = l2
  l3 = l3
  t1 = t1
  t2 = t2
  s1 = s1
  s2 = s2
  s3 = s3
  k1 = k1
  k2 = k2
  k3 = k3
  NoBlock = NoBlock
  Logs = {l1, l2, l3}
  LogHeight <- MCLogHeight
  LogKey <- MCLogKey
  Txs = {t1, t2}
  TxHeight <- MCTxHeight
  Subs = {s1, s2, s3}
  SubType <- MCSubType
  SubKey <- MCSubKey
  MaxHead = 5
  FirstHead = 0
  InitHeight = 0
  SafeBlockRange = 1
  GetLogsBatchSize = 1
  ProcessWithinBlocks = 3
  DefaultMaxRetry = 2
  BatchRetry = 2
  Word = 16
  Faults = {"latest", "current", "safeBlock", "chainId", "filterLogs", "fromBlock", "save", "txBlock", "receipt", "crash", "close"}
  Budget = 3
SPECIFICATION FairSpec
INVARIANTS TypeOK NothingSkipped OnlySafeBlocks BatchesFit LogsOnce TxsFollow
PROPERTIES SavedNeverRegresses ImplementsHearing SafeLogsHeard
CHECK_DEADLOCK FALSE
