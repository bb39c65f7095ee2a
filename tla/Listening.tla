----------------------------- MODULE Listening -----------------------------
(***************************************************************************)
(* One listener's goroutine in the controller (controller.go,              *)
(* startListening and what it calls): it asks the node for the latest      *)
(* block, and while the safe block is ahead of the listener's current      *)
(* block it fetches logs in batches, enqueues a job for each log a         *)
(* subscription asked for, moves the current block, saves it, and then     *)
(* walks the transactions of the same blocks.                              *)
(*                                                                         *)
(* Every call of the node or of the database is a step that may fail (as   *)
(* often as "budget" allows), and between two steps the chain grows, the   *)
(* pool or the listener is closed, or the process crashes and restarts     *)
(* from the saved block.  Block numbers are uint64: they wrap at Word.     *)
(***************************************************************************)
EXTENDS Naturals, FiniteSets

CONSTANTS
  Logs, LogHeight, LogKey,  \* the chain's logs: block, (topic, address)
  Txs, TxHeight,            \* its transactions: block
  Subs, SubType, SubKey,    \* subscriptions: TxEvent or LogEvent, (topic, address)
  MaxHead,                  \* the chain stops growing here (bound)
  FirstHead,                \* its height at the start
  InitHeight,               \* listener.GetInitHeight() at the start
  SafeBlockRange, GetLogsBatchSize, ProcessWithinBlocks,
  DefaultMaxRetry,          \* defaultMaxRetry, 10 in the code
  BatchRetry,               \* the 10 of processBatchLogs
  Word,                     \* 2^64
  Faults,                   \* what may fail, see FaultKinds
  Budget,                   \* how many failures and crashes a run has (bound)
  NoBlock                   \* a nil Block, and no row in processed_block

\* The calls that may fail, a crash, and the closing of listener and pool.
FaultKinds == {"latest", "current", "safeBlock", "chainId", "filterLogs",
               "fromBlock", "save", "txBlock", "receipt", "crash", "close"}

Keys == {SubKey[s] : s \in Subs}

ASSUME ListeningAssumption ==
  /\ LogHeight \in [Logs -> Nat] /\ TxHeight \in [Txs -> Nat]
  /\ SubType \in [Subs -> {"TxEvent", "LogEvent"}]
  /\ Logs \cap Txs = {}
  /\ IsFiniteSet(Subs) /\ IsFiniteSet(Logs) /\ IsFiniteSet(Txs)
  /\ MaxHead \in Nat /\ FirstHead \in 0..MaxHead
  /\ SafeBlockRange \in Nat /\ GetLogsBatchSize \in Nat \ {0}
  /\ {InitHeight, ProcessWithinBlocks} \subseteq 0..(Word - 1)
  /\ DefaultMaxRetry \in Nat \ {0} /\ BatchRetry \in Nat \ {0}
  /\ Word \in Nat /\ MaxHead + SafeBlockRange + GetLogsBatchSize < Word
  /\ Faults \subseteq FaultKinds /\ Budget \in Nat
  /\ NoBlock \notin Nat

VARIABLES
  head,         \* the chain's latest block
  budget,       \* failures and crashes left
  poolClosed,   \* Pool.IsClosed()
  closed,       \* the listener's context is done
  saved,        \* the row of processed_block
  initHeight,   \* the listener's
  currentBlock, \* the listener's, by its height
  pc,           \* where startListening is
  tryCount,     \* its argument
  starting,     \* processBehindBlock was called before the loop of ticks
  latest, height, toHeight, fromHeight, processedToHeight, retry,  \* its locals
  eventIds,     \* per (topic, address): the subscription it is looked up to
  jobs,         \* jobs of the batch that are not enqueued yet
  end,          \* *opts.End
  enqueued,     \* history: how often this process enqueued each job, counted to Twice
  base,         \* history: the block this process has started from
  leftBehind,   \* history: a batch has not moved the current block
  passedOver    \* history: the transactions whose receipts could not be had

chain  == <<head, budget>>
closes == <<poolClosed, closed>>
marks  == <<leftBehind, passedOver>>
locals == <<latest, height, toHeight, fromHeight, processedToHeight, retry,
            eventIds, jobs, end>>
vars == <<chain, closes, saved, initHeight, currentBlock, pc, tryCount, starting,
          locals, enqueued, base, marks>>
-----------------------------------------------------------------------------
\* uint64 subtraction
Minus(a, b) == (a + Word - b) % Word

HasSubscriptionType(type) == \E s \in Subs : SubType[s] = type

\* A job is a subscription and the log or transaction it is invoked for.
LogJobs == {j \in Subs \X Logs : SubKey[j[1]] = LogKey[j[2]]}
TxJobs == {j \in Subs \X Txs : SubType[j[1]] = "TxEvent"}

Twice == 2

Enqueue(new) ==
  enqueued' = [j \in LogJobs \cup TxJobs |->
                 IF j \in new /\ enqueued[j] < Twice THEN enqueued[j] + 1 ELSE enqueued[j]]

\* A call that goes well, and one that fails.
Answers == UNCHANGED budget
Fails(kind) == kind \in Faults /\ budget > 0 /\ budget' = budget - 1

\* Variant: the saved block is only used when the initial height is 0.
GetCurrentBlockInitial(init, b) ==
  LET from == IF saved # NoBlock /\ init = 0 THEN saved ELSE init
  IN \/ /\ currentBlock # NoBlock /\ b = currentBlock
        /\ Answers /\ UNCHANGED base
     \/ /\ currentBlock = NoBlock /\ from <= head /\ b = from
        /\ Answers /\ base' = from
     \/ /\ currentBlock = NoBlock /\ b = NoBlock
        /\ (from > head /\ Answers) \/ Fails("current")
        /\ UNCHANGED base

\* listener.GetCurrentBlock(), which loads the block on its first call: the
\* saved one, or the one at the initial height when that is higher.  It is nil
\* when the node has no such block or fails.
GetCurrentBlock(init, b) ==
  LET from == IF saved # NoBlock /\ saved >= init THEN saved ELSE init
  IN \/ /\ currentBlock # NoBlock /\ b = currentBlock
        /\ Answers /\ UNCHANGED base
     \/ /\ currentBlock = NoBlock /\ from <= head /\ b = from
        /\ Answers /\ base' = from
     \/ /\ currentBlock = NoBlock /\ b = NoBlock
        /\ (from > head /\ Answers) \/ Fails("current")
        /\ UNCHANGED base

\* Where processBehindBlock returns to
Return == pc' = "select"
-----------------------------------------------------------------------------
(* The environment *)

Grow ==
  /\ head < MaxHead /\ head' = head + 1
  /\ UNCHANGED <<budget, closes, saved, initHeight, currentBlock, pc, tryCount,
                 starting, locals, enqueued, base, marks>>

ClosePool ==
  /\ "close" \in Faults /\ ~poolClosed /\ poolClosed' = TRUE
  /\ UNCHANGED <<chain, closed, saved, initHeight, currentBlock, pc, tryCount,
                 starting, locals, enqueued, base, marks>>

CloseListener ==
  /\ "close" \in Faults /\ ~closed /\ closed' = TRUE
  /\ UNCHANGED <<chain, poolClosed, saved, initHeight, currentBlock, pc, tryCount,
                 starting, locals, enqueued, base, marks>>

\* The process crashes, or ends, and is started again: only rows are left.
Restart ==
  /\ Fails("crash")
  /\ poolClosed' = FALSE /\ closed' = FALSE
  /\ initHeight' = InitHeight /\ currentBlock' = NoBlock
  /\ pc' = "start" /\ tryCount' = 0 /\ starting' = TRUE
  /\ latest' = 0 /\ height' = 0 /\ toHeight' = 0 /\ fromHeight' = 0
  /\ processedToHeight' = 0 /\ retry' = 0 /\ end' = 0
  /\ eventIds' = [k \in {} |-> k] /\ jobs' = {}
  /\ enqueued' = [j \in LogJobs \cup TxJobs |-> 0] /\ base' = NoBlock
  /\ leftBehind' = FALSE /\ passedOver' = {}
  /\ UNCHANGED <<head, saved>>
-----------------------------------------------------------------------------
(* startListening *)

\* "maximum try has been reached, close listener"
StartGivesUp ==
  /\ pc = "start" /\ tryCount >= DefaultMaxRetry
  /\ closed' = TRUE /\ pc' = "ended"
  /\ UNCHANGED <<chain, poolClosed, saved, initHeight, currentBlock, tryCount,
                 starting, locals, enqueued, base, marks>>

\* GetLatestBlockHeight failed: startListening(listener, tryCount+1)
StartRetries ==
  /\ pc = "start" /\ tryCount < DefaultMaxRetry
  /\ Fails("latest")
  /\ tryCount' = tryCount + 1
  /\ UNCHANGED <<head, closes, saved, initHeight, currentBlock, pc, starting,
                 locals, enqueued, base, marks>>

\* The height to start from is reset, and blocks behind are processed at once.
StartListening ==
  /\ pc = "start" /\ tryCount < DefaultMaxRetry
  /\ latest' = head
  /\ initHeight' = IF /\ ProcessWithinBlocks > 0
                      /\ Minus(head, initHeight) > ProcessWithinBlocks
                   THEN Minus(head, ProcessWithinBlocks) ELSE initHeight
  /\ GetCurrentBlock(initHeight', currentBlock')
  /\ IF currentBlock' # NoBlock /\ Minus(head, SafeBlockRange) > currentBlock'
     THEN pc' = "safeBlock" /\ height' = currentBlock'
     ELSE pc' = "select" /\ UNCHANGED height
  /\ UNCHANGED <<head, closes, saved, tryCount, starting, toHeight, fromHeight,
                 processedToHeight, retry, eventIds, jobs, end, enqueued, marks>>

\* Variant: the height the round began at is saved, not the current block.
ListenerDoneStale ==
  /\ pc = "select" /\ closed
  /\ pc' = "ended" /\ saved' = height
  /\ UNCHANGED <<chain, closes, initHeight, currentBlock, tryCount, starting,
                 locals, enqueued, base, marks>>

\* case <-listener.Context().Done()
ListenerDone ==
  /\ pc = "select" /\ closed
  /\ pc' = "ended"
  /\ \/ saved' = (IF currentBlock = NoBlock THEN saved ELSE currentBlock) /\ Answers
     \/ UNCHANGED saved /\ Fails("save")
  /\ UNCHANGED <<head, closes, initHeight, currentBlock, tryCount, starting,
                 locals, enqueued, base, marks>>

\* case <-tick.C, the pool is closed
TickPoolClosed ==
  /\ pc = "select" /\ poolClosed
  /\ pc' = "ended"
  /\ UNCHANGED <<chain, closes, saved, initHeight, currentBlock, tryCount,
                 starting, locals, enqueued, base, marks>>

\* case <-tick.C, GetLatestBlockHeight failed
TickFails ==
  /\ pc = "select" /\ ~poolClosed
  /\ Fails("latest")
  /\ UNCHANGED <<head, closes, saved, initHeight, currentBlock, pc, tryCount,
                 starting, locals, enqueued, base, marks>>

\* case <-tick.C, and the latest block is known
Tick ==
  /\ pc = "select" /\ ~poolClosed
  /\ latest' = head
  /\ GetCurrentBlock(initHeight, currentBlock')
  /\ UNCHANGED <<head, closes, saved, initHeight, tryCount, toHeight, fromHeight,
                 processedToHeight, retry, eventIds, jobs, end, enqueued, marks>>

\* "do nothing if currentBlock is within safe block range"
TickIdle ==
  /\ Tick
  /\ currentBlock' # NoBlock /\ currentBlock' >= Minus(head, SafeBlockRange)
  /\ UNCHANGED <<pc, height, starting>>

\* Variant: off by one, the last safe block is left alone.
TickBehindLate ==
  /\ Tick
  /\ currentBlock' # NoBlock /\ currentBlock' + 1 < Minus(head, SafeBlockRange)
  /\ pc' = "safeBlock" /\ height' = currentBlock' /\ starting' = FALSE

\* "if current block is behind safeBlockRange then process without waiting"
TickBehind ==
  /\ Tick
  /\ currentBlock' # NoBlock /\ currentBlock' < Minus(head, SafeBlockRange)
  /\ pc' = "safeBlock" /\ height' = currentBlock' /\ starting' = FALSE

\* GetHeight of a nil block panics: the recover of startListening ends it.
TickPanics ==
  /\ Tick
  /\ currentBlock' = NoBlock
  /\ pc' = "panicked" /\ UNCHANGED <<height, starting>>
-----------------------------------------------------------------------------
(* processBehindBlock and processBatchLogs *)

\* Variant: the latest block is taken for the safe one.
GetSafeBlockLatest ==
  /\ pc = "safeBlock" /\ Minus(latest, SafeBlockRange) <= head
  /\ toHeight' = latest
  /\ processedToHeight' = 0
  /\ pc' = IF HasSubscriptionType("LogEvent") THEN "chainId" ELSE "txs"
  /\ UNCHANGED <<chain, closes, saved, initHeight, currentBlock, tryCount, starting,
                 latest, height, fromHeight, retry, eventIds, jobs, end, enqueued, base, marks>>

\* GetBlock(latest - SafeBlockRange)
GetSafeBlock ==
  /\ pc = "safeBlock" /\ Minus(latest, SafeBlockRange) <= head
  /\ toHeight' = Minus(latest, SafeBlockRange)
  /\ processedToHeight' = 0
  /\ pc' = IF HasSubscriptionType("LogEvent") THEN "chainId" ELSE "txs"
  /\ UNCHANGED <<chain, closes, saved, initHeight, currentBlock, tryCount, starting,
                 latest, height, fromHeight, retry, eventIds, jobs, end, enqueued, base, marks>>

\* It fails: try again to start, or wait for the next tick.
SafeBlockFails ==
  /\ pc = "safeBlock"
  /\ (Minus(latest, SafeBlockRange) > head /\ Answers) \/ Fails("safeBlock")
  /\ IF starting THEN pc' = "start" /\ tryCount' = tryCount + 1
                 ELSE Return /\ UNCHANGED tryCount
  /\ UNCHANGED <<head, closes, saved, initHeight, currentBlock, starting,
                 locals, enqueued, base, marks>>

\* Subscriptions are walked in the order of a map: of those with the same topic
\* and address any one is looked up, for the whole call.
BuildEventIds ==
  /\ pc = "chainId"
  /\ eventIds' \in [Keys -> Subs] /\ \A k \in Keys : SubKey[eventIds'[k]] = k
  /\ fromHeight' = height /\ retry' = 0
  /\ pc' = "filter"
  /\ UNCHANGED <<chain, closes, saved, initHeight, currentBlock, tryCount, starting,
                 latest, height, toHeight, processedToHeight, jobs, end, enqueued, base, marks>>

\* processBatchLogs returns the height it was given.
ChainIdFails ==
  /\ pc = "chainId" /\ Fails("chainId")
  /\ processedToHeight' = height
  /\ pc' = "txs"
  /\ UNCHANGED <<head, closes, saved, initHeight, currentBlock, tryCount, starting,
                 latest, height, toHeight, fromHeight, retry, eventIds, jobs, end,
                 enqueued, base, marks>>

\* Variant: <= for <
BatchEndReaches ==
  IF fromHeight + GetLogsBatchSize <= toHeight THEN fromHeight + GetLogsBatchSize
  ELSE IF fromHeight = toHeight - 1 THEN fromHeight
  ELSE toHeight - 1

\* The last block of the batch
BatchEnd ==
  IF fromHeight + GetLogsBatchSize < toHeight THEN fromHeight + GetLogsBatchSize
  ELSE IF fromHeight = toHeight - 1 THEN fromHeight
  ELSE toHeight - 1

\* Variant: no limit on the retries
MoreLogsForever == fromHeight < toHeight

MoreLogs == fromHeight < toHeight /\ retry # BatchRetry

FilterLogs ==
  /\ pc = "filter" /\ MoreLogs
  /\ end' = BatchEnd
  /\ jobs' = {j \in LogJobs : /\ LogHeight[j[2]] \in fromHeight..BatchEnd
                              /\ eventIds[LogKey[j[2]]] = j[1]}
  /\ pc' = "enqueue"
  /\ UNCHANGED <<chain, closes, saved, initHeight, currentBlock, tryCount, starting,
                 latest, height, toHeight, fromHeight, processedToHeight, retry,
                 eventIds, enqueued, base, marks>>

\* Variant: a failed batch starts the range over.
FilterLogsRestarts ==
  /\ pc = "filter" /\ MoreLogs /\ Fails("filterLogs")
  /\ retry' = retry + 1 /\ fromHeight' = height
  /\ UNCHANGED <<head, closes, saved, initHeight, currentBlock, pc, tryCount, starting,
                 latest, height, toHeight, processedToHeight, eventIds, jobs, end,
                 enqueued, base, marks>>

FilterLogsFails ==
  /\ pc = "filter" /\ MoreLogs /\ Fails("filterLogs")
  /\ retry' = retry + 1
  /\ UNCHANGED <<head, closes, saved, initHeight, currentBlock, pc, tryCount, starting,
                 latest, height, toHeight, fromHeight, processedToHeight, eventIds,
                 jobs, end, enqueued, base, marks>>

EnqueueLog ==
  /\ pc = "enqueue"
  /\ \E j \in jobs : Enqueue({j}) /\ jobs' = jobs \ {j}
  /\ UNCHANGED <<chain, closes, saved, initHeight, currentBlock, pc, tryCount, starting,
                 latest, height, toHeight, fromHeight, processedToHeight, retry,
                 eventIds, end, base, marks>>

\* Variant: the block moves, and is saved, before the jobs are enqueued.
AdvanceBlockEarly ==
  /\ pc = "enqueue"
  /\ fromHeight' = end + 1 /\ currentBlock' = end + 1 /\ saved' = end + 1
  /\ pc' = IF jobs = {} THEN "filter" ELSE pc
  /\ UNCHANGED <<chain, closes, initHeight, tryCount, starting, latest, height, toHeight,
                 processedToHeight, retry, eventIds, jobs, end, enqueued, base, marks>>

\* UpdateCurrentBlock and SaveCurrentBlockToDB; the errors of GetBlock and of the
\* save are ignored, and a nil block leaves the current one.
AdvanceBlock ==
  /\ pc = "enqueue" /\ jobs = {}
  /\ fromHeight' = end + 1
  /\ \/ currentBlock' = end + 1 /\ saved' = end + 1 /\ Answers /\ UNCHANGED leftBehind
     \/ currentBlock' = currentBlock /\ saved' = currentBlock /\ Fails("fromBlock")
        /\ leftBehind' = TRUE
     \/ currentBlock' = end + 1 /\ UNCHANGED <<saved, leftBehind>> /\ Fails("save")
  /\ pc' = "filter"
  /\ UNCHANGED <<head, closes, initHeight, tryCount, starting, latest, height, toHeight,
                 processedToHeight, retry, eventIds, jobs, end, enqueued, base,
                 passedOver>>

\* Variant: a range given up has no transactions.
LogsProcessedGivesUp ==
  /\ pc = "filter" /\ ~MoreLogs
  /\ processedToHeight' = IF retry = BatchRetry THEN 0 ELSE fromHeight
  /\ pc' = "txs"
  /\ UNCHANGED <<chain, closes, saved, initHeight, currentBlock, tryCount, starting,
                 latest, height, toHeight, fromHeight, retry, eventIds, jobs, end,
                 enqueued, base, marks>>

LogsProcessed ==
  /\ pc = "filter" /\ ~MoreLogs
  /\ processedToHeight' = fromHeight
  /\ pc' = "txs"
  /\ UNCHANGED <<chain, closes, saved, initHeight, currentBlock, tryCount, starting,
                 latest, height, toHeight, fromHeight, retry, eventIds, jobs, end,
                 enqueued, base, marks>>

MoreTxs == HasSubscriptionType("TxEvent") /\ height <= processedToHeight

\* GetBlock(height) and processTxs; a transaction whose receipt cannot be had is
\* passed over.  Nothing else can tell the transactions of a block apart in time.
ProcessTxs ==
  /\ pc = "txs" /\ MoreTxs /\ height <= head
  /\ LET found == {j \in TxJobs : TxHeight[j[2]] = height}
     IN \E missed \in SUBSET {j[2] : j \in found} :
          /\ Enqueue({j \in found : j[2] \notin missed})
          /\ passedOver' = passedOver \cup missed
          /\ IF missed = {} THEN Answers ELSE Fails("receipt")
  /\ height' = height + 1
  /\ UNCHANGED <<head, closes, saved, initHeight, currentBlock, pc, tryCount, starting,
                 latest, toHeight, fromHeight, processedToHeight, retry, eventIds,
                 jobs, end, base, leftBehind>>

TxBlockFails ==
  /\ pc = "txs" /\ MoreTxs /\ Fails("txBlock")
  /\ UNCHANGED <<head, closes, saved, initHeight, currentBlock, pc, tryCount, starting,
                 locals, enqueued, base, marks>>

TxsProcessed ==
  /\ pc = "txs" /\ ~MoreTxs
  /\ Return
  /\ UNCHANGED <<chain, closes, saved, initHeight, currentBlock, tryCount, starting,
                 locals, enqueued, base, marks>>

Step ==
  \/ StartGivesUp \/ StartRetries \/ StartListening
  \/ ListenerDone \/ TickPoolClosed \/ TickFails
  \/ TickIdle \/ TickBehind \/ TickPanics
  \/ GetSafeBlock \/ SafeBlockFails \/ BuildEventIds \/ ChainIdFails
  \/ FilterLogs \/ FilterLogsFails \/ EnqueueLog \/ AdvanceBlock \/ LogsProcessed
  \/ ProcessTxs \/ TxBlockFails \/ TxsProcessed
-----------------------------------------------------------------------------
Init ==
  /\ head = FirstHead /\ budget = Budget
  /\ poolClosed = FALSE /\ closed = FALSE
  /\ saved = NoBlock /\ initHeight = InitHeight /\ currentBlock = NoBlock
  /\ pc = "start" /\ tryCount = 0 /\ starting = TRUE
  /\ latest = 0 /\ height = 0 /\ toHeight = 0 /\ fromHeight = 0
  /\ processedToHeight = 0 /\ retry = 0 /\ end = 0
  /\ eventIds = [k \in {} |-> k] /\ jobs = {}
  /\ enqueued = [j \in LogJobs \cup TxJobs |-> 0]
  /\ base = NoBlock /\ leftBehind = FALSE /\ passedOver = {}

Next == Grow \/ ClosePool \/ CloseListener \/ Restart \/ Step

\* The goroutine runs on, and failures end with the budget.  Whether the chain
\* grows, anything is closed or the process crashes is left open.
Spec == Init /\ [][Next]_vars
FairSpec == Spec /\ WF_vars(Step)
-----------------------------------------------------------------------------
(* Properties *)

Heights == 0..(Word - 1)

\* Types; the locals stay below Word.
TypeOK ==
  /\ head \in 0..MaxHead /\ budget \in 0..Budget
  /\ poolClosed \in BOOLEAN /\ closed \in BOOLEAN
  /\ saved \in Heights \cup {NoBlock} /\ currentBlock \in Heights \cup {NoBlock}
  /\ initHeight \in Heights /\ base \in Heights \cup {NoBlock}
  /\ pc \in {"start", "select", "safeBlock", "chainId", "filter", "enqueue", "txs",
             "ended", "panicked"}
  /\ tryCount \in 0..DefaultMaxRetry /\ starting \in BOOLEAN
  /\ {latest, height, toHeight, fromHeight, processedToHeight, end} \subseteq Heights
  /\ retry \in 0..BatchRetry
  /\ jobs \subseteq LogJobs
  /\ enqueued \in [LogJobs \cup TxJobs -> 0..Twice]
  /\ leftBehind \in BOOLEAN /\ passedOver \subseteq Txs

Heard(l) == \E s \in Subs : <<s, l>> \in LogJobs /\ enqueued[<<s, l>>] > 0

\* Every log that a subscription asks for, in the blocks from base up to b
HeardUpTo(b) ==
  b # NoBlock /\ base # NoBlock =>
    \A l \in Logs : /\ LogKey[l] \in Keys
                    /\ base <= LogHeight[l] /\ LogHeight[l] < b
                    => Heard(l)

\* What the listener promises of the logs, without rounds, batches and failures
Promised == INSTANCE Hearing WITH
  HeardLogs <- {l \in Logs : LogKey[l] \in Keys},
  Height    <- [l \in {l \in Logs : LogKey[l] \in Keys} |-> LogHeight[l]],
  Blocks    <- 0..MaxHead,
  current   <- currentBlock,
  heard     <- {l \in Logs : Heard(l)}

\* The goroutine, whatever fails, is closed or crashes, does only what Hearing
\* allows (controller.go:269-493): the other modules can build on that.
ImplementsHearing == Promised!HearingSpec

\* Neither the current block nor the saved one ever passes a log that this
\* process has not enqueued: whatever call of the node or the database fails, and
\* wherever the process before it crashed, a round starts early enough (the block
\* moves after the jobs are enqueued, and never past the batch).
NothingSkipped == HeardUpTo(currentBlock) /\ HeardUpTo(saved)

\* The saved block never goes back, across crashes and failed saves too.
SavedNeverRegresses ==
  [][saved # NoBlock => saved' # NoBlock /\ saved' >= saved]_vars

\* Only logs of blocks below the safe block are enqueued, and transactions of
\* blocks up to it: nothing that a reorganisation may still take back.
OnlySafeBlocks ==
  \A j \in LogJobs \cup TxJobs : enqueued[j] > 0 =>
    IF j[2] \in Logs THEN LogHeight[j[2]] + SafeBlockRange < head
                     ELSE TxHeight[j[2]] + SafeBlockRange <= head

\* The batches of one call cut the blocks from height to the safe block into
\* ranges that are not empty and do not reach it, for any batch size.
BatchesFit ==
  /\ pc \in {"filter", "enqueue"} =>
       height <= fromHeight /\ fromHeight <= toHeight /\ toHeight + SafeBlockRange = latest
  /\ pc = "filter" /\ MoreLogs => fromHeight <= BatchEnd /\ BatchEnd < toHeight
  /\ pc = "enqueue" => fromHeight <= end /\ end < toHeight

\* A process enqueues a log once, for one subscription, unless GetBlock failed
\* after a batch and left the current block behind: no other failure, retry or
\* give-up repeats a batch.
LogsOnce ==
  ~leftBehind => \A j, k \in LogJobs : j[2] = k[2] =>
    enqueued[j] < Twice /\ (j # k => enqueued[j] = 0 \/ enqueued[k] = 0)

\* When a round is over, the transactions of the blocks this process has left
\* behind were enqueued, but for those whose receipts could not be had: the
\* transactions follow the logs however many batches failed.
TxsFollow ==
  pc \in {"select", "start"} /\ currentBlock # NoBlock =>
    \A j \in TxJobs : /\ base <= TxHeight[j[2]] /\ TxHeight[j[2]] < currentBlock
                      /\ j[2] \notin passedOver
                      => enqueued[j] > 0

Over == pc \in {"ended", "panicked"}

\* A log in a safe block is eventually enqueued, unless the listener's goroutine
\* is over or a later start skips its block.
SafeLogsHeard ==
  \A l \in Logs :
    (/\ LogKey[l] \in Keys /\ LogHeight[l] + SafeBlockRange < head
     /\ base # NoBlock /\ base <= LogHeight[l])
    ~> (Heard(l) \/ Over \/ (base # NoBlock /\ base > LogHeight[l]))

\* A transaction in a safe block is eventually enqueued for every subscription
\* that asks for transactions (controller.go:375).
TxsHeard ==
  \A j \in TxJobs :
    (/\ TxHeight[j[2]] + SafeBlockRange < head
     /\ base # NoBlock /\ base <= TxHeight[j[2]])
    ~> (enqueued[j] > 0 \/ Over)
=============================================================================
