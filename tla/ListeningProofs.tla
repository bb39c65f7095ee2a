--------------------------- MODULE ListeningProofs ---------------------------
(***************************************************************************)
(* One listener for any logs, transactions, subscriptions and chain, any   *)
(* batch size and safe range, and any failures: the inductive invariant of *)
(* Listening and what follows from it.                                     *)
(***************************************************************************)
EXTENDS Listening, TLAPS

InRound == pc \in {"safeBlock", "chainId", "filter", "enqueue", "txs"}
InRange == pc \in {"chainId", "filter", "enqueue", "txs"}
InBatch == pc \in {"filter", "enqueue"}

\* Types.  No block, and no local, is ahead of the chain, but for a height that
\* has walked past the last block.
Typed ==
  /\ head \in 0..MaxHead /\ budget \in 0..Budget
  /\ poolClosed \in BOOLEAN /\ closed \in BOOLEAN
  /\ saved # NoBlock => saved \in 0..head
  /\ currentBlock # NoBlock => currentBlock \in 0..head
  /\ base # NoBlock => base \in 0..head
  /\ initHeight \in Heights
  /\ pc \in {"start", "select", "safeBlock", "chainId", "filter", "enqueue", "txs",
             "ended", "panicked"}
  /\ tryCount \in 0..DefaultMaxRetry /\ starting \in BOOLEAN
  /\ pc = "safeBlock" /\ starting => tryCount < DefaultMaxRetry
  /\ latest \in 0..head /\ toHeight \in 0..head /\ fromHeight \in 0..head
  /\ processedToHeight \in 0..head /\ end \in 0..head /\ height \in 0..(MaxHead + 1)
  /\ retry \in 0..BatchRetry
  /\ jobs \subseteq LogJobs
  /\ enqueued \in [LogJobs \cup TxJobs -> 0..Twice]
  /\ leftBehind \in BOOLEAN /\ passedOver \subseteq Txs

\* The process works from its first block on, and saves what it has worked through.
BlocksOrdered ==
  /\ base = NoBlock <=> currentBlock = NoBlock
  /\ currentBlock # NoBlock =>
       base <= currentBlock /\ (saved # NoBlock => saved <= currentBlock)

\* Where a round is on the chain: from the current block, by batches, to the safe
\* block, and with the transactions behind it.
RoundControl ==
  /\ InRound => currentBlock # NoBlock
  /\ pc \in {"safeBlock", "chainId"} => height = currentBlock
  /\ pc = "safeBlock" => Minus(latest, SafeBlockRange) > height
  /\ InRange => toHeight + SafeBlockRange = latest
  /\ pc = "chainId" => height < toHeight
  /\ InBatch => height <= currentBlock /\ currentBlock <= fromHeight /\ fromHeight <= toHeight
  /\ pc = "enqueue" => fromHeight <= end /\ end < toHeight
  /\ pc = "txs" => /\ processedToHeight <= toHeight
                   /\ currentBlock <= processedToHeight \/ currentBlock <= height

\* The subscription that looks up a log stays the same within a call, and the jobs
\* of a batch are those it is to have.
BatchControl ==
  /\ InBatch => eventIds \in [Keys -> Subs] /\ \A k \in Keys : SubKey[eventIds[k]] = k
  /\ pc = "enqueue" =>
       \A j \in jobs : /\ fromHeight <= LogHeight[j[2]] /\ LogHeight[j[2]] <= end
                       /\ j[1] = eventIds[LogKey[j[2]]]

\* Whatever is behind the batch was heard, and what is in it is heard or a job.
HeardControl ==
  /\ HeardUpTo(currentBlock)
  /\ InBatch => HeardUpTo(fromHeight)
  /\ pc = "enqueue" =>
       \A l \in Logs : /\ LogKey[l] \in Keys
                       /\ fromHeight <= LogHeight[l] /\ LogHeight[l] <= end
                       => Heard(l) \/ <<eventIds[LogKey[l]], l>> \in jobs

\* A log in the batch at hand that is enqueued already, for the only subscription
\* that will get it
JustEnqueued(j) ==
  /\ pc = "enqueue" /\ fromHeight <= LogHeight[j[2]] /\ LogHeight[j[2]] <= end
  /\ j \notin jobs /\ j[1] = eventIds[LogKey[j[2]]]

\* Unless a block was left behind, what is enqueued is behind the current block,
\* or in the batch at hand.
OnceControl ==
  ~leftBehind =>
    /\ InBatch => fromHeight = currentBlock
    /\ \A j \in LogJobs : enqueued[j] > 0 =>
         currentBlock # NoBlock /\ (LogHeight[j[2]] < currentBlock \/ JustEnqueued(j))

TxsUpTo(b) ==
  \A j \in TxJobs : /\ base <= TxHeight[j[2]] /\ TxHeight[j[2]] < b
                    /\ j[2] \notin passedOver
                    => enqueued[j] > 0

\* In a round the transactions are done up to height.
TxsControl == TxsFollow /\ (InRound => TxsUpTo(height))

ListeningInv ==
  /\ Typed /\ BlocksOrdered /\ RoundControl /\ BatchControl
  /\ HeardControl /\ OnlySafeBlocks /\ OnceControl /\ LogsOnce /\ TxsControl
-----------------------------------------------------------------------------
(* uint64 subtraction *)

\* The remainder of a number is itself below the divisor, and less by one divisor
\* below twice the divisor.
LEMMA Remainder ==
  ASSUME NEW w \in Nat, NEW x \in 0..(w - 1)
  PROVE  x % w = x /\ (x + w) % w = x
OBVIOUS

\* The difference is right when it does not wrap around.
LEMMA MinusExact ==
  ASSUME NEW a \in 0..MaxHead, NEW b \in 0..a
  PROVE  Minus(a, b) = a - b
<1>1. a - b \in 0..(Word - 1) /\ a + Word - b = (a - b) + Word
  BY ListeningAssumption
<1> QED BY <1>1, Remainder, ListeningAssumption DEF Minus

\* It is a uint64.
LEMMA MinusType ==
  ASSUME NEW a \in 0..MaxHead, NEW b \in 0..(Word - 1)
  PROVE  Minus(a, b) \in Heights
BY ListeningAssumption DEF Minus, Heights

\* The safe block of a short chain wraps around to one that the chain never has.
LEMMA SafeBlockExact ==
  ASSUME NEW a \in 0..MaxHead, Minus(a, SafeBlockRange) <= MaxHead
  PROVE  SafeBlockRange <= a /\ Minus(a, SafeBlockRange) = a - SafeBlockRange
<1> USE ListeningAssumption
<1>1. ASSUME a < SafeBlockRange
      PROVE  FALSE
  <2>1. a + Word - SafeBlockRange \in 0..(Word - 1) /\ a + Word - SafeBlockRange > MaxHead
    BY <1>1
  <2>2. Minus(a, SafeBlockRange) = a + Word - SafeBlockRange
    BY <2>1, Remainder DEF Minus
  <2> QED BY <2>1, <2>2
<1>2. SafeBlockRange \in 0..a
  BY <1>1
<1> QED BY <1>2, MinusExact
-----------------------------------------------------------------------------
(* The calls *)

\* What GetCurrentBlock does to the current block
Loads ==
  \/ UNCHANGED <<currentBlock, base>>
  \/ /\ currentBlock = NoBlock
     /\ currentBlock' \in 0..head /\ base' = currentBlock'
     /\ saved # NoBlock => saved <= currentBlock'

\* A failing call costs one of the budget.
LEMMA BudgetType ==
  ASSUME Typed, NEW kind, Answers \/ Fails(kind)
  PROVE  budget' \in 0..Budget
BY ListeningAssumption DEF Typed, Answers, Fails

\* The block is loaded once, not below the saved one.
LEMMA GetCurrentBlockLoads ==
  ASSUME Typed, NEW init \in Heights, GetCurrentBlock(init, currentBlock')
  PROVE  Loads /\ budget' \in 0..Budget
<1> USE ListeningAssumption
<1>1. init \in Nat
  BY DEF Heights
<1>2. budget' \in 0..Budget
  BY BudgetType DEF GetCurrentBlock
<1>3. ASSUME currentBlock = NoBlock, currentBlock' # NoBlock
      PROVE  Loads
  BY <1>1, <1>3 DEF GetCurrentBlock, Loads, Typed
<1>4. ASSUME currentBlock # NoBlock \/ currentBlock' = NoBlock
      PROVE  UNCHANGED <<currentBlock, base>>
  BY <1>1, <1>4 DEF GetCurrentBlock, Typed
<1> QED BY <1>2, <1>3, <1>4 DEF Loads

\* A tick reads the head and the current block.
LEMMA TickLoads ==
  ASSUME Typed, Tick
  PROVE  Loads /\ budget' \in 0..Budget
BY GetCurrentBlockLoads DEF Tick, Typed

\* A start may move the initial height first.
LEMMA StartLoads ==
  ASSUME Typed, StartListening
  PROVE  Loads /\ budget' \in 0..Budget /\ initHeight' \in Heights
<1>1. initHeight' \in Heights
  <2>1. Minus(head, ProcessWithinBlocks) \in Heights
    BY MinusType, ListeningAssumption DEF Typed
  <2> QED BY <2>1 DEF StartListening, Typed
<1> QED BY <1>1, GetCurrentBlockLoads DEF StartListening

\* A job enqueued is counted, up to Twice, and no other is.
LEMMA EnqueueCounts ==
  ASSUME Typed, NEW new, Enqueue(new)
  PROVE  /\ enqueued' \in [LogJobs \cup TxJobs -> 0..Twice]
         /\ \A j \in LogJobs \cup TxJobs :
              /\ j \in new => enqueued'[j] > 0
              /\ j \in new /\ enqueued[j] = 0 => enqueued'[j] = 1
              /\ j \notin new => enqueued'[j] = enqueued[j]
              /\ enqueued'[j] >= enqueued[j]
BY DEF Typed, Enqueue, Twice
-----------------------------------------------------------------------------
(* Types *)

\* Steps that change nothing but the chain, the budget, what is closed and the saved
\* block, and may end the goroutine or a round
Quiet ==
  /\ head' \in head..MaxHead /\ budget' \in 0..Budget
  /\ poolClosed' \in BOOLEAN /\ closed' \in BOOLEAN
  /\ \/ pc' = pc
     \/ pc \in {"start", "select"} /\ pc' = "ended"
     \/ pc = "txs" /\ ~MoreTxs /\ pc' = "select"
  /\ saved' = saved \/ (saved' = currentBlock /\ currentBlock # NoBlock)
  /\ UNCHANGED <<initHeight, currentBlock, tryCount, starting, locals, enqueued, base, marks>>

\* The chain grows only.
LEMMA QuietHead ==
  ASSUME Typed, Quiet
  PROVE  /\ head \in Nat /\ head' \in Nat /\ head <= head' /\ head' \in 0..MaxHead
         /\ 0..head \subseteq 0..head'
<1>1. head \in Nat /\ head' \in Nat /\ head <= head' /\ head' \in 0..MaxHead
  BY ListeningAssumption DEF Typed, Quiet
<1> QED BY <1>1

\* Such a step keeps the types.
LEMMA QuietTyped ==
  ASSUME Typed, Quiet
  PROVE  Typed'
<1>1. pc' \in {"start", "select", "safeBlock", "chainId", "filter", "enqueue", "txs",
               "ended", "panicked"}
      /\ (pc' = "safeBlock" /\ starting' => tryCount' < DefaultMaxRetry)
  BY DEF Typed, Quiet
<1>2. /\ saved' # NoBlock => saved' \in 0..head'
      /\ currentBlock' # NoBlock => currentBlock' \in 0..head'
      /\ base' # NoBlock => base' \in 0..head'
  BY QuietHead DEF Typed, Quiet
<1>3. /\ latest' \in 0..head' /\ toHeight' \in 0..head' /\ fromHeight' \in 0..head'
      /\ processedToHeight' \in 0..head' /\ end' \in 0..head' /\ height' \in 0..(MaxHead + 1)
  BY QuietHead DEF Typed, Quiet, locals
<1>4. jobs' \subseteq LogJobs /\ retry' \in 0..BatchRetry
  BY DEF Typed, Quiet, locals
<1>5. leftBehind' \in BOOLEAN /\ passedOver' \subseteq Txs
  BY DEF Typed, Quiet, marks
<1>6. UNCHANGED <<initHeight, currentBlock, tryCount, starting, enqueued, base>>
  BY DEF Quiet
<1> QED BY <1>1, <1>2, <1>3, <1>4, <1>5, <1>6, QuietHead DEF Typed, Quiet

\* The first state, and that after a restart
LEMMA InitTyped == Init => Typed
<1> SUFFICES ASSUME Init
             PROVE  Typed
  OBVIOUS
<1>1. head \in 0..MaxHead /\ initHeight \in Heights /\ budget \in 0..Budget
  BY ListeningAssumption DEF Init, Heights
<1>2. enqueued \in [LogJobs \cup TxJobs -> 0..Twice]
  BY DEF Init, Twice
<1>3. head \in Nat /\ 0 \in 0..head /\ 0 \in 0..(MaxHead + 1)
  BY <1>1, ListeningAssumption
<1>4. 0 \in 0..DefaultMaxRetry /\ 0 < DefaultMaxRetry /\ 0 \in 0..BatchRetry
  BY ListeningAssumption
<1> QED BY <1>1, <1>2, <1>3, <1>4 DEF Init, Typed

\* The other steps read a block, move it or enqueue.
LEMMA Steps ==
  ASSUME Typed, [Next]_vars
  PROVE  \/ Quiet \/ Restart \/ StartRetries \/ StartListening
         \/ TickIdle \/ TickBehind \/ TickPanics
         \/ GetSafeBlock \/ SafeBlockFails \/ BuildEventIds \/ ChainIdFails
         \/ FilterLogs \/ FilterLogsFails \/ EnqueueLog \/ AdvanceBlock \/ LogsProcessed
         \/ ProcessTxs
<1> USE DEF chain, closes
<1>1. head \in head..MaxHead /\ budget \in 0..Budget
      /\ poolClosed \in BOOLEAN /\ closed \in BOOLEAN
  BY ListeningAssumption DEF Typed
<1>2. Grow => Quiet
  <2> SUFFICES ASSUME Grow
               PROVE  Quiet
    OBVIOUS
  <2>1. head' \in head..MaxHead
    BY ListeningAssumption DEF Grow, Typed
  <2> QED BY <1>1, <2>1 DEF Grow, Quiet
<1>3. ClosePool => Quiet
  BY <1>1 DEF ClosePool, Quiet
<1>4. CloseListener => Quiet
  BY <1>1 DEF CloseListener, Quiet
<1>5. StartGivesUp => Quiet
  BY <1>1 DEF StartGivesUp, Quiet
<1>6. ListenerDone => Quiet
  BY <1>1, BudgetType DEF ListenerDone, Quiet
<1>7. TickPoolClosed => Quiet
  BY <1>1 DEF TickPoolClosed, Quiet
<1>8. TickFails => Quiet
  BY <1>1, BudgetType DEF TickFails, Quiet
<1>9. TxBlockFails => Quiet
  BY <1>1, BudgetType DEF TxBlockFails, Quiet
<1>10. TxsProcessed => Quiet
  BY <1>1 DEF TxsProcessed, Return, Quiet
<1>11. UNCHANGED vars => Quiet
  BY <1>1 DEF vars, Quiet
<1> QED BY <1>2, <1>3, <1>4, <1>5, <1>6, <1>7, <1>8, <1>9, <1>10, <1>11 DEF Next, Step

\* Every step keeps the types, and no local gets ahead of the chain.
LEMMA TypedKept ==
  ASSUME ListeningInv, [Next]_vars
  PROVE  Typed'
<1> USE ListeningAssumption DEF ListeningInv, chain, closes, marks, locals
<1>1. CASE Restart
  <2>1. initHeight' \in Heights /\ budget' \in 0..Budget
    BY <1>1, BudgetType DEF Restart, Heights
  <2>2. enqueued' \in [LogJobs \cup TxJobs -> 0..Twice]
    BY <1>1 DEF Restart, Twice
  <2>3. head \in Nat /\ 0 \in 0..head /\ 0 \in 0..(MaxHead + 1)
    BY DEF Typed
  <2>4. 0 \in 0..DefaultMaxRetry /\ 0 < DefaultMaxRetry /\ 0 \in 0..BatchRetry
    OBVIOUS
  <2> QED BY <1>1, <2>1, <2>2, <2>3, <2>4 DEF Restart, Typed
<1>2. CASE StartRetries
  BY <1>2, BudgetType DEF StartRetries, Typed
<1>3. CASE StartListening
  <2>1. Loads /\ budget' \in 0..Budget /\ initHeight' \in Heights
    BY <1>3, StartLoads
  <2>2. height' \in 0..(MaxHead + 1) /\ (currentBlock' # NoBlock => currentBlock' \in 0..head)
        /\ (base' # NoBlock => base' \in 0..head)
    BY <1>3, <2>1 DEF StartListening, Loads, Typed
  <2> QED BY <1>3, <2>1, <2>2 DEF StartListening, Typed
<1>4. CASE TickIdle \/ TickBehind \/ TickPanics
  <2>1. Loads /\ budget' \in 0..Budget /\ Tick
    BY <1>4, TickLoads DEF TickIdle, TickBehind, TickPanics
  <2>2. (currentBlock' # NoBlock => currentBlock' \in 0..head)
        /\ (base' # NoBlock => base' \in 0..head)
    BY <2>1 DEF Loads, Typed
  <2>3. height' \in 0..(MaxHead + 1) /\ starting' \in BOOLEAN
        /\ (pc' = "safeBlock" => ~starting')
        /\ pc' \in {"select", "safeBlock", "panicked"}
    <3>1. CASE TickIdle
      BY <3>1, <2>1 DEF Tick, TickIdle, Typed
    <3>2. CASE TickBehind
      <4>1. currentBlock' \in 0..(MaxHead + 1)
        BY <3>2, <2>2 DEF TickBehind, Typed
      <4> QED BY <3>2, <4>1 DEF TickBehind, Typed
    <3>3. CASE TickPanics
      BY <3>3 DEF TickPanics, Typed
    <3> QED BY <1>4, <3>1, <3>2, <3>3
  <2> QED BY <2>1, <2>2, <2>3 DEF Tick, Typed
<1>5. CASE GetSafeBlock
  <2>1. Minus(latest, SafeBlockRange) \in 0..head
    BY <1>5, MinusType DEF GetSafeBlock, Typed, Heights
  <2> QED BY <1>5, <2>1 DEF GetSafeBlock, Typed
<1>6. CASE SafeBlockFails
  <2>1. budget' \in 0..Budget
    BY <1>6, BudgetType DEF SafeBlockFails
  <2> QED BY <1>6, <2>1 DEF SafeBlockFails, Return, Typed
<1>7. CASE BuildEventIds
  BY <1>7 DEF BuildEventIds, Typed, RoundControl, InRound
<1>8. CASE ChainIdFails
  BY <1>8, BudgetType DEF ChainIdFails, Typed, RoundControl, InRound
<1>9. CASE FilterLogs
  BY <1>9 DEF FilterLogs, MoreLogs, BatchEnd, Typed
<1>10. CASE FilterLogsFails
  BY <1>10, BudgetType DEF FilterLogsFails, MoreLogs, Typed
<1>11. CASE EnqueueLog
  <2>1. PICK j \in jobs : Enqueue({j}) /\ jobs' = jobs \ {j}
    BY <1>11 DEF EnqueueLog
  <2>2. enqueued' \in [LogJobs \cup TxJobs -> 0..Twice]
    BY <2>1, EnqueueCounts
  <2> QED BY <1>11, <2>1, <2>2 DEF EnqueueLog, Typed
<1>12. CASE AdvanceBlock
  <2>1. budget' \in 0..Budget
    BY <1>12, BudgetType DEF AdvanceBlock
  <2>2. end + 1 \in 0..head
    BY <1>12 DEF AdvanceBlock, Typed, RoundControl
  <2>3. currentBlock \in 0..head
    BY <1>12 DEF AdvanceBlock, Typed, RoundControl, InRound
  <2>4. currentBlock' \in 0..head /\ (saved' = saved \/ saved' \in 0..head)
        /\ leftBehind' \in BOOLEAN
    BY <1>12, <2>2, <2>3 DEF AdvanceBlock, Typed
  <2> QED BY <1>12, <2>1, <2>2, <2>4 DEF AdvanceBlock, Typed
<1>13. CASE LogsProcessed
  BY <1>13 DEF LogsProcessed, Typed
<1>14. CASE ProcessTxs
  <2>1. enqueued' \in [LogJobs \cup TxJobs -> 0..Twice] /\ budget' \in 0..Budget
    BY <1>14, EnqueueCounts, BudgetType DEF ProcessTxs
  <2>2. passedOver' \subseteq Txs
    <3>1. passedOver' \subseteq passedOver \cup {j[2] : j \in TxJobs}
      BY <1>14 DEF ProcessTxs
    <3>2. \A j \in TxJobs : j[2] \in Txs
      BY DEF TxJobs
    <3> QED BY <3>1, <3>2 DEF Typed
  <2> QED BY <1>14, <2>1, <2>2 DEF ProcessTxs, Typed
<1>15. CASE Quiet
  BY <1>15, QuietTyped
<1> QED BY <1>1, <1>2, <1>3, <1>4, <1>5, <1>6, <1>7, <1>8, <1>9, <1>10, <1>11, <1>12, <1>13, <1>14, <1>15, Steps
-----------------------------------------------------------------------------
(* The blocks and the place on the chain *)

\* The block moves forward only, by the batch at hand.
LEMMA AdvanceMoves ==
  ASSUME ListeningInv, AdvanceBlock
  PROVE  /\ base \in Nat /\ currentBlock \in Nat /\ fromHeight' = end + 1
         /\ end + 1 \in Nat /\ currentBlock <= end + 1 /\ end + 1 <= toHeight
         /\ currentBlock' \in {currentBlock, end + 1}
         /\ saved' \in {saved, currentBlock'}
         /\ ~leftBehind' => ~leftBehind /\ currentBlock' = end + 1
<1> USE ListeningAssumption DEF ListeningInv
<1>1. currentBlock # NoBlock /\ base # NoBlock /\ currentBlock <= fromHeight
      /\ fromHeight <= end /\ end < toHeight
  BY DEF AdvanceBlock, RoundControl, BlocksOrdered, InRound, InBatch
<1>2. base \in Nat /\ currentBlock \in Nat /\ end \in Nat /\ toHeight \in Nat /\ fromHeight \in Nat
  BY <1>1 DEF Typed
<1>3. end + 1 \in Nat /\ currentBlock <= end + 1 /\ end + 1 <= toHeight
  BY <1>1, <1>2
<1>4. /\ currentBlock' \in {currentBlock, end + 1} /\ saved' \in {saved, currentBlock'}
      /\ ~leftBehind' => ~leftBehind /\ currentBlock' = end + 1
  BY DEF AdvanceBlock
<1> QED BY <1>2, <1>3, <1>4 DEF AdvanceBlock

\* Loading the block gives the process its first one.
LEMMA LoadsOrdered ==
  ASSUME Typed, BlocksOrdered, Loads, saved' = saved
  PROVE  BlocksOrdered'
<1>1. CASE UNCHANGED <<currentBlock, base>>
  BY <1>1 DEF BlocksOrdered
<1>2. CASE currentBlock' \in 0..head /\ base' = currentBlock'
           /\ (saved # NoBlock => saved <= currentBlock')
  <2>1. currentBlock' \in Nat /\ base' # NoBlock /\ currentBlock' # NoBlock
    BY <1>2, ListeningAssumption DEF Typed
  <2> QED BY <1>2, <2>1 DEF BlocksOrdered
<1> QED BY <1>1, <1>2 DEF Loads

\* The current block is neither behind the first nor behind the saved one.
LEMMA BlocksKept ==
  ASSUME ListeningInv, [Next]_vars
  PROVE  BlocksOrdered'
<1> USE DEF ListeningInv
<1>1. CASE Quiet
  <2>1. UNCHANGED <<currentBlock, base>>
    BY <1>1 DEF Quiet
  <2>2. CASE saved' = saved
    BY <2>1, <2>2 DEF BlocksOrdered
  <2>3. CASE saved' = currentBlock /\ currentBlock # NoBlock
    BY <2>1, <2>3, ListeningAssumption DEF BlocksOrdered, Typed
  <2> QED BY <1>1, <2>2, <2>3 DEF Quiet
<1>2. CASE Restart
  BY <1>2 DEF Restart, BlocksOrdered
<1>3. CASE StartListening \/ TickIdle \/ TickBehind \/ TickPanics
  <2>1. Loads /\ saved' = saved
    BY <1>3, StartLoads, TickLoads
       DEF StartListening, TickIdle, TickBehind, TickPanics, Tick
  <2> QED BY <2>1, LoadsOrdered
<1>4. CASE StartRetries \/ GetSafeBlock \/ SafeBlockFails \/ BuildEventIds \/ ChainIdFails
           \/ FilterLogs \/ FilterLogsFails \/ EnqueueLog \/ LogsProcessed \/ ProcessTxs
  <2>1. UNCHANGED <<saved, currentBlock, base>>
    BY <1>4 DEF StartRetries, GetSafeBlock, SafeBlockFails, BuildEventIds, ChainIdFails,
                FilterLogs, FilterLogsFails, EnqueueLog, LogsProcessed, ProcessTxs
  <2> QED BY <2>1 DEF BlocksOrdered
<1>5. CASE AdvanceBlock
  <2>1. base' = base /\ base <= currentBlock /\ (saved # NoBlock => saved <= currentBlock)
    BY <1>5, AdvanceMoves, ListeningAssumption DEF AdvanceBlock, BlocksOrdered
  <2>2. currentBlock' \in Nat /\ currentBlock <= currentBlock' /\ base' \in Nat
    BY <1>5, <2>1, AdvanceMoves
  <2>3. base' <= currentBlock'
    BY <1>5, <2>1, <2>2, AdvanceMoves
  <2>4. saved' # NoBlock => saved' <= currentBlock'
    BY <1>5, <2>1, <2>2, AdvanceMoves, ListeningAssumption DEF Typed
  <2> QED BY <2>2, <2>3, <2>4, ListeningAssumption DEF BlocksOrdered
<1> QED BY <1>1, <1>2, <1>3, <1>4, <1>5, Steps

\* A round goes from the current block to the safe block and stays between them.
LEMMA RoundKept ==
  ASSUME ListeningInv, [Next]_vars
  PROVE  RoundControl'
<1> USE DEF ListeningInv, locals, InRound, InRange, InBatch
<1>1. CASE Quiet
  <2>1. pc' = pc \/ pc' \in {"select", "ended"}
    BY <1>1 DEF Quiet
  <2>2. UNCHANGED <<currentBlock, latest, height, toHeight, fromHeight, processedToHeight, end>>
    BY <1>1 DEF Quiet
  <2> QED BY <2>1, <2>2 DEF RoundControl
<1>2. CASE Restart \/ StartRetries \/ TickIdle \/ TickPanics
  <2>1. pc' \in {"start", "select", "panicked"}
    BY <1>2 DEF Restart, StartRetries, TickIdle, TickPanics, Tick
  <2> QED BY <2>1 DEF RoundControl
<1>3. CASE StartListening
  BY <1>3 DEF StartListening, RoundControl
<1>4. CASE TickBehind
  <2>1. /\ pc' = "safeBlock" /\ height' = currentBlock' /\ latest' = head
        /\ currentBlock' # NoBlock /\ currentBlock' < Minus(head, SafeBlockRange)
    BY <1>4 DEF TickBehind, Tick
  <2> QED BY <2>1 DEF RoundControl
<1>5. CASE GetSafeBlock
  <2>1. /\ toHeight' = latest - SafeBlockRange /\ SafeBlockRange \in 0..latest
        /\ latest \in Nat /\ height < latest - SafeBlockRange
    <3>1. latest \in 0..MaxHead /\ Minus(latest, SafeBlockRange) \in Nat
          /\ Minus(latest, SafeBlockRange) <= MaxHead
      BY <1>5, MinusType, ListeningAssumption DEF GetSafeBlock, Typed, Heights
    <3>2. SafeBlockRange <= latest /\ Minus(latest, SafeBlockRange) = latest - SafeBlockRange
      BY <3>1, SafeBlockExact
    <3>3. SafeBlockRange \in 0..latest /\ latest \in Nat
      BY <3>1, <3>2, ListeningAssumption
    <3>4. toHeight' = latest - SafeBlockRange /\ height < latest - SafeBlockRange
      BY <1>5, <3>2 DEF GetSafeBlock, RoundControl
    <3> QED BY <3>3, <3>4
  <2>2. (latest - SafeBlockRange) + SafeBlockRange = latest
    BY <2>1
  <2>3. toHeight' + SafeBlockRange = latest'
    BY <1>5, <2>1, <2>2 DEF GetSafeBlock
  <2>4. /\ currentBlock' # NoBlock /\ height' = currentBlock' /\ height' < toHeight'
        /\ processedToHeight' = 0
    BY <1>5, <2>1 DEF GetSafeBlock, RoundControl
  <2>5. 0 <= toHeight' /\ currentBlock' <= height'
    BY <1>5, <2>1, <2>4, ListeningAssumption DEF GetSafeBlock, Typed
  <2> QED BY <1>5, <2>3, <2>4, <2>5 DEF GetSafeBlock, RoundControl
<1>6. CASE SafeBlockFails
  BY <1>6 DEF SafeBlockFails, Return, RoundControl
<1>7. CASE BuildEventIds
  <2>1. currentBlock \in Nat /\ height \in Nat /\ toHeight \in Nat
    BY <1>7, ListeningAssumption DEF BuildEventIds, RoundControl, Typed
  <2> QED BY <1>7, <2>1 DEF BuildEventIds, RoundControl
<1>8. CASE ChainIdFails
  <2>1. currentBlock \in Nat /\ height \in Nat /\ toHeight \in Nat
    BY <1>8, ListeningAssumption DEF ChainIdFails, RoundControl, Typed
  <2> QED BY <1>8, <2>1 DEF ChainIdFails, RoundControl
<1>9. CASE FilterLogs
  <2>1. fromHeight \in Nat /\ toHeight \in Nat
    BY <1>9, ListeningAssumption DEF Typed
  <2>2. fromHeight <= end' /\ end' < toHeight
    BY <1>9, <2>1, ListeningAssumption DEF FilterLogs, MoreLogs, BatchEnd
  <2> QED BY <1>9, <2>2 DEF FilterLogs, RoundControl
<1>10. CASE FilterLogsFails \/ EnqueueLog
  <2>1. UNCHANGED <<pc, currentBlock, latest, height, toHeight, fromHeight,
                    processedToHeight, end>>
    BY <1>10 DEF FilterLogsFails, EnqueueLog
  <2> QED BY <2>1 DEF RoundControl
<1>11. CASE AdvanceBlock
  <2>1. /\ currentBlock' \in Nat /\ currentBlock' <= end + 1 /\ fromHeight' = end + 1
        /\ end + 1 <= toHeight /\ currentBlock <= currentBlock' /\ currentBlock \in Nat
    BY <1>11, AdvanceMoves
  <2>2. height <= currentBlock /\ height \in Nat /\ toHeight + SafeBlockRange = latest
    BY <1>11, ListeningAssumption DEF AdvanceBlock, RoundControl, Typed
  <2>3. height <= currentBlock'
    BY <2>1, <2>2
  <2>4. pc' = "filter" /\ UNCHANGED <<height, toHeight, latest>> /\ currentBlock' # NoBlock
    BY <1>11, <2>1, ListeningAssumption DEF AdvanceBlock
  <2> QED BY <2>1, <2>2, <2>3, <2>4 DEF RoundControl
<1>12. CASE LogsProcessed
  BY <1>12 DEF LogsProcessed, RoundControl
<1>13. CASE ProcessTxs
  <2>1. currentBlock \in Nat /\ height \in Nat
    BY <1>13, ListeningAssumption DEF ProcessTxs, RoundControl, Typed
  <2>2. currentBlock <= processedToHeight \/ currentBlock <= height'
    BY <1>13, <2>1 DEF ProcessTxs, RoundControl
  <2> QED BY <1>13, <2>2 DEF ProcessTxs, RoundControl
<1> QED BY <1>1, <1>2, <1>3, <1>4, <1>5, <1>6, <1>7, <1>8, <1>9, <1>10, <1>11, <1>12, <1>13, Steps

\* A batch keeps the subscriptions it has looked up.
LEMMA BatchKept ==
  ASSUME ListeningInv, [Next]_vars
  PROVE  BatchControl'
<1> USE DEF ListeningInv, locals, InBatch
<1>1. CASE pc' \notin {"filter", "enqueue"}
  BY <1>1 DEF BatchControl
<1>2. CASE Quiet
  <2>1. pc' = pc \/ pc' \in {"select", "ended"}
    BY <1>2 DEF Quiet
  <2>2. UNCHANGED <<eventIds, jobs, fromHeight, end>>
    BY <1>2 DEF Quiet
  <2> QED BY <2>1, <2>2 DEF BatchControl
<1>3. CASE BuildEventIds
  BY <1>3 DEF BuildEventIds, BatchControl
<1>4. CASE FilterLogs
  <2>1. \A j \in jobs' : /\ fromHeight <= LogHeight[j[2]] /\ LogHeight[j[2]] <= end'
                         /\ j[1] = eventIds[LogKey[j[2]]]
    BY <1>4 DEF FilterLogs
  <2>2. pc = "filter" /\ UNCHANGED <<eventIds, fromHeight>>
    BY <1>4 DEF FilterLogs
  <2> QED BY <2>1, <2>2 DEF BatchControl
<1>5. CASE FilterLogsFails
  BY <1>5 DEF FilterLogsFails, BatchControl
<1>6. CASE EnqueueLog
  <2>1. jobs' \subseteq jobs /\ pc = "enqueue" /\ UNCHANGED <<pc, eventIds, fromHeight, end>>
    BY <1>6 DEF EnqueueLog
  <2> QED BY <2>1 DEF BatchControl
<1>7. CASE AdvanceBlock
  BY <1>7 DEF AdvanceBlock, BatchControl
<1>8. CASE \/ Restart \/ StartRetries \/ StartListening \/ TickIdle \/ TickBehind \/ TickPanics
           \/ GetSafeBlock \/ SafeBlockFails \/ ChainIdFails \/ LogsProcessed \/ ProcessTxs
  BY <1>8, <1>1
     DEF Restart, StartRetries, StartListening, Tick, TickIdle, TickBehind, TickPanics,
         GetSafeBlock, SafeBlockFails, Return, ChainIdFails, LogsProcessed, ProcessTxs
<1> QED BY <1>2, <1>3, <1>4, <1>5, <1>6, <1>7, <1>8, Steps
-----------------------------------------------------------------------------
(* What is heard *)

\* What is heard stays heard until the process ends.
LEMMA HeardStays ==
  ASSUME Typed, \A j \in LogJobs : enqueued'[j] >= enqueued[j],
         enqueued' \in [LogJobs \cup TxJobs -> 0..Twice],
         NEW l \in Logs, Heard(l)
  PROVE  Heard(l)'
<1>1. PICK s \in Subs : <<s, l>> \in LogJobs /\ enqueued[<<s, l>>] > 0
  BY DEF Heard
<1>2. enqueued[<<s, l>>] \in Nat /\ enqueued'[<<s, l>>] \in Nat
  BY <1>1 DEF Typed, Twice
<1>3. enqueued'[<<s, l>>] > 0
  BY <1>1, <1>2
<1> QED BY <1>1, <1>3 DEF Heard

\* All steps but a restart let the counts grow.
LEMMA CountsGrow ==
  ASSUME ListeningInv, [Next]_vars, ~Restart
  PROVE  \A j \in LogJobs \cup TxJobs : enqueued'[j] >= enqueued[j]
<1> USE DEF ListeningInv, locals
<1>1. \A j \in LogJobs \cup TxJobs : enqueued[j] \in Nat
  BY DEF Typed, Twice
<1>2. CASE Quiet \/ StartRetries \/ StartListening \/ TickIdle \/ TickBehind \/ TickPanics
  <2>1. enqueued' = enqueued
    BY <1>2 DEF Quiet, StartRetries, StartListening, Tick, TickIdle, TickBehind, TickPanics
  <2> QED BY <1>1, <2>1
<1>3. CASE GetSafeBlock \/ SafeBlockFails \/ BuildEventIds \/ ChainIdFails
           \/ FilterLogs \/ FilterLogsFails \/ AdvanceBlock \/ LogsProcessed
  <2>1. enqueued' = enqueued
    BY <1>3 DEF GetSafeBlock, SafeBlockFails, BuildEventIds, ChainIdFails,
                FilterLogs, FilterLogsFails, AdvanceBlock, LogsProcessed
  <2> QED BY <1>1, <2>1
<1>4. CASE EnqueueLog
  BY <1>4, EnqueueCounts DEF EnqueueLog
<1>5. CASE ProcessTxs
  BY <1>5, EnqueueCounts DEF ProcessTxs
<1> QED BY <1>2, <1>3, <1>4, <1>5, Steps

\* The part of HeardControl that is about the blocks behind
LEMMA HeardBehind ==
  ASSUME ListeningInv, [Next]_vars, ~Restart, Typed',
         NEW b, HeardUpTo(b), base' = base
  PROVE  base' # NoBlock /\ b # NoBlock =>
           \A l \in Logs : /\ LogKey[l] \in Keys
                           /\ base' <= LogHeight[l] /\ LogHeight[l] < b
                           => Heard(l)'
<1> SUFFICES ASSUME base # NoBlock, b # NoBlock, NEW l \in Logs, LogKey[l] \in Keys,
                    base <= LogHeight[l], LogHeight[l] < b
             PROVE  Heard(l)'
  OBVIOUS
<1>1. Heard(l)
  BY DEF HeardUpTo
<1>2. enqueued' \in [LogJobs \cup TxJobs -> 0..Twice]
  BY DEF Typed
<1> QED BY <1>1, <1>2, CountsGrow, HeardStays DEF ListeningInv

\* The current block passes a log only after it was enqueued.
LEMMA HeardKept ==
  ASSUME ListeningInv, [Next]_vars, Typed'
  PROVE  HeardControl'
<1> USE DEF locals, InBatch
<1>1. CASE Restart
  BY <1>1 DEF Restart, HeardControl, HeardUpTo
<1> SUFFICES ASSUME ~Restart
             PROVE  HeardControl'
  BY <1>1
<1>2. CASE StartListening \/ TickIdle \/ TickBehind \/ TickPanics
  <2>1. Loads /\ pc' \notin {"filter", "enqueue"}
    BY <1>2, StartLoads, TickLoads
       DEF StartListening, TickIdle, TickBehind, TickPanics, Tick, ListeningInv
  <2>2. CASE UNCHANGED <<currentBlock, base>>
    BY <2>1, <2>2, HeardBehind DEF HeardControl, HeardUpTo, ListeningInv
  <2>3. CASE base' = currentBlock' /\ currentBlock' \in 0..head
    <3>1. ASSUME NEW l \in Logs, base' <= LogHeight[l], LogHeight[l] < currentBlock'
          PROVE  FALSE
      BY <2>3, <3>1, ListeningAssumption DEF ListeningInv, Typed
    <3> QED BY <2>1, <3>1 DEF HeardControl, HeardUpTo
  <2> QED BY <2>1, <2>2, <2>3 DEF Loads
<1>3. CASE \/ StartRetries \/ GetSafeBlock \/ SafeBlockFails \/ ChainIdFails
           \/ LogsProcessed \/ ProcessTxs
  <2>1. UNCHANGED <<currentBlock, base>> /\ pc' \notin {"filter", "enqueue"}
    BY <1>3 DEF StartRetries, GetSafeBlock, SafeBlockFails, Return, ChainIdFails,
                LogsProcessed, ProcessTxs
  <2> QED BY <2>1, HeardBehind DEF HeardControl, HeardUpTo, ListeningInv
<1>4. CASE Quiet
  <2>1. UNCHANGED <<currentBlock, base, fromHeight, end, jobs, eventIds, enqueued>>
        /\ (pc' = pc \/ pc' \in {"select", "ended"})
    BY <1>4 DEF Quiet
  <2> QED BY <2>1 DEF HeardControl, HeardUpTo, Heard, ListeningInv
<1>5. CASE BuildEventIds
  <2>1. UNCHANGED <<currentBlock, base, enqueued>> /\ pc' = "filter" /\ fromHeight' = currentBlock
    BY <1>5 DEF BuildEventIds, RoundControl, ListeningInv
  <2> QED BY <2>1 DEF HeardControl, HeardUpTo, Heard, ListeningInv
<1>6. CASE FilterLogs
  <2>1. UNCHANGED <<currentBlock, base, enqueued, fromHeight, eventIds>> /\ pc' = "enqueue"
        /\ pc = "filter"
    BY <1>6 DEF FilterLogs
  <2>2. ASSUME NEW l \in Logs, LogKey[l] \in Keys,
               fromHeight <= LogHeight[l], LogHeight[l] <= end'
        PROVE  <<eventIds[LogKey[l]], l>> \in jobs'
    <3>1. eventIds[LogKey[l]] \in Subs /\ SubKey[eventIds[LogKey[l]]] = LogKey[l]
      BY <2>1, <2>2 DEF BatchControl, ListeningInv
    <3>2. <<eventIds[LogKey[l]], l>> \in LogJobs
      BY <3>1 DEF LogJobs
    <3>3. LogHeight[l] \in fromHeight..end' /\ end' = BatchEnd
      BY <1>6, <2>2, ListeningAssumption DEF FilterLogs, Typed, ListeningInv
    <3> QED BY <1>6, <3>2, <3>3 DEF FilterLogs
  <2>3. HeardUpTo(currentBlock)' /\ HeardUpTo(fromHeight)'
    BY <2>1 DEF HeardControl, HeardUpTo, Heard, ListeningInv
  <2> QED BY <2>1, <2>2, <2>3 DEF HeardControl
<1>7. CASE FilterLogsFails
  <2>1. UNCHANGED <<currentBlock, base, enqueued, fromHeight, pc>> /\ pc = "filter"
    BY <1>7 DEF FilterLogsFails
  <2> QED BY <2>1 DEF HeardControl, HeardUpTo, Heard, ListeningInv
<1>8. CASE EnqueueLog
  <2>1. UNCHANGED <<currentBlock, base, fromHeight, end, eventIds, pc>> /\ pc = "enqueue"
    BY <1>8 DEF EnqueueLog
  <2>2. HeardUpTo(currentBlock)' /\ HeardUpTo(fromHeight)'
    BY <2>1, HeardBehind DEF HeardControl, HeardUpTo, ListeningInv
  <2>3. ASSUME NEW l \in Logs, LogKey[l] \in Keys,
               fromHeight <= LogHeight[l], LogHeight[l] <= end
        PROVE  Heard(l)' \/ <<eventIds[LogKey[l]], l>> \in jobs'
    <3>1. CASE Heard(l)
      BY <3>1, CountsGrow, HeardStays DEF Typed, ListeningInv
    <3>2. CASE <<eventIds[LogKey[l]], l>> \in jobs \ jobs'
      <4>1. PICK j \in jobs : Enqueue({j}) /\ jobs' = jobs \ {j}
        BY <1>8 DEF EnqueueLog
      <4>2. j = <<eventIds[LogKey[l]], l>> /\ j \in LogJobs
        BY <3>2, <4>1 DEF Typed, ListeningInv
      <4>3. enqueued'[j] > 0
        BY <4>1, <4>2, EnqueueCounts DEF ListeningInv
      <4>4. eventIds[LogKey[l]] \in Subs
        BY <4>2 DEF LogJobs
      <4> QED BY <4>2, <4>3, <4>4 DEF Heard
    <3> QED BY <2>1, <2>3, <3>1, <3>2 DEF HeardControl, ListeningInv
  <2> QED BY <2>1, <2>2, <2>3 DEF HeardControl
<1>9. CASE AdvanceBlock
  <2>1. /\ base' = base /\ base # NoBlock /\ enqueued' = enqueued /\ pc' = "filter"
        /\ pc = "enqueue" /\ jobs = {}
        /\ fromHeight' = end + 1 /\ end \in Nat /\ fromHeight \in Nat
        /\ currentBlock' \in Nat /\ currentBlock' <= end + 1
    <3>1. end \in Nat /\ fromHeight \in Nat
      BY ListeningAssumption DEF Typed, ListeningInv
    <3>2. /\ base \in Nat /\ currentBlock \in Nat /\ end + 1 \in Nat
          /\ currentBlock <= end + 1 /\ currentBlock' \in {currentBlock, end + 1}
      BY <1>9, AdvanceMoves
    <3> QED BY <1>9, <3>1, <3>2, ListeningAssumption DEF AdvanceBlock
  <2>2. ASSUME NEW l \in Logs, LogKey[l] \in Keys, base <= LogHeight[l],
               LogHeight[l] < end + 1
        PROVE  Heard(l)
    <3>1. LogHeight[l] \in Nat
      BY ListeningAssumption
    <3>2. CASE LogHeight[l] < fromHeight
      BY <2>1, <2>2, <3>2, ListeningAssumption DEF HeardControl, HeardUpTo, ListeningInv
    <3>3. CASE fromHeight <= LogHeight[l] /\ LogHeight[l] <= end
      BY <2>1, <2>2, <3>3 DEF HeardControl, ListeningInv
    <3> QED BY <2>1, <2>2, <3>1, <3>2, <3>3
  <2>3. ASSUME NEW l \in Logs, LogKey[l] \in Keys, base <= LogHeight[l],
               LogHeight[l] < currentBlock'
        PROVE  Heard(l)
    BY <2>1, <2>2, <2>3, ListeningAssumption
  <2>4. \A l \in Logs : Heard(l)' <=> Heard(l)
    BY <2>1 DEF Heard
  <2> QED BY <2>1, <2>2, <2>3, <2>4 DEF HeardControl, HeardUpTo
<1> QED BY <1>2, <1>3, <1>4, <1>5, <1>6, <1>7, <1>8, <1>9, Steps DEF ListeningInv
-----------------------------------------------------------------------------
(* Safe blocks *)

\* The logs of a batch are below the safe block.
LEMMA BatchIsSafe ==
  ASSUME ListeningInv, pc = "enqueue", NEW j \in jobs
  PROVE  j \in LogJobs /\ j[2] \in Logs /\ LogHeight[j[2]] + SafeBlockRange < head
<1> USE ListeningAssumption DEF ListeningInv, InRange
<1>1. j \in LogJobs /\ j[2] \in Logs
  BY DEF Typed, LogJobs
<1>2. LogHeight[j[2]] <= end /\ end < toHeight /\ toHeight + SafeBlockRange = latest
  BY DEF BatchControl, RoundControl
<1>3. /\ LogHeight[j[2]] \in Nat /\ end \in Nat /\ toHeight \in Nat
      /\ latest \in Nat /\ latest <= head /\ head \in Nat
  BY <1>1 DEF Typed
<1> QED BY <1>1, <1>2, <1>3

\* The transactions are those of blocks up to the safe one.
LEMMA TxsAreSafe ==
  ASSUME ListeningInv, pc = "txs", MoreTxs, NEW j \in TxJobs, TxHeight[j[2]] = height
  PROVE  j[2] \notin Logs /\ TxHeight[j[2]] + SafeBlockRange <= head
<1> USE ListeningAssumption DEF ListeningInv, InRange
<1>1. j[2] \in Txs /\ j[2] \notin Logs
  BY DEF TxJobs
<1>2. height <= processedToHeight /\ processedToHeight <= toHeight
      /\ toHeight + SafeBlockRange = latest
  BY DEF MoreTxs, RoundControl
<1>3. /\ height \in Nat /\ processedToHeight \in Nat /\ toHeight \in Nat
      /\ latest \in Nat /\ latest <= head /\ head \in Nat
  BY DEF Typed
<1> QED BY <1>1, <1>2, <1>3

\* What was safe stays so, as the chain only grows.
LEMMA SafeKept ==
  ASSUME ListeningInv, [Next]_vars, Typed'
  PROVE  OnlySafeBlocks'
<1> USE ListeningAssumption DEF locals, chain
<1>1. CASE Restart
  BY <1>1 DEF Restart, OnlySafeBlocks
<1>2. ASSUME ~Restart
      PROVE  head \in Nat /\ head' \in Nat /\ head <= head'
  <2>1. head' = head \/ Quiet
    BY <1>2, Steps
       DEF ListeningInv, StartRetries, StartListening, Tick, TickIdle, TickBehind, TickPanics,
           GetSafeBlock, SafeBlockFails, BuildEventIds, ChainIdFails, FilterLogs,
           FilterLogsFails, EnqueueLog, AdvanceBlock, LogsProcessed, ProcessTxs
  <2> QED BY <2>1, QuietHead DEF ListeningInv, Typed
<1>3. ASSUME ~Restart, NEW j \in LogJobs \cup TxJobs, enqueued[j] > 0
      PROVE  IF j[2] \in Logs THEN LogHeight[j[2]] + SafeBlockRange < head'
                              ELSE TxHeight[j[2]] + SafeBlockRange <= head'
  <2>1. CASE j[2] \in Logs
    BY <1>2, <1>3, <2>1 DEF OnlySafeBlocks, ListeningInv
  <2>2. CASE j[2] \notin Logs
    <3>1. TxHeight[j[2]] \in Nat
      BY <1>3, <2>2 DEF LogJobs, TxJobs
    <3> QED BY <1>2, <1>3, <2>2, <3>1 DEF OnlySafeBlocks, ListeningInv
  <2> QED BY <2>1, <2>2
<1>4. CASE EnqueueLog
  <2> SUFFICES ASSUME ~Restart, NEW j \in LogJobs \cup TxJobs, enqueued'[j] > 0
               PROVE  IF j[2] \in Logs THEN LogHeight[j[2]] + SafeBlockRange < head'
                                       ELSE TxHeight[j[2]] + SafeBlockRange <= head'
    BY <1>1 DEF OnlySafeBlocks
  <2>1. PICK new \in jobs : Enqueue({new})
    BY <1>4 DEF EnqueueLog
  <2>2. CASE j = new
    BY <1>4, <2>2, BatchIsSafe DEF EnqueueLog
  <2>3. CASE j # new
    BY <1>3, <2>1, <2>3, EnqueueCounts DEF ListeningInv
  <2> QED BY <2>2, <2>3
<1>5. CASE ProcessTxs
  <2> SUFFICES ASSUME ~Restart, NEW j \in LogJobs \cup TxJobs, enqueued'[j] > 0
               PROVE  IF j[2] \in Logs THEN LogHeight[j[2]] + SafeBlockRange < head'
                                       ELSE TxHeight[j[2]] + SafeBlockRange <= head'
    BY <1>1 DEF OnlySafeBlocks
  <2>1. PICK new \in SUBSET {k \in TxJobs : TxHeight[k[2]] = height} : Enqueue(new)
    BY <1>5 DEF ProcessTxs
  <2>2. CASE j \in new
    BY <1>5, <2>1, <2>2, TxsAreSafe DEF ProcessTxs
  <2>3. CASE j \notin new
    BY <1>3, <2>1, <2>3, EnqueueCounts DEF ListeningInv
  <2> QED BY <2>2, <2>3
<1>6. CASE ~EnqueueLog /\ ~ProcessTxs /\ ~Restart
  <2>1. enqueued' = enqueued
    BY <1>6, Steps
       DEF ListeningInv, Quiet, StartRetries, StartListening, Tick, TickIdle, TickBehind,
           TickPanics, GetSafeBlock, SafeBlockFails, BuildEventIds, ChainIdFails, FilterLogs,
           FilterLogsFails, AdvanceBlock, LogsProcessed
  <2> QED BY <1>3, <1>6, <2>1 DEF OnlySafeBlocks
<1> QED BY <1>1, <1>4, <1>5, <1>6
-----------------------------------------------------------------------------
(* Logs once *)

\* Jobs of transactions are not jobs of logs.
LEMMA JobsDisjoint ==
  ASSUME NEW j \in LogJobs, NEW k \in TxJobs
  PROVE  j # k
BY ListeningAssumption DEF LogJobs, TxJobs

\* A log's job in the batch is the first for that log.
LEMMA NotYetEnqueued ==
  ASSUME ListeningInv, ~leftBehind, pc = "enqueue",
         NEW new \in jobs, NEW j \in LogJobs, j[2] = new[2]
  PROVE  enqueued[j] = 0
<1> USE ListeningAssumption DEF ListeningInv, InBatch
<1>1. new \in LogJobs /\ LogHeight[new[2]] \in Nat
  BY DEF Typed, LogJobs
<1>2. /\ fromHeight <= LogHeight[new[2]] /\ LogHeight[new[2]] <= end
      /\ new[1] = eventIds[LogKey[new[2]]] /\ fromHeight = currentBlock
  BY DEF BatchControl, OnceControl
<1>3. currentBlock \in Nat
  BY <1>2 DEF Typed
<1>4. ~ (LogHeight[j[2]] < currentBlock)
  BY <1>1, <1>2, <1>3
<1>5. ~ JustEnqueued(j)
  <2> SUFFICES ASSUME JustEnqueued(j)
               PROVE  FALSE
    OBVIOUS
  <2>1. j[1] = new[1] /\ j \notin jobs
    BY <1>2 DEF JustEnqueued
  <2>2. j = new
    BY <1>1, <2>1 DEF LogJobs
  <2> QED BY <2>1, <2>2
<1>6. enqueued[j] \in Nat
  BY DEF Typed, Twice
<1> QED BY <1>4, <1>5, <1>6 DEF OnceControl

\* The block a process loads is its first: nothing is enqueued yet.
LEMMA OnceLoads ==
  ASSUME ListeningInv, Loads, UNCHANGED <<enqueued, leftBehind>>,
         pc # "enqueue", pc' \notin {"filter", "enqueue"}
  PROVE  OnceControl'
<1>1. CASE currentBlock' = currentBlock
  BY <1>1 DEF ListeningInv, OnceControl, JustEnqueued, InBatch
<1>2. CASE currentBlock = NoBlock
  BY <1>2 DEF ListeningInv, OnceControl, InBatch
<1> QED BY <1>1, <1>2 DEF Loads

\* No log is enqueued again unless a block was left behind.
LEMMA OnceKept ==
  ASSUME ListeningInv, [Next]_vars, Typed'
  PROVE  OnceControl' /\ LogsOnce'
<1> USE DEF locals, marks, InBatch
<1>1. CASE Restart
  BY <1>1 DEF Restart, OnceControl, LogsOnce, Twice
<1>2. CASE StartListening \/ TickIdle \/ TickBehind \/ TickPanics
  <2>1. /\ Loads /\ UNCHANGED <<enqueued, leftBehind>>
        /\ pc # "enqueue" /\ pc' \notin {"filter", "enqueue"}
    BY <1>2, StartLoads, TickLoads
       DEF StartListening, TickIdle, TickBehind, TickPanics, Tick, ListeningInv
  <2>2. LogsOnce'
    BY <2>1 DEF LogsOnce, ListeningInv
  <2> QED BY <2>1, <2>2, OnceLoads
<1>3. CASE StartRetries \/ GetSafeBlock \/ SafeBlockFails \/ ChainIdFails \/ LogsProcessed
  <2>1. /\ UNCHANGED <<currentBlock, enqueued, leftBehind>>
        /\ pc # "enqueue" /\ pc' \notin {"filter", "enqueue"}
    BY <1>3 DEF StartRetries, GetSafeBlock, SafeBlockFails, Return, ChainIdFails, LogsProcessed
  <2> QED BY <2>1 DEF OnceControl, JustEnqueued, LogsOnce, ListeningInv
<1>4. CASE Quiet
  <2>1. /\ UNCHANGED <<currentBlock, fromHeight, end, jobs, eventIds, enqueued, leftBehind>>
        /\ (pc' = pc \/ (pc # "enqueue" /\ pc' \in {"select", "ended"}))
    BY <1>4 DEF Quiet
  <2> QED BY <2>1 DEF OnceControl, JustEnqueued, LogsOnce, ListeningInv
<1>5. CASE BuildEventIds
  <2>1. /\ UNCHANGED <<currentBlock, enqueued, leftBehind>> /\ fromHeight' = currentBlock
        /\ pc = "chainId" /\ pc' = "filter"
    BY <1>5 DEF BuildEventIds, RoundControl, ListeningInv
  <2> QED BY <2>1 DEF OnceControl, JustEnqueued, LogsOnce, ListeningInv
<1>6. CASE FilterLogs \/ FilterLogsFails
  <2>1. /\ UNCHANGED <<currentBlock, fromHeight, enqueued, leftBehind>>
        /\ pc = "filter"
    BY <1>6 DEF FilterLogs, FilterLogsFails
  <2> QED BY <2>1 DEF OnceControl, JustEnqueued, LogsOnce, ListeningInv
<1>7. CASE EnqueueLog
  <2> SUFFICES ASSUME ~leftBehind
               PROVE  OnceControl' /\ LogsOnce'
    BY <1>7 DEF EnqueueLog, OnceControl, LogsOnce
  <2>1. PICK new \in jobs : Enqueue({new}) /\ jobs' = jobs \ {new}
    BY <1>7 DEF EnqueueLog
  <2>2. pc = "enqueue" /\ UNCHANGED <<pc, currentBlock, fromHeight, end, eventIds>>
    BY <1>7 DEF EnqueueLog
  <2>3. \A j \in LogJobs : j # new => enqueued'[j] = enqueued[j]
    BY <2>1, EnqueueCounts DEF ListeningInv
  <2>4. new \in LogJobs /\ enqueued[new] = 0 /\ enqueued'[new] = 1
    BY <2>1, <2>2, NotYetEnqueued, EnqueueCounts DEF ListeningInv, Typed
  <2>5. JustEnqueued(new)'
    BY <2>1, <2>2 DEF JustEnqueued, BatchControl, ListeningInv
  <2>6. OnceControl'
    <3>1. (InBatch => fromHeight = currentBlock)'
      BY <2>2 DEF OnceControl, ListeningInv
    <3>2. ASSUME NEW j \in LogJobs, enqueued'[j] > 0
          PROVE  currentBlock' # NoBlock
                 /\ (LogHeight[j[2]] < currentBlock' \/ JustEnqueued(j)')
      <4>1. CASE j = new
        BY <2>2, <2>5, <4>1 DEF RoundControl, InRound, ListeningInv
      <4>2. CASE j # new
        BY <2>1, <2>2, <2>3, <3>2, <4>2 DEF OnceControl, JustEnqueued, ListeningInv
      <4> QED BY <4>1, <4>2
    <3> QED BY <3>1, <3>2 DEF OnceControl
  <2>7. LogsOnce'
    <3> SUFFICES ASSUME NEW j \in LogJobs, NEW k \in LogJobs, j[2] = k[2]
                 PROVE  enqueued'[j] < Twice
                        /\ (j # k => enqueued'[j] = 0 \/ enqueued'[k] = 0)
      BY DEF LogsOnce
    <3>1. CASE j[2] = new[2]
      <4>1. enqueued[j] = 0 /\ enqueued[k] = 0
        BY <2>2, <3>1, NotYetEnqueued
      <4> QED BY <2>3, <2>4, <4>1 DEF Twice
    <3>2. CASE j[2] # new[2]
      BY <2>3, <3>2 DEF LogsOnce, ListeningInv
    <3> QED BY <3>1, <3>2
  <2> QED BY <2>6, <2>7
<1>8. CASE AdvanceBlock
  <2> SUFFICES ASSUME ~leftBehind'
               PROVE  OnceControl' /\ LogsOnce'
    BY DEF OnceControl, LogsOnce
  <2>1. /\ ~leftBehind /\ currentBlock' = end + 1 /\ fromHeight' = end + 1
        /\ currentBlock \in Nat /\ currentBlock <= end + 1 /\ end \in Nat
    BY <1>8, AdvanceMoves DEF ListeningInv, Typed
  <2>2. enqueued' = enqueued /\ currentBlock' # NoBlock
    BY <1>8, <2>1, ListeningAssumption DEF AdvanceBlock
  <2>3. ASSUME NEW j \in LogJobs, enqueued[j] > 0
        PROVE  LogHeight[j[2]] < end + 1
    <3>1. LogHeight[j[2]] \in Nat
      BY ListeningAssumption DEF LogJobs
    <3>2. LogHeight[j[2]] < currentBlock \/ LogHeight[j[2]] <= end
      BY <2>1, <2>3 DEF OnceControl, JustEnqueued, ListeningInv
    <3> QED BY <2>1, <3>1, <3>2
  <2>4. LogsOnce'
    BY <2>1, <2>2 DEF LogsOnce, ListeningInv
  <2> QED BY <2>1, <2>2, <2>3, <2>4 DEF OnceControl
<1>9. CASE ProcessTxs
  <2>1. PICK new \in SUBSET {k \in TxJobs : TxHeight[k[2]] = height} : Enqueue(new)
    BY <1>9 DEF ProcessTxs
  <2>2. \A j \in LogJobs : enqueued'[j] = enqueued[j]
    BY <2>1, EnqueueCounts, JobsDisjoint DEF ListeningInv
  <2>3. pc = "txs" /\ UNCHANGED <<pc, currentBlock, leftBehind>>
    BY <1>9 DEF ProcessTxs
  <2> QED BY <2>2, <2>3 DEF OnceControl, JustEnqueued, LogsOnce, ListeningInv
<1> QED BY <1>1, <1>2, <1>3, <1>4, <1>5, <1>6, <1>7, <1>8, <1>9, Steps DEF ListeningInv
-----------------------------------------------------------------------------
(* Transactions *)

\* Transactions up to a block stay done while the process has the same first block.
LEMMA TxsStay ==
  ASSUME ListeningInv, [Next]_vars, ~Restart, Typed', UNCHANGED <<base, passedOver>>,
         NEW j \in TxJobs, enqueued[j] > 0
  PROVE  enqueued'[j] > 0
<1>1. enqueued[j] \in Nat /\ enqueued'[j] \in Nat /\ enqueued'[j] >= enqueued[j]
  BY CountsGrow DEF Typed, Twice, ListeningInv
<1> QED BY <1>1

\* At the end of a round the height has passed the current block.
LEMMA RoundEndsBehind ==
  ASSUME ListeningInv, pc = "txs", ~MoreTxs, NEW j \in TxJobs
  PROVE  currentBlock \in Nat /\ height \in Nat /\ currentBlock <= height
<1> USE ListeningAssumption DEF ListeningInv, InRound
<1>1. HasSubscriptionType("TxEvent")
  BY DEF HasSubscriptionType, TxJobs
<1>2. currentBlock \in Nat /\ height \in Nat /\ processedToHeight \in Nat
  BY DEF Typed, RoundControl
<1>3. ~ (height <= processedToHeight)
  BY <1>1 DEF MoreTxs
<1> QED BY <1>2, <1>3 DEF RoundControl

\* The transactions of a block are enqueued or passed over before its successor's.
LEMMA TxsKept ==
  ASSUME ListeningInv, [Next]_vars, Typed'
  PROVE  TxsControl'
<1> USE DEF locals, marks, InRound
<1>1. CASE Restart
  BY <1>1 DEF Restart, TxsControl, TxsFollow
<1> SUFFICES ASSUME ~Restart
             PROVE  TxsControl'
  BY <1>1
<1>2. CASE StartListening \/ TickIdle \/ TickBehind \/ TickPanics
  <2>1. /\ Loads /\ UNCHANGED <<enqueued, passedOver>> /\ pc \in {"start", "select"}
        /\ \/ pc' \in {"select", "panicked"}
           \/ pc' = "safeBlock" /\ height' = currentBlock' /\ currentBlock' # NoBlock
    BY <1>2, StartLoads, TickLoads
       DEF StartListening, TickIdle, TickBehind, TickPanics, Tick, ListeningInv
  <2>2. CASE UNCHANGED <<currentBlock, base>>
    BY <2>1, <2>2 DEF TxsControl, TxsFollow, TxsUpTo, ListeningInv
  <2>3. CASE base' = currentBlock' /\ currentBlock' \in 0..head
    <3>1. ASSUME NEW j \in TxJobs, base' <= TxHeight[j[2]], TxHeight[j[2]] < currentBlock'
          PROVE  FALSE
      <4>1. TxHeight[j[2]] \in Nat
        BY ListeningAssumption DEF TxJobs
      <4> QED BY <2>3, <3>1, <4>1, ListeningAssumption DEF ListeningInv, Typed
    <3> QED BY <2>1, <3>1 DEF TxsControl, TxsFollow, TxsUpTo
  <2> QED BY <2>1, <2>2, <2>3 DEF Loads
<1>3. CASE \/ GetSafeBlock \/ BuildEventIds \/ ChainIdFails \/ FilterLogs \/ FilterLogsFails
           \/ EnqueueLog \/ AdvanceBlock \/ LogsProcessed
  <2>1. /\ UNCHANGED <<height, base, passedOver>>
        /\ pc \in {"safeBlock", "chainId", "filter", "enqueue", "txs"}
        /\ pc' \notin {"start", "select"}
    BY <1>3 DEF GetSafeBlock, BuildEventIds, ChainIdFails, FilterLogs, FilterLogsFails,
                EnqueueLog, AdvanceBlock, LogsProcessed
  <2> QED BY <2>1, TxsStay DEF TxsControl, TxsFollow, TxsUpTo, ListeningInv
<1>4. CASE StartRetries \/ SafeBlockFails
  <2>1. /\ UNCHANGED <<currentBlock, base, passedOver, enqueued>>
        /\ pc' \in {"start", "select"}
        /\ pc = "start" \/ (pc = "safeBlock" /\ height = currentBlock)
    BY <1>4 DEF StartRetries, SafeBlockFails, Return, RoundControl, ListeningInv
  <2> QED BY <2>1 DEF TxsControl, TxsFollow, TxsUpTo, ListeningInv
<1>5. CASE Quiet
  <2>1. UNCHANGED <<height, currentBlock, base, passedOver, enqueued>>
    BY <1>5 DEF Quiet
  <2>2. CASE pc' = pc \/ pc' = "ended"
    BY <2>1, <2>2 DEF TxsControl, TxsFollow, TxsUpTo, ListeningInv
  <2>3. CASE pc = "txs" /\ ~MoreTxs /\ pc' = "select"
    <3>1. ASSUME NEW j \in TxJobs, base <= TxHeight[j[2]], TxHeight[j[2]] < currentBlock,
                 j[2] \notin passedOver
          PROVE  enqueued[j] > 0
      <4>1. TxHeight[j[2]] \in Nat
        BY ListeningAssumption DEF TxJobs
      <4>2. TxHeight[j[2]] < height
        BY <2>3, <3>1, <4>1, RoundEndsBehind
      <4> QED BY <2>3, <3>1, <4>2 DEF TxsControl, TxsUpTo, ListeningInv
    <3> QED BY <2>1, <2>3, <3>1 DEF TxsControl, TxsFollow
  <2> QED BY <1>5, <2>2, <2>3 DEF Quiet
<1>6. CASE ProcessTxs
  <2>1. /\ pc = "txs" /\ pc' = "txs" /\ base' = base /\ height' = height + 1
        /\ height \in Nat /\ passedOver \subseteq passedOver'
    <3>1. height \in Nat
      BY ListeningAssumption DEF ListeningInv, Typed
    <3>2. passedOver \subseteq passedOver'
      BY <1>6 DEF ProcessTxs
    <3> QED BY <1>6, <3>1, <3>2 DEF ProcessTxs
  <2>2. PICK new \in SUBSET {k \in TxJobs : TxHeight[k[2]] = height} :
          /\ Enqueue(new)
          /\ \A k \in TxJobs : TxHeight[k[2]] = height => k \in new \/ k[2] \in passedOver'
    BY <1>6 DEF ProcessTxs
  <2>3. ASSUME NEW j \in TxJobs, base <= TxHeight[j[2]], TxHeight[j[2]] < height + 1,
               j[2] \notin passedOver'
        PROVE  enqueued'[j] > 0
    <3>1. TxHeight[j[2]] \in Nat
      BY ListeningAssumption DEF TxJobs
    <3>2. CASE TxHeight[j[2]] = height
      BY <2>2, <2>3, <3>2, EnqueueCounts DEF ListeningInv
    <3>3. CASE TxHeight[j[2]] < height
      <4>1. enqueued[j] > 0
        BY <2>1, <2>3, <3>3 DEF TxsControl, TxsUpTo, ListeningInv
      <4>2. enqueued[j] \in Nat /\ enqueued'[j] \in Nat /\ enqueued'[j] >= enqueued[j]
        BY CountsGrow DEF Typed, Twice, ListeningInv
      <4> QED BY <4>1, <4>2
    <3> QED BY <2>1, <2>3, <3>1, <3>2, <3>3
  <2> QED BY <2>1, <2>3 DEF TxsControl, TxsFollow, TxsUpTo
<1> QED BY <1>2, <1>3, <1>4, <1>5, <1>6, Steps DEF ListeningInv
-----------------------------------------------------------------------------
(* The invariant, and what follows *)

\* At the start of a process nothing has been heard.
LEMMA InitInv == Init => ListeningInv
<1> SUFFICES ASSUME Init
             PROVE  ListeningInv
  OBVIOUS
<1>1. BlocksOrdered /\ RoundControl /\ BatchControl
  BY DEF Init, BlocksOrdered, RoundControl, BatchControl, InRound, InRange, InBatch
<1>2. HeardControl
  BY DEF Init, HeardControl, HeardUpTo, InBatch
<1>3. OnlySafeBlocks /\ OnceControl /\ LogsOnce
  BY DEF Init, OnlySafeBlocks, OnceControl, InBatch, LogsOnce, Twice
<1>4. TxsControl
  BY DEF Init, TxsControl, TxsFollow, InRound
<1> QED BY <1>1, <1>2, <1>3, <1>4, InitTyped DEF ListeningInv

\* All parts together
LEMMA NextInv == ListeningInv /\ [Next]_vars => ListeningInv'
BY TypedKept, BlocksKept, RoundKept, BatchKept, HeardKept, SafeKept, OnceKept, TxsKept
   DEF ListeningInv

\* Every reachable state of a listener satisfies the invariant.
THEOREM Invariance == Spec => []ListeningInv
BY InitInv, NextInv, PTL DEF Spec

\* Types: no local leaves uint64, and no more tries are made than allowed
\* (controller.go:276, 430).
THEOREM TypeCorrectness == Spec => []TypeOK
<1>1. Typed => TypeOK
  <2> SUFFICES ASSUME Typed
               PROVE  TypeOK
    OBVIOUS
  <2>1. head \in Nat /\ 0..head \subseteq Heights /\ 0..(MaxHead + 1) \subseteq Heights
    BY ListeningAssumption DEF Typed, Heights
  <2> QED BY <2>1 DEF Typed, TypeOK
<1> QED BY <1>1, Invariance, PTL DEF ListeningInv

\* For any chain, logs and failures, and across crashes, neither the current block
\* nor the saved one passes a log that this process has not enqueued
\* (controller.go:482-490).
THEOREM SkipsNothing == Spec => []NothingSkipped
<1>1. ListeningInv => NothingSkipped
  <2> SUFFICES ASSUME ListeningInv
               PROVE  NothingSkipped
    OBVIOUS
  <2> USE ListeningAssumption DEF ListeningInv
  <2>1. ASSUME saved # NoBlock, base # NoBlock, NEW l \in Logs,
               LogKey[l] \in Keys, base <= LogHeight[l], LogHeight[l] < saved
        PROVE  Heard(l)
    <3>1. currentBlock # NoBlock /\ saved <= currentBlock
      BY <2>1 DEF BlocksOrdered
    <3>2. LogHeight[l] < currentBlock
      BY <2>1, <3>1 DEF Typed
    <3> QED BY <2>1, <3>1, <3>2 DEF HeardControl, HeardUpTo
  <2> QED BY <2>1 DEF NothingSkipped, HeardControl, HeardUpTo
<1> QED BY <1>1, Invariance, PTL

\* Whatever the safe range and the batch size, only logs of blocks below the safe
\* one are enqueued, and transactions up to it (controller.go:359).
THEOREM EnqueuesSafeBlocks == Spec => []OnlySafeBlocks
<1>1. ListeningInv => OnlySafeBlocks
  BY DEF ListeningInv
<1> QED BY <1>1, Invariance, PTL

\* Batches of any size cut the range into pieces that are not empty and stay below
\* the safe block (controller.go:437-445).
THEOREM BatchesAlwaysFit == Spec => []BatchesFit
<1>1. ListeningInv => BatchesFit
  <2> SUFFICES ASSUME ListeningInv
               PROVE  BatchesFit
    OBVIOUS
  <2> USE ListeningAssumption DEF ListeningInv, InRange, InBatch, InRound
  <2>1. height \in Nat /\ fromHeight \in Nat /\ toHeight \in Nat
    BY DEF Typed
  <2>2. ASSUME pc \in {"filter", "enqueue"}
        PROVE  height <= fromHeight
    <3>1. currentBlock \in Nat /\ height <= currentBlock /\ currentBlock <= fromHeight
      BY <2>2 DEF Typed, RoundControl
    <3> QED BY <2>1, <3>1
  <2>3. pc = "filter" /\ MoreLogs => fromHeight <= BatchEnd /\ BatchEnd < toHeight
    BY <2>1 DEF MoreLogs, BatchEnd
  <2> QED BY <2>2, <2>3 DEF BatchesFit, RoundControl
<1> QED BY <1>1, Invariance, PTL

\* Unless GetBlock failed after a batch, no log is enqueued twice, nor for two
\* subscriptions (controller.go:463-485).
THEOREM EnqueuesLogsOnce == Spec => []LogsOnce
<1>1. ListeningInv => LogsOnce
  BY DEF ListeningInv
<1> QED BY <1>1, Invariance, PTL

\* However many batches failed, the transactions follow the logs
\* (controller.go:375-387).
THEOREM TransactionsFollow == Spec => []TxsFollow
<1>1. ListeningInv => TxsFollow
  BY DEF ListeningInv, TxsControl
<1> QED BY <1>1, Invariance, PTL

\* No step takes the saved block back, a failed save or a crash least of all: what is
\* saved is the current block, which only moves forward (controller.go:325, 490).
THEOREM NeverRegresses == Spec => SavedNeverRegresses
<1>1. ASSUME ListeningInv, [Next]_vars, saved # NoBlock
      PROVE  saved' # NoBlock /\ saved' >= saved
  <2> USE ListeningAssumption DEF ListeningInv
  <2>1. saved \in Nat
    BY <1>1 DEF Typed
  <2>2. CASE saved' = saved
    BY <1>1, <2>1, <2>2
  <2>3. CASE Quiet /\ saved' = currentBlock /\ currentBlock # NoBlock
    BY <1>1, <2>1, <2>3 DEF BlocksOrdered, Typed
  <2>4. CASE AdvanceBlock
    <3>1. /\ currentBlock \in Nat /\ end + 1 \in Nat /\ currentBlock <= end + 1
          /\ currentBlock' \in {currentBlock, end + 1} /\ saved' \in {saved, currentBlock'}
      BY <1>1, <2>4, AdvanceMoves
    <3>2. saved <= currentBlock
      BY <1>1, <3>1 DEF BlocksOrdered
    <3> QED BY <2>1, <3>1, <3>2
  <2>5. saved' = saved \/ (saved' = currentBlock /\ currentBlock # NoBlock /\ Quiet)
        \/ AdvanceBlock
    BY <1>1, Steps
       DEF Quiet, Restart, StartRetries, StartListening, Tick, TickIdle, TickBehind, TickPanics,
           GetSafeBlock, SafeBlockFails, BuildEventIds, ChainIdFails, FilterLogs,
           FilterLogsFails, EnqueueLog, LogsProcessed, ProcessTxs
  <2> QED BY <2>2, <2>3, <2>4, <2>5
<1>2. ListeningInv /\ [Next]_vars
        => [saved # NoBlock => saved' # NoBlock /\ saved' >= saved]_vars
  BY <1>1
<1> QED BY <1>2, Invariance, PTL DEF Spec, SavedNeverRegresses
-----------------------------------------------------------------------------
(* Listening implements Hearing *)

Asked == {l \in Logs : LogKey[l] \in Keys}
HeardLogsNow == {l \in Logs : Heard(l)}

\* The initial states of Hearing
LEMMA RefinesInit == Init => Promised!HearingInit
<1> SUFFICES ASSUME Init
             PROVE  Promised!HearingInit
  OBVIOUS
<1>1. \A j \in LogJobs : enqueued[j] = 0
  BY DEF Init
<1>2. \A j \in LogJobs : ~ (enqueued[j] > 0)
  BY <1>1
<1>3. \A l \in Logs : ~Heard(l)
  BY <1>2 DEF Heard
<1> QED BY <1>3 DEF Init, Promised!HearingInit

\* Steps that enqueue nothing and leave the block where it is save it or stutter.
LEMMA RefinesElsewhere ==
  ASSUME UNCHANGED <<currentBlock, base, enqueued>>,
         saved' = saved \/ (saved' = currentBlock /\ currentBlock # NoBlock)
  PROVE  [Promised!HearingNext]_(Promised!hearingVars)
<1>1. {l \in Logs : Heard(l)}' = {l \in Logs : Heard(l)}
  BY DEF Heard
<1>2. CASE saved' = saved
  BY <1>1, <1>2 DEF Promised!hearingVars
<1>3. CASE saved' = currentBlock /\ currentBlock # NoBlock
  BY <1>1, <1>3 DEF Promised!HearingNext, Promised!Save
<1> QED BY <1>2, <1>3

\* A block that is loaded
LEMMA RefinesLoad ==
  ASSUME ListeningInv, Loads, UNCHANGED <<saved, enqueued>>
  PROVE  [Promised!HearingNext]_(Promised!hearingVars)
<1>1. CASE UNCHANGED <<currentBlock, base>>
  BY <1>1, RefinesElsewhere
<1>2. CASE /\ currentBlock = NoBlock /\ currentBlock' \in 0..head /\ base' = currentBlock'
           /\ (saved # NoBlock => saved <= currentBlock')
  <2>1. {l \in Logs : Heard(l)}' = {l \in Logs : Heard(l)}
    BY DEF Heard
  <2>2. currentBlock' \in 0..MaxHead /\ (saved # NoBlock => currentBlock' >= saved)
    BY <1>2, ListeningAssumption DEF ListeningInv, Typed
  <2>3. Promised!Load(currentBlock')
    BY <1>2, <2>1, <2>2 DEF Promised!Load
  <2> QED BY <2>2, <2>3 DEF Promised!HearingNext
<1> QED BY <1>1, <1>2 DEF Loads

\* A job that is enqueued lets its log be heard.
LEMMA RefinesHear ==
  ASSUME ListeningInv, EnqueueLog
  PROVE  [Promised!HearingNext]_(Promised!hearingVars)
<1> USE DEF ListeningInv
<1>1. PICK new \in jobs : Enqueue({new}) /\ jobs' = jobs \ {new}
  BY DEF EnqueueLog
<1>2. /\ pc = "enqueue" /\ UNCHANGED <<saved, currentBlock, base>>
      /\ currentBlock # NoBlock
  BY DEF EnqueueLog, RoundControl, InRound
<1>3. new \in LogJobs /\ new[1] \in Subs /\ new[2] \in Asked /\ new = <<new[1], new[2]>>
  BY <1>1 DEF Typed, LogJobs, Asked, Keys
<1>4. base <= LogHeight[new[2]]
  <2>1. /\ base <= currentBlock /\ currentBlock <= fromHeight
        /\ fromHeight <= LogHeight[new[2]]
    BY <1>1, <1>2 DEF BlocksOrdered, RoundControl, InBatch, BatchControl
  <2>2. base \in Nat /\ currentBlock \in Nat /\ fromHeight \in Nat /\ LogHeight[new[2]] \in Nat
    BY <1>2, <1>3, ListeningAssumption DEF BlocksOrdered, Typed, Asked
  <2> QED BY <2>1, <2>2
<1>5. HeardLogsNow' = HeardLogsNow \cup {new[2]}
  <2>1. \A j \in LogJobs : enqueued'[j] > 0 <=> enqueued[j] > 0 \/ j = new
    BY <1>1, <1>3, EnqueueCounts
  <2>2. ASSUME NEW l \in Logs
        PROVE  Heard(l)' <=> Heard(l) \/ l = new[2]
    <3>1. ASSUME NEW s \in Subs, <<s, l>> \in LogJobs
          PROVE  enqueued'[<<s, l>>] > 0 <=> enqueued[<<s, l>>] > 0 \/ <<s, l>> = new
      BY <2>1, <3>1
    <3>2. l = new[2] => <<new[1], l>> = new
      BY <1>3
    <3>3. \A s \in Subs : <<s, l>> = new => l = new[2]
      OBVIOUS
    <3>4. Heard(l)' => Heard(l) \/ l = new[2]
      BY <3>1, <3>3 DEF Heard
    <3>5. Heard(l) => Heard(l)'
      BY <3>1 DEF Heard
    <3>6. l = new[2] => Heard(l)'
      BY <1>3, <3>1, <3>2 DEF Heard
    <3> QED BY <3>4, <3>5, <3>6
  <2> QED BY <1>3, <2>2 DEF HeardLogsNow, Asked
<1>6. Promised!Hear(new[2])
  BY <1>2, <1>3, <1>4, <1>5 DEF Promised!Hear, HeardLogsNow, Asked
<1> QED BY <1>3, <1>6 DEF Promised!HearingNext, Asked

\* A block moved past a batch, or saved again
LEMMA RefinesAdvance ==
  ASSUME ListeningInv, AdvanceBlock, HeardControl'
  PROVE  [Promised!HearingNext]_(Promised!hearingVars)
<1>1. /\ base \in Nat /\ currentBlock \in Nat /\ end + 1 \in Nat
      /\ currentBlock <= end + 1 /\ end + 1 <= toHeight
      /\ currentBlock' \in {currentBlock, end + 1} /\ saved' \in {saved, currentBlock'}
  BY AdvanceMoves
<1>2. currentBlock # NoBlock /\ currentBlock' # NoBlock /\ base # NoBlock
  BY <1>1, ListeningAssumption
<1>3. UNCHANGED <<base, enqueued>> /\ {l \in Logs : Heard(l)}' = {l \in Logs : Heard(l)}
  BY DEF AdvanceBlock, Heard
<1>4. CASE currentBlock' = currentBlock
  BY <1>1, <1>2, <1>3, <1>4, RefinesElsewhere
<1>5. CASE currentBlock' = end + 1
  <2>1. end + 1 \in 0..MaxHead
    BY <1>1, ListeningAssumption DEF ListeningInv, Typed
  <2>2. \A l \in Asked : base <= LogHeight[l] /\ LogHeight[l] < end + 1 => Heard(l)
    BY <1>2, <1>3, <1>5 DEF HeardControl, HeardUpTo, Asked, Heard
  <2>3. Promised!Advance(end + 1)
    BY <1>1, <1>2, <1>3, <1>5, <2>2 DEF Promised!Advance, Asked
  <2> QED BY <2>1, <2>3 DEF Promised!HearingNext
<1> QED BY <1>1, <1>4, <1>5

\* Every step is one of Hearing, or a stutter.
LEMMA RefinesNext ==
  ASSUME ListeningInv, ListeningInv', [Next]_vars
  PROVE  [Promised!HearingNext]_(Promised!hearingVars)
<1> USE DEF locals
<1>1. CASE Restart
  <2>1. {l \in Logs : Heard(l)}' = {}
    <3>1. \A j \in LogJobs : enqueued'[j] = 0
      BY <1>1 DEF Restart
    <3>2. \A j \in LogJobs : ~ (enqueued'[j] > 0)
      BY <3>1
    <3> QED BY <3>2 DEF Heard
  <2> QED BY <1>1, <2>1 DEF Restart, Promised!HearingNext, Promised!Restart
<1>2. CASE Quiet
  BY <1>2, RefinesElsewhere DEF Quiet
<1>3. CASE StartListening \/ TickIdle \/ TickBehind \/ TickPanics
  <2>1. Loads /\ UNCHANGED <<saved, enqueued>>
    BY <1>3, StartLoads, TickLoads
       DEF StartListening, TickIdle, TickBehind, TickPanics, Tick, ListeningInv
  <2> QED BY <2>1, RefinesLoad
<1>4. CASE StartRetries \/ GetSafeBlock \/ SafeBlockFails \/ BuildEventIds \/ ChainIdFails
           \/ FilterLogs \/ FilterLogsFails \/ LogsProcessed
  <2>1. UNCHANGED <<saved, currentBlock, base, enqueued>>
    BY <1>4 DEF StartRetries, GetSafeBlock, SafeBlockFails, BuildEventIds, ChainIdFails,
                FilterLogs, FilterLogsFails, LogsProcessed
  <2> QED BY <2>1, RefinesElsewhere
<1>5. CASE EnqueueLog
  BY <1>5, RefinesHear
<1>6. CASE AdvanceBlock
  BY <1>6, RefinesAdvance DEF ListeningInv
<1>7. CASE ProcessTxs
  <2>1. PICK new \in SUBSET {k \in TxJobs : TxHeight[k[2]] = height} : Enqueue(new)
    BY <1>7 DEF ProcessTxs
  <2>2. \A j \in LogJobs : enqueued'[j] = enqueued[j]
    BY <2>1, EnqueueCounts, JobsDisjoint DEF ListeningInv
  <2>3. {l \in Logs : Heard(l)}' = {l \in Logs : Heard(l)}
    BY <2>2 DEF Heard
  <2>4. UNCHANGED <<saved, currentBlock, base>>
    BY <1>7 DEF ProcessTxs
  <2> QED BY <2>3, <2>4 DEF Promised!hearingVars
<1> QED BY <1>1, <1>2, <1>3, <1>4, <1>5, <1>6, <1>7, Steps DEF ListeningInv

\* A listener with rounds, batches, retries, transactions, failures and crashes does
\* only what Hearing allows, for any chain (controller.go:269-493).
THEOREM ListeningImplementsHearing == Spec => ImplementsHearing
<1>1. Spec => Promised!HearingInit /\ [][Promised!HearingNext]_(Promised!hearingVars)
  BY RefinesInit, RefinesNext, Invariance, PTL DEF Spec
<1> QED BY <1>1 DEF ImplementsHearing, Promised!HearingSpec
=============================================================================
