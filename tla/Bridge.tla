------------------------------- MODULE Bridge -------------------------------
(***************************************************************************)
(* The parts together, from start to start of the process: the controller  *)
(* takes up the rows of pending jobs (controller.go, processPendingJobs),  *)
(* then a listener hears logs from the saved block on and enqueues a job   *)
(* for each (Hearing, which Listening implements), and the pool processes, *)
(* retries, writes off or saves the jobs (JobLifecycle, which Pool         *)
(* implements).  When the process exits or crashes only rows are left.     *)
(*                                                                         *)
(* A job is a log and a number: the first, second, ... job made for it.    *)
(* A row is named by the job that was first saved in it; a job taken up    *)
(* from its row is the same job, but for a row that is taken up twice by   *)
(* one process.  Job, row and block are written by different goroutines,   *)
(* and a close or a crash may come between any two steps.  What can happen *)
(* within one component only (failing queries, failing jobs) is left to    *)
(* that component's module.                                                *)
(***************************************************************************)
EXTENDS Hearing, JobLifecycle, FiniteSets

CONSTANTS
  MaxStarts,  \* how often the process starts (bound)
  MaxJobs,    \* how many jobs are made for one log (bound)
  Budget,     \* how many faults and crashes there are (bound)
  FirstBlock, \* the listener's initial height; ProcessWithinBlocks is 0
  NoJob       \* no row in hand

ASSUME BridgeAssumption ==
  /\ MaxStarts \in Nat /\ MaxJobs \in Nat /\ Budget \in Nat /\ MaxTry \in Nat
  /\ MaxJobs >= MaxStarts + Budget
  /\ Jobs = HeardLogs \X (1..MaxJobs) /\ CallBacks = [j \in Jobs |-> {}]
  /\ FirstBlock \in Blocks /\ \A l \in HeardLogs : Height[l] >= FirstBlock
  /\ NoJob \notin Jobs

VARIABLES
  up,      \* the process: down, starting or listening
  pending, \* the rows with status pending
  tries,   \* per row, its RetryCount, or 0 if it is not pending
  young,   \* the pending rows written since, or in the second of, the last start
  old,     \* the pending rows with created_at < processingFrame of this process
  rowOf,   \* per job, the row it was made from and is saved in
  hand,    \* the row whose job was enqueued and whose status is to be updated
  made,    \* per log, the number of jobs made for it
  starts, budget,
  runs,    \* per log, how many jobs have succeeded, and stored its event, to Twice
  givenUp, \* history: the logs of which a job was written off
  again    \* history: the logs that may be heard or taken up once more: for a crash, an
           \* early exit, a repeated batch or a failed update

table  == <<pending, tries, young, old>>
bounds == <<starts, budget>>
past   == <<runs, givenUp, again>>
rest   == <<up, table, rowOf, hand, made, bounds, past>>
bridgeVars == <<hearingVars, lifecycleVars, rest>>
-----------------------------------------------------------------------------
Twice == 2

LogOf(j) == j[1]

Pays == budget > 0 /\ budget' = budget - 1

\* BaseJob.Save(STATUS_PENDING): created_at is now.
SavesPending(j) ==
  LET r == rowOf[j]
  IN /\ pending' = pending \cup {r}
     /\ tries' = [tries EXCEPT ![r] = retries[j]]
     /\ young' = young \cup {r} /\ old' = old \ {r}

\* BaseJob.Save(STATUS_FAILED), or Update to STATUS_PROCESSED
WritesOver(r) ==
  /\ pending' = pending \ {r}
  /\ tries' = [tries EXCEPT ![r] = 0]
  /\ young' = young \ {r} /\ old' = old \ {r}
-----------------------------------------------------------------------------
(* The start *)

\* NewWithContext sets processingFrame to this second, the one in which the last
\* rows may have been written.
Boot ==
  /\ up = "down" /\ starts < MaxStarts
  /\ up' = "starting" /\ starts' = starts + 1
  /\ young' \in SUBSET young /\ old' = pending \ young'
  /\ UNCHANGED <<hearingVars, lifecycleVars, pending, tries, rowOf, hand, made, budget, past>>

\* Pool.Enqueue(job): into the queue, or, its channel being closed, a row.
Enqueue(j) ==
  \/ Accept(j) /\ UNCHANGED <<table, budget>>
  \/ RecordPending(j) /\ SavesPending(j) /\ UNCHANGED budget
  \/ closing /\ Lose(j) /\ Pays /\ UNCHANGED table

\* SearchJobs finds the old rows; c.Pool.Enqueue(j).
EnqueueRow ==
  /\ up = "starting" /\ hand = NoJob
  /\ \E j \in Jobs :
       /\ rowOf[j] \in old /\ phase[j] = "new"
       /\ Enqueue(j) /\ hand' = rowOf[j]
  /\ UNCHANGED <<hearingVars, up, rowOf, made, starts, past>>

\* Variant: the row is left as it is.
MarkNothing ==
  /\ hand # NoJob /\ hand' = NoJob
  /\ old' = old \ {hand}
  /\ UNCHANGED <<hearingVars, lifecycleVars, up, pending, tries, young, rowOf, made, bounds, past>>

\* job.Status = STATUS_PROCESSED; Update(job), whatever the pool wrote meanwhile
RowMarked ==
  /\ WritesOver(hand)
  /\ UNCHANGED <<lifecycleVars, rowOf, made, budget, again>>

\* The update fails, its error is ignored: the next query finds the row once more,
\* and one more job is made from it.
RowUnmarked ==
  LET l == LogOf(hand)
      j == <<l, made[l] + 1>>
  IN /\ Pays
     /\ made[l] < MaxJobs /\ made' = [made EXCEPT ![l] = @ + 1]
     /\ rowOf' = [rowOf EXCEPT ![j] = hand]
     /\ retries' = [retries EXCEPT ![j] = tries[hand]]
     /\ again' = again \cup {l}
     /\ UNCHANGED <<phase, closing, stopped, table>>

MarkRow ==
  /\ hand # NoJob /\ hand' = NoJob
  /\ RowMarked \/ RowUnmarked
  /\ UNCHANGED <<hearingVars, up, starts, runs, givenUp>>

\* Variant: the listeners do not wait for the pending jobs.
StartListenersAtOnce ==
  /\ up = "starting" /\ up' = "listening"
  /\ UNCHANGED <<hearingVars, lifecycleVars, table, rowOf, hand, made, bounds, past>>

\* No row is left, or "stop processing if controller is closed".
StartListeners ==
  /\ up = "starting" /\ hand = NoJob /\ (old = {} \/ closing)
  /\ up' = "listening"
  /\ UNCHANGED <<hearingVars, lifecycleVars, table, rowOf, hand, made, bounds, past>>
-----------------------------------------------------------------------------
(* The listener *)

ListenerLoads ==
  /\ up = "listening"
  /\ Load(IF saved = NoBlock THEN FirstBlock ELSE saved)
  /\ UNCHANGED <<lifecycleVars, rest>>

\* A job is made for a log and enqueued; the row, if there is one, is a new one.
ListenerHears(l) ==
  /\ up = "listening" /\ l \notin heard
  /\ Hear(l)
  /\ made[l] < MaxJobs /\ made' = [made EXCEPT ![l] = @ + 1]
  /\ Enqueue(<<l, made[l] + 1>>)
  /\ UNCHANGED <<up, rowOf, hand, starts, past>>

\* GetBlock failed after a batch and left the block behind: the batch again.
ListenerRepeats(l) ==
  /\ up = "listening" /\ l \in heard /\ current # NoBlock /\ current <= Height[l]
  /\ made[l] < MaxJobs /\ made' = [made EXCEPT ![l] = @ + 1]
  /\ Accept(<<l, made[l] + 1>>) /\ Pays
  /\ again' = again \cup {l}
  /\ UNCHANGED <<hearingVars, up, table, rowOf, hand, starts, runs, givenUp>>

ListenerAdvances ==
  /\ up = "listening"
  /\ current # NoBlock /\ \E b \in Blocks : b > current /\ Advance(b)
  /\ UNCHANGED <<lifecycleVars, rest>>

ListenerSaves ==
  /\ up = "listening" /\ Save
  /\ UNCHANGED <<lifecycleVars, rest>>
-----------------------------------------------------------------------------
(* The pool *)

\* ProcessJob: the event of the log is stored.
JobSucceeds(j) ==
  /\ Succeed(j)
  /\ runs' = [runs EXCEPT ![LogOf(j)] = IF @ < Twice THEN @ + 1 ELSE @]
  /\ UNCHANGED <<hearingVars, up, table, rowOf, hand, made, bounds, givenUp, again>>

\* The job is taken, tried again later, given up, or handed in again.
JobMoves(j) ==
  /\ Run(j) \/ Retry(j) \/ GiveUp(j) \/ (phase[j] = "backoff" /\ Accept(j))
  /\ UNCHANGED <<hearingVars, rest>>

\* Variant: a job written off or saved leaves no row.
JobForgotten(j) ==
  /\ phase[j] # "new"
  /\ RecordFailed(j) \/ RecordPending(j)
  /\ UNCHANGED <<hearingVars, rest>>

JobSaved(j) ==
  /\ phase[j] # "new"
  /\ \/ /\ RecordFailed(j) /\ WritesOver(rowOf[j])
        /\ givenUp' = givenUp \cup {LogOf(j)}
     \/ RecordPending(j) /\ SavesPending(j) /\ UNCHANGED givenUp
  /\ UNCHANGED <<hearingVars, up, rowOf, hand, made, bounds, runs, again>>

JobLost(j) ==
  /\ phase[j] # "new" /\ Lose(j) /\ Pays
  /\ UNCHANGED <<hearingVars, up, table, rowOf, hand, made, starts, past>>

PoolStep(j) == JobSucceeds(j) \/ JobMoves(j) \/ JobSaved(j)

\* The context is cancelled, during the start as well as after it.
PoolCloses ==
  /\ up # "down" /\ Close
  /\ UNCHANGED <<hearingVars, rest>>

PoolStops ==
  /\ Stop
  /\ UNCHANGED <<hearingVars, rest>>
-----------------------------------------------------------------------------
(* The end of a process *)

\* NewBaseJob: retryCount is the row's.
RestoredTries == tries

\* Memory is gone: a job goes on from its pending row, and what was known of the
\* others is lost.
End ==
  /\ Restart /\ up' = "down"
  /\ phase' = [j \in Jobs |-> IF j \in pending \/ phase[j] = "new" THEN "new" ELSE "lost"]
  /\ retries' = RestoredTries
  /\ closing' = FALSE /\ stopped' = FALSE
  /\ rowOf' = [j \in Jobs |-> j] /\ hand' = NoJob
  /\ again' = again \cup {l \in heard : saved = NoBlock \/ saved <= Height[l]}
                    \cup {l \in HeardLogs : \E j \in Jobs : j = hand /\ l = LogOf(j)}
  /\ UNCHANGED <<table, made, starts, runs, givenUp>>

\* Close has returned, after Pool.Wait, and so does main: a listener may still
\* be anywhere.
Exit == stopped /\ End /\ UNCHANGED budget

Crash == up # "down" /\ End /\ Pays
-----------------------------------------------------------------------------
Init ==
  /\ HearingInit
  /\ phase = [j \in Jobs |-> "new"] /\ retries = [j \in Jobs |-> 0]
  /\ closing = FALSE /\ stopped = FALSE
  /\ up = "down" /\ pending = {} /\ tries = [j \in Jobs |-> 0]
  /\ young = {} /\ old = {} /\ rowOf = [j \in Jobs |-> j] /\ hand = NoJob
  /\ made = [l \in HeardLogs |-> 0]
  /\ starts = 0 /\ budget = Budget
  /\ runs = [l \in HeardLogs |-> 0] /\ givenUp = {} /\ again = {}

StartStep == EnqueueRow \/ MarkRow \/ StartListeners

ListenerStep ==
  \/ ListenerLoads \/ ListenerAdvances
  \/ \E l \in HeardLogs : ListenerHears(l)

Next ==
  \/ Boot \/ StartStep
  \/ ListenerStep \/ ListenerSaves \/ \E l \in HeardLogs : ListenerRepeats(l)
  \/ \E j \in Jobs : PoolStep(j) \/ JobLost(j)
  \/ PoolCloses \/ PoolStops \/ Exit \/ Crash

Spec == Init /\ [][Next]_bridgeVars

\* The process runs on: as long as the start, the listener or the pool can, one of them
\* does (MCListening_faults and MCPool_live show when).  That is enough, as each has
\* finitely many steps in a life; nobody has to start, close or crash the process.
FairSpec ==
  /\ Spec
  /\ WF_bridgeVars(StartStep \/ ListenerStep \/ \E j \in Jobs : PoolStep(j))
-----------------------------------------------------------------------------
(* Properties *)

\* Types; a row is in hand during the start only.
TypeOK ==
  /\ HearingTypeOK /\ LifecycleTypeOK
  /\ up \in {"down", "starting", "listening"}
  /\ pending \subseteq Jobs /\ tries \in [Jobs -> 0..MaxTry]
  /\ young \subseteq pending /\ old \subseteq pending /\ old \cap young = {}
  /\ rowOf \in [Jobs -> Jobs]
  /\ hand \in Jobs \cup {NoJob} /\ (hand # NoJob => up = "starting")
  /\ made \in [HeardLogs -> 0..MaxJobs]
  /\ starts \in 0..MaxStarts /\ budget \in 0..Budget
  /\ runs \in [HeardLogs -> 0..Twice]
  /\ givenUp \subseteq HeardLogs /\ again \subseteq HeardLogs

JobsOf(l) == {j \in Jobs : LogOf(j) = l}

Settled(l) == runs[l] > 0 \/ l \in givenUp

\* A row in hand holds nothing as it was found: its job was enqueued, and its
\* update is due.
Held(l) == \E j \in JobsOf(l) :
             phase[j] \in Unsettled \/ (j \in pending /\ ~ (j = hand /\ j \in old))

Ahead(l) == IF current = NoBlock THEN saved = NoBlock \/ saved <= Height[l]
            ELSE base <= Height[l] /\ l \notin heard

Fate(l) == IF Settled(l) THEN "settled" ELSE IF Held(l) THEN "held"
           ELSE IF Ahead(l) THEN "ahead" ELSE "lost"

Promised == INSTANCE Delivery WITH
  DeliveredLogs <- HeardLogs, FaultBudget <- Budget, faultsLeft <- budget,
  fate <- [l \in HeardLogs |-> Fate(l)], cut <- (closing /\ up = "starting")

\* From end to end, across exits and restarts, closings in the middle of
\* anything and rows: a log that is not settled is ahead of the listener or held
\* by a job or a row, and only a fault takes it away, or a start that goes on to
\* mark its row while the pool closes (controller.go:230-232, 489, pool.go:300).
ImplementsDelivery == Promised!DeliverySpec

\* A log is processed once, with three exceptions: its process ended between the
\* enqueuing of its job and the write that says so, which is the save of the block
\* (controller.go:490) or the update of the row (controller.go:232); that update
\* failed, and the row was taken up again; or its batch was repeated.
AtMostOnce == \A l \in HeardLogs \ again : runs[l] <= 1

\* The row waits for the next start: this process wrote it while closing, or closed
\* before it came to it, or the last one wrote it in the second of this one's start
\* (controller.go:182-184, stores/job.go:49).
LeftForNextStart(l) == \E r \in JobsOf(l) \cap pending : closing \/ r \notin old

\* Every log is in the end settled, or lost, unless the process stays down or the
\* log's row waits for the next start.
Delivered ==
  \A l \in HeardLogs :
    <>[](Settled(l) \/ Fate(l) = "lost" \/ up = "down" \/ LeftForNextStart(l))
=============================================================================
