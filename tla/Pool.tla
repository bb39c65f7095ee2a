-------------------------------- MODULE Pool --------------------------------
(***************************************************************************)
(* The worker pool (pool.go, worker.go): one dispatcher goroutine          *)
(* (Pool.Start), one goroutine per worker (startWorker), one short-lived   *)
(* goroutine per retried job (PrepareRetryableJob), and the goroutines of  *)
(* the listeners, which call Enqueue.  They share four bounded channels,   *)
(* a wait group and the table of saved jobs.                               *)
(*                                                                         *)
(* A channel is a sequence with a capacity.  Whether a channel is closed   *)
(* follows from how far the dispatcher, which alone closes channels, has   *)
(* come.  "at" says where each job is: it is the program point of the      *)
(* goroutine that carries the job and the status of its row once saved,    *)
(* and a history variable for the jobs that channels and workers hold (no  *)
(* guard reads it for those), so that "in one place only" can be stated.   *)
(***************************************************************************)
EXTENDS Integers, Sequences, FiniteSets, Functions

CONSTANTS
  Jobs,             \* every job of a run
  Roots,            \* the jobs listeners enqueue; the others are callbacks
  CallBacks,        \* the jobs SendCallbackJobs enqueues for a processed job
  Workers,
  NumberOfWorkers,  \* cfg.NumberOfWorkers
  MaxQueueSize,     \* cfg.MaxQueueSize
  MaxTry,           \* job.GetMaxTry()
  FirstRetryCount,  \* per job: 0, or what its row says (NewBaseJob)
  Faults,           \* what the environment may do, see FaultKinds
  NoJob             \* no job in hand

\* "panic": a job's Process panics.  "late": a job leaves RetryJobChan after
\* its next try.  "save": the database refuses a row.
FaultKinds == {"panic", "late", "save"}

ASSUME PoolAssumption ==
  /\ Roots \subseteq Jobs
  /\ CallBacks \in [Jobs -> SUBSET (Jobs \ Roots)]
  /\ \A j, k \in Jobs : j # k => CallBacks[j] \cap CallBacks[k] = {}
  /\ \A j \in Jobs : j \notin CallBacks[j]
  /\ IsFiniteSet(Jobs) /\ IsFiniteSet(Workers)
  /\ NumberOfWorkers \in Nat \ {0} /\ MaxQueueSize \in Nat \ {0} /\ MaxTry \in Nat
  /\ FirstRetryCount \in [Jobs -> 0..MaxTry]
  /\ Workers # {} /\ Cardinality(Workers) <= NumberOfWorkers
  /\ Faults \subseteq FaultKinds
  /\ NoJob \notin Jobs

VARIABLES
  JobChan, RetryJobChan, FailedJobChan,   \* the jobs in the three job channels
  Queue,          \* the workers whose channel is in Pool.Queue
  workerChan,     \* per worker: the jobs in its channel
  wpc, wjob,      \* per worker: where startWorker is, and the job in its hand
  calls,          \* per worker: callback jobs SendCallbackJobs has yet to enqueue
  closedWorkers,  \* the workers whose channel is closed
  dpc, djob,      \* where Start is, and the job in its hand
  ctxDone,        \* the context is cancelled
  wg,             \* retryableWaitGroup, and numberOfRetryingJob beside it
  at,             \* per job: where it is
  retryCount      \* per job

vars == <<JobChan, RetryJobChan, FailedJobChan, Queue, workerChan, wpc, wjob,
          calls, closedWorkers, dpc, djob, ctxDone, wg, at, retryCount>>

dispatcher == <<dpc, djob, closedWorkers>>
worker     == <<wpc, wjob, calls>>
-----------------------------------------------------------------------------
\* make(chan JobHandler, MaxQueueSize*NumberOfWorkers)
JobChanSize == MaxQueueSize * NumberOfWorkers

IsClosed      == dpc \notin {"select", "dispatch"}
JobChanClosed == dpc \notin {"select", "dispatch", "closeFunc"}
\* FailedJobChan, RetryJobChan and Queue, closed one after the other
ChansClosed   == dpc \in {"saveRetry", "saveFailed", "wait", "stopped"}

\* A job a worker, a channel or a goroutine of the pool still has to deal with
InMemory == {"jobChan", "pool", "workerChan", "worker", "calls", "retrying",
             "retryChan", "prepare", "timer", "enqueue", "failing", "failedChan"}
\* A job PrepareRetryableJob is running for
OnFly    == {"prepare", "timer", "enqueue"}
\* A job that is finished with, or has a row
Settled  == {"done", "pending", "failed", "lost"}

MoveTo(j, place) == at' = [at EXCEPT ![j] = place]

\* saveJob and processFailedJob: the row is written under the lock; when the
\* write fails the error is logged and the job forgotten.
Save(j, status) ==
  \/ MoveTo(j, status)
  \/ "save" \in Faults /\ MoveTo(j, "lost")

\* Enqueue waits for room; a send on the closed channel panics, and the
\* deferred recover saves the job instead.
Enqueue(j) ==
  \/ /\ ~JobChanClosed
     /\ Len(JobChan) < JobChanSize
     /\ JobChan' = Append(JobChan, j)
     /\ MoveTo(j, "jobChan")
  \/ /\ JobChanClosed
     /\ Save(j, "pending")
     /\ UNCHANGED JobChan
-----------------------------------------------------------------------------
(* The environment *)

Cancel ==
  /\ ~ctxDone
  /\ ctxDone' = TRUE
  /\ UNCHANGED <<JobChan, RetryJobChan, FailedJobChan, Queue, workerChan,
                 worker, dispatcher, wg, at, retryCount>>

\* A listener's goroutine hands in a new job.
Listen(j) ==
  /\ at[j] = "fresh"
  /\ Enqueue(j)
  /\ UNCHANGED <<RetryJobChan, FailedJobChan, Queue, workerChan, worker,
                 dispatcher, ctxDone, wg, retryCount>>
-----------------------------------------------------------------------------
(* startWorker *)

\* p.Queue <- w.Channel()
PushChannel(w) ==
  /\ wpc[w] = "push"
  /\ Len(Queue) < MaxQueueSize
  /\ Queue' = Append(Queue, w)
  /\ wpc' = [wpc EXCEPT ![w] = "recv"]
  /\ UNCHANGED <<JobChan, RetryJobChan, FailedJobChan, workerChan, wjob, calls,
                 dispatcher, ctxDone, wg, at, retryCount>>

\* Variant: the worker offers itself again before it has processed the job.
ReceiveJobAndPush(w) ==
  /\ wpc[w] = "recv" /\ workerChan[w] # <<>> /\ Len(Queue) < MaxQueueSize
  /\ workerChan' = [workerChan EXCEPT ![w] = Tail(@)]
  /\ wjob' = [wjob EXCEPT ![w] = Head(workerChan[w])]
  /\ wpc' = [wpc EXCEPT ![w] = "process"]
  /\ Queue' = Append(Queue, w)
  /\ MoveTo(Head(workerChan[w]), "worker")
  /\ UNCHANGED <<JobChan, RetryJobChan, FailedJobChan, calls,
                 dispatcher, ctxDone, wg, retryCount>>

\* job, more := <-w.Channel()
ReceiveJob(w) ==
  /\ wpc[w] = "recv" /\ workerChan[w] # <<>>
  /\ workerChan' = [workerChan EXCEPT ![w] = Tail(@)]
  /\ wjob' = [wjob EXCEPT ![w] = Head(workerChan[w])]
  /\ wpc' = [wpc EXCEPT ![w] = "process"]
  /\ MoveTo(Head(workerChan[w]), "worker")
  /\ UNCHANGED <<JobChan, RetryJobChan, FailedJobChan, Queue, calls,
                 dispatcher, ctxDone, wg, retryCount>>

\* job, more := <-w.Channel() with more = false
StopWorker(w) ==
  /\ wpc[w] = "recv" /\ workerChan[w] = <<>> /\ w \in closedWorkers
  /\ wpc' = [wpc EXCEPT ![w] = "stopped"]
  /\ UNCHANGED <<JobChan, RetryJobChan, FailedJobChan, Queue, workerChan, wjob,
                 calls, dispatcher, ctxDone, wg, at, retryCount>>

\* ProcessJob returns nil; SendCallbackJobs has the callback jobs in hand.
ProcessSucceeds(w) ==
  /\ wpc[w] = "process"
  /\ LET j == wjob[w] IN
     /\ calls' = [calls EXCEPT ![w] = CallBacks[j]]
     /\ wpc' = [wpc EXCEPT ![w] = IF CallBacks[j] = {} THEN "push" ELSE "callbacks"]
     /\ at' = [k \in Jobs |-> IF k = j THEN "done"
                              ELSE IF k \in CallBacks[j] THEN "calls" ELSE at[k]]
  /\ wjob' = [wjob EXCEPT ![w] = NoJob]
  /\ UNCHANGED <<JobChan, RetryJobChan, FailedJobChan, Queue, workerChan,
                 dispatcher, ctxDone, wg, retryCount>>

\* SendCallbackJobs enqueues the next callback job.
SendCallback(w) ==
  /\ wpc[w] = "callbacks"
  /\ \E j \in calls[w] :
       /\ Enqueue(j)
       /\ calls' = [calls EXCEPT ![w] = @ \ {j}]
       /\ wpc' = [wpc EXCEPT ![w] = IF calls[w] = {j} THEN "push" ELSE "callbacks"]
  /\ UNCHANGED <<RetryJobChan, FailedJobChan, Queue, workerChan, wjob,
                 dispatcher, ctxDone, wg, retryCount>>

\* Variants: one try less, and one more.
NoTryLeftEarly(j) == retryCount[j] + 1 >= MaxTry
NoTryLeftLate(j) == retryCount[j] > MaxTry

\* job.GetRetryCount()+1 > job.GetMaxTry()
NoTryLeft(j) == retryCount[j] + 1 > MaxTry

\* ProcessJob returns an error: another try, or none left.
ProcessFails(w) ==
  /\ wpc[w] = "process"
  /\ LET j == wjob[w] IN
       IF NoTryLeft(j)
       THEN /\ wpc' = [wpc EXCEPT ![w] = "fail"]
            /\ MoveTo(j, "failing")
            /\ UNCHANGED retryCount
       ELSE /\ wpc' = [wpc EXCEPT ![w] = "retry"]
            /\ MoveTo(j, "retrying")
            /\ retryCount' = [retryCount EXCEPT ![j] = @ + 1]
  /\ UNCHANGED <<JobChan, RetryJobChan, FailedJobChan, Queue, workerChan, wjob,
                 calls, dispatcher, ctxDone, wg>>

\* The deferred recover of startWorker is outside its loop: the goroutine
\* ends, and with it the worker, without Stop.
ProcessPanics(w) ==
  /\ "panic" \in Faults
  /\ wpc[w] = "process"
  /\ wpc' = [wpc EXCEPT ![w] = "dead"]
  /\ wjob' = [wjob EXCEPT ![w] = NoJob]
  /\ MoveTo(wjob[w], "lost")
  /\ UNCHANGED <<JobChan, RetryJobChan, FailedJobChan, Queue, workerChan, calls,
                 dispatcher, ctxDone, wg, retryCount>>

\* Variant: without its "continue", and so the job goes on to RetryJob.
SendFailedJobGoesOn(w) ==
  /\ wpc[w] = "fail"
  /\ Len(FailedJobChan) < MaxQueueSize
  /\ FailedJobChan' = Append(FailedJobChan, wjob[w])
  /\ MoveTo(wjob[w], "failedChan")
  /\ wpc' = [wpc EXCEPT ![w] = "retry"]
  /\ UNCHANGED <<JobChan, RetryJobChan, Queue, workerChan, wjob, calls,
                 dispatcher, ctxDone, wg, retryCount>>

\* Variant: its "continue" goes on to the next job, and not to Queue.
SendFailedJobStays(w) ==
  /\ wpc[w] = "fail"
  /\ Len(FailedJobChan) < MaxQueueSize
  /\ FailedJobChan' = Append(FailedJobChan, wjob[w])
  /\ MoveTo(wjob[w], "failedChan")
  /\ wpc' = [wpc EXCEPT ![w] = "recv"]
  /\ wjob' = [wjob EXCEPT ![w] = NoJob]
  /\ UNCHANGED <<JobChan, RetryJobChan, Queue, workerChan, calls,
                 dispatcher, ctxDone, wg, retryCount>>

\* p.FailedJobChan <- job
SendFailedJob(w) ==
  /\ wpc[w] = "fail"
  /\ Len(FailedJobChan) < MaxQueueSize
  /\ FailedJobChan' = Append(FailedJobChan, wjob[w])
  /\ MoveTo(wjob[w], "failedChan")
  /\ wpc' = [wpc EXCEPT ![w] = "push"]
  /\ wjob' = [wjob EXCEPT ![w] = NoJob]
  /\ UNCHANGED <<JobChan, RetryJobChan, Queue, workerChan, calls,
                 dispatcher, ctxDone, wg, retryCount>>

\* RetryJob waits for room as Enqueue does.
RetryJob(w) ==
  /\ wpc[w] = "retry"
  /\ Len(RetryJobChan) < MaxQueueSize
  /\ RetryJobChan' = Append(RetryJobChan, wjob[w])
  /\ MoveTo(wjob[w], "retryChan")
  /\ wpc' = [wpc EXCEPT ![w] = "push"]
  /\ wjob' = [wjob EXCEPT ![w] = NoJob]
  /\ UNCHANGED <<JobChan, FailedJobChan, Queue, workerChan, calls,
                 dispatcher, ctxDone, wg, retryCount>>

WorkerStep(w) ==
  \/ PushChannel(w) \/ ReceiveJob(w) \/ StopWorker(w)
  \/ ProcessSucceeds(w) \/ SendCallback(w)
  \/ ProcessFails(w) \/ ProcessPanics(w)
  \/ SendFailedJob(w) \/ RetryJob(w)
-----------------------------------------------------------------------------
(* Start *)

\* Variant: a job written off gets the status of one to take up again.
TakeFailedJobPending ==
  /\ dpc \in {"select", "saveFailed"} /\ FailedJobChan # <<>>
  /\ FailedJobChan' = Tail(FailedJobChan)
  /\ Save(Head(FailedJobChan), "pending")
  /\ UNCHANGED <<JobChan, RetryJobChan, Queue, workerChan, worker, dispatcher,
                 ctxDone, wg, retryCount>>

\* case job := <-p.FailedJobChan, and the last loop of the shutdown
TakeFailedJob ==
  /\ dpc \in {"select", "saveFailed"} /\ FailedJobChan # <<>>
  /\ FailedJobChan' = Tail(FailedJobChan)
  /\ Save(Head(FailedJobChan), "failed")
  /\ UNCHANGED <<JobChan, RetryJobChan, Queue, workerChan, worker, dispatcher,
                 ctxDone, wg, retryCount>>

\* Variant: no retryableWaitGroup.Add(1)
TakeRetryJobUncounted ==
  /\ dpc = "select" /\ RetryJobChan # <<>>
  /\ RetryJobChan' = Tail(RetryJobChan)
  /\ MoveTo(Head(RetryJobChan), "prepare")
  /\ UNCHANGED <<JobChan, FailedJobChan, Queue, workerChan, worker, dispatcher,
                 ctxDone, wg, retryCount>>

\* case job := <-p.RetryJobChan
TakeRetryJob ==
  /\ dpc = "select" /\ RetryJobChan # <<>>
  /\ RetryJobChan' = Tail(RetryJobChan)
  /\ wg' = wg + 1
  /\ MoveTo(Head(RetryJobChan), "prepare")
  /\ UNCHANGED <<JobChan, FailedJobChan, Queue, workerChan, worker, dispatcher,
                 ctxDone, retryCount>>

\* case job := <-p.JobChan, and the first loop of the shutdown
TakeJob ==
  /\ dpc \in {"select", "drain"} /\ JobChan # <<>>
  /\ JobChan' = Tail(JobChan)
  /\ djob' = Head(JobChan)
  /\ MoveTo(Head(JobChan), "pool")
  /\ dpc' = IF dpc = "select" THEN "dispatch" ELSE "drainDispatch"
  /\ UNCHANGED <<RetryJobChan, FailedJobChan, Queue, workerChan, worker,
                 closedWorkers, ctxDone, wg, retryCount>>

\* workerCh := <-p.Queue; p.SendJobToWorker(workerCh, job).  Its recover from a
\* closed workerCh is left out: HandsToIdle says it has nothing to recover from.
SendJobToWorker ==
  /\ dpc \in {"dispatch", "drainDispatch"} /\ Queue # <<>>
  /\ Queue' = Tail(Queue)
  /\ Len(workerChan[Head(Queue)]) < MaxQueueSize
  /\ workerChan' = [workerChan EXCEPT ![Head(Queue)] = Append(@, djob)]
  /\ MoveTo(djob, "workerChan")
  /\ djob' = NoJob
  /\ dpc' = IF dpc = "dispatch" THEN "select" ELSE "drain"
  /\ UNCHANGED <<JobChan, RetryJobChan, FailedJobChan, worker, closedWorkers,
                 ctxDone, wg, retryCount>>

\* case <-p.ctx.Done(): isClosed.Store(true), then closeFunc()
BeginClose ==
  /\ dpc = "select" /\ ctxDone
  /\ dpc' = "closeFunc"
  /\ UNCHANGED <<JobChan, RetryJobChan, FailedJobChan, Queue, workerChan, worker,
                 djob, closedWorkers, ctxDone, wg, at, retryCount>>

\* closeFunc returned; close(p.JobChan)
CloseJobChan ==
  /\ dpc = "closeFunc"
  /\ dpc' = "drain"
  /\ UNCHANGED <<JobChan, RetryJobChan, FailedJobChan, Queue, workerChan, worker,
                 djob, closedWorkers, ctxDone, wg, at, retryCount>>

\* Variant: the workers are closed while JobChan still holds jobs.
CloseWorkerAtOnce(w) ==
  /\ dpc \in {"drain", "closeWorkers"}
  /\ \A v \in closedWorkers : wpc[v] = "stopped"
  /\ w \notin closedWorkers
  /\ closedWorkers' = closedWorkers \cup {w}
  /\ dpc' = "closeWorkers"
  /\ UNCHANGED <<JobChan, RetryJobChan, FailedJobChan, Queue, workerChan, worker,
                 djob, ctxDone, wg, at, retryCount>>

\* worker.Close(), once the Wait() of the worker before it has returned
CloseWorker(w) ==
  /\ \/ dpc = "drain" /\ JobChan = <<>>
     \/ dpc = "closeWorkers"
  /\ \A v \in closedWorkers : wpc[v] = "stopped"
  /\ w \notin closedWorkers
  /\ closedWorkers' = closedWorkers \cup {w}
  /\ dpc' = "closeWorkers"
  /\ UNCHANGED <<JobChan, RetryJobChan, FailedJobChan, Queue, workerChan, worker,
                 djob, ctxDone, wg, at, retryCount>>

\* Variant: without the Wait() of the worker closed last
CloseChansAtOnce ==
  /\ dpc = "closeWorkers" /\ closedWorkers = Workers
  /\ dpc' = "saveRetry"
  /\ UNCHANGED <<JobChan, RetryJobChan, FailedJobChan, Queue, workerChan, worker,
                 djob, closedWorkers, ctxDone, wg, at, retryCount>>

\* Variant: Start waits until nothing is in Queue any more.
CloseChansDrained ==
  /\ dpc = "closeWorkers" /\ Queue = <<>>
  /\ \A v \in Workers : v \in closedWorkers /\ wpc[v] = "stopped"
  /\ dpc' = "saveRetry"
  /\ UNCHANGED <<JobChan, RetryJobChan, FailedJobChan, Queue, workerChan, worker,
                 djob, closedWorkers, ctxDone, wg, at, retryCount>>

CloseChans ==
  /\ dpc = "closeWorkers"
  /\ \A v \in Workers : v \in closedWorkers /\ wpc[v] = "stopped"
  /\ dpc' = "saveRetry"
  /\ UNCHANGED <<JobChan, RetryJobChan, FailedJobChan, Queue, workerChan, worker,
                 djob, closedWorkers, ctxDone, wg, at, retryCount>>

\* "Saving unprocessed retry jobs."
SaveRetryJob ==
  /\ dpc = "saveRetry" /\ RetryJobChan # <<>>
  /\ RetryJobChan' = Tail(RetryJobChan)
  /\ Save(Head(RetryJobChan), "pending")
  /\ UNCHANGED <<JobChan, FailedJobChan, Queue, workerChan, worker, dispatcher,
                 ctxDone, wg, retryCount>>

\* Variant: jobs are left behind in RetryJobChan.
RetryJobsForgotten ==
  /\ dpc = "saveRetry"
  /\ dpc' = "saveFailed"
  /\ UNCHANGED <<JobChan, RetryJobChan, FailedJobChan, Queue, workerChan, worker,
                 djob, closedWorkers, ctxDone, wg, at, retryCount>>

RetryJobsSaved ==
  /\ dpc = "saveRetry" /\ RetryJobChan = <<>>
  /\ dpc' = "saveFailed"
  /\ UNCHANGED <<JobChan, RetryJobChan, FailedJobChan, Queue, workerChan, worker,
                 djob, closedWorkers, ctxDone, wg, at, retryCount>>

FailedJobsSaved ==
  /\ dpc = "saveFailed" /\ FailedJobChan = <<>>
  /\ dpc' = "wait"
  /\ UNCHANGED <<JobChan, RetryJobChan, FailedJobChan, Queue, workerChan, worker,
                 djob, closedWorkers, ctxDone, wg, at, retryCount>>

\* Variant: no retryableWaitGroup.Wait()
CloseStopAtOnce ==
  /\ dpc = "wait"
  /\ dpc' = "stopped"
  /\ UNCHANGED <<JobChan, RetryJobChan, FailedJobChan, Queue, workerChan, worker,
                 djob, closedWorkers, ctxDone, wg, at, retryCount>>

\* p.retryableWaitGroup.Wait(); close(p.stop)
CloseStop ==
  /\ dpc = "wait" /\ wg = 0
  /\ dpc' = "stopped"
  /\ UNCHANGED <<JobChan, RetryJobChan, FailedJobChan, Queue, workerChan, worker,
                 djob, closedWorkers, ctxDone, wg, at, retryCount>>

StartStep ==
  \/ TakeFailedJob \/ TakeRetryJob \/ TakeJob \/ SendJobToWorker
  \/ BeginClose \/ CloseJobChan
  \/ \E w \in Workers : CloseWorker(w)
  \/ CloseChans \/ SaveRetryJob \/ RetryJobsSaved \/ FailedJobsSaved \/ CloseStop
-----------------------------------------------------------------------------
(* PrepareRetryableJob: its two early returns come before the deferred Done *)

others == <<RetryJobChan, FailedJobChan, Queue, workerChan, worker, dispatcher,
            ctxDone, retryCount>>

PrepareClosed(j) ==
  /\ at[j] = "prepare" /\ IsClosed
  /\ Save(j, "pending")
  /\ UNCHANGED <<JobChan, wg, others>>

\* dur <= 0: the job is neither enqueued nor saved.
PrepareLate(j) ==
  /\ "late" \in Faults
  /\ at[j] = "prepare" /\ ~IsClosed
  /\ MoveTo(j, "lost")
  /\ UNCHANGED <<JobChan, wg, others>>

PrepareTimer(j) ==
  /\ at[j] = "prepare" /\ ~IsClosed
  /\ MoveTo(j, "timer")
  /\ UNCHANGED <<JobChan, wg, others>>

\* case <-timer.C
TimerFires(j) ==
  /\ at[j] = "timer"
  /\ MoveTo(j, "enqueue")
  /\ UNCHANGED <<JobChan, wg, others>>

\* case <-p.ctx.Done()
TimerCancelled(j) ==
  /\ at[j] = "timer" /\ ctxDone
  /\ Save(j, "pending")
  /\ wg' = wg - 1
  /\ UNCHANGED <<JobChan, others>>

EnqueueRetry(j) ==
  /\ at[j] = "enqueue"
  /\ Enqueue(j)
  /\ wg' = wg - 1
  /\ UNCHANGED others

PrepareRetryableJob(j) ==
  \/ PrepareClosed(j) \/ PrepareLate(j) \/ PrepareTimer(j)
  \/ TimerFires(j) \/ TimerCancelled(j) \/ EnqueueRetry(j)
-----------------------------------------------------------------------------
Init ==
  /\ JobChan = <<>> /\ RetryJobChan = <<>> /\ FailedJobChan = <<>> /\ Queue = <<>>
  /\ workerChan = [w \in Workers |-> <<>>]
  /\ wpc = [w \in Workers |-> "push"]
  /\ wjob = [w \in Workers |-> NoJob]
  /\ calls = [w \in Workers |-> {}]
  /\ closedWorkers = {}
  /\ dpc = "select" /\ djob = NoJob
  /\ ctxDone = FALSE
  /\ wg = 0
  /\ at = [j \in Jobs |-> IF j \in Roots THEN "fresh" ELSE "unborn"]
  /\ retryCount = FirstRetryCount

Next ==
  \/ Cancel
  \/ \E j \in Jobs : Listen(j)
  \/ \E w \in Workers : WorkerStep(w)
  \/ StartStep
  \/ \E j \in Jobs : PrepareRetryableJob(j)

\* Every goroutine that can take a step eventually takes one, a job's Process
\* returns, and timers fire.  Nothing makes the context be cancelled, and
\* nothing makes a listener hand in a job.
Fairness ==
  /\ \A w \in Workers : WF_vars(WorkerStep(w))
  /\ WF_vars(StartStep)
  /\ \A j \in Jobs : WF_vars(PrepareRetryableJob(j))

Spec == Init /\ [][Next]_vars
FairSpec == Spec /\ Fairness
-----------------------------------------------------------------------------
(* Properties *)

Places == {"unborn", "fresh"} \cup InMemory \cup Settled

ChannelTypes ==
  /\ JobChan \in Seq(Jobs) /\ Len(JobChan) <= JobChanSize
  /\ RetryJobChan \in Seq(Jobs) /\ Len(RetryJobChan) <= MaxQueueSize
  /\ FailedJobChan \in Seq(Jobs) /\ Len(FailedJobChan) <= MaxQueueSize
  /\ Queue \in Seq(Workers) /\ Len(Queue) <= MaxQueueSize
  /\ workerChan \in [Workers -> Seq(Jobs)]

GoroutineTypes ==
  /\ wpc \in [Workers -> {"push", "recv", "process", "callbacks", "fail",
                          "retry", "stopped", "dead"}]
  /\ wjob \in [Workers -> Jobs \cup {NoJob}]
  /\ calls \in [Workers -> SUBSET Jobs]
  /\ closedWorkers \subseteq Workers
  /\ dpc \in {"select", "dispatch", "closeFunc", "drain", "drainDispatch",
              "closeWorkers", "saveRetry", "saveFailed", "wait", "stopped"}
  /\ djob \in Jobs \cup {NoJob}
  /\ ctxDone \in BOOLEAN
  /\ wg \in Nat

JobTypes == at \in [Jobs -> Places] /\ retryCount \in [Jobs -> 0..MaxTry]

\* Types, and the capacities of the four channels (NewPool).
TypeOK == ChannelTypes /\ GoroutineTypes /\ JobTypes

JobsAt(places) == {j \in Jobs : at[j] \in places}

\* c holds the jobs whose place is place, each once.
ChannelHolds(c, place) ==
  IsInjective(c) /\ \A j \in Jobs : at[j] = place <=> j \in Range(c)

ChannelsHold ==
  /\ ChannelHolds(JobChan, "jobChan")
  /\ ChannelHolds(RetryJobChan, "retryChan")
  /\ ChannelHolds(FailedJobChan, "failedChan")

DispatcherHolds == \A j \in Jobs : at[j] = "pool" <=> djob = j

\* Of the workers, one holds a job whose place is place: h[w] is what w holds.
HeldBy(h, place) ==
  /\ \A j \in Jobs : at[j] = place <=> \E w \in Workers : j \in h[w]
  /\ \A v, w \in Workers : v # w => h[v] \cap h[w] = {}

InChan == [w \in Workers |-> Range(workerChan[w])]
InHand(pc) == [w \in Workers |-> IF wpc[w] = pc THEN {wjob[w]} ELSE {}]

WorkersHold ==
  /\ HeldBy(InChan, "workerChan")
  /\ HeldBy(InHand("process"), "worker")
  /\ HeldBy(InHand("fail"), "failing")
  /\ HeldBy(InHand("retry"), "retrying")
  /\ HeldBy(calls, "calls")

\* However listeners, workers, retry goroutines and the dispatcher interleave,
\* a job is in one place only: no channel holds it twice, no two channels or
\* goroutines hold it at once, none holds a job that is settled, and a job is
\* not in memory unless one of them holds it.
HeldOnce == ChannelsHold /\ DispatcherHolds /\ WorkersHold

\* The dispatcher hands a job to an idle worker only: a worker in Queue is there
\* once, waits for a job, and has an empty channel, so a channel of MaxQueueSize
\* never holds more than one job and no job waits behind a slow one.  No worker's
\* channel is closed while jobs are handed over, so the recover of
\* SendJobToWorker has nothing to catch.
HandsToIdle ==
  /\ IsInjective(Queue)
  /\ \A w \in Range(Queue) : wpc[w] \in {"recv", "stopped"} /\ workerChan[w] = <<>>
  /\ \A w \in Workers : Len(workerChan[w]) <= 1
  /\ dpc \in {"dispatch", "drainDispatch"} => closedWorkers = {}

\* FailedJobChan, RetryJobChan and Queue are closed only when every worker has
\* stopped, so startWorker never sends on a closed channel (its recover would
\* end the worker and forget the job).
NoSendOnClosedChan ==
  ChansClosed => \A w \in Workers : wpc[w] = "stopped"

\* The wait group counts at least every retry goroutine that is still running:
\* Wait cannot return early, and Done cannot make the counter negative.
OnFlyCounted == Cardinality(JobsAt(OnFly)) <= wg

\* When Pool.Wait returns no job is left in memory: each one that was handed in
\* was processed, or has a row, or was lost to a fault.
StopMeansSettled == dpc = "stopped" => JobsAt(InMemory) = {}

\* A job is written off as failed only after MaxTry retries.
FailsAfterMaxTry ==
  \A j \in Jobs : at[j] \in {"failing", "failedChan", "failed"} => retryCount[j] = MaxTry

\* A settled job is never taken up again: it is not processed after it was
\* saved, nor saved after it was processed.
SettledIsFinal ==
  [][\A j \in Jobs : at[j] \in Settled => at'[j] = at[j]]_vars

(***************************************************************************)
(* The inductive invariant behind these: what holds a job, and what each   *)
(* control point of a worker and of the dispatcher implies.                *)
(***************************************************************************)
WorkerControl ==
  \A w \in Workers :
    /\ wjob[w] = NoJob <=> wpc[w] \notin {"process", "fail", "retry"}
    /\ calls[w] # {} => wpc[w] = "callbacks"
    /\ workerChan[w] # <<>> => wpc[w] = "recv" /\ w \notin Range(Queue)
    /\ w \in Range(Queue) => wpc[w] \in {"recv", "stopped"}
    /\ wpc[w] = "stopped" => w \in closedWorkers

DispatcherControl ==
  /\ djob = NoJob <=> dpc \notin {"dispatch", "drainDispatch"}
  /\ IsClosed => ctxDone
  /\ closedWorkers # {} => ChansClosed \/ dpc = "closeWorkers"
  /\ ChansClosed \/ dpc = "closeWorkers" => JobChan = <<>>
  /\ ChansClosed => \A w \in Workers : wpc[w] = "stopped"
  /\ dpc \in {"saveFailed", "wait", "stopped"} => RetryJobChan = <<>>
  /\ dpc \in {"wait", "stopped"} => FailedJobChan = <<>>
  /\ dpc = "stopped" => JobsAt(OnFly) = {}

\* A callback job comes into being when the job that calls it back is done.
CallBackControl ==
  \A j \in Jobs : at[j] # "done" => \A k \in CallBacks[j] : at[k] = "unborn"

IInv ==
  /\ TypeOK /\ HeldOnce /\ HandsToIdle /\ OnFlyCounted /\ FailsAfterMaxTry
  /\ WorkerControl /\ DispatcherControl /\ CallBackControl

\* A worker that waits for a job is in Queue: the dispatcher forgets no one.  A
\* stopped worker still is, so that all can stop only if Queue has room for all
\* of them: with more workers than MaxQueueSize the pool never does (the defaults
\* are 8182 and 4096).
IdleInQueue ==
  \A w \in Workers :
    wpc[w] \in {"recv", "stopped"} /\ workerChan[w] = <<>> => w \in Range(Queue)

\* A worker does not go on by itself: a panic has ended it, or it waits for room.
Stands(w) ==
  \/ wpc[w] = "dead"
  \/ wpc[w] = "push" /\ Len(Queue) = MaxQueueSize
  \/ wpc[w] = "callbacks" /\ ~JobChanClosed /\ Len(JobChan) = JobChanSize
  \/ wpc[w] = "fail" /\ Len(FailedJobChan) = MaxQueueSize
  \/ wpc[w] = "retry" /\ Len(RetryJobChan) = MaxQueueSize

\* The dispatcher waits for workers that stand: for any of them to be idle, or
\* for one it has closed to stop.
Stuck ==
  \/ /\ dpc \in {"dispatch", "drainDispatch"} /\ Queue = <<>>
     /\ \A w \in Workers : Stands(w)
  \/ dpc = "closeWorkers" /\ \E w \in closedWorkers : Stands(w)

\* PrepareRetryableJob has returned before its Done.
DoneSkipped == Cardinality(JobsAt(OnFly)) < wg

\* Every job the pool has taken is eventually processed, saved or lost to a
\* fault, unless dispatcher and workers end up waiting for each other for good.
EveryJobSettles ==
  \A j \in Jobs : at[j] \in InMemory ~> (at[j] \in Settled \/ []Stuck)

\* A cancelled pool stops, unless a Done was skipped or dispatcher and workers
\* end up waiting for each other for good: nothing else holds Pool.Wait up.
StopsUnlessStuck ==
  ctxDone ~> (dpc = "stopped" \/ []DoneSkipped \/ []Stuck)

\* A cancelled pool stops: Pool.Wait returns.
CancelStops == ctxDone ~> dpc = "stopped"
-----------------------------------------------------------------------------
(* What the pool promises of each job: it implements JobLifecycle. *)

PhaseOf(place) ==
  CASE place \in {"unborn", "fresh"} -> "new"
    [] place \in {"jobChan", "pool", "workerChan", "calls"} -> "waiting"
    [] place = "worker" -> "running"
    [] place \in {"retrying", "retryChan", "prepare", "timer", "enqueue"} -> "backoff"
    [] place \in {"failing", "failedChan"} -> "dying"
    [] place \in Settled -> place

Lifecycle == INSTANCE JobLifecycle WITH
  phase <- [j \in Jobs |-> PhaseOf(at[j])],
  retries <- [j \in Jobs |-> IF at[j] \in Settled THEN 0 ELSE retryCount[j]],
  closing <- ctxDone, stopped <- dpc = "stopped"

\* Every step of the goroutines is a step of the life of one job, the
\* cancellation, the end of the pool, or invisible.
ImplementsLifecycle == Lifecycle!LifecycleSpec
=============================================================================
