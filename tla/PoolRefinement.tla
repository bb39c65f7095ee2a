--------------------------- MODULE PoolRefinement ---------------------------
(***************************************************************************)
(* The worker pool implements JobLifecycle: every step of its goroutines   *)
(* is, for the jobs, a step of their life cycle or invisible.              *)
(***************************************************************************)
EXTENDS PoolProofs

USE DEF worker, dispatcher, others, NoTryLeft

Phases == [j \in Jobs |-> PhaseOf(at[j])]
Tries  == [j \in Jobs |-> IF at[j] \in Settled THEN 0 ELSE retryCount[j]]

\* The phase of each place.
LEMMA PhaseIs ==
  /\ PhaseOf("fresh") = "new" /\ PhaseOf("unborn") = "new"
  /\ \A p \in {"jobChan", "pool", "workerChan", "calls"} : PhaseOf(p) = "waiting"
  /\ PhaseOf("worker") = "running"
  /\ \A p \in {"retrying", "retryChan", "prepare", "timer", "enqueue"} : PhaseOf(p) = "backoff"
  /\ \A p \in {"failing", "failedChan"} : PhaseOf(p) = "dying"
  /\ \A p \in Settled : PhaseOf(p) = p
BY DEF PhaseOf, Settled

\* A job whose phase is not that of a settled one has not settled.
LEMMA NotSettled ==
  ASSUME NEW p, PhaseOf(p) \in {"new", "waiting", "running", "backoff", "dying"}
  PROVE  p \notin Settled
BY PhaseIs DEF Settled

\* A job that moves changes its own phase, to the one of its new place.
LEMMA PhaseMoves ==
  ASSUME JobTypes, NEW j \in Jobs, NEW p, MoveTo(j, p)
  PROVE  /\ Phases' = [Phases EXCEPT ![j] = PhaseOf(p)]
         /\ Phases[j] = PhaseOf(at[j])
         /\ PhaseOf(p) = PhaseOf(at[j]) => Phases' = Phases
<1>1. \A k \in Jobs : at'[k] = IF k = j THEN p ELSE at[k]
  BY DEF JobTypes, MoveTo
<1>2. QED
  BY <1>1 DEF Phases

\* Its tries count until it is settled,
LEMMA Moving ==
  ASSUME JobTypes, NEW j \in Jobs, NEW p, MoveTo(j, p), p \notin Settled,
         at[j] \notin Settled, retryCount' = retryCount
  PROVE  /\ Lifecycle!Becomes(j, PhaseOf(p)) /\ Tries' = Tries
         /\ PhaseOf(p) = PhaseOf(at[j]) => Phases' = Phases
<1>1. \A k \in Jobs : at'[k] = IF k = j THEN p ELSE at[k]
  BY DEF JobTypes, MoveTo
<1>2. Tries' = Tries
  BY <1>1 DEF Tries
<1>3. QED
  BY <1>2, PhaseMoves DEF Lifecycle!Becomes, Phases

\* and are forgotten then.
LEMMA Settling ==
  ASSUME JobTypes, NEW j \in Jobs, NEW p \in Settled, MoveTo(j, p),
         at[j] \notin Settled, retryCount' = retryCount
  PROVE  Lifecycle!Becomes(j, p) /\ Lifecycle!Forgets(j)
<1>1. \A k \in Jobs : at'[k] = IF k = j THEN p ELSE at[k]
  BY DEF JobTypes, MoveTo
<1>2. PhaseOf(p) = p
  BY PhaseIs
<1>3. Lifecycle!Becomes(j, p)
  BY <1>2, PhaseMoves DEF Lifecycle!Becomes, Phases
<1>4. Tries' = [Tries EXCEPT ![j] = 0]
  BY <1>1 DEF Tries
<1>5. QED
  BY <1>3, <1>4 DEF Lifecycle!Forgets, Tries

\* A job that is not being processed is saved while the pool is closing.
LEMMA SavedWhenClosing ==
  ASSUME JobTypes, NEW j \in Jobs, PhaseOf(at[j]) \in {"new", "waiting", "backoff"},
         ctxDone, Save(j, "pending"), UNCHANGED <<dpc, ctxDone, retryCount>>
  PROVE  Lifecycle!RecordPending(j) \/ Lifecycle!Lose(j)
<1>1. CASE MoveTo(j, "pending")
  BY <1>1, Settling, PhaseIs, NotSettled
    DEF Lifecycle!RecordPending, Settled
<1>2. CASE "save" \in Faults /\ MoveTo(j, "lost")
  BY <1>2, Settling, PhaseIs, NotSettled DEF Lifecycle!Lose, Settled
<1>3. QED
  BY <1>1, <1>2 DEF Save

\* Enqueue accepts a job that is new or comes back from its backoff, or saves it.
LEMMA EnqueueAccepts ==
  ASSUME IInv, NEW j \in Jobs, PhaseOf(at[j]) \in {"new", "backoff"},
         Enqueue(j), UNCHANGED <<dpc, ctxDone, retryCount>>
  PROVE  Lifecycle!Accept(j) \/ Lifecycle!RecordPending(j) \/ Lifecycle!Lose(j)
<1>1. CASE ~JobChanClosed /\ MoveTo(j, "jobChan")
  BY <1>1, Moving, PhaseIs, NotSettled
    DEF IInv, TypeOK, Lifecycle!Accept, Tries, Settled, JobChanClosed
<1>2. CASE JobChanClosed /\ Save(j, "pending")
  BY <1>2, SavedWhenClosing
    DEF IInv, TypeOK, DispatcherControl, JobChanClosed, IsClosed
<1>3. QED
  BY <1>1, <1>2 DEF Enqueue

\* A pool in its initial state has new jobs only.
LEMMA LifecycleInitially == Init => Lifecycle!LifecycleInit
BY PhaseIs, PoolAssumption DEF Init, Lifecycle!LifecycleInit

\* Every step is a step of the life cycle, or leaves it unchanged.
LEMMA LifecycleStep ==
  IInv /\ [Next]_vars => [Lifecycle!LifecycleNext]_(Lifecycle!lifecycleVars)
<1> SUFFICES ASSUME IInv, [Next]_vars
      PROVE  [Lifecycle!LifecycleNext]_(Lifecycle!lifecycleVars)
  OBVIOUS
<1>1. CASE UNCHANGED <<at, ctxDone, dpc, retryCount, wpc>>
  BY <1>1 DEF Lifecycle!lifecycleVars
<1>2. CASE Cancel
  BY <1>2 DEF Cancel, Lifecycle!LifecycleNext, Lifecycle!Close
<1>3. ASSUME NEW j \in Jobs, Listen(j)
      PROVE  [Lifecycle!LifecycleNext]_(Lifecycle!lifecycleVars)
  BY <1>3, EnqueueAccepts, PhaseIs DEF Listen, Lifecycle!LifecycleNext
<1>4. ASSUME NEW w \in Workers, PushChannel(w)
      PROVE  [Lifecycle!LifecycleNext]_(Lifecycle!lifecycleVars)
  BY <1>4 DEF PushChannel, Lifecycle!lifecycleVars
<1>5. ASSUME NEW w \in Workers, ReceiveJob(w)
      PROVE  [Lifecycle!LifecycleNext]_(Lifecycle!lifecycleVars)
  <2>1. Lifecycle!Run(Head(workerChan[w])) /\ Head(workerChan[w]) \in Jobs
    BY <1>5, Sources, Moving, PhaseIs, NotSettled
      DEF ReceiveJob, IInv, TypeOK, Lifecycle!Run, Tries, Settled
  <2>2. QED
    BY <2>1 DEF Lifecycle!LifecycleNext
<1>6. ASSUME NEW w \in Workers, StopWorker(w)
      PROVE  [Lifecycle!LifecycleNext]_(Lifecycle!lifecycleVars)
  BY <1>6 DEF StopWorker, Lifecycle!lifecycleVars
<1>7. ASSUME NEW w \in Workers, ProcessSucceeds(w)
      PROVE  [Lifecycle!LifecycleNext]_(Lifecycle!lifecycleVars)
  <2>1. PICK j \in Jobs :
        /\ at[j] = "worker" /\ UNCHANGED <<dpc, ctxDone, retryCount>>
        /\ \A k \in CallBacks[j] : k \in Jobs /\ at[k] = "unborn"
        /\ at' = [k \in Jobs |-> IF k = j THEN "done"
                                 ELSE IF k \in CallBacks[j] THEN "calls" ELSE at[k]]
    BY <1>7, Sources, PoolAssumption DEF ProcessSucceeds, IInv, CallBackControl
  <2>2. Phases' = [k \in Jobs |-> IF k = j THEN "done"
                      ELSE IF k \in CallBacks[j] THEN "waiting" ELSE Phases[k]]
    BY <2>1, PhaseIs DEF Phases, Settled
  <2>3. Tries' = [Tries EXCEPT ![j] = 0]
    BY <2>1, <2>2, PhaseIs DEF Tries, Settled
  <2>4. Lifecycle!Succeed(j)
    BY <2>1, <2>2, <2>3, PhaseIs DEF Lifecycle!Succeed, Lifecycle!Forgets, Phases, Tries
  <2>5. QED
    BY <2>1, <2>4 DEF Lifecycle!LifecycleNext
<1>8. ASSUME NEW w \in Workers, SendCallback(w)
      PROVE  [Lifecycle!LifecycleNext]_(Lifecycle!lifecycleVars)
  <2>1. PICK j \in calls[w] : Enqueue(j)
    BY <1>8 DEF SendCallback
  <2>2. j \in Jobs /\ at[j] = "calls" /\ UNCHANGED <<dpc, ctxDone, retryCount>>
    BY <1>8, <2>1, Sources DEF SendCallback
  <2>3. CASE MoveTo(j, "jobChan")
    <3>1. Phases' = Phases /\ Tries' = Tries
      BY <2>2, <2>3, Moving, PhaseIs, NotSettled DEF IInv, TypeOK
    <3>2. QED
      BY <2>2, <3>1 DEF Lifecycle!lifecycleVars, Phases, Tries
  <2>4. CASE JobChanClosed /\ Save(j, "pending")
    <3>1. ctxDone
      BY <2>4 DEF JobChanClosed, IsClosed, IInv, DispatcherControl
    <3>2. Lifecycle!RecordPending(j) \/ Lifecycle!Lose(j)
      BY <2>2, <2>4, <3>1, SavedWhenClosing, PhaseIs DEF IInv, TypeOK
    <3>3. QED
      BY <2>2, <3>2 DEF Lifecycle!LifecycleNext
  <2>5. QED
    BY <2>1, <2>3, <2>4 DEF Enqueue
<1>9. ASSUME NEW w \in Workers, ProcessFails(w)
      PROVE  [Lifecycle!LifecycleNext]_(Lifecycle!lifecycleVars)
  <2>1. PICK j \in Jobs :
        /\ j = wjob[w] /\ PhaseOf(at[j]) = "running" /\ JobTypes /\ MaxTry \in Nat
        /\ retryCount[j] \in 0..MaxTry /\ UNCHANGED <<dpc, ctxDone>>
    BY <1>9, Sources, PhaseIs, PoolAssumption DEF ProcessFails, IInv, TypeOK, JobTypes
  <2>2. CASE retryCount[j] + 1 > MaxTry
    <3>1. MoveTo(j, "failing") /\ retryCount' = retryCount /\ retryCount[j] = MaxTry
      BY <1>9, <2>1, <2>2 DEF ProcessFails
    <3>2. Lifecycle!GiveUp(j)
      BY <2>1, <3>1, Moving, PhaseIs, NotSettled DEF Lifecycle!GiveUp, Tries, Settled
    <3>3. QED
      BY <2>1, <3>2 DEF Lifecycle!LifecycleNext
  <2>3. CASE ~(retryCount[j] + 1 > MaxTry)
    <3>1. /\ MoveTo(j, "retrying") /\ retryCount' = [retryCount EXCEPT ![j] = @ + 1]
          /\ retryCount[j] < MaxTry
      BY <1>9, <2>1, <2>3 DEF ProcessFails
    <3>2. Lifecycle!Becomes(j, "backoff")
      BY <2>1, <3>1, PhaseMoves, PhaseIs DEF Lifecycle!Becomes, Phases
    <3>3. Tries[j] = retryCount[j] /\ Tries' = [Tries EXCEPT ![j] = @ + 1]
      BY <2>1, <3>1, NotSettled DEF MoveTo, JobTypes, Tries, Settled
    <3>4. Lifecycle!Retry(j)
      BY <2>1, <3>1, <3>2, <3>3 DEF Lifecycle!Retry, Tries
    <3>5. QED
      BY <2>1, <3>4 DEF Lifecycle!LifecycleNext
  <2>4. QED
    BY <2>2, <2>3
<1>10. ASSUME NEW w \in Workers, ProcessPanics(w)
      PROVE  [Lifecycle!LifecycleNext]_(Lifecycle!lifecycleVars)
  <2>1. PICK j \in Jobs : j = wjob[w] /\ at[j] = "worker"
    BY <1>10, Sources DEF ProcessPanics
  <2>2. Lifecycle!Lose(j)
    BY <1>10, <2>1, Settling, PhaseIs, NotSettled
      DEF ProcessPanics, IInv, TypeOK, Lifecycle!Lose, Settled
  <2>3. QED
    BY <2>2 DEF Lifecycle!LifecycleNext
<1>11. ASSUME NEW w \in Workers, SendFailedJob(w)
      PROVE  [Lifecycle!LifecycleNext]_(Lifecycle!lifecycleVars)
  <2>1. Phases' = Phases /\ Tries' = Tries
    BY <1>11, Sources, Moving, PhaseIs, NotSettled DEF SendFailedJob, IInv, TypeOK
  <2>2. QED
    BY <1>11, <2>1 DEF SendFailedJob, Lifecycle!lifecycleVars, Phases, Tries
<1>12. ASSUME NEW w \in Workers, RetryJob(w)
      PROVE  [Lifecycle!LifecycleNext]_(Lifecycle!lifecycleVars)
  <2>1. Phases' = Phases /\ Tries' = Tries
    BY <1>12, Sources, Moving, PhaseIs, NotSettled DEF RetryJob, IInv, TypeOK
  <2>2. QED
    BY <1>12, <2>1 DEF RetryJob, Lifecycle!lifecycleVars, Phases, Tries
<1>13. CASE TakeFailedJob
  <2>1. PICK j \in Jobs :
        /\ PhaseOf(at[j]) = "dying" /\ Save(j, "failed") /\ JobTypes
        /\ UNCHANGED <<dpc, ctxDone, retryCount>>
    BY <1>13, Sources, PhaseIs DEF TakeFailedJob, IInv, TypeOK
  <2>2. CASE MoveTo(j, "failed")
    <3>1. Lifecycle!RecordFailed(j)
      BY <2>1, <2>2, Settling, PhaseIs, NotSettled
        DEF Lifecycle!RecordFailed, Settled
    <3>2. QED
      BY <2>1, <3>1 DEF Lifecycle!LifecycleNext
  <2>3. CASE "save" \in Faults /\ MoveTo(j, "lost")
    <3>1. Lifecycle!Lose(j)
      BY <2>1, <2>3, Settling, PhaseIs, NotSettled
        DEF Lifecycle!Lose, Settled
    <3>2. QED
      BY <2>1, <3>1 DEF Lifecycle!LifecycleNext
  <2>4. QED
    BY <2>1, <2>2, <2>3 DEF Save
<1>14. CASE TakeRetryJob
  <2>1. Phases' = Phases /\ Tries' = Tries
    BY <1>14, Sources, Moving, PhaseIs, NotSettled DEF TakeRetryJob, IInv, TypeOK
  <2>2. QED
    BY <1>14, <2>1 DEF TakeRetryJob, Lifecycle!lifecycleVars, Phases, Tries
<1>15. CASE TakeJob
  <2>1. Phases' = Phases /\ Tries' = Tries
    BY <1>15, Sources, Moving, PhaseIs, NotSettled DEF TakeJob, IInv, TypeOK
  <2>2. QED
    BY <1>15, <2>1 DEF TakeJob, Lifecycle!lifecycleVars, Phases, Tries
<1>16. CASE SendJobToWorker
  <2>1. Phases' = Phases /\ Tries' = Tries
    BY <1>16, Sources, Moving, PhaseIs, NotSettled DEF SendJobToWorker, IInv, TypeOK
  <2>2. QED
    BY <1>16, <2>1 DEF SendJobToWorker, Lifecycle!lifecycleVars, Phases, Tries
<1>17. CASE BeginClose
  BY <1>17 DEF BeginClose, Lifecycle!lifecycleVars
<1>18. CASE CloseJobChan
  BY <1>18 DEF CloseJobChan, Lifecycle!lifecycleVars
<1>19. ASSUME NEW w \in Workers, CloseWorker(w)
      PROVE  [Lifecycle!LifecycleNext]_(Lifecycle!lifecycleVars)
  BY <1>19 DEF CloseWorker, Lifecycle!lifecycleVars
<1>20. CASE CloseChans
  BY <1>20 DEF CloseChans, Lifecycle!lifecycleVars
<1>21. CASE SaveRetryJob
  <2>1. PICK j \in Jobs : j = Head(RetryJobChan) /\ at[j] = "retryChan"
    BY <1>21, Sources DEF SaveRetryJob
  <2>2. PhaseOf(at[j]) \in {"new", "waiting", "backoff"} /\ ctxDone
    BY <1>21, <2>1, PhaseIs DEF SaveRetryJob, IInv, DispatcherControl, IsClosed
  <2>3. Lifecycle!RecordPending(j) \/ Lifecycle!Lose(j)
    BY <1>21, <2>1, <2>2, SavedWhenClosing DEF SaveRetryJob, IInv, TypeOK
  <2>4. QED
    BY <2>3 DEF Lifecycle!LifecycleNext
<1>22. CASE RetryJobsSaved
  BY <1>22 DEF RetryJobsSaved, Lifecycle!lifecycleVars
<1>23. CASE FailedJobsSaved
  BY <1>23 DEF FailedJobsSaved, Lifecycle!lifecycleVars
<1>24. CASE CloseStop
  <2>1. \A j \in Jobs : at'[j] \notin InMemory /\ at'[j] = at[j] /\ at[j] \in Places
    <3>1. IInv'
      BY NextIInv
    <3>2. IInv' => StopMeansSettled'
      BY StoppedHoldsNothing, PTL
    <3>3. QED
      BY <1>24, <3>1, <3>2 DEF CloseStop, StopMeansSettled, JobsAt, IInv, TypeOK, JobTypes
  <2>2. \A j \in Jobs : Phases[j] \notin Lifecycle!Unsettled
    BY <2>1, PhaseIs DEF Phases, Places, Settled, Lifecycle!Unsettled
  <2>3. ctxDone /\ dpc = "wait" /\ dpc' = "stopped" /\ UNCHANGED <<at, retryCount, ctxDone>>
    BY <1>24 DEF CloseStop, IInv, DispatcherControl, IsClosed
  <2>4. Lifecycle!Stop
    BY <2>2, <2>3 DEF Lifecycle!Stop, Phases
  <2>5. QED
    BY <2>4 DEF Lifecycle!LifecycleNext
<1>25. ASSUME NEW j \in Jobs, PrepareClosed(j)
      PROVE  [Lifecycle!LifecycleNext]_(Lifecycle!lifecycleVars)
  <2>1. j \in Jobs /\ PhaseOf(at[j]) \in {"new", "waiting", "backoff"} /\ ctxDone
    BY <1>25, Sources, PhaseIs DEF PrepareClosed, IInv, DispatcherControl, IsClosed
  <2>2. Lifecycle!RecordPending(j) \/ Lifecycle!Lose(j)
    BY <1>25, <2>1, SavedWhenClosing DEF PrepareClosed, IInv, TypeOK
  <2>3. QED
    BY <2>1, <2>2 DEF Lifecycle!LifecycleNext
<1>26. ASSUME NEW j \in Jobs, PrepareLate(j)
      PROVE  [Lifecycle!LifecycleNext]_(Lifecycle!lifecycleVars)
  <2>1. Lifecycle!Lose(j) /\ j \in Jobs
    BY <1>26, Sources, Settling, PhaseIs, NotSettled
      DEF PrepareLate, IInv, TypeOK, Lifecycle!Lose, Settled
  <2>2. QED
    BY <2>1 DEF Lifecycle!LifecycleNext
<1>27. ASSUME NEW j \in Jobs, PrepareTimer(j)
      PROVE  [Lifecycle!LifecycleNext]_(Lifecycle!lifecycleVars)
  <2>1. Phases' = Phases /\ Tries' = Tries
    BY <1>27, Sources, Moving, PhaseIs, NotSettled DEF PrepareTimer, IInv, TypeOK
  <2>2. QED
    BY <1>27, <2>1 DEF PrepareTimer, Lifecycle!lifecycleVars, Phases, Tries
<1>28. ASSUME NEW j \in Jobs, TimerFires(j)
      PROVE  [Lifecycle!LifecycleNext]_(Lifecycle!lifecycleVars)
  <2>1. Phases' = Phases /\ Tries' = Tries
    BY <1>28, Sources, Moving, PhaseIs, NotSettled DEF TimerFires, IInv, TypeOK
  <2>2. QED
    BY <1>28, <2>1 DEF TimerFires, Lifecycle!lifecycleVars, Phases, Tries
<1>29. ASSUME NEW j \in Jobs, TimerCancelled(j)
      PROVE  [Lifecycle!LifecycleNext]_(Lifecycle!lifecycleVars)
  <2>1. j \in Jobs /\ PhaseOf(at[j]) \in {"new", "waiting", "backoff"} /\ ctxDone
    BY <1>29, Sources, PhaseIs DEF TimerCancelled, IInv, DispatcherControl, IsClosed
  <2>2. Lifecycle!RecordPending(j) \/ Lifecycle!Lose(j)
    BY <1>29, <2>1, SavedWhenClosing DEF TimerCancelled, IInv, TypeOK
  <2>3. QED
    BY <2>1, <2>2 DEF Lifecycle!LifecycleNext
<1>30. ASSUME NEW j \in Jobs, EnqueueRetry(j)
      PROVE  [Lifecycle!LifecycleNext]_(Lifecycle!lifecycleVars)
  BY <1>30, EnqueueAccepts, PhaseIs DEF EnqueueRetry, Lifecycle!LifecycleNext
<1>31. QED
  BY <1>1, <1>2, <1>3, <1>4, <1>5, <1>6, <1>7, <1>8, <1>9, <1>10, <1>11,
      <1>12, <1>13, <1>14, <1>15, <1>16, <1>17, <1>18, <1>19, <1>20, <1>21,
      <1>22, <1>23, <1>24, <1>25, <1>26, <1>27, <1>28, <1>29, <1>30 DEF Next,
      WorkerStep, StartStep, PrepareRetryableJob, vars

\* The worker pool implements the life cycle of jobs: whatever its channels,
\* workers and goroutines do, each job waits, runs, backs off and is settled
\* once, and none is unsettled when Pool.Wait returns.
THEOREM PoolImplementsLifecycle == Spec => ImplementsLifecycle
BY LifecycleInitially, LifecycleStep, Invariance, PTL
  DEF Spec, ImplementsLifecycle, Lifecycle!LifecycleSpec
=============================================================================
