----------------------------- MODULE PoolProofs -----------------------------
(***************************************************************************)
(* Proofs about the worker pool, for any number of jobs, workers, retries  *)
(* and any channel sizes: IInv is inductive, and what follows from it.     *)
(***************************************************************************)
EXTENDS Pool, FiniteSetTheorems, TLAPS

-----------------------------------------------------------------------------
(* What a send and a receive do to the elements of a channel, a sequence   *)
(* without duplicates, and to the set of elements it holds.                *)

\* A send adds the element to those the channel holds.
LEMMA RangeAppend ==
  ASSUME NEW S, NEW c \in Seq(S), NEW e \in S
  PROVE  Range(Append(c, e)) = Range(c) \cup {e}
<1>1. \A x : x \in Range(Append(c, e)) => x \in Range(c) \cup {e}
  BY DEF Range
<1>2. \A x : x \in Range(c) => x \in Range(Append(c, e))
  <2> SUFFICES ASSUME NEW i \in 1..Len(c) PROVE c[i] \in Range(Append(c, e))
    BY DEF Range
  <2>1. /\ i \in 1..(Len(c) + 1)
        /\ DOMAIN Append(c, e) = 1..(Len(c) + 1)
        /\ Append(c, e)[i] = c[i]
    OBVIOUS
  <2>2. QED
    BY <2>1 DEF Range
<1>3. e \in Range(Append(c, e))
  <2>1. /\ Len(c) + 1 \in 1..(Len(c) + 1)
        /\ DOMAIN Append(c, e) = 1..(Len(c) + 1)
        /\ Append(c, e)[Len(c) + 1] = e
    OBVIOUS
  <2>2. QED
    BY <2>1 DEF Range
<1>4. QED
  BY <1>1, <1>2, <1>3

\* Sending what the channel does not hold makes no duplicate.
LEMMA InjectiveAppend ==
  ASSUME NEW S, NEW c \in Seq(S), IsInjective(c), NEW e \in S, e \notin Range(c)
  PROVE  IsInjective(Append(c, e))
<1>1. \A i \in 1..Len(c) : c[i] # e
  BY DEF Range
<1>2. QED
  BY <1>1 DEF IsInjective

\* A receive takes the head, and nothing else, from what the channel holds.
LEMMA RangeTail ==
  ASSUME NEW S, NEW c \in Seq(S), IsInjective(c), c # <<>>
  PROVE  /\ Head(c) \in S /\ Head(c) \in Range(c)
         /\ Tail(c) \in Seq(S) /\ IsInjective(Tail(c))
         /\ Range(Tail(c)) = Range(c) \ {Head(c)}
<1>1. /\ Len(c) \in Nat /\ Len(c) >= 1
      /\ DOMAIN c = 1..Len(c) /\ DOMAIN Tail(c) = 1..(Len(c) - 1)
      /\ Head(c) = c[1]
      /\ \A i \in 1..(Len(c) - 1) : Tail(c)[i] = c[i + 1] /\ i + 1 \in 1..Len(c)
  OBVIOUS
<1>2. Head(c) \in S /\ Head(c) \in Range(c) /\ Tail(c) \in Seq(S)
  BY <1>1 DEF Range
<1>3. IsInjective(Tail(c))
  BY <1>1 DEF IsInjective
<1>4. ASSUME NEW i \in 1..(Len(c) - 1)
      PROVE  Tail(c)[i] \in Range(c) \ {Head(c)}
  <2>1. c[i + 1] # c[1]
    BY <1>1 DEF IsInjective
  <2>2. QED
    BY <1>1, <2>1 DEF Range
<1>5. ASSUME NEW i \in 1..Len(c), c[i] # Head(c)
      PROVE  c[i] \in Range(Tail(c))
  <2>1. i - 1 \in 1..(Len(c) - 1) /\ Tail(c)[i - 1] = c[i]
    BY <1>1, <1>5
  <2>2. QED
    BY <1>1, <2>1 DEF Range
<1>6. Range(Tail(c)) = Range(c) \ {Head(c)}
  BY <1>1, <1>4, <1>5 DEF Range
<1>7. QED
  BY <1>2, <1>3, <1>6
-----------------------------------------------------------------------------
(* Places *)

\* The steps leave every variable but those of their action unchanged.
USE DEF worker, dispatcher, others, NoTryLeft

\* Every place a step moves a job to is a place.
LEMMA PlacesAre ==
  /\ "unborn" \in Places /\ "fresh" \in Places
  /\ InMemory \subseteq Places /\ Settled \subseteq Places
  /\ "jobChan" \in InMemory /\ "pool" \in InMemory /\ "workerChan" \in InMemory
  /\ "worker" \in InMemory /\ "calls" \in InMemory /\ "retrying" \in InMemory
  /\ "retryChan" \in InMemory /\ "prepare" \in InMemory /\ "timer" \in InMemory
  /\ "enqueue" \in InMemory /\ "failing" \in InMemory /\ "failedChan" \in InMemory
  /\ "done" \in Settled /\ "pending" \in Settled /\ "failed" \in Settled
  /\ "lost" \in Settled
BY DEF Places, InMemory, Settled

\* The capacity of JobChan is a number.
LEMMA JobChanSizeType == JobChanSize \in Nat
BY PoolAssumption DEF JobChanSize

\* Saving a job moves it to the status of its row, or loses it.
LEMMA SaveMoves ==
  ASSUME NEW j, NEW status \in {"pending", "failed"}, Save(j, status)
  PROVE  \E p \in {status, "lost"} : MoveTo(j, p)
BY DEF Save

\* Enqueue sends the job on JobChan, or saves it.
LEMMA EnqueueMoves ==
  ASSUME NEW j, Enqueue(j)
  PROVE  \/ /\ ~JobChanClosed /\ Len(JobChan) < JobChanSize
            /\ JobChan' = Append(JobChan, j) /\ MoveTo(j, "jobChan")
         \/ /\ JobChanClosed /\ JobChan' = JobChan
            /\ \E p \in {"pending", "lost"} : MoveTo(j, p)
BY DEF Enqueue, Save

\* A move keeps the type of at.
LEMMA MoveToType ==
  ASSUME JobTypes, NEW j \in Jobs, NEW p \in Places, MoveTo(j, p)
  PROVE  at' \in [Jobs -> Places]
BY DEF JobTypes, MoveTo

\* A job is handed to JobChan in three places: none makes it overflow.
LEMMA EnqueueTypes ==
  ASSUME TypeOK, NEW j \in Jobs, Enqueue(j)
  PROVE  /\ JobChan' \in Seq(Jobs) /\ Len(JobChan') <= JobChanSize
         /\ at' \in [Jobs -> Places]
<1>1. CASE /\ Len(JobChan) < JobChanSize
           /\ JobChan' = Append(JobChan, j) /\ MoveTo(j, "jobChan")
  BY <1>1, MoveToType, PlacesAre, JobChanSizeType DEF TypeOK, ChannelTypes
<1>2. CASE JobChan' = JobChan /\ \E p \in {"pending", "lost"} : MoveTo(j, p)
  BY <1>2, MoveToType, PlacesAre DEF TypeOK, ChannelTypes
<1>3. QED
  BY <1>1, <1>2, EnqueueMoves

\* Jobs in the hands of workers and of the dispatcher are jobs.
LEMMA HandTypes ==
  ASSUME IInv
  PROVE  /\ \A w \in Workers : wpc[w] \in {"process", "fail", "retry"} => wjob[w] \in Jobs
         /\ \A w \in Workers : calls[w] \subseteq Jobs
         /\ dpc \in {"dispatch", "drainDispatch"} => djob \in Jobs
BY DEF IInv, TypeOK, GoroutineTypes, WorkerControl, DispatcherControl

\* The wait group has counted a job PrepareRetryableJob is running for.
LEMMA OnFlyPositive ==
  ASSUME IInv, NEW j \in Jobs, at[j] \in OnFly
  PROVE  wg - 1 \in Nat
<1>1. IsFiniteSet(JobsAt(OnFly)) /\ JobsAt(OnFly) # {}
  BY PoolAssumption, FS_Subset DEF JobsAt
<1>2. Cardinality(JobsAt(OnFly)) \in Nat /\ Cardinality(JobsAt(OnFly)) # 0
  BY <1>1, FS_CardinalityType, FS_EmptySet
<1>3. QED
  BY <1>2 DEF IInv, TypeOK, GoroutineTypes, OnFlyCounted

\* No step puts anything but jobs, nor more of them than fit, in a channel.
LEMMA ChannelTypesStep == IInv /\ [Next]_vars => ChannelTypes'
<1> SUFFICES ASSUME IInv, [Next]_vars PROVE ChannelTypes'
  OBVIOUS
<1>1. CASE UNCHANGED <<JobChan, RetryJobChan, FailedJobChan, Queue, workerChan>>
  BY <1>1 DEF IInv, TypeOK, ChannelTypes
<1>2. ASSUME NEW j \in Jobs, Listen(j) PROVE ChannelTypes'
  BY <1>2, EnqueueTypes, JobChanSizeType, PoolAssumption DEF Listen, IInv,
      TypeOK, ChannelTypes
<1>3. ASSUME NEW w \in Workers, PushChannel(w) PROVE ChannelTypes'
  BY <1>3, JobChanSizeType, PoolAssumption DEF PushChannel, IInv, TypeOK,
      ChannelTypes
<1>4. ASSUME NEW w \in Workers, ReceiveJob(w) PROVE ChannelTypes'
  BY <1>4, JobChanSizeType, PoolAssumption DEF ReceiveJob, MoveTo, IInv,
      TypeOK, ChannelTypes
<1>5. ASSUME NEW w \in Workers, SendCallback(w) PROVE ChannelTypes'
  BY <1>5, EnqueueTypes, HandTypes, JobChanSizeType, PoolAssumption DEF
      SendCallback, IInv, TypeOK, ChannelTypes
<1>6. ASSUME NEW w \in Workers, SendFailedJob(w) PROVE ChannelTypes'
  BY <1>6, HandTypes, JobChanSizeType, PoolAssumption DEF SendFailedJob, IInv,
      TypeOK, ChannelTypes
<1>7. ASSUME NEW w \in Workers, RetryJob(w) PROVE ChannelTypes'
  BY <1>7, HandTypes, JobChanSizeType, PoolAssumption DEF RetryJob, IInv,
      TypeOK, ChannelTypes
<1>8. CASE TakeFailedJob
  BY <1>8, JobChanSizeType, PoolAssumption DEF TakeFailedJob, Save, MoveTo,
      IInv, TypeOK, ChannelTypes
<1>9. CASE TakeRetryJob
  BY <1>9, JobChanSizeType, PoolAssumption DEF TakeRetryJob, MoveTo, IInv,
      TypeOK, ChannelTypes
<1>10. CASE TakeJob
  BY <1>10, JobChanSizeType, PoolAssumption DEF TakeJob, MoveTo, IInv, TypeOK,
      ChannelTypes
<1>11. CASE SendJobToWorker
  BY <1>11, HandTypes, JobChanSizeType, PoolAssumption DEF SendJobToWorker,
      IInv, TypeOK, ChannelTypes
<1>12. CASE SaveRetryJob
  BY <1>12, JobChanSizeType, PoolAssumption DEF SaveRetryJob, Save, MoveTo,
      IInv, TypeOK, ChannelTypes
<1>13. ASSUME NEW j \in Jobs, EnqueueRetry(j) PROVE ChannelTypes'
  BY <1>13, EnqueueTypes, JobChanSizeType, PoolAssumption DEF EnqueueRetry,
      IInv, TypeOK, ChannelTypes
<1>14. QED
  BY <1>1, <1>2, <1>3, <1>4, <1>5, <1>6, <1>7, <1>8, <1>9, <1>10, <1>11,
      <1>12, <1>13 DEF Next, WorkerStep, StartStep, PrepareRetryableJob, vars,
      Cancel, StopWorker, ProcessSucceeds, ProcessFails, ProcessPanics,
      BeginClose, CloseJobChan, CloseWorker, CloseChans, RetryJobsSaved,
      FailedJobsSaved, CloseStop, PrepareClosed, PrepareLate, PrepareTimer,
      TimerFires, TimerCancelled

\* No step breaks the types of the workers' and the dispatcher's variables.
LEMMA GoroutineTypesStep == IInv /\ [Next]_vars => GoroutineTypes'
<1> SUFFICES ASSUME IInv, [Next]_vars PROVE GoroutineTypes'
  OBVIOUS
<1>1. CASE UNCHANGED <<wpc, wjob, calls, closedWorkers, dpc, djob, ctxDone, wg>>
  BY <1>1 DEF IInv, TypeOK, GoroutineTypes
<1>2. CASE Cancel
  BY <1>2 DEF Cancel, IInv, TypeOK, ChannelTypes, GoroutineTypes
<1>3. ASSUME NEW w \in Workers, PushChannel(w) PROVE GoroutineTypes'
  BY <1>3 DEF PushChannel, IInv, TypeOK, ChannelTypes, GoroutineTypes
<1>4. ASSUME NEW w \in Workers, ReceiveJob(w) PROVE GoroutineTypes'
  BY <1>4 DEF ReceiveJob, MoveTo, IInv, TypeOK, ChannelTypes, GoroutineTypes
<1>5. ASSUME NEW w \in Workers, StopWorker(w) PROVE GoroutineTypes'
  BY <1>5 DEF StopWorker, IInv, TypeOK, ChannelTypes, GoroutineTypes
<1>6. ASSUME NEW w \in Workers, ProcessSucceeds(w) PROVE GoroutineTypes'
  BY <1>6, HandTypes, PoolAssumption DEF ProcessSucceeds, IInv, TypeOK,
      ChannelTypes, GoroutineTypes
<1>7. ASSUME NEW w \in Workers, SendCallback(w) PROVE GoroutineTypes'
  BY <1>7 DEF SendCallback, Enqueue, MoveTo, Save, IInv, TypeOK, ChannelTypes,
      GoroutineTypes
<1>8. ASSUME NEW w \in Workers, ProcessFails(w) PROVE GoroutineTypes'
  BY <1>8 DEF ProcessFails, MoveTo, IInv, TypeOK, ChannelTypes, GoroutineTypes
<1>9. ASSUME NEW w \in Workers, ProcessPanics(w) PROVE GoroutineTypes'
  BY <1>9 DEF ProcessPanics, MoveTo, IInv, TypeOK, ChannelTypes,
      GoroutineTypes
<1>10. ASSUME NEW w \in Workers, SendFailedJob(w) PROVE GoroutineTypes'
  BY <1>10 DEF SendFailedJob, MoveTo, IInv, TypeOK, ChannelTypes,
      GoroutineTypes
<1>11. ASSUME NEW w \in Workers, RetryJob(w) PROVE GoroutineTypes'
  BY <1>11 DEF RetryJob, MoveTo, IInv, TypeOK, ChannelTypes, GoroutineTypes
<1>12. CASE TakeRetryJob
  BY <1>12 DEF TakeRetryJob, MoveTo, IInv, TypeOK, ChannelTypes,
      GoroutineTypes
<1>13. CASE TakeJob
  BY <1>13 DEF TakeJob, MoveTo, IInv, TypeOK, ChannelTypes,
      GoroutineTypes
<1>14. CASE SendJobToWorker
  BY <1>14 DEF SendJobToWorker, MoveTo, IInv, TypeOK, ChannelTypes,
      GoroutineTypes
<1>15. CASE BeginClose
  BY <1>15 DEF BeginClose, IInv, TypeOK, ChannelTypes, GoroutineTypes
<1>16. CASE CloseJobChan
  BY <1>16 DEF CloseJobChan, IInv, TypeOK, ChannelTypes, GoroutineTypes
<1>17. ASSUME NEW w \in Workers, CloseWorker(w) PROVE GoroutineTypes'
  BY <1>17 DEF CloseWorker, IInv, TypeOK, ChannelTypes, GoroutineTypes
<1>18. CASE CloseChans
  BY <1>18 DEF CloseChans, IInv, TypeOK, ChannelTypes, GoroutineTypes
<1>19. CASE RetryJobsSaved
  BY <1>19 DEF RetryJobsSaved, IInv, TypeOK, ChannelTypes, GoroutineTypes
<1>20. CASE FailedJobsSaved
  BY <1>20 DEF FailedJobsSaved, IInv, TypeOK, ChannelTypes, GoroutineTypes
<1>21. CASE CloseStop
  BY <1>21 DEF CloseStop, IInv, TypeOK, ChannelTypes, GoroutineTypes
<1>22. ASSUME NEW j \in Jobs, TimerCancelled(j) PROVE GoroutineTypes'
  BY <1>22, OnFlyPositive DEF OnFly, TimerCancelled, IInv, TypeOK, ChannelTypes,
      GoroutineTypes
<1>23. ASSUME NEW j \in Jobs, EnqueueRetry(j) PROVE GoroutineTypes'
  BY <1>23, OnFlyPositive DEF OnFly, EnqueueRetry, IInv, TypeOK, ChannelTypes,
      GoroutineTypes
<1>24. QED
  BY <1>1, <1>2, <1>3, <1>4, <1>5, <1>6, <1>7, <1>8, <1>9, <1>10, <1>11,
      <1>12, <1>13, <1>14, <1>15, <1>16, <1>17, <1>18, <1>19, <1>20, <1>21,
      <1>22, <1>23 DEF Next, WorkerStep, StartStep, PrepareRetryableJob, vars,
      Listen, TakeFailedJob, SaveRetryJob, PrepareClosed, PrepareLate,
      PrepareTimer, TimerFires

\* No step moves a job to an unknown place or counts a retry too many.
LEMMA JobTypesStep == IInv /\ [Next]_vars => JobTypes'
<1> SUFFICES ASSUME IInv, [Next]_vars PROVE JobTypes'
  OBVIOUS
<1>1. CASE UNCHANGED <<at, retryCount>>
  BY <1>1 DEF IInv, TypeOK, JobTypes
<1>2. ASSUME NEW j \in Jobs, Listen(j) PROVE JobTypes'
  BY <1>2, EnqueueTypes, PlacesAre DEF Listen, IInv, TypeOK, ChannelTypes,
      JobTypes
<1>3. ASSUME NEW w \in Workers, ReceiveJob(w) PROVE JobTypes'
  BY <1>3, PlacesAre DEF ReceiveJob, MoveTo, IInv, TypeOK, ChannelTypes,
      JobTypes
<1>4. ASSUME NEW w \in Workers, ProcessSucceeds(w) PROVE JobTypes'
  BY <1>4, HandTypes, PlacesAre DEF ProcessSucceeds, IInv, TypeOK,
      ChannelTypes, JobTypes
<1>5. ASSUME NEW w \in Workers, SendCallback(w) PROVE JobTypes'
  BY <1>5, EnqueueTypes, HandTypes, PlacesAre DEF SendCallback, IInv, TypeOK,
      ChannelTypes, JobTypes
<1>6. ASSUME NEW w \in Workers, ProcessFails(w) PROVE JobTypes'
  <2> DEFINE j == wjob[w]
  <2>1. j \in Jobs /\ MaxTry \in Nat
    BY <1>6, HandTypes, PoolAssumption DEF ProcessFails
  <2>2. CASE retryCount[j] + 1 > MaxTry
    <3>1. MoveTo(j, "failing") /\ retryCount' = retryCount
      BY <1>6, <2>2 DEF ProcessFails
    <3>2. QED
      BY <2>1, <3>1, MoveToType, PlacesAre DEF IInv, TypeOK, JobTypes
  <2>3. CASE ~(retryCount[j] + 1 > MaxTry)
    <3>1. MoveTo(j, "retrying") /\ retryCount' = [retryCount EXCEPT ![j] = @ + 1]
      BY <1>6, <2>3 DEF ProcessFails
    <3>2. at' \in [Jobs -> Places]
      BY <2>1, <3>1, MoveToType, PlacesAre DEF IInv, TypeOK
    <3>3. retryCount \in [Jobs -> 0..MaxTry] /\ retryCount[j] + 1 \in 0..MaxTry
      BY <2>1, <2>3 DEF IInv, TypeOK, JobTypes
    <3>4. QED
      BY <2>1, <3>1, <3>2, <3>3 DEF JobTypes
  <2>4. QED
    BY <2>2, <2>3
<1>7. ASSUME NEW w \in Workers, ProcessPanics(w) PROVE JobTypes'
  BY <1>7, PlacesAre DEF ProcessPanics, MoveTo, IInv, TypeOK, ChannelTypes,
      JobTypes
<1>8. ASSUME NEW w \in Workers, SendFailedJob(w) PROVE JobTypes'
  BY <1>8, PlacesAre DEF SendFailedJob, MoveTo, IInv, TypeOK, ChannelTypes,
      JobTypes
<1>9. ASSUME NEW w \in Workers, RetryJob(w) PROVE JobTypes'
  BY <1>9, PlacesAre DEF RetryJob, MoveTo, IInv, TypeOK, ChannelTypes,
      JobTypes
<1>10. CASE TakeFailedJob
  <2>1. PICK j \in Jobs, p \in Places : MoveTo(j, p)
    BY <1>10, SaveMoves, PlacesAre DEF TakeFailedJob, IInv, TypeOK, ChannelTypes, JobTypes
  <2>2. QED
    BY <1>10, <2>1, MoveToType DEF TakeFailedJob, IInv, TypeOK, ChannelTypes, JobTypes
<1>11. CASE TakeRetryJob
  BY <1>11, PlacesAre DEF TakeRetryJob, MoveTo, IInv, TypeOK, ChannelTypes,
      JobTypes
<1>12. CASE TakeJob
  BY <1>12, PlacesAre DEF TakeJob, MoveTo, IInv, TypeOK, ChannelTypes,
      JobTypes
<1>13. CASE SendJobToWorker
  BY <1>13, PlacesAre DEF SendJobToWorker, MoveTo, IInv, TypeOK, ChannelTypes,
      JobTypes
<1>14. CASE SaveRetryJob
  <2>1. PICK j \in Jobs, p \in Places : MoveTo(j, p)
    BY <1>14, SaveMoves, PlacesAre DEF SaveRetryJob, IInv, TypeOK, ChannelTypes, JobTypes
  <2>2. QED
    BY <1>14, <2>1, MoveToType DEF SaveRetryJob, IInv, TypeOK, ChannelTypes, JobTypes
<1>15. ASSUME NEW j \in Jobs, PrepareClosed(j) PROVE JobTypes'
  <2>1. PICK k \in Jobs, p \in Places : MoveTo(k, p)
    BY <1>15, SaveMoves, PlacesAre DEF PrepareClosed, IInv, TypeOK, ChannelTypes, JobTypes
  <2>2. QED
    BY <1>15, <2>1, MoveToType DEF PrepareClosed, IInv, TypeOK, ChannelTypes, JobTypes
<1>16. ASSUME NEW j \in Jobs, PrepareLate(j) PROVE JobTypes'
  BY <1>16, PlacesAre DEF PrepareLate, MoveTo, IInv, TypeOK, ChannelTypes,
      JobTypes
<1>17. ASSUME NEW j \in Jobs, PrepareTimer(j) PROVE JobTypes'
  BY <1>17, PlacesAre DEF PrepareTimer, MoveTo, IInv, TypeOK, ChannelTypes,
      JobTypes
<1>18. ASSUME NEW j \in Jobs, TimerFires(j) PROVE JobTypes'
  BY <1>18, PlacesAre DEF TimerFires, MoveTo, IInv, TypeOK, ChannelTypes,
      JobTypes
<1>19. ASSUME NEW j \in Jobs, TimerCancelled(j) PROVE JobTypes'
  <2>1. PICK k \in Jobs, p \in Places : MoveTo(k, p)
    BY <1>19, SaveMoves, PlacesAre DEF TimerCancelled, IInv, TypeOK, ChannelTypes, JobTypes
  <2>2. QED
    BY <1>19, <2>1, MoveToType DEF TimerCancelled, IInv, TypeOK, ChannelTypes, JobTypes
<1>20. ASSUME NEW j \in Jobs, EnqueueRetry(j) PROVE JobTypes'
  BY <1>20, EnqueueTypes, PlacesAre DEF EnqueueRetry, IInv, TypeOK,
      ChannelTypes, JobTypes
<1>21. QED
  BY <1>1, <1>2, <1>3, <1>4, <1>5, <1>6, <1>7, <1>8, <1>9, <1>10, <1>11,
      <1>12, <1>13, <1>14, <1>15, <1>16, <1>17, <1>18, <1>19, <1>20 DEF Next,
      WorkerStep, StartStep, PrepareRetryableJob, vars, Cancel, PushChannel,
      StopWorker, BeginClose, CloseJobChan, CloseWorker, CloseChans,
      RetryJobsSaved, FailedJobsSaved, CloseStop

\* Jobs leave PrepareRetryableJob: fewer of them are counted.
LEMMA FewerOnFly ==
  ASSUME JobsAt(OnFly)' \subseteq JobsAt(OnFly)
  PROVE  /\ Cardinality(JobsAt(OnFly)) \in Nat /\ Cardinality(JobsAt(OnFly)') \in Nat
         /\ Cardinality(JobsAt(OnFly)') <= Cardinality(JobsAt(OnFly))
<1>1. IsFiniteSet(JobsAt(OnFly))
  BY PoolAssumption, FS_Subset DEF JobsAt
<1>2. QED
  BY <1>1, FS_Subset, FS_CardinalityType

\* One job leaves PrepareRetryableJob: one less is counted.
LEMMA OneLessOnFly ==
  ASSUME JobTypes, NEW j \in Jobs, at[j] \in OnFly,
         NEW p, p \notin OnFly, MoveTo(j, p)
  PROVE  /\ Cardinality(JobsAt(OnFly)) \in Nat
         /\ Cardinality(JobsAt(OnFly)') = Cardinality(JobsAt(OnFly)) - 1
<1>1. IsFiniteSet(JobsAt(OnFly)) /\ j \in JobsAt(OnFly)
  BY PoolAssumption, FS_Subset DEF JobsAt
<1>2. JobsAt(OnFly)' = JobsAt(OnFly) \ {j}
  BY DEF JobsAt, JobTypes, MoveTo
<1>3. QED
  BY <1>1, <1>2, FS_RemoveElement, FS_CardinalityType

\* Another job enters PrepareRetryableJob: at most one more is counted.
LEMMA OneMoreOnFly ==
  ASSUME JobTypes, NEW j \in Jobs, NEW p, MoveTo(j, p)
  PROVE  /\ Cardinality(JobsAt(OnFly)) \in Nat /\ Cardinality(JobsAt(OnFly)') \in Nat
         /\ Cardinality(JobsAt(OnFly)') <= Cardinality(JobsAt(OnFly)) + 1
<1>1. IsFiniteSet(JobsAt(OnFly)) /\ IsFiniteSet(JobsAt(OnFly)')
  <2>1. JobsAt(OnFly) \subseteq Jobs /\ JobsAt(OnFly)' \subseteq Jobs
    BY DEF JobsAt
  <2>2. QED
    BY <2>1, PoolAssumption, FS_Subset
<1>2. JobsAt(OnFly)' \subseteq JobsAt(OnFly) \cup {j}
  BY DEF JobsAt, JobTypes, MoveTo
<1>3. /\ IsFiniteSet(JobsAt(OnFly) \cup {j})
      /\ Cardinality(JobsAt(OnFly) \cup {j}) <= Cardinality(JobsAt(OnFly)) + 1
  <2>1. Cardinality(JobsAt(OnFly)) \in Nat
    BY <1>1, FS_CardinalityType
  <2>2. QED
    BY <1>1, <2>1, FS_AddElement
<1>4. Cardinality(JobsAt(OnFly)') <= Cardinality(JobsAt(OnFly) \cup {j})
  BY <1>2, <1>3, FS_Subset
<1>5. QED
  BY <1>1, <1>3, <1>4, FS_CardinalityType

\* The wait group stays at or above the number of running retry goroutines.
LEMMA OnFlyCountedStep == IInv /\ [Next]_vars => OnFlyCounted'
<1> SUFFICES ASSUME IInv, [Next]_vars PROVE OnFlyCounted'
  OBVIOUS
<1>1. CASE UNCHANGED <<at, wg>>
  BY <1>1 DEF IInv, OnFlyCounted, JobsAt
<1>2. ASSUME NEW j \in Jobs, Listen(j) PROVE OnFlyCounted'
  <2>1. JobsAt(OnFly)' \subseteq JobsAt(OnFly)
    BY <1>2, HandTypes DEF JobsAt, OnFly, Listen, Enqueue, MoveTo, Save, IInv, TypeOK, GoroutineTypes, JobTypes, OnFlyCounted
  <2>2. QED
    BY <1>2, <2>1, FewerOnFly DEF Listen, IInv, TypeOK, GoroutineTypes, JobTypes, OnFlyCounted
<1>3. ASSUME NEW w \in Workers, ReceiveJob(w) PROVE OnFlyCounted'
  <2>1. JobsAt(OnFly)' \subseteq JobsAt(OnFly)
    BY <1>3 DEF JobsAt, OnFly, ReceiveJob, MoveTo, IInv, TypeOK, GoroutineTypes, JobTypes, OnFlyCounted
  <2>2. QED
    BY <1>3, <2>1, FewerOnFly DEF ReceiveJob, IInv, TypeOK, GoroutineTypes, JobTypes, OnFlyCounted
<1>4. ASSUME NEW w \in Workers, ProcessSucceeds(w) PROVE OnFlyCounted'
  <2>1. JobsAt(OnFly)' \subseteq JobsAt(OnFly)
    BY <1>4, HandTypes DEF JobsAt, OnFly, ProcessSucceeds, IInv, TypeOK, GoroutineTypes, JobTypes, OnFlyCounted
  <2>2. QED
    BY <1>4, <2>1, FewerOnFly DEF ProcessSucceeds, IInv, TypeOK, GoroutineTypes, JobTypes, OnFlyCounted
<1>5. ASSUME NEW w \in Workers, SendCallback(w) PROVE OnFlyCounted'
  <2>1. JobsAt(OnFly)' \subseteq JobsAt(OnFly)
    BY <1>5, HandTypes DEF JobsAt, OnFly, SendCallback, Enqueue, MoveTo, Save, IInv, TypeOK, GoroutineTypes, JobTypes, OnFlyCounted
  <2>2. QED
    BY <1>5, <2>1, FewerOnFly DEF SendCallback, IInv, TypeOK, GoroutineTypes, JobTypes, OnFlyCounted
<1>6. ASSUME NEW w \in Workers, ProcessFails(w) PROVE OnFlyCounted'
  <2>1. JobsAt(OnFly)' \subseteq JobsAt(OnFly)
    BY <1>6, HandTypes DEF JobsAt, OnFly, ProcessFails, MoveTo, IInv, TypeOK, GoroutineTypes, JobTypes, OnFlyCounted
  <2>2. QED
    BY <1>6, <2>1, FewerOnFly DEF ProcessFails, IInv, TypeOK, GoroutineTypes, JobTypes, OnFlyCounted
<1>7. ASSUME NEW w \in Workers, ProcessPanics(w) PROVE OnFlyCounted'
  <2>1. JobsAt(OnFly)' \subseteq JobsAt(OnFly)
    BY <1>7, HandTypes DEF JobsAt, OnFly, ProcessPanics, MoveTo, IInv, TypeOK, GoroutineTypes, JobTypes, OnFlyCounted
  <2>2. QED
    BY <1>7, <2>1, FewerOnFly DEF ProcessPanics, IInv, TypeOK, GoroutineTypes, JobTypes, OnFlyCounted
<1>8. ASSUME NEW w \in Workers, SendFailedJob(w) PROVE OnFlyCounted'
  <2>1. JobsAt(OnFly)' \subseteq JobsAt(OnFly)
    BY <1>8 DEF JobsAt, OnFly, SendFailedJob, MoveTo, IInv, TypeOK, GoroutineTypes, JobTypes, OnFlyCounted
  <2>2. QED
    BY <1>8, <2>1, FewerOnFly DEF SendFailedJob, IInv, TypeOK, GoroutineTypes, JobTypes, OnFlyCounted
<1>9. ASSUME NEW w \in Workers, RetryJob(w) PROVE OnFlyCounted'
  <2>1. JobsAt(OnFly)' \subseteq JobsAt(OnFly)
    BY <1>9 DEF JobsAt, OnFly, RetryJob, MoveTo, IInv, TypeOK, GoroutineTypes, JobTypes, OnFlyCounted
  <2>2. QED
    BY <1>9, <2>1, FewerOnFly DEF RetryJob, IInv, TypeOK, GoroutineTypes, JobTypes, OnFlyCounted
<1>10. CASE TakeFailedJob
  <2>1. JobsAt(OnFly)' \subseteq JobsAt(OnFly)
    BY <1>10 DEF JobsAt, OnFly, TakeFailedJob, Save, MoveTo, IInv, TypeOK, GoroutineTypes, JobTypes, OnFlyCounted
  <2>2. QED
    BY <1>10, <2>1, FewerOnFly DEF TakeFailedJob, IInv, TypeOK, GoroutineTypes, JobTypes, OnFlyCounted
<1>11. CASE TakeRetryJob
  <2>1. Head(RetryJobChan) \in Jobs
    BY <1>11 DEF TakeRetryJob, IInv, TypeOK, ChannelTypes
  <2>2. QED
    BY <1>11, <2>1, OneMoreOnFly DEF TakeRetryJob, IInv, TypeOK, GoroutineTypes, JobTypes, OnFlyCounted
<1>12. CASE TakeJob
  <2>1. JobsAt(OnFly)' \subseteq JobsAt(OnFly)
    BY <1>12 DEF JobsAt, OnFly, TakeJob, MoveTo, IInv, TypeOK, GoroutineTypes, JobTypes, OnFlyCounted
  <2>2. QED
    BY <1>12, <2>1, FewerOnFly DEF TakeJob, IInv, TypeOK, GoroutineTypes, JobTypes, OnFlyCounted
<1>13. CASE SendJobToWorker
  <2>1. JobsAt(OnFly)' \subseteq JobsAt(OnFly)
    BY <1>13 DEF JobsAt, OnFly, SendJobToWorker, MoveTo, IInv, TypeOK, GoroutineTypes, JobTypes, OnFlyCounted
  <2>2. QED
    BY <1>13, <2>1, FewerOnFly DEF SendJobToWorker, IInv, TypeOK, GoroutineTypes, JobTypes, OnFlyCounted
<1>14. CASE SaveRetryJob
  <2>1. JobsAt(OnFly)' \subseteq JobsAt(OnFly)
    BY <1>14 DEF JobsAt, OnFly, SaveRetryJob, Save, MoveTo, IInv, TypeOK, GoroutineTypes, JobTypes, OnFlyCounted
  <2>2. QED
    BY <1>14, <2>1, FewerOnFly DEF SaveRetryJob, IInv, TypeOK, GoroutineTypes, JobTypes, OnFlyCounted
<1>15. ASSUME NEW j \in Jobs, PrepareClosed(j) PROVE OnFlyCounted'
  <2>1. JobsAt(OnFly)' \subseteq JobsAt(OnFly)
    BY <1>15 DEF JobsAt, OnFly, PrepareClosed, Save, MoveTo, IInv, TypeOK, GoroutineTypes, JobTypes, OnFlyCounted
  <2>2. QED
    BY <1>15, <2>1, FewerOnFly DEF PrepareClosed, IInv, TypeOK, GoroutineTypes, JobTypes, OnFlyCounted
<1>16. ASSUME NEW j \in Jobs, PrepareLate(j) PROVE OnFlyCounted'
  <2>1. JobsAt(OnFly)' \subseteq JobsAt(OnFly)
    BY <1>16 DEF JobsAt, OnFly, PrepareLate, MoveTo, IInv, TypeOK, GoroutineTypes, JobTypes, OnFlyCounted
  <2>2. QED
    BY <1>16, <2>1, FewerOnFly DEF PrepareLate, IInv, TypeOK, GoroutineTypes, JobTypes, OnFlyCounted
<1>17. ASSUME NEW j \in Jobs, PrepareTimer(j) PROVE OnFlyCounted'
  <2>1. JobsAt(OnFly)' \subseteq JobsAt(OnFly)
    BY <1>17 DEF JobsAt, OnFly, PrepareTimer, MoveTo, IInv, TypeOK, GoroutineTypes, JobTypes, OnFlyCounted
  <2>2. QED
    BY <1>17, <2>1, FewerOnFly DEF PrepareTimer, IInv, TypeOK, GoroutineTypes, JobTypes, OnFlyCounted
<1>18. ASSUME NEW j \in Jobs, TimerFires(j) PROVE OnFlyCounted'
  <2>1. JobsAt(OnFly)' \subseteq JobsAt(OnFly)
    BY <1>18 DEF JobsAt, OnFly, TimerFires, MoveTo, IInv, TypeOK, GoroutineTypes, JobTypes, OnFlyCounted
  <2>2. QED
    BY <1>18, <2>1, FewerOnFly DEF TimerFires, IInv, TypeOK, GoroutineTypes, JobTypes, OnFlyCounted
<1>19. ASSUME NEW j \in Jobs, TimerCancelled(j) PROVE OnFlyCounted'
  <2>1. PICK p \in {"jobChan", "pending", "lost"} : MoveTo(j, p)
    BY <1>19, SaveMoves DEF TimerCancelled
  <2>2. QED
    BY <1>19, <2>1, OneLessOnFly DEF OnFly, TimerCancelled, IInv, TypeOK, GoroutineTypes, JobTypes, OnFlyCounted
<1>20. ASSUME NEW j \in Jobs, EnqueueRetry(j) PROVE OnFlyCounted'
  <2>1. PICK p \in {"jobChan", "pending", "lost"} : MoveTo(j, p)
    BY <1>20, EnqueueMoves DEF EnqueueRetry
  <2>2. QED
    BY <1>20, <2>1, OneLessOnFly DEF OnFly, EnqueueRetry, IInv, TypeOK, GoroutineTypes, JobTypes, OnFlyCounted
<1>21. QED
  BY <1>1, <1>2, <1>3, <1>4, <1>5, <1>6, <1>7, <1>8, <1>9, <1>10, <1>11,
      <1>12, <1>13, <1>14, <1>15, <1>16, <1>17, <1>18, <1>19, <1>20 DEF Next,
      WorkerStep, StartStep, PrepareRetryableJob, vars, Cancel, PushChannel,
      StopWorker, BeginClose, CloseJobChan, CloseWorker, CloseChans,
      RetryJobsSaved, FailedJobsSaved, CloseStop

\* What a worker holds goes with the point it has reached.
LEMMA WorkerControlStep == IInv /\ [Next]_vars => WorkerControl'
<1> SUFFICES ASSUME IInv, [Next]_vars PROVE WorkerControl'
  OBVIOUS
<1>1. CASE UNCHANGED <<Queue, workerChan, wpc, wjob, calls, closedWorkers>>
  BY <1>1 DEF IInv, WorkerControl
<1>2. ASSUME NEW w \in Workers, PushChannel(w) PROVE WorkerControl'
  <2>1. Queue' = Append(Queue, w) /\ Range(Queue') = Range(Queue) \cup {w}
    BY <1>2, RangeAppend DEF PushChannel, IInv, TypeOK, GoroutineTypes, ChannelTypes, HandsToIdle, WorkerControl
  <2>2. QED
    BY <1>2, <2>1 DEF PushChannel, IInv, TypeOK, GoroutineTypes, ChannelTypes, HandsToIdle, WorkerControl
<1>3. ASSUME NEW w \in Workers, ReceiveJob(w) PROVE WorkerControl'
  BY <1>3, PoolAssumption DEF ReceiveJob, MoveTo, IInv, TypeOK,
      GoroutineTypes, ChannelTypes, HandsToIdle, WorkerControl
<1>4. ASSUME NEW w \in Workers, StopWorker(w) PROVE WorkerControl'
  BY <1>4, PoolAssumption DEF StopWorker, IInv, TypeOK, GoroutineTypes,
      ChannelTypes, HandsToIdle, WorkerControl
<1>5. ASSUME NEW w \in Workers, ProcessSucceeds(w) PROVE WorkerControl'
  BY <1>5, PoolAssumption DEF ProcessSucceeds, IInv, TypeOK, GoroutineTypes,
      ChannelTypes, HandsToIdle, WorkerControl
<1>6. ASSUME NEW w \in Workers, SendCallback(w) PROVE WorkerControl'
  BY <1>6, PoolAssumption DEF SendCallback, Enqueue, MoveTo, Save, IInv,
      TypeOK, GoroutineTypes, ChannelTypes, HandsToIdle, WorkerControl
<1>7. ASSUME NEW w \in Workers, ProcessFails(w) PROVE WorkerControl'
  BY <1>7, PoolAssumption DEF ProcessFails, MoveTo, IInv, TypeOK,
      GoroutineTypes, ChannelTypes, HandsToIdle, WorkerControl
<1>8. ASSUME NEW w \in Workers, ProcessPanics(w) PROVE WorkerControl'
  BY <1>8, PoolAssumption DEF ProcessPanics, MoveTo, IInv, TypeOK,
      GoroutineTypes, ChannelTypes, HandsToIdle, WorkerControl
<1>9. ASSUME NEW w \in Workers, SendFailedJob(w) PROVE WorkerControl'
  BY <1>9, PoolAssumption DEF SendFailedJob, MoveTo, IInv, TypeOK,
      GoroutineTypes, ChannelTypes, HandsToIdle, WorkerControl
<1>10. ASSUME NEW w \in Workers, RetryJob(w) PROVE WorkerControl'
  BY <1>10, PoolAssumption DEF RetryJob, MoveTo, IInv, TypeOK, GoroutineTypes,
      ChannelTypes, HandsToIdle, WorkerControl
<1>11. CASE SendJobToWorker
  <2> DEFINE w == Head(Queue)
  <2>1. /\ w \in Workers /\ w \in Range(Queue)
        /\ Queue' \in Seq(Workers) /\ IsInjective(Queue')
        /\ Range(Queue') = Range(Queue) \ {w}
    BY <1>11, RangeTail DEF SendJobToWorker, IInv, TypeOK, GoroutineTypes, ChannelTypes, HandsToIdle, WorkerControl
  <2>2. wpc[w] = "recv" /\ workerChan[w] = <<>>
    BY <1>11, <2>1 DEF SendJobToWorker, IInv, TypeOK, GoroutineTypes, ChannelTypes, HandsToIdle, WorkerControl
  <2>3. workerChan' = [workerChan EXCEPT ![w] = Append(@, djob)]
    BY <1>11 DEF SendJobToWorker
  <2>4. QED
    BY <1>11, <2>1, <2>2, <2>3 DEF SendJobToWorker, IInv, TypeOK, GoroutineTypes, ChannelTypes, HandsToIdle, WorkerControl
<1>12. ASSUME NEW w \in Workers, CloseWorker(w) PROVE WorkerControl'
  BY <1>12, PoolAssumption DEF CloseWorker, IInv, TypeOK, GoroutineTypes,
      ChannelTypes, HandsToIdle, WorkerControl
<1>13. QED
  BY <1>1, <1>2, <1>3, <1>4, <1>5, <1>6, <1>7, <1>8, <1>9, <1>10, <1>11, <1>12
      DEF Next, WorkerStep, StartStep, PrepareRetryableJob, vars, Cancel,
      Listen, TakeFailedJob, TakeRetryJob, TakeJob, BeginClose, CloseJobChan,
      CloseChans, SaveRetryJob, RetryJobsSaved, FailedJobsSaved, CloseStop,
      PrepareClosed, PrepareLate, PrepareTimer, TimerFires, TimerCancelled,
      EnqueueRetry

\* A worker in Queue stays idle until a job is handed to it.
LEMMA HandsToIdleStep == IInv /\ [Next]_vars => HandsToIdle'
<1> SUFFICES ASSUME IInv, [Next]_vars PROVE HandsToIdle'
  OBVIOUS
<1>1. CASE UNCHANGED <<Queue, workerChan, wpc, dpc, closedWorkers>>
  BY <1>1 DEF IInv, HandsToIdle
<1>2. ASSUME NEW w \in Workers, PushChannel(w) PROVE HandsToIdle'
  <2>1. Queue' = Append(Queue, w) /\ Range(Queue') = Range(Queue) \cup {w} /\ IsInjective(Queue')
    <3>1. Queue' = Append(Queue, w) /\ wpc[w] = "push"
      BY <1>2 DEF PushChannel
    <3>2. Queue \in Seq(Workers) /\ IsInjective(Queue)
      BY DEF IInv, TypeOK, ChannelTypes, HandsToIdle
    <3>3. w \notin Range(Queue)
      BY <3>1 DEF IInv, HandsToIdle
    <3>4. Range(Append(Queue, w)) = Range(Queue) \cup {w}
      BY <3>2, RangeAppend
    <3>5. IsInjective(Append(Queue, w))
      BY <3>2, <3>3, InjectiveAppend
    <3>6. QED
      BY <3>1, <3>4, <3>5
  <2>2. QED
    BY <1>2, <2>1 DEF PushChannel, IInv, TypeOK, ChannelTypes, GoroutineTypes, HandsToIdle, WorkerControl, DispatcherControl
<1>3. ASSUME NEW w \in Workers, ReceiveJob(w) PROVE HandsToIdle'
  BY <1>3 DEF ReceiveJob, MoveTo, IInv, TypeOK, ChannelTypes, GoroutineTypes,
      HandsToIdle, WorkerControl, DispatcherControl
<1>4. ASSUME NEW w \in Workers, StopWorker(w) PROVE HandsToIdle'
  BY <1>4 DEF StopWorker, IInv, TypeOK, ChannelTypes, GoroutineTypes,
      HandsToIdle, WorkerControl, DispatcherControl
<1>5. ASSUME NEW w \in Workers, ProcessSucceeds(w) PROVE HandsToIdle'
  BY <1>5 DEF ProcessSucceeds, IInv, TypeOK, ChannelTypes, GoroutineTypes,
      HandsToIdle, WorkerControl, DispatcherControl
<1>6. ASSUME NEW w \in Workers, SendCallback(w) PROVE HandsToIdle'
  <2>1. \A v \in Workers \ {w} : wpc'[v] = wpc[v]
    BY <1>6 DEF SendCallback, Enqueue, MoveTo, Save, IInv, TypeOK, ChannelTypes, GoroutineTypes, HandsToIdle, WorkerControl, DispatcherControl
  <2>2. w \notin Range(Queue)
    BY <1>6 DEF SendCallback, IInv, TypeOK, ChannelTypes, GoroutineTypes, HandsToIdle, WorkerControl, DispatcherControl
  <2>3. Queue' = Queue /\ workerChan' = workerChan /\ dpc' = dpc /\ closedWorkers' = closedWorkers
    BY <1>6 DEF SendCallback, IInv, TypeOK, ChannelTypes, GoroutineTypes, HandsToIdle, WorkerControl, DispatcherControl
  <2>4. Range(Queue) \subseteq Workers
    BY DEF IInv, TypeOK, ChannelTypes, Range
  <2>5. QED
    BY <2>1, <2>2, <2>3, <2>4 DEF IInv, HandsToIdle
<1>7. ASSUME NEW w \in Workers, ProcessFails(w) PROVE HandsToIdle'
  <2>1. \A v \in Workers \ {w} : wpc'[v] = wpc[v]
    BY <1>7 DEF ProcessFails, MoveTo, IInv, TypeOK, ChannelTypes, GoroutineTypes, HandsToIdle, WorkerControl, DispatcherControl
  <2>2. w \notin Range(Queue)
    BY <1>7 DEF ProcessFails, IInv, TypeOK, ChannelTypes, GoroutineTypes, HandsToIdle, WorkerControl, DispatcherControl
  <2>3. Queue' = Queue /\ workerChan' = workerChan /\ dpc' = dpc /\ closedWorkers' = closedWorkers
    BY <1>7 DEF ProcessFails, IInv, TypeOK, ChannelTypes, GoroutineTypes, HandsToIdle, WorkerControl, DispatcherControl
  <2>4. Range(Queue) \subseteq Workers
    BY DEF IInv, TypeOK, ChannelTypes, Range
  <2>5. QED
    BY <2>1, <2>2, <2>3, <2>4 DEF IInv, HandsToIdle
<1>8. ASSUME NEW w \in Workers, ProcessPanics(w) PROVE HandsToIdle'
  BY <1>8 DEF ProcessPanics, MoveTo, IInv, TypeOK, ChannelTypes,
      GoroutineTypes, HandsToIdle, WorkerControl, DispatcherControl
<1>9. ASSUME NEW w \in Workers, SendFailedJob(w) PROVE HandsToIdle'
  BY <1>9 DEF SendFailedJob, MoveTo, IInv, TypeOK, ChannelTypes,
      GoroutineTypes, HandsToIdle, WorkerControl, DispatcherControl
<1>10. ASSUME NEW w \in Workers, RetryJob(w) PROVE HandsToIdle'
  BY <1>10 DEF RetryJob, MoveTo, IInv, TypeOK, ChannelTypes, GoroutineTypes,
      HandsToIdle, WorkerControl, DispatcherControl
<1>11. CASE TakeJob
  BY <1>11 DEF TakeJob, MoveTo, IInv, TypeOK, ChannelTypes, GoroutineTypes,
      HandsToIdle, WorkerControl, DispatcherControl
<1>12. CASE SendJobToWorker
  <2> DEFINE w == Head(Queue)
  <2>1. /\ w \in Workers /\ w \in Range(Queue)
        /\ Queue' \in Seq(Workers) /\ IsInjective(Queue')
        /\ Range(Queue') = Range(Queue) \ {w}
    BY <1>12, RangeTail DEF SendJobToWorker, IInv, TypeOK, ChannelTypes, GoroutineTypes, HandsToIdle, WorkerControl, DispatcherControl
  <2>2. wpc[w] = "recv" /\ workerChan[w] = <<>>
    BY <1>12, <2>1 DEF SendJobToWorker, IInv, TypeOK, ChannelTypes, GoroutineTypes, HandsToIdle, WorkerControl, DispatcherControl
  <2>3. workerChan' = [workerChan EXCEPT ![w] = Append(@, djob)]
    BY <1>12 DEF SendJobToWorker
  <2>4. QED
    BY <1>12, <2>1, <2>2, <2>3 DEF SendJobToWorker, IInv, TypeOK, ChannelTypes, GoroutineTypes, HandsToIdle, WorkerControl, DispatcherControl
<1>13. CASE BeginClose
  BY <1>13 DEF BeginClose, IInv, TypeOK, ChannelTypes, GoroutineTypes,
      HandsToIdle, WorkerControl, DispatcherControl
<1>14. CASE CloseJobChan
  BY <1>14 DEF CloseJobChan, IInv, TypeOK, ChannelTypes, GoroutineTypes,
      HandsToIdle, WorkerControl, DispatcherControl
<1>15. ASSUME NEW w \in Workers, CloseWorker(w) PROVE HandsToIdle'
  BY <1>15 DEF CloseWorker, IInv, TypeOK, ChannelTypes, GoroutineTypes,
      HandsToIdle, WorkerControl, DispatcherControl
<1>16. CASE CloseChans
  BY <1>16 DEF CloseChans, IInv, TypeOK, ChannelTypes, GoroutineTypes,
      HandsToIdle, WorkerControl, DispatcherControl
<1>17. CASE RetryJobsSaved
  BY <1>17 DEF RetryJobsSaved, IInv, TypeOK, ChannelTypes, GoroutineTypes,
      HandsToIdle, WorkerControl, DispatcherControl
<1>18. CASE FailedJobsSaved
  BY <1>18 DEF FailedJobsSaved, IInv, TypeOK, ChannelTypes, GoroutineTypes,
      HandsToIdle, WorkerControl, DispatcherControl
<1>19. CASE CloseStop
  BY <1>19 DEF CloseStop, IInv, TypeOK, ChannelTypes, GoroutineTypes,
      HandsToIdle, WorkerControl, DispatcherControl
<1>20. QED
  BY <1>1, <1>2, <1>3, <1>4, <1>5, <1>6, <1>7, <1>8, <1>9, <1>10, <1>11,
      <1>12, <1>13, <1>14, <1>15, <1>16, <1>17, <1>18, <1>19 DEF Next,
      WorkerStep, StartStep, PrepareRetryableJob, vars, Cancel, Listen,
      TakeFailedJob, TakeRetryJob, SaveRetryJob, PrepareClosed, PrepareLate,
      PrepareTimer, TimerFires, TimerCancelled, EnqueueRetry

\* What Start has emptied stays empty: nobody sends once it has moved on.
LEMMA DispatcherControlStep == IInv /\ [Next]_vars => DispatcherControl'
<1> SUFFICES ASSUME IInv, [Next]_vars PROVE DispatcherControl'
  OBVIOUS
<1>1. CASE UNCHANGED <<djob, dpc, ctxDone, closedWorkers, JobChan, wpc, RetryJobChan, FailedJobChan, at>>
  BY <1>1 DEF IInv, DispatcherControl, IsClosed, ChansClosed, JobsAt
<1>2. CASE Cancel
  BY <1>2 DEF Cancel, IInv, TypeOK, ChannelTypes, GoroutineTypes,
      DispatcherControl, IsClosed,
      ChansClosed, JobChanClosed, JobsAt
<1>3. ASSUME NEW j \in Jobs, Listen(j) PROVE DispatcherControl'
  <2>1. UNCHANGED <<djob, dpc, ctxDone, closedWorkers, wpc, RetryJobChan, FailedJobChan>>
    BY <1>3 DEF Listen, IInv, TypeOK, ChannelTypes, GoroutineTypes, DispatcherControl, IsClosed,
      ChansClosed, JobChanClosed, JobsAt
  <2>2. ChansClosed \/ dpc = "closeWorkers" => JobChan' = JobChan
    BY <1>3, EnqueueMoves DEF JobChanClosed, ChansClosed, Listen, IInv, TypeOK, ChannelTypes, GoroutineTypes, DispatcherControl, IsClosed,
      ChansClosed, JobChanClosed, JobsAt
  <2>3. dpc = "stopped" => JobsAt(OnFly)' = {}
    BY <1>3, EnqueueMoves DEF MoveTo, JobsAt, OnFly, JobTypes, Listen, IInv, TypeOK, ChannelTypes, GoroutineTypes, DispatcherControl, IsClosed,
      ChansClosed, JobChanClosed, JobsAt
  <2>4. QED
    BY <2>1, <2>2, <2>3 DEF IInv, DispatcherControl, IsClosed, ChansClosed
<1>4. ASSUME NEW w \in Workers, PushChannel(w) PROVE DispatcherControl'
  BY <1>4 DEF PushChannel, IInv, TypeOK, ChannelTypes, GoroutineTypes,
      DispatcherControl, IsClosed,
      ChansClosed, JobChanClosed, JobsAt
<1>5. ASSUME NEW w \in Workers, ReceiveJob(w) PROVE DispatcherControl'
  BY <1>5 DEF ReceiveJob, MoveTo, IInv, TypeOK, ChannelTypes, GoroutineTypes,
      DispatcherControl, IsClosed,
      ChansClosed, JobChanClosed, JobsAt
<1>6. ASSUME NEW w \in Workers, StopWorker(w) PROVE DispatcherControl'
  BY <1>6 DEF StopWorker, IInv, TypeOK, ChannelTypes, GoroutineTypes,
      DispatcherControl, IsClosed,
      ChansClosed, JobChanClosed, JobsAt
<1>7. ASSUME NEW w \in Workers, ProcessSucceeds(w) PROVE DispatcherControl'
  BY <1>7 DEF ProcessSucceeds, IInv, TypeOK, ChannelTypes, GoroutineTypes,
      DispatcherControl, IsClosed,
      ChansClosed, JobChanClosed, JobsAt
<1>8. ASSUME NEW w \in Workers, SendCallback(w) PROVE DispatcherControl'
  BY <1>8 DEF SendCallback, Enqueue, MoveTo, Save, IInv, TypeOK, ChannelTypes,
      GoroutineTypes, DispatcherControl, IsClosed,
      ChansClosed, JobChanClosed, JobsAt
<1>9. ASSUME NEW w \in Workers, ProcessFails(w) PROVE DispatcherControl'
  BY <1>9 DEF ProcessFails, MoveTo, IInv, TypeOK, ChannelTypes,
      GoroutineTypes, DispatcherControl, IsClosed,
      ChansClosed, JobChanClosed, JobsAt
<1>10. ASSUME NEW w \in Workers, ProcessPanics(w) PROVE DispatcherControl'
  BY <1>10 DEF ProcessPanics, MoveTo, IInv, TypeOK, ChannelTypes,
      GoroutineTypes, DispatcherControl, IsClosed,
      ChansClosed, JobChanClosed, JobsAt
<1>11. ASSUME NEW w \in Workers, SendFailedJob(w) PROVE DispatcherControl'
  BY <1>11 DEF SendFailedJob, MoveTo, IInv, TypeOK, ChannelTypes,
      GoroutineTypes, DispatcherControl, IsClosed,
      ChansClosed, JobChanClosed, JobsAt
<1>12. ASSUME NEW w \in Workers, RetryJob(w) PROVE DispatcherControl'
  BY <1>12 DEF RetryJob, MoveTo, IInv, TypeOK, ChannelTypes, GoroutineTypes,
      DispatcherControl, IsClosed,
      ChansClosed, JobChanClosed, JobsAt
<1>13. CASE TakeFailedJob
  BY <1>13 DEF TakeFailedJob, Save, MoveTo, IInv, TypeOK, ChannelTypes,
      GoroutineTypes, DispatcherControl, IsClosed,
      ChansClosed, JobChanClosed, JobsAt
<1>14. CASE TakeRetryJob
  BY <1>14 DEF TakeRetryJob, MoveTo, IInv, TypeOK, ChannelTypes,
      GoroutineTypes, DispatcherControl, IsClosed,
      ChansClosed, JobChanClosed, JobsAt
<1>15. CASE TakeJob
  <2>1. Head(JobChan) \in Jobs /\ Head(JobChan) # NoJob
    BY <1>15, PoolAssumption DEF TakeJob, IInv, TypeOK, ChannelTypes, GoroutineTypes, DispatcherControl, IsClosed,
      ChansClosed, JobChanClosed, JobsAt
  <2>2. closedWorkers = {}
    BY <1>15 DEF ChansClosed, TakeJob, IInv, TypeOK, ChannelTypes, GoroutineTypes, DispatcherControl, IsClosed,
      ChansClosed, JobChanClosed, JobsAt
  <2>3. QED
    BY <1>15, <2>1, <2>2 DEF IsClosed, ChansClosed, TakeJob, MoveTo, IInv, TypeOK, ChannelTypes, GoroutineTypes, DispatcherControl, IsClosed,
      ChansClosed, JobChanClosed, JobsAt
<1>16. CASE SendJobToWorker
  BY <1>16 DEF SendJobToWorker, MoveTo, IInv, TypeOK, ChannelTypes,
      GoroutineTypes, DispatcherControl, IsClosed,
      ChansClosed, JobChanClosed, JobsAt
<1>17. CASE BeginClose
  BY <1>17 DEF BeginClose, IInv, TypeOK, ChannelTypes, GoroutineTypes,
      DispatcherControl, IsClosed,
      ChansClosed, JobChanClosed, JobsAt
<1>18. CASE CloseJobChan
  BY <1>18 DEF CloseJobChan, IInv, TypeOK, ChannelTypes, GoroutineTypes,
      DispatcherControl, IsClosed,
      ChansClosed, JobChanClosed, JobsAt
<1>19. ASSUME NEW w \in Workers, CloseWorker(w) PROVE DispatcherControl'
  BY <1>19 DEF CloseWorker, IInv, TypeOK, ChannelTypes, GoroutineTypes,
      DispatcherControl, IsClosed,
      ChansClosed, JobChanClosed, JobsAt
<1>20. CASE CloseChans
  BY <1>20 DEF CloseChans, IInv, TypeOK, ChannelTypes, GoroutineTypes,
      DispatcherControl, IsClosed,
      ChansClosed, JobChanClosed, JobsAt
<1>21. CASE SaveRetryJob
  BY <1>21 DEF SaveRetryJob, Save, MoveTo, IInv, TypeOK, ChannelTypes,
      GoroutineTypes, DispatcherControl, IsClosed,
      ChansClosed, JobChanClosed, JobsAt
<1>22. CASE RetryJobsSaved
  BY <1>22 DEF RetryJobsSaved, IInv, TypeOK, ChannelTypes, GoroutineTypes,
      DispatcherControl, IsClosed,
      ChansClosed, JobChanClosed, JobsAt
<1>23. CASE FailedJobsSaved
  BY <1>23 DEF FailedJobsSaved, IInv, TypeOK, ChannelTypes, GoroutineTypes,
      DispatcherControl, IsClosed,
      ChansClosed, JobChanClosed, JobsAt
<1>24. CASE CloseStop
  <2>1. JobsAt(OnFly) = {}
    <3>1. IsFiniteSet(JobsAt(OnFly))
      BY PoolAssumption, FS_Subset DEF JobsAt
    <3>2. Cardinality(JobsAt(OnFly)) \in Nat /\ Cardinality(JobsAt(OnFly)) <= 0
      BY <1>24, <3>1, FS_CardinalityType DEF CloseStop, IInv, OnFlyCounted
    <3>3. QED
      BY <3>1, <3>2, FS_EmptySet
  <2>2. QED
    BY <1>24, <2>1 DEF JobsAt, IsClosed, ChansClosed, CloseStop, IInv, TypeOK, ChannelTypes, GoroutineTypes, DispatcherControl, IsClosed,
      ChansClosed, JobChanClosed, JobsAt
<1>25. ASSUME NEW j \in Jobs, PrepareClosed(j) PROVE DispatcherControl'
  <2>1. dpc # "stopped"
    BY <1>25 DEF JobsAt, OnFly, PrepareClosed, IInv, TypeOK, ChannelTypes, GoroutineTypes, DispatcherControl, IsClosed,
      ChansClosed, JobChanClosed, JobsAt
  <2>2. QED
    BY <1>25, <2>1 DEF IsClosed, ChansClosed, PrepareClosed, Save, MoveTo, IInv, TypeOK, ChannelTypes, GoroutineTypes, DispatcherControl, IsClosed,
      ChansClosed, JobChanClosed, JobsAt
<1>26. ASSUME NEW j \in Jobs, PrepareLate(j) PROVE DispatcherControl'
  BY <1>26 DEF PrepareLate, MoveTo, IInv, TypeOK, ChannelTypes,
      GoroutineTypes, DispatcherControl, IsClosed,
      ChansClosed, JobChanClosed, JobsAt
<1>27. ASSUME NEW j \in Jobs, PrepareTimer(j) PROVE DispatcherControl'
  BY <1>27 DEF PrepareTimer, MoveTo, IInv, TypeOK, ChannelTypes,
      GoroutineTypes, DispatcherControl, IsClosed,
      ChansClosed, JobChanClosed, JobsAt
<1>28. ASSUME NEW j \in Jobs, TimerFires(j) PROVE DispatcherControl'
  <2>1. dpc # "stopped"
    BY <1>28 DEF JobsAt, OnFly, TimerFires, IInv, TypeOK, ChannelTypes, GoroutineTypes, DispatcherControl, IsClosed,
      ChansClosed, JobChanClosed, JobsAt
  <2>2. QED
    BY <1>28, <2>1 DEF IsClosed, ChansClosed, TimerFires, MoveTo, IInv, TypeOK, ChannelTypes, GoroutineTypes, DispatcherControl, IsClosed,
      ChansClosed, JobChanClosed, JobsAt
<1>29. ASSUME NEW j \in Jobs, TimerCancelled(j) PROVE DispatcherControl'
  <2>1. dpc # "stopped"
    BY <1>29 DEF JobsAt, OnFly, TimerCancelled, IInv, TypeOK, ChannelTypes, GoroutineTypes, DispatcherControl, IsClosed,
      ChansClosed, JobChanClosed, JobsAt
  <2>2. QED
    BY <1>29, <2>1 DEF IsClosed, ChansClosed, TimerCancelled, Save, MoveTo, IInv, TypeOK, ChannelTypes, GoroutineTypes, DispatcherControl, IsClosed,
      ChansClosed, JobChanClosed, JobsAt
<1>30. ASSUME NEW j \in Jobs, EnqueueRetry(j) PROVE DispatcherControl'
  <2>1. UNCHANGED <<djob, dpc, ctxDone, closedWorkers, wpc, RetryJobChan, FailedJobChan>>
    BY <1>30 DEF EnqueueRetry, IInv, TypeOK, ChannelTypes, GoroutineTypes, DispatcherControl, IsClosed,
      ChansClosed, JobChanClosed, JobsAt
  <2>2. ChansClosed \/ dpc = "closeWorkers" => JobChan' = JobChan
    BY <1>30, EnqueueMoves DEF JobChanClosed, ChansClosed, EnqueueRetry, IInv, TypeOK, ChannelTypes, GoroutineTypes, DispatcherControl, IsClosed,
      ChansClosed, JobChanClosed, JobsAt
  <2>3. dpc = "stopped" => JobsAt(OnFly)' = {}
    BY <1>30, EnqueueMoves DEF MoveTo, JobsAt, OnFly, JobTypes, EnqueueRetry, IInv, TypeOK, ChannelTypes, GoroutineTypes, DispatcherControl, IsClosed,
      ChansClosed, JobChanClosed, JobsAt
  <2>4. QED
    BY <2>1, <2>2, <2>3 DEF IInv, DispatcherControl, IsClosed, ChansClosed
<1>31. QED
  BY <1>1, <1>2, <1>3, <1>4, <1>5, <1>6, <1>7, <1>8, <1>9, <1>10, <1>11,
      <1>12, <1>13, <1>14, <1>15, <1>16, <1>17, <1>18, <1>19, <1>20, <1>21,
      <1>22, <1>23, <1>24, <1>25, <1>26, <1>27, <1>28, <1>29, <1>30 DEF Next,
      WorkerStep, StartStep, PrepareRetryableJob, vars

\* Where the job is that a goroutine has in hand, or that is next in a channel.
LEMMA Sources ==
  ASSUME IInv
  PROVE  /\ \A w \in Workers : workerChan[w] # <<>> =>
              /\ Head(workerChan[w]) \in Jobs /\ at[Head(workerChan[w])] = "workerChan"
              /\ workerChan[w] = <<Head(workerChan[w])>> /\ Tail(workerChan[w]) = <<>>
         /\ \A w \in Workers :
              /\ wpc[w] = "process" => wjob[w] \in Jobs /\ at[wjob[w]] = "worker"
              /\ wpc[w] = "fail" => wjob[w] \in Jobs /\ at[wjob[w]] = "failing"
              /\ wpc[w] = "retry" => wjob[w] \in Jobs /\ at[wjob[w]] = "retrying"
              /\ \A j \in calls[w] : j \in Jobs /\ at[j] = "calls"
         /\ dpc \in {"dispatch", "drainDispatch"} => djob \in Jobs /\ at[djob] = "pool"
         /\ JobChan # <<>> => Head(JobChan) \in Jobs /\ at[Head(JobChan)] = "jobChan"
         /\ RetryJobChan # <<>> =>
              Head(RetryJobChan) \in Jobs /\ at[Head(RetryJobChan)] = "retryChan"
         /\ FailedJobChan # <<>> =>
              Head(FailedJobChan) \in Jobs /\ at[Head(FailedJobChan)] = "failedChan"
<1>1. ASSUME NEW w \in Workers, workerChan[w] # <<>>
      PROVE  /\ Head(workerChan[w]) \in Jobs /\ at[Head(workerChan[w])] = "workerChan"
             /\ workerChan[w] = <<Head(workerChan[w])>> /\ Tail(workerChan[w]) = <<>>
  <2>1. workerChan[w] \in Seq(Jobs) /\ Len(workerChan[w]) <= 1
    BY DEF IInv, TypeOK, ChannelTypes, HandsToIdle
  <2>2. /\ Head(workerChan[w]) \in Jobs
        /\ workerChan[w] = <<Head(workerChan[w])>> /\ Tail(workerChan[w]) = <<>>
    BY <1>1, <2>1
  <2>3. QED
    <3>1. Head(workerChan[w]) \in InChan[w]
      BY <2>1, <1>1 DEF InChan, Range
    <3>2. QED
      BY <2>2, <3>1 DEF IInv, HeldOnce, WorkersHold, HeldBy
<1>2. ASSUME NEW w \in Workers
      PROVE  /\ wpc[w] = "process" => wjob[w] \in Jobs /\ at[wjob[w]] = "worker"
             /\ wpc[w] = "fail" => wjob[w] \in Jobs /\ at[wjob[w]] = "failing"
             /\ wpc[w] = "retry" => wjob[w] \in Jobs /\ at[wjob[w]] = "retrying"
             /\ \A j \in calls[w] : j \in Jobs /\ at[j] = "calls"
  BY HandTypes DEF IInv, HeldOnce, WorkersHold, HeldBy, InHand
<1>3. dpc \in {"dispatch", "drainDispatch"} => djob \in Jobs /\ at[djob] = "pool"
  BY HandTypes DEF IInv, HeldOnce, DispatcherHolds
<1>4. ASSUME NEW c \in Seq(Jobs), c # <<>>, NEW place, ChannelHolds(c, place)
      PROVE  Head(c) \in Jobs /\ at[Head(c)] = place
  BY <1>4, RangeTail DEF ChannelHolds
<1>5. QED
  BY <1>1, <1>2, <1>3, <1>4 DEF IInv, TypeOK, ChannelTypes, HeldOnce, ChannelsHold

\* What ChannelHolds says of the next state
HoldsNext(c, place) ==
  IsInjective(c) /\ \A j \in Jobs : at'[j] = place <=> j \in Range(c)

\* A job moves between two other places.
LEMMA ChannelKeeps ==
  ASSUME JobTypes, NEW c, NEW place, ChannelHolds(c, place),
         NEW j \in Jobs, at[j] # place, NEW p, p # place, MoveTo(j, p)
  PROVE  HoldsNext(c, place)
BY DEF JobTypes, ChannelHolds, HoldsNext, MoveTo

\* A job is sent.
LEMMA ChannelSends ==
  ASSUME JobTypes, NEW c \in Seq(Jobs), NEW place, ChannelHolds(c, place),
         NEW j \in Jobs, at[j] # place, MoveTo(j, place)
  PROVE  HoldsNext(Append(c, j), place)
<1>1. j \notin Range(c)
  BY DEF ChannelHolds
<1>2. Range(Append(c, j)) = Range(c) \cup {j} /\ IsInjective(Append(c, j))
  BY <1>1, RangeAppend, InjectiveAppend DEF ChannelHolds
<1>3. QED
  BY <1>2 DEF JobTypes, ChannelHolds, HoldsNext, MoveTo

\* A job is received.
LEMMA ChannelReceives ==
  ASSUME JobTypes, NEW c \in Seq(Jobs), c # <<>>, NEW place, ChannelHolds(c, place),
         NEW p, p # place, MoveTo(Head(c), p)
  PROVE  HoldsNext(Tail(c), place)
<1>1. /\ Head(c) \in Jobs
      /\ Range(Tail(c)) = Range(c) \ {Head(c)} /\ IsInjective(Tail(c))
  BY RangeTail DEF ChannelHolds
<1>2. QED
  BY <1>1 DEF JobTypes, ChannelHolds, HoldsNext, MoveTo

\* Enqueue sends a job that JobChan does not hold, or leaves JobChan alone.
LEMMA EnqueueHolds ==
  ASSUME IInv, NEW j \in Jobs, at[j] \notin {"jobChan", "retryChan", "failedChan"},
         Enqueue(j), UNCHANGED <<RetryJobChan, FailedJobChan>>
  PROVE  ChannelsHold'
<1>1. /\ JobTypes /\ JobChan \in Seq(Jobs)
      /\ ChannelHolds(JobChan, "jobChan") /\ ChannelHolds(RetryJobChan, "retryChan")
      /\ ChannelHolds(FailedJobChan, "failedChan")
  BY DEF IInv, TypeOK, ChannelTypes, HeldOnce, ChannelsHold
<1>2. HoldsNext(JobChan', "jobChan")
  BY <1>1, EnqueueMoves, ChannelSends, ChannelKeeps
<1>3. PICK p \in {"jobChan", "pending", "lost"} : MoveTo(j, p)
  BY EnqueueMoves
<1>4. /\ HoldsNext(RetryJobChan, "retryChan")
      /\ HoldsNext(FailedJobChan, "failedChan")
  BY <1>1, <1>3, ChannelKeeps
<1>5. QED
  BY <1>2, <1>4 DEF HoldsNext, ChannelsHold, ChannelHolds

\* The channels hold the jobs whose place they are, each once.
LEMMA ChannelsHoldStep == IInv /\ [Next]_vars => ChannelsHold'
<1> SUFFICES ASSUME IInv, [Next]_vars PROVE ChannelsHold'
  OBVIOUS
<1>1. CASE UNCHANGED <<JobChan, RetryJobChan, FailedJobChan, at>>
  BY <1>1 DEF IInv, HeldOnce, ChannelsHold, ChannelHolds
<1>2. ASSUME NEW j \in Jobs, Listen(j) PROVE ChannelsHold'
  BY <1>2, Sources, EnqueueHolds DEF Listen, IInv, HeldOnce, ChannelsHold
<1>3. ASSUME NEW w \in Workers, ReceiveJob(w) PROVE ChannelsHold'
  <2>1. /\ JobTypes /\ ChannelTypes
        /\ ChannelHolds(JobChan, "jobChan") /\ ChannelHolds(RetryJobChan, "retryChan")
        /\ ChannelHolds(FailedJobChan, "failedChan")
    BY DEF IInv, TypeOK, HeldOnce, ChannelsHold
  <2>2. /\ HoldsNext(JobChan', "jobChan") /\ HoldsNext(RetryJobChan', "retryChan")
        /\ HoldsNext(FailedJobChan', "failedChan")
    BY <1>3, <2>1, Sources, SaveMoves, ChannelKeeps, ChannelSends, ChannelReceives
      DEF ChannelTypes, ReceiveJob
  <2>3. QED
    BY <2>2 DEF HoldsNext, ChannelsHold, ChannelHolds
<1>4. ASSUME NEW w \in Workers, ProcessSucceeds(w) PROVE ChannelsHold'
  <2>1. \A k \in CallBacks[wjob[w]] : at[k] = "unborn"
    BY <1>4, Sources DEF ProcessSucceeds, IInv, CallBackControl
  <2>2. QED
    BY <1>4, <2>1, Sources DEF ChannelHolds, ProcessSucceeds, IInv, HeldOnce, ChannelsHold
<1>5. ASSUME NEW w \in Workers, SendCallback(w) PROVE ChannelsHold'
  BY <1>5, Sources, EnqueueHolds DEF SendCallback, IInv, HeldOnce,
      ChannelsHold
<1>6. ASSUME NEW w \in Workers, ProcessFails(w) PROVE ChannelsHold'
  <2>1. /\ JobTypes /\ ChannelTypes
        /\ ChannelHolds(JobChan, "jobChan") /\ ChannelHolds(RetryJobChan, "retryChan")
        /\ ChannelHolds(FailedJobChan, "failedChan")
    BY DEF IInv, TypeOK, HeldOnce, ChannelsHold
  <2>2. /\ HoldsNext(JobChan', "jobChan") /\ HoldsNext(RetryJobChan', "retryChan")
        /\ HoldsNext(FailedJobChan', "failedChan")
    BY <1>6, <2>1, Sources, SaveMoves, ChannelKeeps, ChannelSends, ChannelReceives
      DEF ChannelTypes, ProcessFails
  <2>3. QED
    BY <2>2 DEF HoldsNext, ChannelsHold, ChannelHolds
<1>7. ASSUME NEW w \in Workers, ProcessPanics(w) PROVE ChannelsHold'
  <2>1. /\ JobTypes /\ ChannelTypes
        /\ ChannelHolds(JobChan, "jobChan") /\ ChannelHolds(RetryJobChan, "retryChan")
        /\ ChannelHolds(FailedJobChan, "failedChan")
    BY DEF IInv, TypeOK, HeldOnce, ChannelsHold
  <2>2. /\ HoldsNext(JobChan', "jobChan") /\ HoldsNext(RetryJobChan', "retryChan")
        /\ HoldsNext(FailedJobChan', "failedChan")
    BY <1>7, <2>1, Sources, SaveMoves, ChannelKeeps, ChannelSends, ChannelReceives
      DEF ChannelTypes, ProcessPanics
  <2>3. QED
    BY <2>2 DEF HoldsNext, ChannelsHold, ChannelHolds
<1>8. ASSUME NEW w \in Workers, SendFailedJob(w) PROVE ChannelsHold'
  <2>1. /\ JobTypes /\ ChannelTypes
        /\ ChannelHolds(JobChan, "jobChan") /\ ChannelHolds(RetryJobChan, "retryChan")
        /\ ChannelHolds(FailedJobChan, "failedChan")
    BY DEF IInv, TypeOK, HeldOnce, ChannelsHold
  <2>2. /\ HoldsNext(JobChan', "jobChan") /\ HoldsNext(RetryJobChan', "retryChan")
        /\ HoldsNext(FailedJobChan', "failedChan")
    BY <1>8, <2>1, Sources, SaveMoves, ChannelKeeps, ChannelSends, ChannelReceives
      DEF ChannelTypes, SendFailedJob
  <2>3. QED
    BY <2>2 DEF HoldsNext, ChannelsHold, ChannelHolds
<1>9. ASSUME NEW w \in Workers, RetryJob(w) PROVE ChannelsHold'
  <2>1. /\ JobTypes /\ ChannelTypes
        /\ ChannelHolds(JobChan, "jobChan") /\ ChannelHolds(RetryJobChan, "retryChan")
        /\ ChannelHolds(FailedJobChan, "failedChan")
    BY DEF IInv, TypeOK, HeldOnce, ChannelsHold
  <2>2. /\ HoldsNext(JobChan', "jobChan") /\ HoldsNext(RetryJobChan', "retryChan")
        /\ HoldsNext(FailedJobChan', "failedChan")
    BY <1>9, <2>1, Sources, SaveMoves, ChannelKeeps, ChannelSends, ChannelReceives
      DEF ChannelTypes, RetryJob
  <2>3. QED
    BY <2>2 DEF HoldsNext, ChannelsHold, ChannelHolds
<1>10. CASE TakeFailedJob
  <2>1. /\ JobTypes /\ ChannelTypes
        /\ ChannelHolds(JobChan, "jobChan") /\ ChannelHolds(RetryJobChan, "retryChan")
        /\ ChannelHolds(FailedJobChan, "failedChan")
    BY DEF IInv, TypeOK, HeldOnce, ChannelsHold
  <2>2. /\ HoldsNext(JobChan', "jobChan") /\ HoldsNext(RetryJobChan', "retryChan")
        /\ HoldsNext(FailedJobChan', "failedChan")
    BY <1>10, <2>1, Sources, SaveMoves, ChannelKeeps, ChannelSends, ChannelReceives
      DEF ChannelTypes, TakeFailedJob
  <2>3. QED
    BY <2>2 DEF HoldsNext, ChannelsHold, ChannelHolds
<1>11. CASE TakeRetryJob
  <2>1. /\ JobTypes /\ ChannelTypes
        /\ ChannelHolds(JobChan, "jobChan") /\ ChannelHolds(RetryJobChan, "retryChan")
        /\ ChannelHolds(FailedJobChan, "failedChan")
    BY DEF IInv, TypeOK, HeldOnce, ChannelsHold
  <2>2. /\ HoldsNext(JobChan', "jobChan") /\ HoldsNext(RetryJobChan', "retryChan")
        /\ HoldsNext(FailedJobChan', "failedChan")
    BY <1>11, <2>1, Sources, SaveMoves, ChannelKeeps, ChannelSends, ChannelReceives
      DEF ChannelTypes, TakeRetryJob
  <2>3. QED
    BY <2>2 DEF HoldsNext, ChannelsHold, ChannelHolds
<1>12. CASE TakeJob
  <2>1. /\ JobTypes /\ ChannelTypes
        /\ ChannelHolds(JobChan, "jobChan") /\ ChannelHolds(RetryJobChan, "retryChan")
        /\ ChannelHolds(FailedJobChan, "failedChan")
    BY DEF IInv, TypeOK, HeldOnce, ChannelsHold
  <2>2. /\ HoldsNext(JobChan', "jobChan") /\ HoldsNext(RetryJobChan', "retryChan")
        /\ HoldsNext(FailedJobChan', "failedChan")
    BY <1>12, <2>1, Sources, SaveMoves, ChannelKeeps, ChannelSends, ChannelReceives
      DEF ChannelTypes, TakeJob
  <2>3. QED
    BY <2>2 DEF HoldsNext, ChannelsHold, ChannelHolds
<1>13. CASE SendJobToWorker
  <2>1. /\ JobTypes /\ ChannelTypes
        /\ ChannelHolds(JobChan, "jobChan") /\ ChannelHolds(RetryJobChan, "retryChan")
        /\ ChannelHolds(FailedJobChan, "failedChan")
    BY DEF IInv, TypeOK, HeldOnce, ChannelsHold
  <2>2. /\ HoldsNext(JobChan', "jobChan") /\ HoldsNext(RetryJobChan', "retryChan")
        /\ HoldsNext(FailedJobChan', "failedChan")
    BY <1>13, <2>1, Sources, SaveMoves, ChannelKeeps, ChannelSends, ChannelReceives
      DEF ChannelTypes, SendJobToWorker
  <2>3. QED
    BY <2>2 DEF HoldsNext, ChannelsHold, ChannelHolds
<1>14. CASE SaveRetryJob
  <2>1. /\ JobTypes /\ ChannelTypes
        /\ ChannelHolds(JobChan, "jobChan") /\ ChannelHolds(RetryJobChan, "retryChan")
        /\ ChannelHolds(FailedJobChan, "failedChan")
    BY DEF IInv, TypeOK, HeldOnce, ChannelsHold
  <2>2. /\ HoldsNext(JobChan', "jobChan") /\ HoldsNext(RetryJobChan', "retryChan")
        /\ HoldsNext(FailedJobChan', "failedChan")
    BY <1>14, <2>1, Sources, SaveMoves, ChannelKeeps, ChannelSends, ChannelReceives
      DEF ChannelTypes, SaveRetryJob
  <2>3. QED
    BY <2>2 DEF HoldsNext, ChannelsHold, ChannelHolds
<1>15. ASSUME NEW j \in Jobs, PrepareClosed(j) PROVE ChannelsHold'
  <2>1. /\ JobTypes /\ ChannelTypes
        /\ ChannelHolds(JobChan, "jobChan") /\ ChannelHolds(RetryJobChan, "retryChan")
        /\ ChannelHolds(FailedJobChan, "failedChan")
    BY DEF IInv, TypeOK, HeldOnce, ChannelsHold
  <2>2. /\ HoldsNext(JobChan', "jobChan") /\ HoldsNext(RetryJobChan', "retryChan")
        /\ HoldsNext(FailedJobChan', "failedChan")
    BY <1>15, <2>1, Sources, SaveMoves, ChannelKeeps, ChannelSends, ChannelReceives
      DEF ChannelTypes, PrepareClosed
  <2>3. QED
    BY <2>2 DEF HoldsNext, ChannelsHold, ChannelHolds
<1>16. ASSUME NEW j \in Jobs, PrepareLate(j) PROVE ChannelsHold'
  <2>1. /\ JobTypes /\ ChannelTypes
        /\ ChannelHolds(JobChan, "jobChan") /\ ChannelHolds(RetryJobChan, "retryChan")
        /\ ChannelHolds(FailedJobChan, "failedChan")
    BY DEF IInv, TypeOK, HeldOnce, ChannelsHold
  <2>2. /\ HoldsNext(JobChan', "jobChan") /\ HoldsNext(RetryJobChan', "retryChan")
        /\ HoldsNext(FailedJobChan', "failedChan")
    BY <1>16, <2>1, Sources, SaveMoves, ChannelKeeps, ChannelSends, ChannelReceives
      DEF ChannelTypes, PrepareLate
  <2>3. QED
    BY <2>2 DEF HoldsNext, ChannelsHold, ChannelHolds
<1>17. ASSUME NEW j \in Jobs, PrepareTimer(j) PROVE ChannelsHold'
  <2>1. /\ JobTypes /\ ChannelTypes
        /\ ChannelHolds(JobChan, "jobChan") /\ ChannelHolds(RetryJobChan, "retryChan")
        /\ ChannelHolds(FailedJobChan, "failedChan")
    BY DEF IInv, TypeOK, HeldOnce, ChannelsHold
  <2>2. /\ HoldsNext(JobChan', "jobChan") /\ HoldsNext(RetryJobChan', "retryChan")
        /\ HoldsNext(FailedJobChan', "failedChan")
    BY <1>17, <2>1, Sources, SaveMoves, ChannelKeeps, ChannelSends, ChannelReceives
      DEF ChannelTypes, PrepareTimer
  <2>3. QED
    BY <2>2 DEF HoldsNext, ChannelsHold, ChannelHolds
<1>18. ASSUME NEW j \in Jobs, TimerFires(j) PROVE ChannelsHold'
  <2>1. /\ JobTypes /\ ChannelTypes
        /\ ChannelHolds(JobChan, "jobChan") /\ ChannelHolds(RetryJobChan, "retryChan")
        /\ ChannelHolds(FailedJobChan, "failedChan")
    BY DEF IInv, TypeOK, HeldOnce, ChannelsHold
  <2>2. /\ HoldsNext(JobChan', "jobChan") /\ HoldsNext(RetryJobChan', "retryChan")
        /\ HoldsNext(FailedJobChan', "failedChan")
    BY <1>18, <2>1, Sources, SaveMoves, ChannelKeeps, ChannelSends, ChannelReceives
      DEF ChannelTypes, TimerFires
  <2>3. QED
    BY <2>2 DEF HoldsNext, ChannelsHold, ChannelHolds
<1>19. ASSUME NEW j \in Jobs, TimerCancelled(j) PROVE ChannelsHold'
  <2>1. /\ JobTypes /\ ChannelTypes
        /\ ChannelHolds(JobChan, "jobChan") /\ ChannelHolds(RetryJobChan, "retryChan")
        /\ ChannelHolds(FailedJobChan, "failedChan")
    BY DEF IInv, TypeOK, HeldOnce, ChannelsHold
  <2>2. /\ HoldsNext(JobChan', "jobChan") /\ HoldsNext(RetryJobChan', "retryChan")
        /\ HoldsNext(FailedJobChan', "failedChan")
    BY <1>19, <2>1, Sources, SaveMoves, ChannelKeeps, ChannelSends, ChannelReceives
      DEF ChannelTypes, TimerCancelled
  <2>3. QED
    BY <2>2 DEF HoldsNext, ChannelsHold, ChannelHolds
<1>20. ASSUME NEW j \in Jobs, EnqueueRetry(j) PROVE ChannelsHold'
  BY <1>20, Sources, EnqueueHolds DEF EnqueueRetry, IInv, HeldOnce,
      ChannelsHold
<1>21. QED
  BY <1>1, <1>2, <1>3, <1>4, <1>5, <1>6, <1>7, <1>8, <1>9, <1>10, <1>11,
      <1>12, <1>13, <1>14, <1>15, <1>16, <1>17, <1>18, <1>19, <1>20 DEF Next,
      WorkerStep, StartStep, PrepareRetryableJob, vars, Cancel, PushChannel,
      StopWorker, BeginClose, CloseJobChan, CloseWorker, CloseChans,
      RetryJobsSaved, FailedJobsSaved, CloseStop

\* A job written off has used up its retries.
LEMMA FailsAfterMaxTryStep == IInv /\ [Next]_vars => FailsAfterMaxTry'
<1> SUFFICES ASSUME IInv, [Next]_vars PROVE FailsAfterMaxTry'
  OBVIOUS
<1>1. CASE UNCHANGED <<at, retryCount>>
  BY <1>1 DEF IInv, FailsAfterMaxTry
<1>2. ASSUME NEW j \in Jobs, Listen(j) PROVE FailsAfterMaxTry'
  BY <1>2, Sources, PoolAssumption DEF Listen, Enqueue, MoveTo, Save, IInv,
      TypeOK, JobTypes, FailsAfterMaxTry
<1>3. ASSUME NEW w \in Workers, ReceiveJob(w) PROVE FailsAfterMaxTry'
  BY <1>3, Sources, PoolAssumption DEF ReceiveJob, MoveTo, IInv, TypeOK,
      JobTypes, FailsAfterMaxTry
<1>4. ASSUME NEW w \in Workers, ProcessSucceeds(w) PROVE FailsAfterMaxTry'
  BY <1>4, Sources, PoolAssumption DEF ProcessSucceeds, IInv, TypeOK,
      JobTypes, FailsAfterMaxTry
<1>5. ASSUME NEW w \in Workers, SendCallback(w) PROVE FailsAfterMaxTry'
  BY <1>5, Sources, PoolAssumption DEF SendCallback, Enqueue, MoveTo, Save,
      IInv, TypeOK, JobTypes, FailsAfterMaxTry
<1>6. ASSUME NEW w \in Workers, ProcessFails(w) PROVE FailsAfterMaxTry'
  BY <1>6, Sources, PoolAssumption DEF ProcessFails, MoveTo, IInv, TypeOK,
      JobTypes, FailsAfterMaxTry
<1>7. ASSUME NEW w \in Workers, ProcessPanics(w) PROVE FailsAfterMaxTry'
  BY <1>7, Sources, PoolAssumption DEF ProcessPanics, MoveTo, IInv, TypeOK,
      JobTypes, FailsAfterMaxTry
<1>8. ASSUME NEW w \in Workers, SendFailedJob(w) PROVE FailsAfterMaxTry'
  BY <1>8, Sources, PoolAssumption DEF SendFailedJob, MoveTo, IInv, TypeOK,
      JobTypes, FailsAfterMaxTry
<1>9. ASSUME NEW w \in Workers, RetryJob(w) PROVE FailsAfterMaxTry'
  BY <1>9, Sources, PoolAssumption DEF RetryJob, MoveTo, IInv, TypeOK,
      JobTypes, FailsAfterMaxTry
<1>10. CASE TakeFailedJob
  BY <1>10, Sources, PoolAssumption DEF TakeFailedJob, Save, MoveTo, IInv,
      TypeOK, JobTypes, FailsAfterMaxTry
<1>11. CASE TakeRetryJob
  BY <1>11, Sources, PoolAssumption DEF TakeRetryJob, MoveTo, IInv, TypeOK,
      JobTypes, FailsAfterMaxTry
<1>12. CASE TakeJob
  BY <1>12, Sources, PoolAssumption DEF TakeJob, MoveTo, IInv, TypeOK,
      JobTypes, FailsAfterMaxTry
<1>13. CASE SendJobToWorker
  BY <1>13, Sources, PoolAssumption DEF SendJobToWorker, MoveTo, IInv, TypeOK,
      JobTypes, FailsAfterMaxTry
<1>14. CASE SaveRetryJob
  BY <1>14, Sources, PoolAssumption DEF SaveRetryJob, Save, MoveTo, IInv,
      TypeOK, JobTypes, FailsAfterMaxTry
<1>15. ASSUME NEW j \in Jobs, PrepareClosed(j) PROVE FailsAfterMaxTry'
  BY <1>15, Sources, PoolAssumption DEF PrepareClosed, Save, MoveTo, IInv,
      TypeOK, JobTypes, FailsAfterMaxTry
<1>16. ASSUME NEW j \in Jobs, PrepareLate(j) PROVE FailsAfterMaxTry'
  BY <1>16, Sources, PoolAssumption DEF PrepareLate, MoveTo, IInv, TypeOK,
      JobTypes, FailsAfterMaxTry
<1>17. ASSUME NEW j \in Jobs, PrepareTimer(j) PROVE FailsAfterMaxTry'
  BY <1>17, Sources, PoolAssumption DEF PrepareTimer, MoveTo, IInv, TypeOK,
      JobTypes, FailsAfterMaxTry
<1>18. ASSUME NEW j \in Jobs, TimerFires(j) PROVE FailsAfterMaxTry'
  BY <1>18, Sources, PoolAssumption DEF TimerFires, MoveTo, IInv, TypeOK,
      JobTypes, FailsAfterMaxTry
<1>19. ASSUME NEW j \in Jobs, TimerCancelled(j) PROVE FailsAfterMaxTry'
  BY <1>19, Sources, PoolAssumption DEF TimerCancelled, Save, MoveTo, IInv,
      TypeOK, JobTypes, FailsAfterMaxTry
<1>20. ASSUME NEW j \in Jobs, EnqueueRetry(j) PROVE FailsAfterMaxTry'
  BY <1>20, Sources, PoolAssumption DEF EnqueueRetry, Enqueue, Save, MoveTo,
      IInv, TypeOK, JobTypes, FailsAfterMaxTry
<1>21. QED
  BY <1>1, <1>2, <1>3, <1>4, <1>5, <1>6, <1>7, <1>8, <1>9, <1>10, <1>11,
      <1>12, <1>13, <1>14, <1>15, <1>16, <1>17, <1>18, <1>19, <1>20 DEF Next,
      WorkerStep, StartStep, PrepareRetryableJob, vars, Cancel, PushChannel,
      StopWorker, BeginClose, CloseJobChan, CloseWorker, CloseChans,
      RetryJobsSaved, FailedJobsSaved, CloseStop

\* The dispatcher has the job in hand whose place is the pool.
LEMMA DispatcherHoldsStep == IInv /\ [Next]_vars => DispatcherHolds'
<1> SUFFICES ASSUME IInv, [Next]_vars PROVE DispatcherHolds'
  OBVIOUS
<1>1. CASE UNCHANGED <<at, djob>>
  BY <1>1 DEF IInv, HeldOnce, DispatcherHolds
<1>2. ASSUME NEW j \in Jobs, Listen(j) PROVE DispatcherHolds'
  BY <1>2, Sources, PoolAssumption DEF Listen, Enqueue, MoveTo, Save, IInv,
      TypeOK, JobTypes, HeldOnce, DispatcherHolds
<1>3. ASSUME NEW w \in Workers, ReceiveJob(w) PROVE DispatcherHolds'
  BY <1>3, Sources, PoolAssumption DEF ReceiveJob, MoveTo, IInv, TypeOK,
      JobTypes, HeldOnce, DispatcherHolds
<1>4. ASSUME NEW w \in Workers, ProcessSucceeds(w) PROVE DispatcherHolds'
  <2>1. \A k \in CallBacks[wjob[w]] : at[k] = "unborn"
    BY <1>4, Sources DEF ProcessSucceeds, IInv, CallBackControl
  <2>2. QED
    BY <1>4, <2>1, Sources DEF ProcessSucceeds, IInv, TypeOK, JobTypes, HeldOnce, DispatcherHolds
<1>5. ASSUME NEW w \in Workers, SendCallback(w) PROVE DispatcherHolds'
  <2>1. djob' = djob
    BY <1>5 DEF SendCallback, dispatcher
  <2>2. PICK j \in Jobs : at[j] = "calls" /\ Enqueue(j)
    BY <1>5, Sources DEF SendCallback
  <2>3. /\ \A k \in Jobs \ {j} : at'[k] = at[k]
        /\ at'[j] # "pool"
    BY <2>2, EnqueueMoves, SaveMoves DEF MoveTo, IInv, TypeOK, JobTypes
  <2>4. QED
    BY <2>1, <2>2, <2>3 DEF IInv, HeldOnce, DispatcherHolds
<1>6. ASSUME NEW w \in Workers, ProcessFails(w) PROVE DispatcherHolds'
  <2>1. djob' = djob
    BY <1>6 DEF ProcessFails, dispatcher
  <2>2. wjob[w] \in Jobs /\ at[wjob[w]] = "worker"
    BY <1>6, Sources DEF ProcessFails
  <2>3. MoveTo(wjob[w], "failing") \/ MoveTo(wjob[w], "retrying")
    BY <1>6 DEF ProcessFails
  <2>4. /\ \A k \in Jobs \ {wjob[w]} : at'[k] = at[k]
        /\ at'[wjob[w]] # "pool"
    BY <2>2, <2>3 DEF MoveTo, IInv, TypeOK, JobTypes
  <2>5. QED
    BY <2>1, <2>2, <2>4 DEF IInv, HeldOnce, DispatcherHolds
<1>7. ASSUME NEW w \in Workers, ProcessPanics(w) PROVE DispatcherHolds'
  BY <1>7, Sources, PoolAssumption DEF ProcessPanics, MoveTo, IInv, TypeOK,
      JobTypes, HeldOnce, DispatcherHolds
<1>8. ASSUME NEW w \in Workers, SendFailedJob(w) PROVE DispatcherHolds'
  BY <1>8, Sources, PoolAssumption DEF SendFailedJob, MoveTo, IInv, TypeOK,
      JobTypes, HeldOnce, DispatcherHolds
<1>9. ASSUME NEW w \in Workers, RetryJob(w) PROVE DispatcherHolds'
  BY <1>9, Sources, PoolAssumption DEF RetryJob, MoveTo, IInv, TypeOK,
      JobTypes, HeldOnce, DispatcherHolds
<1>10. CASE TakeFailedJob
  BY <1>10, Sources, PoolAssumption DEF TakeFailedJob, Save, MoveTo, IInv,
      TypeOK, JobTypes, HeldOnce, DispatcherHolds
<1>11. CASE TakeRetryJob
  BY <1>11, Sources, PoolAssumption DEF TakeRetryJob, MoveTo, IInv, TypeOK,
      JobTypes, HeldOnce, DispatcherHolds
<1>12. CASE TakeJob
  BY <1>12, Sources, PoolAssumption DEF DispatcherControl, TakeJob,
      MoveTo, IInv, TypeOK, JobTypes, HeldOnce, DispatcherHolds
<1>13. CASE SendJobToWorker
  BY <1>13, Sources, PoolAssumption DEF SendJobToWorker, MoveTo, IInv, TypeOK,
      JobTypes, HeldOnce, DispatcherHolds
<1>14. CASE SaveRetryJob
  BY <1>14, Sources, PoolAssumption DEF SaveRetryJob, Save, MoveTo, IInv,
      TypeOK, JobTypes, HeldOnce, DispatcherHolds
<1>15. ASSUME NEW j \in Jobs, PrepareClosed(j) PROVE DispatcherHolds'
  BY <1>15, Sources, PoolAssumption DEF PrepareClosed, Save, MoveTo, IInv,
      TypeOK, JobTypes, HeldOnce, DispatcherHolds
<1>16. ASSUME NEW j \in Jobs, PrepareLate(j) PROVE DispatcherHolds'
  BY <1>16, Sources, PoolAssumption DEF PrepareLate, MoveTo, IInv, TypeOK,
      JobTypes, HeldOnce, DispatcherHolds
<1>17. ASSUME NEW j \in Jobs, PrepareTimer(j) PROVE DispatcherHolds'
  BY <1>17, Sources, PoolAssumption DEF PrepareTimer, MoveTo, IInv, TypeOK,
      JobTypes, HeldOnce, DispatcherHolds
<1>18. ASSUME NEW j \in Jobs, TimerFires(j) PROVE DispatcherHolds'
  BY <1>18, Sources, PoolAssumption DEF TimerFires, MoveTo, IInv, TypeOK,
      JobTypes, HeldOnce, DispatcherHolds
<1>19. ASSUME NEW j \in Jobs, TimerCancelled(j) PROVE DispatcherHolds'
  BY <1>19, Sources, PoolAssumption DEF TimerCancelled, Save, MoveTo, IInv,
      TypeOK, JobTypes, HeldOnce, DispatcherHolds
<1>20. ASSUME NEW j \in Jobs, EnqueueRetry(j) PROVE DispatcherHolds'
  BY <1>20, Sources, PoolAssumption DEF EnqueueRetry, Enqueue, Save, MoveTo,
      IInv, TypeOK, JobTypes, HeldOnce, DispatcherHolds
<1>21. QED
  BY <1>1, <1>2, <1>3, <1>4, <1>5, <1>6, <1>7, <1>8, <1>9, <1>10, <1>11,
      <1>12, <1>13, <1>14, <1>15, <1>16, <1>17, <1>18, <1>19, <1>20 DEF Next,
      WorkerStep, StartStep, PrepareRetryableJob, vars, Cancel, PushChannel,
      StopWorker, BeginClose, CloseJobChan, CloseWorker, CloseChans,
      RetryJobsSaved, FailedJobsSaved, CloseStop

\* A job that is neither unborn nor done moves.
LEMMA CallBackControlKept ==
  ASSUME JobTypes, CallBackControl, NEW j \in Jobs, at[j] \notin {"unborn", "done"},
         NEW p, p # "unborn", MoveTo(j, p)
  PROVE  CallBackControl'
BY PoolAssumption DEF JobTypes, CallBackControl, MoveTo

\* Callback jobs come into being only when the job that calls them back is done.
LEMMA CallBackControlStep == IInv /\ [Next]_vars => CallBackControl'
<1> SUFFICES ASSUME IInv, [Next]_vars PROVE CallBackControl'
  OBVIOUS
<1>1. CASE UNCHANGED <<at>>
  BY <1>1 DEF IInv, CallBackControl
<1>2. ASSUME NEW j \in Jobs, Listen(j) PROVE CallBackControl'
  BY <1>2, Sources, SaveMoves, EnqueueMoves, CallBackControlKept DEF Listen,
      IInv, TypeOK, JobTypes, CallBackControl
<1>3. ASSUME NEW w \in Workers, ReceiveJob(w) PROVE CallBackControl'
  BY <1>3, Sources, SaveMoves, EnqueueMoves, CallBackControlKept DEF
      ReceiveJob, IInv, TypeOK, JobTypes, CallBackControl
<1>4. ASSUME NEW w \in Workers, ProcessSucceeds(w) PROVE CallBackControl'
  BY <1>4, Sources, PoolAssumption DEF ProcessSucceeds, IInv, TypeOK,
      JobTypes, CallBackControl
<1>5. ASSUME NEW w \in Workers, SendCallback(w) PROVE CallBackControl'
  BY <1>5, Sources, SaveMoves, EnqueueMoves, CallBackControlKept DEF
      SendCallback, IInv, TypeOK, JobTypes, CallBackControl
<1>6. ASSUME NEW w \in Workers, ProcessFails(w) PROVE CallBackControl'
  BY <1>6, Sources, SaveMoves, EnqueueMoves, CallBackControlKept DEF
      ProcessFails, IInv, TypeOK, JobTypes, CallBackControl
<1>7. ASSUME NEW w \in Workers, ProcessPanics(w) PROVE CallBackControl'
  BY <1>7, Sources, SaveMoves, EnqueueMoves, CallBackControlKept DEF
      ProcessPanics, IInv, TypeOK, JobTypes, CallBackControl
<1>8. ASSUME NEW w \in Workers, SendFailedJob(w) PROVE CallBackControl'
  BY <1>8, Sources, SaveMoves, EnqueueMoves, CallBackControlKept DEF
      SendFailedJob, IInv, TypeOK, JobTypes, CallBackControl
<1>9. ASSUME NEW w \in Workers, RetryJob(w) PROVE CallBackControl'
  BY <1>9, Sources, SaveMoves, EnqueueMoves, CallBackControlKept DEF RetryJob,
      IInv, TypeOK, JobTypes, CallBackControl
<1>10. CASE TakeFailedJob
  BY <1>10, Sources, SaveMoves, EnqueueMoves, CallBackControlKept DEF
      TakeFailedJob, IInv, TypeOK, JobTypes, CallBackControl
<1>11. CASE TakeRetryJob
  BY <1>11, Sources, SaveMoves, EnqueueMoves, CallBackControlKept DEF
      TakeRetryJob, IInv, TypeOK, JobTypes, CallBackControl
<1>12. CASE TakeJob
  BY <1>12, Sources, SaveMoves, EnqueueMoves, CallBackControlKept DEF TakeJob,
      IInv, TypeOK, JobTypes, CallBackControl
<1>13. CASE SendJobToWorker
  BY <1>13, Sources, SaveMoves, EnqueueMoves, CallBackControlKept DEF
      SendJobToWorker, IInv, TypeOK, JobTypes, CallBackControl
<1>14. CASE SaveRetryJob
  BY <1>14, Sources, SaveMoves, EnqueueMoves, CallBackControlKept DEF
      SaveRetryJob, IInv, TypeOK, JobTypes, CallBackControl
<1>15. ASSUME NEW j \in Jobs, PrepareClosed(j) PROVE CallBackControl'
  BY <1>15, Sources, SaveMoves, EnqueueMoves, CallBackControlKept DEF
      PrepareClosed, IInv, TypeOK, JobTypes, CallBackControl
<1>16. ASSUME NEW j \in Jobs, PrepareLate(j) PROVE CallBackControl'
  BY <1>16, Sources, SaveMoves, EnqueueMoves, CallBackControlKept DEF
      PrepareLate, IInv, TypeOK, JobTypes, CallBackControl
<1>17. ASSUME NEW j \in Jobs, PrepareTimer(j) PROVE CallBackControl'
  BY <1>17, Sources, SaveMoves, EnqueueMoves, CallBackControlKept DEF
      PrepareTimer, IInv, TypeOK, JobTypes, CallBackControl
<1>18. ASSUME NEW j \in Jobs, TimerFires(j) PROVE CallBackControl'
  BY <1>18, Sources, SaveMoves, EnqueueMoves, CallBackControlKept DEF
      TimerFires, IInv, TypeOK, JobTypes, CallBackControl
<1>19. ASSUME NEW j \in Jobs, TimerCancelled(j) PROVE CallBackControl'
  BY <1>19, Sources, SaveMoves, EnqueueMoves, CallBackControlKept DEF
      TimerCancelled, IInv, TypeOK, JobTypes, CallBackControl
<1>20. ASSUME NEW j \in Jobs, EnqueueRetry(j) PROVE CallBackControl'
  BY <1>20, Sources, SaveMoves, EnqueueMoves, CallBackControlKept DEF
      EnqueueRetry, IInv, TypeOK, JobTypes, CallBackControl
<1>21. QED
  BY <1>1, <1>2, <1>3, <1>4, <1>5, <1>6, <1>7, <1>8, <1>9, <1>10, <1>11,
      <1>12, <1>13, <1>14, <1>15, <1>16, <1>17, <1>18, <1>19, <1>20 DEF Next,
      WorkerStep, StartStep, PrepareRetryableJob, vars, Cancel, PushChannel,
      StopWorker, BeginClose, CloseJobChan, CloseWorker, CloseChans,
      RetryJobsSaved, FailedJobsSaved, CloseStop

\* What HeldBy says of the next state
HeldNext(h, place) ==
  /\ \A j \in Jobs : at'[j] = place <=> \E w \in Workers : j \in h[w]
  /\ \A v, w \in Workers : v # w => h[v] \cap h[w] = {}

\* A job moves between two other places.
LEMMA HeldKeeps ==
  ASSUME JobTypes, NEW h, NEW place, HeldBy(h, place),
         NEW j \in Jobs, at[j] # place, NEW p, p # place, MoveTo(j, p)
  PROVE  HeldNext(h, place)
BY DEF JobTypes, HeldBy, HeldNext, MoveTo

\* A worker takes a job.
LEMMA HeldTakes ==
  ASSUME JobTypes, NEW h \in [Workers -> SUBSET Jobs], NEW place, HeldBy(h, place),
         NEW j \in Jobs, at[j] # place, MoveTo(j, place), NEW w \in Workers
  PROVE  HeldNext([h EXCEPT ![w] = @ \cup {j}], place)
<1> DEFINE g == [h EXCEPT ![w] = @ \cup {j}]
<1>1. \A v \in Workers : g[v] = IF v = w THEN h[w] \cup {j} ELSE h[v]
  OBVIOUS
<1>2. at'[j] = place /\ \A k \in Jobs \ {j} : at'[k] = at[k]
  BY DEF JobTypes, MoveTo
<1>3. \A v \in Workers : j \notin h[v]
  BY DEF HeldBy
<1>4. QED
  BY <1>1, <1>2, <1>3 DEF HeldBy, HeldNext

\* A worker parts with a job.
LEMMA HeldGives ==
  ASSUME JobTypes, NEW h \in [Workers -> SUBSET Jobs], NEW place, HeldBy(h, place),
         NEW w \in Workers, NEW j \in h[w], NEW p, p # place, MoveTo(j, p)
  PROVE  HeldNext([h EXCEPT ![w] = @ \ {j}], place)
<1> DEFINE g == [h EXCEPT ![w] = @ \ {j}]
<1>1. \A v \in Workers : g[v] = IF v = w THEN h[w] \ {j} ELSE h[v]
  OBVIOUS
<1>2. j \in Jobs /\ at'[j] = p /\ \A k \in Jobs \ {j} : at'[k] = at[k]
  BY DEF JobTypes, MoveTo
<1>3. \A v \in Workers : v # w => j \notin h[v]
  BY DEF HeldBy
<1>4. QED
  BY <1>1, <1>2, <1>3 DEF HeldBy, HeldNext

\* What the workers hold are sets of jobs.
LEMMA HoldersTypes ==
  ASSUME IInv
  PROVE  /\ InChan \in [Workers -> SUBSET Jobs]
         /\ InHand("process") \in [Workers -> SUBSET Jobs]
         /\ InHand("fail") \in [Workers -> SUBSET Jobs]
         /\ InHand("retry") \in [Workers -> SUBSET Jobs]
         /\ calls \in [Workers -> SUBSET Jobs]
<1>1. \A w \in Workers : Range(workerChan[w]) \subseteq Jobs
  BY DEF IInv, TypeOK, ChannelTypes, Range
<1>2. QED
  BY <1>1, HandTypes DEF InChan, InHand, IInv, TypeOK, GoroutineTypes

\* The places of the jobs workers hold
WorkerPlaces == {"workerChan", "worker", "failing", "retrying", "calls"}

\* A job that no worker holds moves, and no worker takes it.
LEMMA WorkersHoldKept ==
  ASSUME IInv, UNCHANGED <<workerChan, wpc, wjob, calls>>,
         NEW j \in Jobs, at[j] \notin WorkerPlaces,
         NEW p, p \notin WorkerPlaces, MoveTo(j, p)
  PROVE  WorkersHold'
<1>1. /\ HeldNext(InChan, "workerChan") /\ HeldNext(InHand("process"), "worker")
      /\ HeldNext(InHand("fail"), "failing") /\ HeldNext(InHand("retry"), "retrying")
      /\ HeldNext(calls, "calls")
  BY HeldKeeps DEF IInv, TypeOK, HeldOnce, WorkersHold, WorkerPlaces
<1>2. /\ InChan' = InChan /\ InHand("process")' = InHand("process")
      /\ InHand("fail")' = InHand("fail") /\ InHand("retry")' = InHand("retry")
  BY DEF InChan, InHand
<1>3. QED
  BY <1>1, <1>2 DEF WorkersHold, HeldBy, HeldNext

\* Only worker w moves: the jobs in hand at pc change with where it is.
LEMMA HandChanges ==
  ASSUME NEW w \in Workers, NEW pc,
         \A v \in Workers \ {w} : wpc'[v] = wpc[v] /\ wjob'[v] = wjob[v]
  PROVE  /\ wpc[w] # pc /\ wpc'[w] # pc => InHand(pc)' = InHand(pc)
         /\ wpc[w] = pc /\ wpc'[w] # pc =>
              /\ wjob[w] \in InHand(pc)[w]
              /\ InHand(pc)' = [InHand(pc) EXCEPT ![w] = @ \ {wjob[w]}]
         /\ wpc[w] # pc /\ wpc'[w] = pc =>
              InHand(pc)' = [InHand(pc) EXCEPT ![w] = @ \cup {wjob'[w]}]
<1>1. ASSUME wpc[w] # pc, wpc'[w] # pc PROVE InHand(pc)' = InHand(pc)
  BY <1>1 DEF InHand
<1>2. ASSUME wpc[w] = pc, wpc'[w] # pc
      PROVE  /\ wjob[w] \in InHand(pc)[w]
             /\ InHand(pc)' = [InHand(pc) EXCEPT ![w] = @ \ {wjob[w]}]
  <2>1. InHand(pc)[w] = {wjob[w]} /\ {wjob[w]} \ {wjob[w]} = {}
    BY <1>2 DEF InHand
  <2>2. InHand(pc)' = [InHand(pc) EXCEPT ![w] = {}]
    BY <1>2 DEF InHand
  <2>3. QED
    BY <2>1, <2>2
<1>3. ASSUME wpc[w] # pc, wpc'[w] = pc
      PROVE  InHand(pc)' = [InHand(pc) EXCEPT ![w] = @ \cup {wjob'[w]}]
  BY <1>3 DEF InHand
<1>4. QED
  BY <1>1, <1>2, <1>3

\* The five parts of WorkersHold, in the next state
LEMMA WorkersHoldParts ==
  /\ IInv => /\ JobTypes /\ HeldBy(InChan, "workerChan") /\ HeldBy(InHand("process"), "worker")
             /\ HeldBy(InHand("fail"), "failing") /\ HeldBy(InHand("retry"), "retrying")
             /\ HeldBy(calls, "calls")
  /\ /\ HeldNext(InChan', "workerChan") /\ HeldNext(InHand("process")', "worker")
     /\ HeldNext(InHand("fail")', "failing") /\ HeldNext(InHand("retry")', "retrying")
     /\ HeldNext(calls', "calls")
     => WorkersHold'
BY DEF IInv, TypeOK, HeldOnce, WorkersHold, HeldBy, HeldNext

\* The workers hold the jobs whose place they are, no two the same job.
LEMMA WorkersHoldStep == IInv /\ [Next]_vars => WorkersHold'
<1> SUFFICES ASSUME IInv, [Next]_vars PROVE WorkersHold'
  OBVIOUS
<1>1. CASE UNCHANGED <<at, workerChan, wpc, wjob, calls>>
  BY <1>1 DEF IInv, HeldOnce, WorkersHold, HeldBy, InChan, InHand
<1>2. ASSUME NEW j \in Jobs, Listen(j) PROVE WorkersHold'
  BY <1>2, Sources, SaveMoves, EnqueueMoves, WorkersHoldKept DEF WorkerPlaces, Listen,
      IInv, TypeOK, ChannelTypes, GoroutineTypes, JobTypes, HeldOnce,
      WorkersHold
<1>3. ASSUME NEW w \in Workers, PushChannel(w) PROVE WorkersHold'
  <2>1. \A v \in Workers \ {w} : wpc'[v] = wpc[v] /\ wjob'[v] = wjob[v]
    BY <1>3 DEF PushChannel, IInv, TypeOK, ChannelTypes, GoroutineTypes, JobTypes, HeldOnce, WorkersHold
  <2>2. /\ InHand("process")' = InHand("process") /\ InHand("fail")' = InHand("fail")
        /\ InHand("retry")' = InHand("retry") /\ InChan' = InChan
    BY <1>3, <2>1, HandChanges DEF InChan, PushChannel, IInv, TypeOK, ChannelTypes, GoroutineTypes, JobTypes, HeldOnce, WorkersHold
  <2>3. QED
    BY <1>3, <2>2 DEF HeldBy, PushChannel, IInv, TypeOK, ChannelTypes, GoroutineTypes, JobTypes, HeldOnce, WorkersHold
<1>4. ASSUME NEW w \in Workers, ReceiveJob(w) PROVE WorkersHold'
  <2> DEFINE j == Head(workerChan[w])
  <2>1. /\ j \in Jobs /\ at[j] = "workerChan" /\ MoveTo(j, "worker")
        /\ \A v \in Workers \ {w} : wpc'[v] = wpc[v] /\ wjob'[v] = wjob[v]
        /\ wpc[w] = "recv" /\ wpc'[w] = "process" /\ wjob'[w] = j
    BY <1>4, Sources DEF ReceiveJob, IInv, TypeOK, GoroutineTypes
  <2>2. j \in InChan[w] /\ InChan' = [InChan EXCEPT ![w] = @ \ {j}]
    <3>1. workerChan[w] = <<j>> /\ workerChan' = [workerChan EXCEPT ![w] = <<>>]
      BY <1>4, Sources DEF ReceiveJob
    <3>2. Range(<<j>>) = {j} /\ Range(<<>>) = {}
      BY DEF Range
    <3>3. QED
      BY <3>1, <3>2 DEF InChan, IInv, TypeOK, ChannelTypes
  <2>3. HeldNext(InChan', "workerChan")
    BY <2>1, <2>2, HoldersTypes, WorkersHoldParts, HeldGives
  <2>4. HeldNext(InHand("process")', "worker")
    <3>1. InHand("process")' = [InHand("process") EXCEPT ![w] = @ \cup {j}]
      BY <2>1, HandChanges
    <3>2. QED
      BY <2>1, <3>1, HoldersTypes, WorkersHoldParts, HeldTakes
  <2>5. /\ InHand("fail")' = InHand("fail") /\ InHand("retry")' = InHand("retry")
        /\ calls' = calls
    BY <1>4, <2>1, HandChanges DEF ReceiveJob
  <2>6. QED
    BY <2>1, <2>3, <2>4, <2>5, WorkersHoldParts, HeldKeeps
<1>5. ASSUME NEW w \in Workers, StopWorker(w) PROVE WorkersHold'
  <2>1. \A v \in Workers \ {w} : wpc'[v] = wpc[v] /\ wjob'[v] = wjob[v]
    BY <1>5 DEF StopWorker, IInv, TypeOK, ChannelTypes, GoroutineTypes, JobTypes, HeldOnce, WorkersHold
  <2>2. /\ InHand("process")' = InHand("process") /\ InHand("fail")' = InHand("fail")
        /\ InHand("retry")' = InHand("retry") /\ InChan' = InChan
    BY <1>5, <2>1, HandChanges DEF InChan, StopWorker, IInv, TypeOK, ChannelTypes, GoroutineTypes, JobTypes, HeldOnce, WorkersHold
  <2>3. QED
    BY <1>5, <2>2 DEF HeldBy, StopWorker, IInv, TypeOK, ChannelTypes, GoroutineTypes, JobTypes, HeldOnce, WorkersHold
<1>6. ASSUME NEW w \in Workers, ProcessSucceeds(w) PROVE WorkersHold'
  <2> DEFINE j == wjob[w]
  <2>1. /\ j \in Jobs /\ at[j] = "worker" /\ wpc[w] = "process"
        /\ wpc'[w] \in {"push", "callbacks"}
        /\ \A v \in Workers \ {w} : wpc'[v] = wpc[v] /\ wjob'[v] = wjob[v]
        /\ calls' = [calls EXCEPT ![w] = CallBacks[j]] /\ calls[w] = {}
        /\ \A k \in CallBacks[j] : at[k] = "unborn"
    BY <1>6, Sources DEF ProcessSucceeds, IInv, TypeOK, GoroutineTypes, WorkerControl,
      CallBackControl
  <2>2. /\ at'[j] = "done" /\ \A k \in CallBacks[j] : at'[k] = "calls"
        /\ \A k \in Jobs \ (CallBacks[j] \cup {j}) : at'[k] = at[k]
    BY <1>6, <2>1, PoolAssumption DEF ProcessSucceeds
  <2>3. /\ wjob[w] \in InHand("process")[w]
        /\ InHand("process")' = [InHand("process") EXCEPT ![w] = @ \ {j}]
        /\ InHand("fail")' = InHand("fail") /\ InHand("retry")' = InHand("retry")
        /\ InChan' = InChan
    BY <1>6, <2>1, HandChanges DEF ProcessSucceeds, InChan
  <2>4. ASSUME NEW h, NEW place \in WorkerPlaces \ {"worker", "calls"}, HeldBy(h, place)
        PROVE  HeldNext(h, place)
    BY <2>1, <2>2, <2>4 DEF HeldBy, HeldNext, WorkerPlaces
  <2>5. HeldNext(InHand("process")', "worker")
    <3> DEFINE h == InHand("process")
    <3>1. HeldBy(h, "worker") /\ h \in [Workers -> SUBSET Jobs]
      BY WorkersHoldParts, HoldersTypes
    <3>2. \A v \in Workers : InHand("process")'[v] = IF v = w THEN h[w] \ {j} ELSE h[v]
      BY <2>3, <3>1
    <3>3. \A v \in Workers : v # w => j \notin h[v]
      BY <2>3, <3>1 DEF HeldBy
    <3> HIDE DEF h, j
    <3>4. \A k \in Jobs : k # j => (at'[k] = "worker" <=> at[k] = "worker")
      BY <2>1, <2>2
    <3>5. QED
      BY <2>2, <3>1, <3>2, <3>3, <3>4 DEF HeldBy, HeldNext
  <2>6. HeldNext(calls', "calls")
    <3>1. HeldBy(calls, "calls") /\ calls \in [Workers -> SUBSET Jobs]
      BY WorkersHoldParts, HoldersTypes
    <3>2. \A v \in Workers : calls'[v] = IF v = w THEN CallBacks[j] ELSE calls[v]
      BY <2>1, <3>1
    <3>3. \A v \in Workers : CallBacks[j] \cap calls[v] = {} /\ j \notin calls[v]
      BY <2>1, <3>1 DEF HeldBy
    <3> HIDE DEF j
    <3>4. \A k \in Jobs : at'[k] = "calls" <=> k \in CallBacks[j] \/ at[k] = "calls"
      BY <2>1, <2>2
    <3>5. QED
      BY <2>1, <3>1, <3>2, <3>3, <3>4 DEF HeldBy, HeldNext
  <2>7. QED
    BY <2>3, <2>4, <2>5, <2>6, WorkersHoldParts DEF WorkerPlaces
<1>7. ASSUME NEW w \in Workers, SendCallback(w) PROVE WorkersHold'
  <2>1. PICK j \in calls[w] : Enqueue(j) /\ calls' = [calls EXCEPT ![w] = @ \ {j}]
    BY <1>7 DEF SendCallback
  <2>2. PICK p \in {"jobChan", "pending", "lost"} : MoveTo(j, p)
    BY <2>1, EnqueueMoves
  <2>3. /\ j \in Jobs /\ at[j] = "calls"
        /\ \A v \in Workers \ {w} : wpc'[v] = wpc[v] /\ wjob'[v] = wjob[v]
        /\ wpc[w] = "callbacks" /\ wpc'[w] \in {"push", "callbacks"}
    BY <1>7, <2>1, Sources DEF SendCallback, IInv, TypeOK, GoroutineTypes
  <2>4. /\ InHand("process")' = InHand("process") /\ InHand("fail")' = InHand("fail")
        /\ InHand("retry")' = InHand("retry") /\ InChan' = InChan
    BY <1>7, <2>3, HandChanges DEF SendCallback, InChan
  <2>5. HeldNext(calls', "calls")
    <3>1. /\ JobTypes /\ calls \in [Workers -> SUBSET Jobs] /\ HeldBy(calls, "calls")
          /\ p # "calls" /\ MoveTo(j, p)
      BY <2>2, HoldersTypes, WorkersHoldParts
    <3>2. HeldNext([calls EXCEPT ![w] = @ \ {j}], "calls")
      BY <2>1, <3>1, HeldGives
    <3>3. QED
      BY <2>1, <3>2
  <2>6. QED
    BY <2>2, <2>3, <2>4, <2>5, WorkersHoldParts, HeldKeeps
<1>8. ASSUME NEW w \in Workers, ProcessFails(w) PROVE WorkersHold'
  <2> DEFINE p == IF retryCount[wjob[w]] + 1 > MaxTry THEN "failing" ELSE "retrying"
               pc == IF retryCount[wjob[w]] + 1 > MaxTry THEN "fail" ELSE "retry"
  <2>1. /\ wjob[w] \in Jobs /\ at[wjob[w]] = "worker" /\ MoveTo(wjob[w], p)
        /\ \A v \in Workers \ {w} : wpc'[v] = wpc[v] /\ wjob'[v] = wjob[v]
        /\ wpc[w] = "process" /\ wpc'[w] = pc /\ wjob'[w] = wjob[w]
    BY <1>8, Sources DEF ProcessFails, IInv, TypeOK, GoroutineTypes
  <2>2. InChan' = InChan /\ calls' = calls
    BY <1>8 DEF ProcessFails, InChan
  <2>3. HeldNext(InChan', "workerChan") /\ HeldNext(calls', "calls")
    BY <2>1, <2>2, WorkersHoldParts, HeldKeeps
  <2>4. HeldNext(InHand("process")', "worker")
    <3>1. /\ wjob[w] \in InHand("process")[w]
          /\ InHand("process")' = [InHand("process") EXCEPT ![w] = @ \ {wjob[w]}]
      BY <2>1, HandChanges
    <3>2. QED
      BY <2>1, <3>1, HoldersTypes, WorkersHoldParts, HeldGives
  <2>5. CASE pc = "fail" /\ p = "failing"
    <3>1. /\ InHand("fail")' = [InHand("fail") EXCEPT ![w] = @ \cup {wjob[w]}]
          /\ InHand("retry")' = InHand("retry")
      BY <2>1, <2>5, HandChanges
    <3>2. QED
      BY <2>1, <2>3, <2>4, <2>5, <3>1, HoldersTypes, WorkersHoldParts, HeldKeeps, HeldTakes
  <2>6. CASE pc = "retry" /\ p = "retrying"
    <3>1. /\ InHand("retry")' = [InHand("retry") EXCEPT ![w] = @ \cup {wjob[w]}]
          /\ InHand("fail")' = InHand("fail")
      BY <2>1, <2>6, HandChanges
    <3>2. QED
      BY <2>1, <2>3, <2>4, <2>6, <3>1, HoldersTypes, WorkersHoldParts, HeldKeeps, HeldTakes
  <2>7. QED
    BY <2>5, <2>6
<1>9. ASSUME NEW w \in Workers, ProcessPanics(w) PROVE WorkersHold'
  <2>1. /\ wjob[w] \in Jobs /\ at[wjob[w]] = "worker" /\ MoveTo(wjob[w], "lost")
        /\ \A v \in Workers \ {w} : wpc'[v] = wpc[v] /\ wjob'[v] = wjob[v]
        /\ wpc[w] = "process" /\ wpc'[w] = "dead"
    BY <1>9, Sources DEF ProcessPanics, IInv, TypeOK, GoroutineTypes
  <2>2. InChan' = InChan /\ calls' = calls
    BY <1>9 DEF ProcessPanics, InChan
  <2>3. /\ wjob[w] \in InHand("process")[w]
        /\ InHand("process")' = [InHand("process") EXCEPT ![w] = @ \ {wjob[w]}]
        /\ InHand("fail")' = InHand("fail") /\ InHand("retry")' = InHand("retry")
    BY <2>1, HandChanges
  <2>4. HeldNext(InHand("process")', "worker")
    BY <2>1, <2>3, HoldersTypes, WorkersHoldParts, HeldGives
  <2>5. /\ HeldNext(InChan', "workerChan") /\ HeldNext(calls', "calls")
        /\ HeldNext(InHand("fail")', "failing") /\ HeldNext(InHand("retry")', "retrying")
    BY <2>1, <2>2, <2>3, WorkersHoldParts, HeldKeeps
  <2>6. QED
    BY <2>4, <2>5, WorkersHoldParts
<1>10. ASSUME NEW w \in Workers, SendFailedJob(w) PROVE WorkersHold'
  <2>1. /\ wjob[w] \in Jobs /\ at[wjob[w]] = "failing" /\ MoveTo(wjob[w], "failedChan")
        /\ \A v \in Workers \ {w} : wpc'[v] = wpc[v] /\ wjob'[v] = wjob[v]
        /\ wpc[w] = "fail" /\ wpc'[w] = "push"
    BY <1>10, Sources DEF SendFailedJob, IInv, TypeOK, GoroutineTypes
  <2>2. InChan' = InChan /\ calls' = calls
    BY <1>10 DEF SendFailedJob, InChan
  <2>3. /\ wjob[w] \in InHand("fail")[w]
        /\ InHand("fail")' = [InHand("fail") EXCEPT ![w] = @ \ {wjob[w]}]
        /\ InHand("process")' = InHand("process") /\ InHand("retry")' = InHand("retry")
    BY <2>1, HandChanges
  <2>4. HeldNext(InHand("fail")', "failing")
    BY <2>1, <2>3, HoldersTypes, WorkersHoldParts, HeldGives
  <2>5. /\ HeldNext(InChan', "workerChan") /\ HeldNext(calls', "calls")
        /\ HeldNext(InHand("process")', "worker") /\ HeldNext(InHand("retry")', "retrying")
    BY <2>1, <2>2, <2>3, WorkersHoldParts, HeldKeeps
  <2>6. QED
    BY <2>4, <2>5, WorkersHoldParts
<1>11. ASSUME NEW w \in Workers, RetryJob(w) PROVE WorkersHold'
  <2>1. /\ wjob[w] \in Jobs /\ at[wjob[w]] = "retrying" /\ MoveTo(wjob[w], "retryChan")
        /\ \A v \in Workers \ {w} : wpc'[v] = wpc[v] /\ wjob'[v] = wjob[v]
        /\ wpc[w] = "retry" /\ wpc'[w] = "push"
    BY <1>11, Sources DEF RetryJob, IInv, TypeOK, GoroutineTypes
  <2>2. InChan' = InChan /\ calls' = calls
    BY <1>11 DEF RetryJob, InChan
  <2>3. /\ wjob[w] \in InHand("retry")[w]
        /\ InHand("retry")' = [InHand("retry") EXCEPT ![w] = @ \ {wjob[w]}]
        /\ InHand("process")' = InHand("process") /\ InHand("fail")' = InHand("fail")
    BY <2>1, HandChanges
  <2>4. HeldNext(InHand("retry")', "retrying")
    BY <2>1, <2>3, HoldersTypes, WorkersHoldParts, HeldGives
  <2>5. /\ HeldNext(InChan', "workerChan") /\ HeldNext(calls', "calls")
        /\ HeldNext(InHand("process")', "worker") /\ HeldNext(InHand("fail")', "failing")
    BY <2>1, <2>2, <2>3, WorkersHoldParts, HeldKeeps
  <2>6. QED
    BY <2>4, <2>5, WorkersHoldParts
<1>12. CASE TakeFailedJob
  BY <1>12, Sources, SaveMoves, EnqueueMoves, WorkersHoldKept DEF
      WorkerPlaces, TakeFailedJob, IInv, TypeOK, ChannelTypes, GoroutineTypes, JobTypes,
      HeldOnce, WorkersHold
<1>13. CASE TakeRetryJob
  BY <1>13, Sources, SaveMoves, EnqueueMoves, WorkersHoldKept DEF
      WorkerPlaces, TakeRetryJob, IInv, TypeOK, ChannelTypes, GoroutineTypes, JobTypes,
      HeldOnce, WorkersHold
<1>14. CASE TakeJob
  BY <1>14, Sources, SaveMoves, EnqueueMoves, WorkersHoldKept DEF WorkerPlaces, TakeJob,
      IInv, TypeOK, ChannelTypes, GoroutineTypes, JobTypes, HeldOnce,
      WorkersHold
<1>15. CASE SendJobToWorker
  <2> DEFINE w == Head(Queue)
  <2>1. /\ djob \in Jobs /\ at[djob] = "pool" /\ MoveTo(djob, "workerChan")
        /\ w \in Workers /\ workerChan[w] = <<>>
        /\ UNCHANGED <<wpc, wjob, calls>>
    BY <1>15, Sources, RangeTail DEF SendJobToWorker, IInv, TypeOK, ChannelTypes, HandsToIdle
  <2>2. InChan' = [InChan EXCEPT ![w] = @ \cup {djob}]
    <3>1. workerChan' = [workerChan EXCEPT ![w] = <<djob>>]
      BY <1>15, <2>1 DEF SendJobToWorker
    <3>2. Range(<<djob>>) = {djob} /\ Range(<<>>) = {}
      BY DEF Range
    <3>3. QED
      BY <2>1, <3>1, <3>2 DEF InChan, IInv, TypeOK, ChannelTypes
  <2>3. HeldNext(InChan', "workerChan")
    BY <2>1, <2>2, HoldersTypes, WorkersHoldParts, HeldTakes
  <2>4. /\ InHand("process")' = InHand("process") /\ InHand("fail")' = InHand("fail")
        /\ InHand("retry")' = InHand("retry")
    BY <2>1 DEF InHand
  <2>5. QED
    BY <2>1, <2>3, <2>4, WorkersHoldParts, HeldKeeps
<1>16. CASE SaveRetryJob
  BY <1>16, Sources, SaveMoves, EnqueueMoves, WorkersHoldKept DEF
      WorkerPlaces, SaveRetryJob, IInv, TypeOK, ChannelTypes, GoroutineTypes, JobTypes,
      HeldOnce, WorkersHold
<1>17. ASSUME NEW j \in Jobs, PrepareClosed(j) PROVE WorkersHold'
  BY <1>17, Sources, SaveMoves, EnqueueMoves, WorkersHoldKept DEF
      WorkerPlaces, PrepareClosed, IInv, TypeOK, ChannelTypes, GoroutineTypes, JobTypes,
      HeldOnce, WorkersHold
<1>18. ASSUME NEW j \in Jobs, PrepareLate(j) PROVE WorkersHold'
  BY <1>18, Sources, SaveMoves, EnqueueMoves, WorkersHoldKept DEF
      WorkerPlaces, PrepareLate, IInv, TypeOK, ChannelTypes, GoroutineTypes, JobTypes,
      HeldOnce, WorkersHold
<1>19. ASSUME NEW j \in Jobs, PrepareTimer(j) PROVE WorkersHold'
  BY <1>19, Sources, SaveMoves, EnqueueMoves, WorkersHoldKept DEF
      WorkerPlaces, PrepareTimer, IInv, TypeOK, ChannelTypes, GoroutineTypes, JobTypes,
      HeldOnce, WorkersHold
<1>20. ASSUME NEW j \in Jobs, TimerFires(j) PROVE WorkersHold'
  BY <1>20, Sources, SaveMoves, EnqueueMoves, WorkersHoldKept DEF
      WorkerPlaces, TimerFires, IInv, TypeOK, ChannelTypes, GoroutineTypes, JobTypes,
      HeldOnce, WorkersHold
<1>21. ASSUME NEW j \in Jobs, TimerCancelled(j) PROVE WorkersHold'
  BY <1>21, Sources, SaveMoves, EnqueueMoves, WorkersHoldKept DEF
      WorkerPlaces, TimerCancelled, IInv, TypeOK, ChannelTypes, GoroutineTypes, JobTypes,
      HeldOnce, WorkersHold
<1>22. ASSUME NEW j \in Jobs, EnqueueRetry(j) PROVE WorkersHold'
  BY <1>22, Sources, SaveMoves, EnqueueMoves, WorkersHoldKept DEF
      WorkerPlaces, EnqueueRetry, IInv, TypeOK, ChannelTypes, GoroutineTypes, JobTypes,
      HeldOnce, WorkersHold
<1>23. QED
  BY <1>1, <1>2, <1>3, <1>4, <1>5, <1>6, <1>7, <1>8, <1>9, <1>10, <1>11,
      <1>12, <1>13, <1>14, <1>15, <1>16, <1>17, <1>18, <1>19, <1>20, <1>21,
      <1>22 DEF Next, WorkerStep, StartStep, PrepareRetryableJob, vars,
      Cancel, BeginClose, CloseJobChan, CloseWorker, CloseChans,
      RetryJobsSaved, FailedJobsSaved, CloseStop

\* The pool NewPool makes satisfies the invariant.
LEMMA InitIInv == Init => IInv
<1> SUFFICES ASSUME Init PROVE IInv
  OBVIOUS
<1>1. TypeOK
  <2>1. ChannelTypes /\ GoroutineTypes
    <3>1. <<>> \in Seq(Jobs) /\ <<>> \in Seq(Workers) /\ Len(<<>>) = 0
      OBVIOUS
    <3>2. ChannelTypes
      BY <3>1, PoolAssumption, JobChanSizeType DEF Init, ChannelTypes
    <3>3. GoroutineTypes
      BY DEF Init, GoroutineTypes
    <3>4. QED
      BY <3>2, <3>3
  <2>2. JobTypes
    BY PoolAssumption, PlacesAre DEF Init, JobTypes
  <2>3. QED
    BY <2>1, <2>2 DEF TypeOK
<1>2. \A j \in Jobs : at[j] \in {"fresh", "unborn"}
  BY DEF Init
<1>3. HeldOnce
  <2>1. Range(<<>>) = {} /\ IsInjective(<<>>)
    BY DEF Range, IsInjective
  <2>2. ChannelsHold /\ DispatcherHolds
    BY <1>2, <2>1, PoolAssumption DEF Init, ChannelsHold, ChannelHolds, DispatcherHolds
  <2>3. WorkersHold
    BY <1>2, <2>1 DEF Init, WorkersHold, HeldBy, InChan, InHand
  <2>4. QED
    BY <2>2, <2>3 DEF HeldOnce
<1>4. HandsToIdle
  BY DEF Init, HandsToIdle, Range, IsInjective
<1>5. OnFlyCounted
  <2>1. JobsAt(OnFly) = {}
    BY <1>2 DEF JobsAt, OnFly
  <2>2. QED
    BY <2>1, FS_EmptySet DEF Init, OnFlyCounted
<1>6. FailsAfterMaxTry
  BY <1>2 DEF FailsAfterMaxTry
<1>7. WorkerControl
  BY DEF Init, WorkerControl, Range
<1>8. DispatcherControl
  BY <1>2 DEF Init, DispatcherControl, IsClosed, ChansClosed
<1>9. CallBackControl
  BY PoolAssumption DEF Init, CallBackControl
<1>10. QED
  BY <1>1, <1>3, <1>4, <1>5, <1>6, <1>7, <1>8, <1>9 DEF IInv

\* Every step keeps the invariant.
LEMMA NextIInv == IInv /\ [Next]_vars => IInv'
BY ChannelTypesStep, GoroutineTypesStep, JobTypesStep, ChannelsHoldStep,
   DispatcherHoldsStep, WorkersHoldStep, HandsToIdleStep, OnFlyCountedStep,
   FailsAfterMaxTryStep, WorkerControlStep, DispatcherControlStep, CallBackControlStep
   DEF IInv, TypeOK, HeldOnce

\* The inductive invariant holds of every reachable state of the pool
\* (startWorker, Start, PrepareRetryableJob), for every instance.
THEOREM Invariance == Spec => []IInv
BY InitIInv, NextIInv, PTL DEF Spec

\* Every variable keeps its type, and no channel exceeds the capacity NewPool
\* gave it.
THEOREM TypeCorrectness == Spec => []TypeOK
<1>1. IInv => TypeOK
  BY DEF IInv
<1>2. QED
  BY <1>1, Invariance, PTL

\* A job is never in two channels, goroutines or rows at once, and none drops
\* out of memory unnoticed.
THEOREM JobsHeldOnce == Spec => []HeldOnce
<1>1. IInv => HeldOnce
  BY DEF IInv
<1>2. QED
  BY <1>1, Invariance, PTL

\* SendJobToWorker meets only idle workers whose channel is open and empty.
THEOREM DispatchToIdle == Spec => []HandsToIdle
<1>1. IInv => HandsToIdle
  BY DEF IInv
<1>2. QED
  BY <1>1, Invariance, PTL

\* startWorker never sends on a channel Start has closed.
THEOREM NoSendPanics == Spec => []NoSendOnClosedChan
<1>1. IInv => NoSendOnClosedChan
  BY DEF IInv, DispatcherControl, NoSendOnClosedChan
<1>2. QED
  BY <1>1, Invariance, PTL

\* retryableWaitGroup counts every retry goroutine that is running.
THEOREM RetriesCounted == Spec => []OnFlyCounted
<1>1. IInv => OnFlyCounted
  BY DEF IInv
<1>2. QED
  BY <1>1, Invariance, PTL

\* A job is written off only after MaxTry retries.
THEOREM WriteOffsExhausted == Spec => []FailsAfterMaxTry
<1>1. IInv => FailsAfterMaxTry
  BY DEF IInv
<1>2. QED
  BY <1>1, Invariance, PTL

\* In a stopped pool no channel, worker or goroutine holds a job.
LEMMA StoppedHoldsNothing == IInv => StopMeansSettled
<1> SUFFICES ASSUME IInv, dpc = "stopped", NEW j \in Jobs, at[j] \in InMemory
             PROVE  FALSE
  BY DEF StopMeansSettled, JobsAt
<1>1. /\ JobChan = <<>> /\ RetryJobChan = <<>> /\ FailedJobChan = <<>>
      /\ djob = NoJob /\ JobsAt(OnFly) = {}
      /\ \A w \in Workers : wpc[w] = "stopped"
  BY DEF IInv, DispatcherControl, ChansClosed
<1>2. Range(<<>>) = {}
  BY DEF Range
<1>3. at[j] \notin {"jobChan", "retryChan", "failedChan"}
  BY <1>1, <1>2 DEF IInv, HeldOnce, ChannelsHold, ChannelHolds
<1>4. at[j] # "pool"
  BY <1>1, PoolAssumption DEF IInv, HeldOnce, DispatcherHolds
<1>5. at[j] \notin OnFly
  BY <1>1 DEF JobsAt
<1>6. at[j] \notin {"workerChan", "worker", "failing", "retrying", "calls"}
  <2>1. \A w \in Workers : workerChan[w] = <<>> /\ calls[w] = {}
    BY <1>1 DEF IInv, WorkerControl
  <2>2. QED
    BY <1>1, <1>2, <2>1 DEF IInv, HeldOnce, WorkersHold, HeldBy, InChan, InHand
<1>7. QED
  BY <1>3, <1>4, <1>5, <1>6 DEF InMemory, OnFly

\* Once Pool.Wait returns, every job that was handed in is processed, saved, or
\* was lost to a fault: Start leaves nothing behind in a channel or a goroutine.
THEOREM StopSettlesAll == Spec => []StopMeansSettled
BY Invariance, StoppedHoldsNothing, PTL

\* No step of any goroutine moves a settled job.
LEMMA SettledStep ==
  IInv /\ [Next]_vars => \A j \in Jobs : at[j] \in Settled => at'[j] = at[j]
<1> SUFFICES ASSUME IInv, [Next]_vars, NEW k \in Jobs, at[k] \in Settled
             PROVE  at'[k] = at[k]
  OBVIOUS
<1>1. CASE UNCHANGED <<at>>
  BY <1>1
<1>2. ASSUME NEW j \in Jobs, Listen(j) PROVE at'[k] = at[k]
  BY <1>2, Sources, EnqueueMoves, SaveMoves DEF Listen, IInv, TypeOK,
      JobTypes, Settled, MoveTo
<1>3. ASSUME NEW w \in Workers, ReceiveJob(w) PROVE at'[k] = at[k]
  BY <1>3, Sources DEF ReceiveJob, MoveTo, IInv, TypeOK, JobTypes, Settled
<1>4. ASSUME NEW w \in Workers, ProcessSucceeds(w) PROVE at'[k] = at[k]
  <2>1. \A i \in CallBacks[wjob[w]] : at[i] = "unborn"
    BY <1>4, Sources DEF ProcessSucceeds, IInv, CallBackControl
  <2>2. QED
    BY <1>4, <2>1, Sources DEF ProcessSucceeds, IInv, TypeOK, JobTypes, Settled, MoveTo
<1>5. ASSUME NEW w \in Workers, SendCallback(w) PROVE at'[k] = at[k]
  BY <1>5, Sources, EnqueueMoves, SaveMoves DEF SendCallback, IInv, TypeOK,
      JobTypes, Settled, MoveTo
<1>6. ASSUME NEW w \in Workers, ProcessFails(w) PROVE at'[k] = at[k]
  BY <1>6, Sources DEF ProcessFails, MoveTo, IInv, TypeOK, JobTypes, Settled
<1>7. ASSUME NEW w \in Workers, ProcessPanics(w) PROVE at'[k] = at[k]
  BY <1>7, Sources DEF ProcessPanics, MoveTo, IInv, TypeOK, JobTypes, Settled
<1>8. ASSUME NEW w \in Workers, SendFailedJob(w) PROVE at'[k] = at[k]
  BY <1>8, Sources DEF SendFailedJob, MoveTo, IInv, TypeOK, JobTypes, Settled
<1>9. ASSUME NEW w \in Workers, RetryJob(w) PROVE at'[k] = at[k]
  BY <1>9, Sources DEF RetryJob, MoveTo, IInv, TypeOK, JobTypes, Settled
<1>10. CASE TakeFailedJob
  BY <1>10, Sources, EnqueueMoves, SaveMoves DEF TakeFailedJob, IInv, TypeOK,
      JobTypes, Settled, MoveTo
<1>11. CASE TakeRetryJob
  BY <1>11, Sources DEF TakeRetryJob, MoveTo, IInv, TypeOK, JobTypes, Settled
<1>12. CASE TakeJob
  BY <1>12, Sources DEF TakeJob, MoveTo, IInv, TypeOK, JobTypes, Settled
<1>13. CASE SendJobToWorker
  BY <1>13, Sources DEF SendJobToWorker, MoveTo, IInv, TypeOK, JobTypes,
      Settled
<1>14. CASE SaveRetryJob
  BY <1>14, Sources, EnqueueMoves, SaveMoves DEF SaveRetryJob, IInv, TypeOK,
      JobTypes, Settled, MoveTo
<1>15. ASSUME NEW j \in Jobs, PrepareClosed(j) PROVE at'[k] = at[k]
  BY <1>15, Sources, EnqueueMoves, SaveMoves DEF PrepareClosed, IInv, TypeOK,
      JobTypes, Settled, MoveTo
<1>16. ASSUME NEW j \in Jobs, PrepareLate(j) PROVE at'[k] = at[k]
  BY <1>16, Sources DEF PrepareLate, MoveTo, IInv, TypeOK, JobTypes, Settled
<1>17. ASSUME NEW j \in Jobs, PrepareTimer(j) PROVE at'[k] = at[k]
  BY <1>17, Sources DEF PrepareTimer, MoveTo, IInv, TypeOK, JobTypes, Settled
<1>18. ASSUME NEW j \in Jobs, TimerFires(j) PROVE at'[k] = at[k]
  BY <1>18, Sources DEF TimerFires, MoveTo, IInv, TypeOK, JobTypes, Settled
<1>19. ASSUME NEW j \in Jobs, TimerCancelled(j) PROVE at'[k] = at[k]
  BY <1>19, Sources, EnqueueMoves, SaveMoves DEF TimerCancelled, IInv, TypeOK,
      JobTypes, Settled, MoveTo
<1>20. ASSUME NEW j \in Jobs, EnqueueRetry(j) PROVE at'[k] = at[k]
  BY <1>20, Sources, EnqueueMoves, SaveMoves DEF EnqueueRetry, IInv, TypeOK,
      JobTypes, Settled, MoveTo
<1>21. QED
  BY <1>1, <1>2, <1>3, <1>4, <1>5, <1>6, <1>7, <1>8, <1>9, <1>10, <1>11,
      <1>12, <1>13, <1>14, <1>15, <1>16, <1>17, <1>18, <1>19, <1>20 DEF Next,
      WorkerStep, StartStep, PrepareRetryableJob, vars, Cancel, PushChannel,
      StopWorker, BeginClose, CloseJobChan, CloseWorker, CloseChans,
      RetryJobsSaved, FailedJobsSaved, CloseStop

\* What was processed, saved as pending or saved as failed stays so: no goroutine
\* takes a settled job up again.
THEOREM SettledForGood == Spec => SettledIsFinal
<1>1. IInv /\ [Next]_vars => [\A j \in Jobs : at[j] \in Settled => at'[j] = at[j]]_vars
  BY SettledStep
<1>2. QED
  BY <1>1, Invariance, PTL DEF Spec, SettledIsFinal
-----------------------------------------------------------------------------
(* Idle workers are in Queue, and what that means for the number of them.  *)

\* Offering itself, being handed a job, stopping: the worker is in Queue just
\* when it waits with an empty channel.
LEMMA IdleInQueueStep == IInv /\ IdleInQueue /\ [Next]_vars => IdleInQueue'
<1> SUFFICES ASSUME IInv, IdleInQueue, [Next]_vars PROVE IdleInQueue'
  OBVIOUS
<1>1. CASE UNCHANGED <<Queue, workerChan, wpc>>
  BY <1>1 DEF IdleInQueue
<1>2. ASSUME NEW w \in Workers, PushChannel(w) PROVE IdleInQueue'
  <2>1. Range(Queue') = Range(Queue) \cup {w}
    BY <1>2, RangeAppend DEF PushChannel, IInv, TypeOK, ChannelTypes
  <2>2. /\ workerChan' = workerChan
        /\ \A v \in Workers \ {w} : wpc'[v] = wpc[v]
    BY <1>2 DEF PushChannel, IInv, TypeOK, GoroutineTypes
  <2>3. QED
    BY <2>1, <2>2 DEF IdleInQueue
<1>3. ASSUME NEW w \in Workers, ReceiveJob(w) PROVE IdleInQueue'
  BY <1>3 DEF ReceiveJob, IInv, TypeOK, ChannelTypes, GoroutineTypes, IdleInQueue
<1>4. ASSUME NEW w \in Workers, StopWorker(w) PROVE IdleInQueue'
  BY <1>4 DEF StopWorker, IInv, TypeOK, GoroutineTypes, IdleInQueue
<1>5. ASSUME NEW w \in Workers,
             ProcessSucceeds(w) \/ SendCallback(w) \/ ProcessFails(w)
               \/ ProcessPanics(w) \/ SendFailedJob(w) \/ RetryJob(w)
      PROVE  IdleInQueue'
  <2>1. Queue' = Queue /\ workerChan' = workerChan
    BY <1>5 DEF ProcessSucceeds, SendCallback, ProcessFails, ProcessPanics,
        SendFailedJob, RetryJob
  <2>2. \A v \in Workers : wpc'[v] = wpc[v] \/ wpc'[v] \notin {"recv", "stopped"}
    BY <1>5 DEF ProcessSucceeds, SendCallback, ProcessFails, ProcessPanics,
        SendFailedJob, RetryJob, IInv, TypeOK, GoroutineTypes
  <2>3. QED
    BY <2>1, <2>2 DEF IdleInQueue
<1>6. CASE SendJobToWorker
  <2> DEFINE w == Head(Queue)
  <2>1. w \in Workers /\ Range(Queue') = Range(Queue) \ {w}
    BY <1>6, RangeTail DEF SendJobToWorker, IInv, TypeOK, ChannelTypes, HandsToIdle
  <2>2. wpc' = wpc /\ workerChan' = [workerChan EXCEPT ![w] = Append(@, djob)]
    BY <1>6 DEF SendJobToWorker, worker
  <2>3. workerChan'[w] # <<>>
    <3>1. workerChan[w] \in Seq(Jobs) /\ djob \in Jobs
      BY <1>6, <2>1 DEF SendJobToWorker, IInv, TypeOK, ChannelTypes,
          GoroutineTypes, DispatcherControl
    <3>2. Append(workerChan[w], djob) # <<>>
      BY <3>1
    <3>3. QED
      BY <2>1, <2>2, <3>2 DEF IInv, TypeOK, ChannelTypes
  <2>4. \A v \in Workers \ {w} : workerChan'[v] = workerChan[v]
    BY <2>2 DEF IInv, TypeOK, ChannelTypes
  <2>5. QED
    BY <2>1, <2>2, <2>3, <2>4 DEF IdleInQueue
<1>7. QED
  BY <1>1, <1>2, <1>3, <1>4, <1>5, <1>6 DEF Next, WorkerStep, StartStep,
      PrepareRetryableJob, vars, worker, others, Cancel, Listen, TakeFailedJob,
      TakeRetryJob, TakeJob, BeginClose, CloseJobChan, CloseWorker, CloseChans,
      SaveRetryJob, RetryJobsSaved, FailedJobsSaved, CloseStop, PrepareClosed,
      PrepareLate, PrepareTimer, TimerFires, TimerCancelled, EnqueueRetry

\* No worker that waits for a job is forgotten: the dispatcher will find it in
\* Queue (pool.go:123-126, 222).
THEOREM IdleOffered == Spec => []IdleInQueue
<1>1. Init => IdleInQueue
  BY DEF Init, IdleInQueue
<1>2. QED
  BY <1>1, IdleInQueueStep, Invariance, PTL DEF Spec

\* Queue has a place for each worker it holds.
LEMMA QueueHoldsFew ==
  ASSUME IInv
  PROVE  /\ IsFiniteSet(Range(Queue)) /\ Cardinality(Range(Queue)) = Len(Queue)
         /\ Len(Queue) \in Nat /\ Len(Queue) <= MaxQueueSize
<1>1. /\ Queue \in Seq(Workers) /\ IsInjective(Queue)
      /\ Len(Queue) \in Nat /\ Len(Queue) <= MaxQueueSize
  BY DEF IInv, TypeOK, ChannelTypes, HandsToIdle
<1>2. DOMAIN Queue = 1..Len(Queue) /\ Queue \in [1..Len(Queue) -> Range(Queue)]
  BY <1>1 DEF Range
<1>3. Queue \in Bijection(1..Len(Queue), Range(Queue))
  BY <1>1, <1>2 DEF Bijection, Injection, Surjection, Range, IsInjective
<1>4. ExistsBijection(1..Len(Queue), Range(Queue))
  BY <1>3 DEF ExistsBijection
<1>5. QED
  BY <1>1, <1>4, FS_CountingElements, FS_NatBijection

\* A pool with more workers than MaxQueueSize never gets past closing them: those
\* that have stopped are all in Queue, so one never stops, Start waits for it at
\* pool.go:253, nothing is saved from then on and Pool.Wait never returns.  The
\* defaults are 8182 workers and a MaxQueueSize of 4096 (pool.go:19-20).
THEOREM StopNeedsRoom ==
  ASSUME Cardinality(Workers) > MaxQueueSize
  PROVE  Spec => []~ChansClosed
<1>1. ASSUME IInv, IdleInQueue, ChansClosed
      PROVE  FALSE
  <2>1. \A w \in Workers : wpc[w] = "stopped" /\ workerChan[w] = <<>>
    BY <1>1 DEF IInv, DispatcherControl, WorkerControl
  <2>2. Workers \subseteq Range(Queue)
    BY <1>1, <2>1 DEF IdleInQueue
  <2>3. /\ Cardinality(Workers) <= Cardinality(Range(Queue))
        /\ Cardinality(Workers) \in Nat
    BY <1>1, <2>2, QueueHoldsFew, PoolAssumption, FS_Subset, FS_CardinalityType
  <2>4. QED
    BY <1>1, <2>3, QueueHoldsFew, PoolAssumption
<1>2. IInv /\ IdleInQueue => ~ChansClosed
  BY <1>1
<1>3. QED
  BY <1>2, Invariance, IdleOffered, PTL
=============================================================================
