---------------------------- MODULE BridgeProofs ----------------------------
(***************************************************************************)
(* The parts together for any logs, chain, number of tries, faults and     *)
(* restarts: the inductive invariant of Bridge, and that Bridge implements *)
(* Delivery.                                                               *)
(***************************************************************************)
EXTENDS Bridge, HearingProofs

\* A listener that has not loaded its block has heard of nothing; the pool closes
\* in a process, and stops when it holds no job; and the row in hand is written
\* only by a pool that closes.
ClosingControl ==
  /\ current = NoBlock => heard = {}
  /\ closing => up # "down"
  /\ stopped => closing /\ \A j \in Jobs : phase[j] \notin Unsettled
  /\ hand \in pending \ old => closing

\* A row is that of a job of the same log, and but for a log that is taken up again
\* it is the job's own, and nobody works on the job, unless it is the row in hand.
RowControl ==
  /\ \A j \in Jobs : LogOf(rowOf[j]) = LogOf(j) /\ (rowOf[j] = j \/ LogOf(j) \in again)
  /\ \A j \in pending : j # hand /\ LogOf(j) \notin again => phase[j] \in {"new", "pending"}

\* A job that has not been made is nowhere, and no other job has its row.
MadeControl ==
  \A l \in HeardLogs, n \in 1..MaxJobs :
    n > made[l] =>
      /\ phase[<<l, n>>] = "new" /\ <<l, n>> \notin pending /\ <<l, n>> # hand
      /\ \A j \in Jobs : rowOf[j] = <<l, n>> <=> j = <<l, n>>

\* A log for which one job was made is heard, or behind the saved block for good.
Behind(l) ==
  /\ saved # NoBlock /\ saved > Height[l]
  /\ current # NoBlock => base > Height[l]

OnceFor(l) ==
  /\ made[l] = 0 \/ (made[l] = 1 /\ (l \in heard \/ Behind(l)))
  /\ runs[l] = 0 \/ (runs[l] = 1 /\ made[l] = 1 /\ phase[<<l, 1>>] \in {"done", "lost"})

OnceControl == \A l \in HeardLogs \ again : OnceFor(l)

BridgeInv ==
  /\ TypeOK /\ HearingInv /\ ClosingControl /\ RowControl /\ MadeControl /\ OnceControl
-----------------------------------------------------------------------------
(* Jobs and types *)

\* A job is one of a log.
LEMMA JobPairs ==
  /\ \A j \in Jobs : j = <<LogOf(j), j[2]>> /\ LogOf(j) \in HeardLogs /\ j[2] \in 1..MaxJobs
  /\ \A l \in HeardLogs, n \in 1..MaxJobs : <<l, n>> \in Jobs /\ LogOf(<<l, n>>) = l
BY BridgeAssumption DEF LogOf

\* The next job of a log that can have one more
LEMMA NextJob ==
  ASSUME TypeOK, NEW l \in HeardLogs, made[l] < MaxJobs
  PROVE  /\ made[l] \in Nat /\ made[l] + 1 \in 1..MaxJobs /\ <<l, made[l] + 1>> \in Jobs
         /\ [made EXCEPT ![l] = made[l] + 1] \in [HeardLogs -> 0..MaxJobs]
<1>1. made[l] \in 0..MaxJobs /\ MaxJobs \in Nat
  BY BridgeAssumption DEF TypeOK
<1>2. made[l] \in Nat /\ made[l] + 1 \in 1..MaxJobs
  BY <1>1
<1>3. <<l, made[l] + 1>> \in Jobs
  BY <1>2, JobPairs
<1> QED BY <1>2, <1>3 DEF TypeOK

Phases == {"new", "done", "pending", "failed", "lost"} \cup Unsettled

\* What one job becomes
LEMMA BecomesTyped ==
  ASSUME LifecycleTypeOK, NEW j \in Jobs, NEW p \in Phases, Becomes(j, p)
  PROVE  /\ phase' \in [Jobs -> Phases]
         /\ phase'[j] = p /\ \A k \in Jobs \ {j} : phase'[k] = phase[k]
BY DEF LifecycleTypeOK, Becomes, Phases

\* Every step of a job's life keeps the types.
LEMMA LifeTyped ==
  ASSUME LifecycleTypeOK, NEW j \in Jobs,
         \/ Accept(j) \/ Run(j) \/ Retry(j) \/ GiveUp(j)
         \/ RecordFailed(j) \/ RecordPending(j) \/ Lose(j)
  PROVE  LifecycleTypeOK'
<1>1. phase' \in [Jobs -> Phases]
  BY BecomesTyped DEF Accept, Run, Retry, GiveUp, RecordFailed, RecordPending, Lose,
                      Phases, Unsettled
<1>2. retries' \in [Jobs -> 0..MaxTry]
  BY BridgeAssumption
     DEF Accept, Run, Retry, GiveUp, RecordFailed, RecordPending, Lose, Forgets, LifecycleTypeOK
<1>3. UNCHANGED <<closing, stopped>>
  BY DEF Accept, Run, Retry, GiveUp, RecordFailed, RecordPending, Lose
<1> QED BY <1>1, <1>2, <1>3 DEF LifecycleTypeOK, Phases

\* A job succeeds without callbacks.
LEMMA SucceedTyped ==
  ASSUME LifecycleTypeOK, NEW j \in Jobs, Succeed(j)
  PROVE  LifecycleTypeOK' /\ Becomes(j, "done")
<1>1. CallBacks[j] = {}
  BY BridgeAssumption
<1>2. phase' = [k \in Jobs |-> IF k = j THEN "done" ELSE phase[k]]
  BY <1>1 DEF Succeed
<1>3. Becomes(j, "done")
  BY <1>2 DEF Becomes, LifecycleTypeOK
<1>4. retries' \in [Jobs -> 0..MaxTry]
  BY BridgeAssumption DEF Succeed, Forgets, LifecycleTypeOK
<1> QED BY <1>3, <1>4, BecomesTyped DEF Succeed, LifecycleTypeOK, Phases, Unsettled

RowsTyped ==
  /\ pending \subseteq Jobs /\ tries \in [Jobs -> 0..MaxTry]
  /\ young \subseteq pending /\ old \subseteq pending /\ old \cap young = {}

\* A row that is written
LEMMA SavedTyped ==
  ASSUME TypeOK, NEW j \in Jobs, SavesPending(j) \/ WritesOver(j)
  PROVE  RowsTyped'
<1>1. CASE SavesPending(j)
  <2>1. rowOf[j] \in Jobs /\ retries[j] \in 0..MaxTry
    BY DEF TypeOK, LifecycleTypeOK
  <2> QED BY <1>1, <2>1 DEF TypeOK, SavesPending, RowsTyped
<1>2. CASE WritesOver(j)
  BY <1>2, BridgeAssumption DEF TypeOK, WritesOver, RowsTyped
<1> QED BY <1>1, <1>2
-----------------------------------------------------------------------------
(* Steps *)

\* A row is found, and its job goes into the pool, back into the row, or is lost.
TakesUp(j) ==
  /\ up = "starting" /\ rowOf[j] \in old /\ phase[j] = "new"
  /\ hand = NoJob /\ hand' = rowOf[j]
  /\ pending' = pending /\ old' \subseteq old
  /\ \/ Becomes(j, "waiting") /\ ~stopped /\ old' = old /\ UNCHANGED budget
     \/ Becomes(j, "pending") /\ closing /\ rowOf[j] \notin old' /\ UNCHANGED budget
     \/ Becomes(j, "lost") /\ closing /\ Pays
  /\ UNCHANGED <<hearingVars, up, rowOf, made, past, closing, stopped>>

\* A job in the pool's hands is passed on there, or lost.
Works(j) ==
  /\ phase[j] \in Unsettled /\ \E p \in Unsettled \cup {"lost"} : Becomes(j, p)
  /\ UNCHANGED <<hearingVars, up, pending, old, rowOf, hand, made, past, closing, stopped>>

\* It succeeds,
Processed(j) ==
  /\ phase[j] = "running" /\ Becomes(j, "done")
  /\ runs' = [runs EXCEPT ![LogOf(j)] = IF @ < Twice THEN @ + 1 ELSE @]
  /\ UNCHANGED <<hearingVars, up, pending, old, rowOf, hand, made, givenUp, again, closing,
                 stopped, budget>>

\* is written off, or saved.
WrittenOff(j) ==
  /\ phase[j] = "dying" /\ Becomes(j, "failed")
  /\ pending' = pending \ {rowOf[j]} /\ old' = old \ {rowOf[j]}
  /\ givenUp' = givenUp \cup {LogOf(j)}
  /\ UNCHANGED <<hearingVars, up, rowOf, hand, made, runs, again, closing, stopped, budget>>

SavedAgain(j) ==
  /\ closing /\ phase[j] \in Unsettled /\ Becomes(j, "pending")
  /\ pending' = pending \cup {rowOf[j]} /\ old' = old \ {rowOf[j]}
  /\ UNCHANGED <<hearingVars, up, rowOf, hand, made, past, closing, stopped, budget>>

\* What the pool does with a job is one of these.
LEMMA JobSteps ==
  ASSUME TypeOK, NEW j \in Jobs, PoolStep(j) \/ JobLost(j)
  PROVE  Works(j) \/ Processed(j) \/ WrittenOff(j) \/ SavedAgain(j)
<1>1. CASE JobSucceeds(j)
  <2>1. Succeed(j) /\ Becomes(j, "done")
    BY <1>1, SucceedTyped DEF JobSucceeds, TypeOK
  <2> QED BY <1>1, <2>1 DEF JobSucceeds, Succeed, Processed, table, bounds
<1>2. CASE JobMoves(j)
  BY <1>2 DEF JobMoves, Run, Retry, GiveUp, Accept, Unsettled, Works, rest, table, bounds
<1>3. CASE JobSaved(j)
  <2>1. CASE RecordFailed(j) /\ WritesOver(rowOf[j]) /\ givenUp' = givenUp \cup {LogOf(j)}
    BY <1>3, <2>1 DEF JobSaved, RecordFailed, WritesOver, WrittenOff, bounds
  <2>2. CASE RecordPending(j) /\ SavesPending(j) /\ UNCHANGED givenUp
    BY <1>3, <2>2 DEF JobSaved, RecordPending, SavesPending, SavedAgain, Unsettled, bounds, past
  <2> QED BY <1>3, <2>1, <2>2 DEF JobSaved
<1>4. CASE JobLost(j)
  BY <1>4 DEF JobLost, Lose, Unsettled, Works, table
<1> QED BY <1>1, <1>2, <1>3, <1>4 DEF PoolStep

\* What the start does with a row
LEMMA RowSteps ==
  ASSUME TypeOK, EnqueueRow
  PROVE  \E j \in Jobs : TakesUp(j)
<1> PICK j \in Jobs : /\ rowOf[j] \in old /\ phase[j] = "new"
                      /\ Enqueue(j) /\ hand' = rowOf[j]
  BY DEF EnqueueRow
<1>0. rowOf[j] \in pending
  BY DEF TypeOK
<1>1. CASE Accept(j) /\ UNCHANGED <<table, budget>>
  BY <1>1 DEF EnqueueRow, Accept, TakesUp, table, bounds
<1>2. CASE RecordPending(j) /\ SavesPending(j) /\ UNCHANGED budget
  <2>1. pending' = pending /\ old' \subseteq old /\ rowOf[j] \notin old'
    BY <1>0, <1>2 DEF SavesPending
  <2> QED BY <1>2, <2>1 DEF EnqueueRow, RecordPending, TakesUp
<1>3. CASE closing /\ Lose(j) /\ Pays /\ UNCHANGED table
  BY <1>3 DEF EnqueueRow, Lose, TakesUp, table
<1> QED BY <1>1, <1>2, <1>3 DEF Enqueue, Pays, table

\* The listener's part of a step is one of Hearing.
LEMMA HearingSteps ==
  ASSUME TypeOK, [Next]_bridgeVars
  PROVE  [HearingNext]_hearingVars
<1>1. CASE ListenerLoads
  <2>1. (IF saved = NoBlock THEN FirstBlock ELSE saved) \in Blocks
    BY BridgeAssumption DEF TypeOK, HearingTypeOK
  <2> QED BY <1>1, <2>1 DEF ListenerLoads, HearingNext
<1>2. CASE ListenerAdvances \/ ListenerSaves
  BY <1>2 DEF ListenerAdvances, ListenerSaves, HearingNext
<1>3. ASSUME NEW l \in HeardLogs, ListenerHears(l) \/ ListenerRepeats(l)
      PROVE  [HearingNext]_hearingVars
  BY <1>3 DEF ListenerHears, ListenerRepeats, HearingNext
<1>4. ASSUME NEW j \in Jobs, PoolStep(j) \/ JobLost(j)
      PROVE  UNCHANGED hearingVars
  BY <1>4 DEF PoolStep, JobSucceeds, JobMoves, JobSaved, JobLost
<1>5. CASE Boot \/ StartStep \/ PoolCloses \/ PoolStops
  BY <1>5 DEF Boot, StartStep, EnqueueRow, MarkRow, StartListeners, PoolCloses, PoolStops
<1>6. CASE Exit \/ Crash
  BY <1>6 DEF Exit, Crash, End, HearingNext
<1>7. CASE UNCHANGED bridgeVars
  BY <1>7 DEF bridgeVars
<1> QED BY <1>1, <1>2, <1>3, <1>4, <1>5, <1>6, <1>7 DEF Next, ListenerStep

\* So the listener of the bridge keeps the invariant of Hearing.
LEMMA HearingKept == TypeOK /\ HearingInv /\ [Next]_bridgeVars => HearingInv'
BY HearingSteps, HearingNextInv
-----------------------------------------------------------------------------
(* Types *)

BridgeTyped ==
  /\ up \in {"down", "starting", "listening"}
  /\ rowOf \in [Jobs -> Jobs]
  /\ hand \in Jobs \cup {NoJob} /\ (hand # NoJob => up = "starting")
  /\ made \in [HeardLogs -> 0..MaxJobs]
  /\ starts \in 0..MaxStarts /\ budget \in 0..Budget
  /\ runs \in [HeardLogs -> 0..Twice]
  /\ givenUp \subseteq HeardLogs /\ again \subseteq HeardLogs

\* TypeOK is that of the components, and that of what is between them.
LEMMA TypeParts == TypeOK <=> HearingTypeOK /\ LifecycleTypeOK /\ RowsTyped /\ BridgeTyped
BY DEF TypeOK, RowsTyped, BridgeTyped

\* Nothing is there at first.
LEMMA InitTyped == Init => TypeOK
<1> SUFFICES ASSUME Init
             PROVE  TypeOK
  OBVIOUS
<1>1. HearingTypeOK
  BY DEF Init, HearingInit, HearingTypeOK
<1>2. LifecycleTypeOK
  <2>1. phase \in [Jobs -> {"new", "done", "pending", "failed", "lost"} \cup Unsettled]
    BY DEF Init
  <2>2. retries \in [Jobs -> 0..MaxTry]
    BY BridgeAssumption DEF Init
  <2> QED BY <2>1, <2>2 DEF Init, LifecycleTypeOK
<1>3. RowsTyped
  BY BridgeAssumption DEF Init, RowsTyped
<1>4. BridgeTyped
  BY BridgeAssumption DEF Init, BridgeTyped, Twice
<1> QED BY <1>1, <1>2, <1>3, <1>4, TypeParts

\* What a job that is enqueued leaves
LEMMA EnqueueTyped ==
  ASSUME TypeOK, NEW j \in Jobs, Enqueue(j)
  PROVE  LifecycleTypeOK' /\ RowsTyped' /\ budget' \in 0..Budget
<1>1. CASE Accept(j) /\ UNCHANGED <<table, budget>>
  BY <1>1, LifeTyped, TypeParts DEF table, RowsTyped, BridgeTyped
<1>2. CASE RecordPending(j) /\ SavesPending(j) /\ UNCHANGED budget
  BY <1>2, LifeTyped, SavedTyped, TypeParts DEF BridgeTyped
<1>3. CASE Lose(j) /\ Pays /\ UNCHANGED table
  BY <1>3, LifeTyped, TypeParts, BridgeAssumption DEF table, RowsTyped, BridgeTyped, Pays
<1> QED BY <1>1, <1>2, <1>3 DEF Enqueue

\* The pool keeps the types,
LEMMA PoolTyped ==
  ASSUME TypeOK, NEW j \in Jobs, PoolStep(j) \/ JobLost(j)
  PROVE  LifecycleTypeOK' /\ RowsTyped' /\ BridgeTyped'
<1> USE DEF past
<1>0. LogOf(j) \in HeardLogs /\ rowOf[j] \in Jobs
  BY JobPairs DEF TypeOK
<1>1. CASE JobSucceeds(j)
  <2>1. LifecycleTypeOK'
    BY <1>1, SucceedTyped, TypeParts DEF JobSucceeds
  <2>2. runs' \in [HeardLogs -> 0..Twice]
    <3>1. runs[LogOf(j)] \in 0..Twice
      BY <1>0, TypeParts DEF BridgeTyped
    <3>2. (IF runs[LogOf(j)] < Twice THEN runs[LogOf(j)] + 1 ELSE runs[LogOf(j)]) \in 0..Twice
      BY <3>1 DEF Twice
    <3> QED BY <1>1, <3>2, TypeParts DEF JobSucceeds, BridgeTyped
  <2> QED BY <1>1, <2>1, <2>2, TypeParts DEF JobSucceeds, BridgeTyped, RowsTyped, table, bounds
<1>2. CASE JobMoves(j)
  BY <1>2, LifeTyped, TypeParts DEF JobMoves, BridgeTyped, RowsTyped, rest, table, bounds
<1>3. CASE JobSaved(j)
  <2>1. LifecycleTypeOK'
    BY <1>3, LifeTyped, TypeParts DEF JobSaved
  <2>2. RowsTyped'
    BY <1>0, <1>3, SavedTyped DEF JobSaved
  <2> QED BY <1>0, <1>3, <2>1, <2>2, TypeParts DEF JobSaved, BridgeTyped, bounds
<1>4. CASE JobLost(j)
  <2>1. LifecycleTypeOK'
    BY <1>4, LifeTyped, TypeParts DEF JobLost
  <2>2. budget' \in 0..Budget
    BY <1>4, TypeParts, BridgeAssumption DEF JobLost, Pays, BridgeTyped
  <2> QED BY <1>4, <2>1, <2>2, TypeParts DEF JobLost, BridgeTyped, RowsTyped, table
<1> QED BY <1>1, <1>2, <1>3, <1>4 DEF PoolStep

\* and so do the update of a row
LEMMA MarkTyped ==
  ASSUME TypeOK, MarkRow
  PROVE  LifecycleTypeOK' /\ RowsTyped' /\ BridgeTyped'
<1>0. hand \in Jobs
  BY DEF MarkRow, TypeOK
<1>1. CASE RowMarked
  <2>1. RowsTyped'
    BY <1>0, <1>1, SavedTyped DEF RowMarked
  <2> QED BY <1>1, <2>1, TypeParts
          DEF MarkRow, RowMarked, lifecycleVars, LifecycleTypeOK, BridgeTyped
<1>2. CASE RowUnmarked
  <2> DEFINE l == LogOf(hand)
             j == <<l, made[l] + 1>>
  <2>1. l \in HeardLogs /\ made[l] < MaxJobs
    BY <1>0, <1>2, JobPairs DEF RowUnmarked
  <2>2. j \in Jobs /\ made' \in [HeardLogs -> 0..MaxJobs]
    BY <1>2, <2>1, NextJob DEF RowUnmarked
  <2>3. retries' \in [Jobs -> 0..MaxTry]
    <3>1. tries[hand] \in 0..MaxTry
      BY <1>0 DEF TypeOK
    <3>2. retries' = [retries EXCEPT ![j] = tries[hand]]
      BY <1>2 DEF RowUnmarked
    <3> QED BY <3>1, <3>2 DEF TypeOK, LifecycleTypeOK
  <2>4. rowOf' \in [Jobs -> Jobs]
    <3>1. rowOf' = [rowOf EXCEPT ![j] = hand]
      BY <1>2 DEF RowUnmarked
    <3> QED BY <1>0, <3>1 DEF TypeOK
  <2>5. LifecycleTypeOK'
    BY <1>2, <2>3, TypeParts DEF RowUnmarked, LifecycleTypeOK
  <2>6. budget' \in 0..Budget
    BY <1>2, TypeParts, BridgeAssumption DEF RowUnmarked, Pays, BridgeTyped
  <2>7. again' \subseteq HeardLogs
    BY <1>2, <2>1 DEF RowUnmarked, TypeOK
  <2> QED BY <1>2, <2>2, <2>4, <2>5, <2>6, <2>7, TypeParts
          DEF MarkRow, RowUnmarked, table, RowsTyped, BridgeTyped
<1> QED BY <1>1, <1>2 DEF MarkRow

\* and the end of a process.
LEMMA EndTyped ==
  ASSUME TypeOK, End
  PROVE  /\ HearingTypeOK' /\ LifecycleTypeOK' /\ RowsTyped' /\ rowOf' \in [Jobs -> Jobs]
         /\ hand' = NoJob /\ up' = "down" /\ again' \subseteq HeardLogs
         /\ UNCHANGED <<made, starts, runs, givenUp>>
<1>1. HearingTypeOK'
  BY DEF End, Restart, TypeOK, HearingTypeOK
<1>2. phase' \in [Jobs -> Phases]
  BY DEF End, TypeOK, LifecycleTypeOK, Phases
<1>3. LifecycleTypeOK'
  BY <1>2 DEF End, RestoredTries, TypeOK, LifecycleTypeOK, Phases
<1>4. RowsTyped'
  BY TypeParts DEF End, table, RowsTyped
<1>5. again' \subseteq HeardLogs
  <2>1. again \subseteq HeardLogs /\ heard \subseteq HeardLogs
    BY DEF TypeOK, HearingTypeOK
  <2>2. again' \subseteq again \cup heard \cup HeardLogs
    BY DEF End
  <2> QED BY <2>1, <2>2
<1> QED BY <1>1, <1>3, <1>4, <1>5 DEF End

\* Every step keeps the types.
LEMMA TypedKept ==
  ASSUME TypeOK, HearingInv, [Next]_bridgeVars
  PROVE  TypeOK'
<1> USE DEF past
<1>0. HearingTypeOK'
  BY HearingKept DEF HearingInv
<1> SUFFICES LifecycleTypeOK' /\ RowsTyped' /\ BridgeTyped'
  BY <1>0, TypeParts DEF TypeOK, RowsTyped, BridgeTyped
<1>2. CASE Boot
  <2>1. starts' \in 0..MaxStarts
    BY <1>2, BridgeAssumption DEF Boot, TypeOK
  <2>2. RowsTyped'
    BY <1>2 DEF Boot, TypeOK, RowsTyped
  <2> QED BY <1>2, <2>1, <2>2, TypeParts
          DEF Boot, lifecycleVars, LifecycleTypeOK, BridgeTyped
<1>3. CASE EnqueueRow
  <2> PICK j \in Jobs : Enqueue(j) /\ hand' = rowOf[j]
    BY <1>3 DEF EnqueueRow
  <2>1. LifecycleTypeOK' /\ RowsTyped' /\ budget' \in 0..Budget
    BY EnqueueTyped
  <2>2. hand' \in Jobs
    BY DEF TypeOK
  <2> QED BY <1>3, <2>1, <2>2, TypeParts DEF EnqueueRow, BridgeTyped
<1>5. CASE StartListeners
  BY <1>5, TypeParts
     DEF StartListeners, lifecycleVars, LifecycleTypeOK, RowsTyped, BridgeTyped, table, bounds
<1>6. CASE ListenerLoads \/ ListenerAdvances \/ ListenerSaves
  BY <1>6, TypeParts
     DEF ListenerLoads, ListenerAdvances, ListenerSaves, lifecycleVars, LifecycleTypeOK,
         RowsTyped, BridgeTyped, rest, table, bounds
<1>7. ASSUME NEW l \in HeardLogs, ListenerHears(l)
      PROVE  LifecycleTypeOK' /\ RowsTyped' /\ BridgeTyped'
  <2>1. /\ <<l, made[l] + 1>> \in Jobs /\ Enqueue(<<l, made[l] + 1>>)
        /\ made' \in [HeardLogs -> 0..MaxJobs]
    BY <1>7, NextJob DEF ListenerHears
  <2>2. LifecycleTypeOK' /\ RowsTyped' /\ budget' \in 0..Budget
    BY <2>1, EnqueueTyped
  <2> QED BY <1>7, <2>1, <2>2, TypeParts DEF ListenerHears, BridgeTyped
<1>8. ASSUME NEW l \in HeardLogs, ListenerRepeats(l)
      PROVE  LifecycleTypeOK' /\ RowsTyped' /\ BridgeTyped'
  <2>1. /\ <<l, made[l] + 1>> \in Jobs /\ Accept(<<l, made[l] + 1>>)
        /\ made' \in [HeardLogs -> 0..MaxJobs]
    BY <1>8, NextJob DEF ListenerRepeats
  <2>2. LifecycleTypeOK'
    BY <2>1, LifeTyped, TypeParts
  <2>3. budget' \in 0..Budget
    BY <1>8, TypeParts, BridgeAssumption DEF ListenerRepeats, Pays, BridgeTyped
  <2> QED BY <1>8, <2>1, <2>2, <2>3, TypeParts
          DEF ListenerRepeats, BridgeTyped, RowsTyped, table
<1>9. CASE PoolCloses
  BY <1>9, TypeParts
     DEF PoolCloses, Close, LifecycleTypeOK, RowsTyped, BridgeTyped, rest, table, bounds
<1>10. CASE PoolStops
  BY <1>10, TypeParts
     DEF PoolStops, Stop, LifecycleTypeOK, RowsTyped, BridgeTyped, rest, table, bounds
<1>11. CASE Exit
  BY <1>11, EndTyped, TypeParts DEF Exit, BridgeTyped
<1>12. CASE Crash
  <2>1. budget' \in 0..Budget
    BY <1>12, TypeParts, BridgeAssumption DEF Crash, Pays, BridgeTyped
  <2> QED BY <1>12, <2>1, EndTyped, TypeParts DEF Crash, BridgeTyped
<1>13. CASE UNCHANGED bridgeVars
  BY <1>13, TypeParts
     DEF bridgeVars, lifecycleVars, LifecycleTypeOK, RowsTyped, BridgeTyped, rest, table, bounds
<1> QED BY <1>2, <1>3, <1>5, <1>6, <1>7, <1>8, <1>9, <1>10, <1>11, <1>12, <1>13,
           MarkTyped, PoolTyped DEF Next, StartStep, ListenerStep
-----------------------------------------------------------------------------
(* Closing, rows and jobs *)

\* Steps that change neither jobs nor what was made, nor a row in hand
LEMMA QuietSteps ==
  ASSUME TypeOK, \/ Boot \/ StartListeners \/ ListenerLoads \/ ListenerAdvances
                 \/ ListenerSaves \/ PoolCloses \/ PoolStops \/ UNCHANGED bridgeVars
  PROVE  /\ UNCHANGED <<phase, pending, rowOf, hand, made, past, heard>>
         /\ UNCHANGED old \/ hand = NoJob
<1> USE DEF hearingVars, lifecycleVars, rest, table
<1>1. CASE Boot \/ StartListeners
  BY <1>1 DEF Boot, StartListeners, TypeOK
<1>2. CASE ListenerLoads \/ ListenerAdvances \/ ListenerSaves
  BY <1>2 DEF ListenerLoads, ListenerAdvances, ListenerSaves, Load, Advance, Save
<1>3. CASE PoolCloses \/ PoolStops
  BY <1>3 DEF PoolCloses, PoolStops, Close, Stop
<1>4. CASE UNCHANGED bridgeVars
  BY <1>4 DEF bridgeVars
<1> QED BY <1>1, <1>2, <1>3, <1>4

\* What the listener makes of the next job of a log
LEMMA Enqueued ==
  ASSUME TypeOK, MadeControl, NEW i \in HeardLogs, made[i] < MaxJobs,
         LET j == <<i, made[i] + 1>> IN Enqueue(j) \/ (Accept(j) /\ UNCHANGED table)
  PROVE  LET j == <<i, made[i] + 1>>
         IN /\ \/ Becomes(j, "waiting") /\ ~stopped
               \/ Becomes(j, "pending") /\ closing
               \/ Becomes(j, "lost")
            /\ \/ pending' = pending /\ old' = old
               \/ /\ Becomes(j, "pending")
                  /\ pending' = pending \cup {j} /\ old' = old \ {j}
            /\ UNCHANGED <<closing, stopped>>
<1> DEFINE j == <<i, made[i] + 1>>
<1>1. rowOf[j] = j
  <2>1. made[i] + 1 \in 1..MaxJobs /\ made[i] + 1 > made[i] /\ j \in Jobs
    BY NextJob
  <2> QED BY <2>1 DEF MadeControl
<1> HIDE DEF j
<1>2. CASE Accept(j) /\ UNCHANGED table
  BY <1>2 DEF Accept, table, j
<1>3. CASE RecordPending(j) /\ SavesPending(j)
  BY <1>1, <1>3 DEF RecordPending, SavesPending, j
<1>4. CASE Lose(j) /\ UNCHANGED table
  BY <1>4 DEF Lose, table, j
<1> QED BY <1>2, <1>3, <1>4 DEF Enqueue, table, j

\* No step but the end of a process opens a pool again or takes heard logs back.
LEMMA ClosingKept ==
  ASSUME TypeOK, ClosingControl, RowControl, MadeControl, [Next]_bridgeVars
  PROVE  ClosingControl'
<1> USE DEF ClosingControl
<1>0. NoJob \notin pending /\ NoJob \notin Jobs /\ phase \in [Jobs -> Phases]
  BY BridgeAssumption DEF TypeOK, LifecycleTypeOK, Phases
<1>1. CASE Boot \/ StartListeners
  <2>1. UNCHANGED <<heard, current, phase, closing, stopped, pending, hand>> /\ up' # "down"
    BY <1>1 DEF Boot, StartListeners, hearingVars, lifecycleVars, table
  <2>2. UNCHANGED old \/ hand = NoJob
    BY <1>1, QuietSteps
  <2> QED BY <1>0, <2>1, <2>2
<1>2. CASE EnqueueRow
  <2> PICK j \in Jobs : TakesUp(j)
    BY <1>2, RowSteps
  <2>1. UNCHANGED <<heard, current, closing, stopped, up>>
    BY DEF TakesUp, hearingVars
  <2>2. stopped => \A k \in Jobs : phase'[k] \notin Unsettled
    BY <1>0 DEF TakesUp, Becomes, Unsettled
  <2>3. hand' \in pending' \ old' => closing
    BY DEF TakesUp
  <2> QED BY <2>1, <2>2, <2>3
<1>3. CASE MarkRow
  <2>1. UNCHANGED <<heard, current, closing, stopped, up, phase>> /\ hand' = NoJob
    BY <1>3 DEF MarkRow, RowMarked, RowUnmarked, hearingVars, lifecycleVars
  <2>2. pending' \subseteq pending
    BY <1>3 DEF MarkRow, RowMarked, RowUnmarked, WritesOver, table
  <2> QED BY <1>0, <2>1, <2>2
<1>4. CASE ListenerLoads \/ ListenerAdvances
  <2>1. current' # NoBlock
    BY <1>4, BridgeAssumption, HearingAssumption
       DEF ListenerLoads, Load, ListenerAdvances, Advance
  <2>2. UNCHANGED <<phase, closing, stopped, up, pending, old, hand>>
    BY <1>4 DEF ListenerLoads, ListenerAdvances, lifecycleVars, rest, table
  <2> QED BY <2>1, <2>2
<1>5. CASE ListenerSaves
  BY <1>5 DEF ListenerSaves, Save, lifecycleVars, rest, table
<1>6. ASSUME NEW l \in HeardLogs, ListenerHears(l) \/ ListenerRepeats(l)
      PROVE  ClosingControl'
  <2> DEFINE j == <<l, made[l] + 1>>
  <2>1. j \in Jobs /\ made[l] < MaxJobs
    BY <1>6, NextJob DEF ListenerHears, ListenerRepeats
  <2>2. /\ UNCHANGED <<up, hand, current>>
        /\ current # NoBlock /\ up = "listening"
    BY <1>6 DEF ListenerHears, ListenerRepeats, Hear, hearingVars
  <2>3. Enqueue(j) \/ (Accept(j) /\ UNCHANGED table)
    BY <1>6 DEF ListenerHears, ListenerRepeats, table
  <2>4. /\ UNCHANGED <<closing, stopped>>
        /\ \/ Becomes(j, "waiting") /\ ~stopped
           \/ Becomes(j, "pending") \/ Becomes(j, "lost")
        /\ pending' = pending \/ pending' = pending \cup {j}
    BY <2>1, <2>3, Enqueued
  <2>5. hand' = NoJob /\ NoJob \notin pending'
    BY <1>0, <2>1, <2>2, <2>4 DEF TypeOK
  <2>6. stopped => \A k \in Jobs : phase'[k] \notin Unsettled
    BY <1>0, <2>1, <2>4 DEF Becomes, Unsettled
  <2> QED BY <2>2, <2>4, <2>5, <2>6
<1>7. ASSUME NEW j \in Jobs, PoolStep(j) \/ JobLost(j)
      PROVE  ClosingControl'
  <2>1. UNCHANGED <<heard, current, up, hand, closing, stopped>> /\ phase[j] \in Unsettled
    BY <1>7, JobSteps DEF Works, Processed, WrittenOff, SavedAgain, hearingVars, Unsettled
  <2>2. (pending' \subseteq pending /\ old' = old) \/ closing
        \/ (WrittenOff(j) /\ pending' \ old' = (pending \ old) \ {rowOf[j]})
    BY <1>7, JobSteps DEF Works, Processed, WrittenOff, SavedAgain
  <2> QED BY <2>1, <2>2
<1>8. CASE PoolCloses
  BY <1>8 DEF PoolCloses, Close, hearingVars, rest, table
<1>9. CASE PoolStops
  BY <1>9 DEF PoolStops, Stop, hearingVars, rest, table
<1>10. CASE Exit \/ Crash
  BY <1>0, <1>10 DEF Exit, Crash, End, Restart, table
<1>11. CASE UNCHANGED bridgeVars
  BY <1>11 DEF bridgeVars, hearingVars, lifecycleVars, rest, table
<1> QED BY <1>1, <1>2, <1>3, <1>4, <1>5, <1>6, <1>7, <1>8, <1>9, <1>10, <1>11
        DEF Next, StartStep, ListenerStep

\* Rows stay with the logs they were written for, and with the jobs of these.
LEMMA RowsKept ==
  ASSUME TypeOK, RowControl, MadeControl, [Next]_bridgeVars
  PROVE  RowControl'
<1>0. /\ pending \subseteq Jobs /\ phase \in [Jobs -> Phases] /\ rowOf \in [Jobs -> Jobs]
      /\ NoJob \notin Jobs
  BY BridgeAssumption DEF TypeOK, LifecycleTypeOK, Phases
<1>1. CASE UNCHANGED <<phase, pending, rowOf, hand, past>>
  BY <1>1 DEF RowControl, past
<1>2. CASE EnqueueRow
  <2> PICK j \in Jobs : TakesUp(j)
    BY <1>2, RowSteps
  <2>1. /\ UNCHANGED <<pending, rowOf, past>> /\ hand = NoJob /\ hand' = rowOf[j]
        /\ \E p : Becomes(j, p)
    BY DEF TakesUp
  <2>2. \A k \in Jobs \ {j} : phase'[k] = phase[k]
    BY <1>0, <2>1 DEF Becomes
  <2>3. ASSUME NEW k \in pending, k # rowOf[j], LogOf(k) \notin again
        PROVE  phase'[k] \in {"new", "pending"}
    <3>1. k # j
      BY <2>3 DEF RowControl
    <3> QED BY <1>0, <2>1, <2>2, <2>3, <3>1 DEF RowControl
  <2> QED BY <2>1, <2>3 DEF RowControl, past
<1>3. CASE MarkRow /\ RowMarked
  BY <1>0, <1>3 DEF MarkRow, RowMarked, WritesOver, lifecycleVars, RowControl
<1>4. CASE MarkRow /\ RowUnmarked
  <2> DEFINE l == LogOf(hand)
             j == <<l, made[l] + 1>>
  <2>1. hand \in Jobs /\ l \in HeardLogs
    BY <1>4, JobPairs DEF MarkRow, TypeOK
  <2>2. j \in Jobs /\ LogOf(j) = l
    BY <1>4, <2>1, NextJob, JobPairs DEF RowUnmarked
  <2>3. /\ rowOf' = [rowOf EXCEPT ![j] = hand] /\ again' = again \cup {l}
        /\ UNCHANGED <<phase, pending>>
    BY <1>4 DEF RowUnmarked, table
  <2> HIDE DEF j, l
  <2>4. ASSUME NEW k \in Jobs
        PROVE  LogOf(rowOf'[k]) = LogOf(k) /\ (rowOf'[k] = k \/ LogOf(k) \in again')
    <3>1. CASE k = j
      BY <1>0, <2>2, <2>3, <3>1 DEF l
    <3>2. CASE k # j
      BY <1>0, <2>3, <3>2 DEF RowControl
    <3> QED BY <3>1, <3>2
  <2>5. \A k \in pending : LogOf(k) \notin again' => phase[k] \in {"new", "pending"}
    BY <2>3 DEF RowControl, l
  <2> QED BY <2>3, <2>4, <2>5 DEF RowControl
<1>5. ASSUME NEW l \in HeardLogs, ListenerHears(l) \/ ListenerRepeats(l)
      PROVE  RowControl'
  <2> DEFINE j == <<l, made[l] + 1>>
  <2>1. j \in Jobs /\ made[l] + 1 > made[l] /\ made[l] + 1 \in 1..MaxJobs /\ made[l] < MaxJobs
    BY <1>5, NextJob DEF ListenerHears, ListenerRepeats
  <2>2. j \notin pending /\ UNCHANGED <<hand, rowOf>> /\ again \subseteq again'
    BY <1>5, <2>1 DEF MadeControl, ListenerHears, ListenerRepeats, past
  <2>3. Enqueue(j) \/ (Accept(j) /\ UNCHANGED table)
    BY <1>5 DEF ListenerHears, ListenerRepeats, table
  <2>4. /\ \E p : Becomes(j, p)
        /\ pending' = pending \/ (Becomes(j, "pending") /\ pending' = pending \cup {j})
    BY <2>1, <2>3, Enqueued
  <2> HIDE DEF j
  <2> QED BY <1>0, <2>1, <2>2, <2>4 DEF RowControl, Becomes
<1>6. ASSUME NEW j \in Jobs, PoolStep(j) \/ JobLost(j)
      PROVE  RowControl'
  <2>0. UNCHANGED <<rowOf, hand, again>>
    BY <1>6, JobSteps DEF Works, Processed, WrittenOff, SavedAgain, past
  <2>1. CASE Works(j)
    BY <1>0, <2>0, <2>1 DEF Works, Becomes, Unsettled, RowControl
  <2>2. CASE Processed(j)
    BY <1>0, <2>0, <2>2 DEF Processed, Becomes, RowControl
  <2>3. CASE WrittenOff(j)
    BY <1>0, <2>0, <2>3 DEF WrittenOff, Becomes, RowControl
  <2>4. CASE SavedAgain(j)
    BY <1>0, <2>0, <2>4 DEF SavedAgain, Becomes, RowControl
  <2> QED BY <1>6, <2>1, <2>2, <2>3, <2>4, JobSteps
<1>7. CASE End
  <2>1. /\ rowOf' = [j \in Jobs |-> j] /\ pending' = pending
        /\ phase' = [j \in Jobs |-> IF j \in pending \/ phase[j] = "new" THEN "new" ELSE "lost"]
    BY <1>7 DEF End, table
  <2> QED BY <1>0, <2>1 DEF RowControl
<1> QED BY <1>1, <1>2, <1>3, <1>4, <1>5, <1>6, <1>7, QuietSteps
        DEF Next, StartStep, ListenerStep, MarkRow, Exit, Crash

\* A job is made before anything happens to it.
LEMMA MadeKept ==
  ASSUME TypeOK, MadeControl, [Next]_bridgeVars
  PROVE  MadeControl'
<1> SUFFICES ASSUME NEW l \in HeardLogs, NEW n \in 1..MaxJobs, n > made'[l]
             PROVE  /\ phase'[<<l, n>>] = "new" /\ <<l, n>> \notin pending' /\ <<l, n>> # hand'
                    /\ \A j \in Jobs : rowOf'[j] = <<l, n>> <=> j = <<l, n>>
  BY DEF MadeControl
<1> DEFINE k == <<l, n>>
           Unmade == /\ phase[k] = "new" /\ k \notin pending /\ k # hand
                     /\ \A j \in Jobs : rowOf[j] = k <=> j = k
<1>0. /\ phase \in [Jobs -> Phases] /\ k \in Jobs /\ made[l] \in Nat /\ n \in Nat /\ k # NoJob
      /\ rowOf \in [Jobs -> Jobs]
  BY JobPairs, BridgeAssumption DEF TypeOK, LifecycleTypeOK, Phases
<1>01. n > made[l] => Unmade
  BY DEF MadeControl
<1> HIDE DEF k
<1> SUFFICES Unmade'
  BY DEF k
<1>1. CASE UNCHANGED <<phase, pending, rowOf, hand, made>>
  BY <1>01, <1>1
<1>2. CASE EnqueueRow
  <2> PICK j \in Jobs : TakesUp(j)
    BY <1>2, RowSteps
  <2>1. /\ UNCHANGED <<made, pending, rowOf>> /\ hand' = rowOf[j] /\ rowOf[j] \in pending
        /\ \E p : Becomes(j, p)
    BY DEF TakesUp, TypeOK
  <2>2. Unmade
    BY <1>01, <2>1
  <2>3. j # k /\ rowOf[j] # k
    BY <2>1, <2>2
  <2> QED BY <1>0, <2>1, <2>2, <2>3 DEF Becomes
<1>3. CASE MarkRow /\ RowMarked
  <2>1. UNCHANGED <<phase, rowOf, made>> /\ hand' = NoJob /\ pending' \subseteq pending
    BY <1>3 DEF MarkRow, RowMarked, WritesOver, lifecycleVars
  <2> QED BY <1>0, <1>01, <2>1
<1>4. CASE MarkRow /\ RowUnmarked
  <2> DEFINE i == LogOf(hand)
             j == <<i, made[i] + 1>>
  <2>1. hand \in Jobs /\ i \in HeardLogs
    BY <1>4, JobPairs DEF MarkRow, TypeOK
  <2>2. j \in Jobs /\ made' = [made EXCEPT ![i] = made[i] + 1] /\ made[i] \in Nat
    BY <1>4, <2>1, NextJob DEF RowUnmarked
  <2>3. n > made[l] /\ k # j
    <3>1. CASE i = l
      <4>1. made'[l] = made[l] + 1
        BY <2>1, <2>2, <3>1 DEF TypeOK
      <4> QED BY <1>0, <3>1, <4>1 DEF k
    <3>2. CASE i # l
      BY <2>2, <3>2 DEF TypeOK, k
    <3> QED BY <3>1, <3>2
  <2>4. Unmade
    BY <1>01, <2>3
  <2>5. /\ rowOf' = [rowOf EXCEPT ![j] = hand] /\ hand' = NoJob
        /\ UNCHANGED <<phase, pending>>
    BY <1>4 DEF MarkRow, RowUnmarked, table
  <2> HIDE DEF j
  <2> QED BY <1>0, <2>1, <2>2, <2>3, <2>4, <2>5
<1>5. ASSUME NEW i \in HeardLogs, ListenerHears(i) \/ ListenerRepeats(i)
      PROVE  Unmade'
  <2> DEFINE j == <<i, made[i] + 1>>
  <2>1. j \in Jobs /\ made[i] \in Nat /\ made[i] < MaxJobs
    BY <1>5, NextJob DEF ListenerHears, ListenerRepeats
  <2>2. made' = [made EXCEPT ![i] = made[i] + 1] /\ UNCHANGED <<hand, rowOf>>
    BY <1>5 DEF ListenerHears, ListenerRepeats
  <2>3. n > made[l] /\ k # j
    <3>1. CASE i = l
      <4>1. made'[l] = made[l] + 1
        BY <2>2, <3>1 DEF TypeOK
      <4> QED BY <1>0, <3>1, <4>1 DEF k
    <3>2. CASE i # l
      BY <2>2, <3>2 DEF TypeOK, k
    <3> QED BY <3>1, <3>2
  <2>4. Unmade
    BY <1>01, <2>3
  <2>5. Enqueue(j) \/ (Accept(j) /\ UNCHANGED table)
    BY <1>5 DEF ListenerHears, ListenerRepeats, table
  <2>6. /\ \E p : Becomes(j, p)
        /\ pending' = pending \/ pending' = pending \cup {j}
    BY <2>1, <2>5, Enqueued
  <2> HIDE DEF j
  <2> QED BY <1>0, <2>1, <2>2, <2>3, <2>4, <2>6 DEF Becomes
<1>6. ASSUME NEW j \in Jobs, PoolStep(j) \/ JobLost(j)
      PROVE  Unmade'
  <2>1. /\ phase[j] \in Unsettled /\ UNCHANGED <<made, hand, rowOf>>
        /\ pending' \subseteq pending \cup {rowOf[j]} /\ \E p : Becomes(j, p)
    BY <1>6, JobSteps DEF Works, Processed, WrittenOff, SavedAgain, Unsettled
  <2>2. Unmade
    BY <1>01, <2>1
  <2>3. k # j /\ rowOf[j] # k
    BY <2>1, <2>2 DEF Unsettled
  <2> QED BY <1>0, <2>1, <2>2, <2>3 DEF Becomes
<1>7. CASE End
  <2>1. /\ UNCHANGED <<pending, made>> /\ hand' = NoJob /\ rowOf' = [j \in Jobs |-> j]
        /\ phase' = [j \in Jobs |-> IF j \in pending \/ phase[j] = "new" THEN "new" ELSE "lost"]
    BY <1>7 DEF End, table
  <2> QED BY <1>0, <1>01, <2>1
<1> QED BY <1>1, <1>2, <1>3, <1>4, <1>5, <1>6, <1>7, QuietSteps
        DEF Next, StartStep, ListenerStep, MarkRow, Exit, Crash
-----------------------------------------------------------------------------
(* Once *)

\* What is behind the saved block stays there: the block is never saved lower, and
\* none below it is loaded.
LEMMA BehindStays ==
  ASSUME HearingInv, [HearingNext]_hearingVars, NEW l \in HeardLogs, Behind(l)
  PROVE  Behind(l)'
<1> USE HearingAssumption
<1>1. saved \in Nat /\ Height[l] \in Nat /\ (current # NoBlock => current \in Nat /\ saved <= current)
  BY HearingTypes DEF HearingInv, SavedBehind, Behind
<1>2. CASE \E b \in Blocks : Load(b)
  <2> PICK b \in Blocks : Load(b)
    BY <1>2
  <2>1. b \in Nat /\ b > Height[l]
    BY <1>1 DEF Load, Behind
  <2> QED BY <2>1 DEF Load, Behind
<1>3. CASE \E b \in Blocks : Advance(b)
  <2> PICK b \in Blocks : Advance(b)
    BY <1>3
  <2>1. b \in Nat /\ b > Height[l] /\ current # NoBlock
    BY <1>1 DEF Advance, Behind
  <2>2. saved' \in {saved, b} /\ current' = b /\ base' = base
    BY DEF Advance
  <2> QED BY <1>1, <2>1, <2>2 DEF Behind
<1>4. CASE Save
  <2>1. current \in Nat /\ current > Height[l]
    BY <1>1, <1>4 DEF Save, Behind
  <2> QED BY <1>4, <2>1 DEF Save, Behind
<1>5. CASE Restart
  BY <1>5 DEF Restart, Behind
<1>6. CASE UNCHANGED hearingVars \/ \E i \in HeardLogs : Hear(i)
  BY <1>6 DEF hearingVars, Hear, Behind
<1> QED BY <1>2, <1>3, <1>4, <1>5, <1>6 DEF HearingNext

\* A job the pool, the start or the listener has moved keeps the log's account, unless
\* it was the log's one job and has ended.
LEMMA OtherJobKeeps ==
  ASSUME TypeOK, NEW l \in HeardLogs, OnceFor(l), Behind(l) => Behind(l)',
         NEW j \in Jobs, phase[j] \notin {"done", "lost"}, \E p : Becomes(j, p),
         UNCHANGED <<made, runs, heard>>
  PROVE  OnceFor(l)'
<1> DEFINE k == <<l, 1>>
<1>1. phase \in [Jobs -> Phases] /\ (made[l] = 1 => k \in Jobs)
  BY BridgeAssumption, JobPairs DEF TypeOK, LifecycleTypeOK, Phases
<1>2. made[l] = 1 /\ phase[k] \in {"done", "lost"} => phase'[k] = phase[k]
  BY <1>1 DEF Becomes
<1> QED BY <1>1, <1>2 DEF OnceFor

\* Of a log that no fault makes heard or taken up again one job is made, and succeeds once.
LEMMA OnceKept ==
  ASSUME TypeOK, HearingInv, RowControl, MadeControl, OnceControl, [Next]_bridgeVars
  PROVE  OnceControl'
<1> SUFFICES ASSUME NEW l \in HeardLogs \ again'
             PROVE  OnceFor(l)'
  BY DEF OnceControl
<1> DEFINE k == <<l, 1>>
<1>0. /\ phase \in [Jobs -> Phases] /\ made[l] \in 0..MaxJobs /\ MaxJobs \in Nat
      /\ Height[l] \in Nat /\ (saved = NoBlock \/ saved \in Nat)
  BY BridgeAssumption, HearingAssumption DEF TypeOK, LifecycleTypeOK, Phases, HearingTypeOK
<1>01. Behind(l) => Behind(l)'
  BY BehindStays, HearingSteps
<1>02. made[l] = 1 => k \in Jobs
  BY <1>0, JobPairs
<1>03. l \notin again => OnceFor(l)
  BY DEF OnceControl
<1>1. CASE UNCHANGED <<phase, made, runs, again, heard>>
  BY <1>01, <1>03, <1>1 DEF OnceFor
<1>2. CASE EnqueueRow
  <2> PICK j \in Jobs : TakesUp(j)
    BY <1>2, RowSteps
  <2>1. UNCHANGED <<made, runs, again, heard>> /\ phase[j] = "new" /\ \E p : Becomes(j, p)
    BY DEF TakesUp, past, hearingVars
  <2> QED BY <1>01, <1>03, <2>1, OtherJobKeeps
<1>3. CASE MarkRow /\ RowMarked
  BY <1>1, <1>3 DEF MarkRow, RowMarked, lifecycleVars, hearingVars
<1>4. CASE MarkRow /\ RowUnmarked
  <2> DEFINE i == LogOf(hand)
  <2>1. /\ UNCHANGED <<phase, runs, heard>> /\ made' = [made EXCEPT ![i] = made[i] + 1]
        /\ l # i /\ l \notin again
    BY <1>4 DEF MarkRow, RowUnmarked, hearingVars
  <2>2. made'[l] = made[l]
    BY <2>1 DEF TypeOK
  <2> QED BY <1>01, <1>03, <2>1, <2>2 DEF OnceFor
<1>5. ASSUME NEW i \in HeardLogs, ListenerHears(i)
      PROVE  OnceFor(l)'
  <2> DEFINE j == <<i, made[i] + 1>>
  <2>1. /\ UNCHANGED <<runs, again>> /\ made' = [made EXCEPT ![i] = made[i] + 1]
        /\ Hear(i) /\ i \notin heard /\ heard' = heard \cup {i}
    BY <1>5 DEF ListenerHears, Hear, past
  <2>2. OnceFor(l)
    BY <1>03, <2>1
  <2>3. CASE i = l
    <3>1. ~Behind(l)
      <4>1. base \in Nat /\ base <= Height[l] /\ current # NoBlock
        BY <2>1, <2>3, HearingAssumption DEF Hear, HearingInv, HearingTypeOK
      <4> QED BY <1>0, <4>1 DEF Behind
    <3>2. made[l] = 0 /\ runs[l] = 0
      BY <2>1, <2>2, <2>3, <3>1 DEF OnceFor
    <3>3. made'[l] = 1 /\ runs'[l] = 0 /\ l \in heard'
      BY <2>1, <2>3, <3>2 DEF TypeOK
    <3> QED BY <3>3 DEF OnceFor
  <2>4. CASE i # l
    <3>1. made'[l] = made[l] /\ (l \in heard => l \in heard')
      BY <2>1, <2>4 DEF TypeOK
    <3>2. k \in Jobs => phase'[k] = phase[k]
      <4>1. j \in Jobs /\ k # j
        BY <1>5, <2>4, NextJob DEF ListenerHears
      <4>2. \E p : Becomes(j, p)
        <5>1. Enqueue(j)
          BY <1>5 DEF ListenerHears
        <5> QED BY <5>1 DEF Enqueue, Accept, RecordPending, Lose
      <4> QED BY <1>0, <4>1, <4>2 DEF Becomes
    <3> QED BY <1>01, <1>02, <2>1, <2>2, <3>1, <3>2 DEF OnceFor
  <2> QED BY <2>3, <2>4
<1>6. ASSUME NEW i \in HeardLogs, ListenerRepeats(i)
      PROVE  OnceFor(l)'
  <2>1. /\ UNCHANGED <<runs, heard>> /\ made' = [made EXCEPT ![i] = made[i] + 1]
        /\ l # i /\ l \notin again
    BY <1>6 DEF ListenerRepeats, hearingVars
  <2>2. OnceFor(l) /\ made'[l] = made[l]
    BY <2>1 DEF OnceControl, TypeOK
  <2>3. k \in Jobs => phase'[k] = phase[k]
    BY <1>0, <1>6, <2>1 DEF ListenerRepeats, Accept, Becomes
  <2> QED BY <1>01, <1>02, <2>1, <2>2, <2>3 DEF OnceFor
<1>7. ASSUME NEW j \in Jobs, Works(j) \/ WrittenOff(j) \/ SavedAgain(j)
      PROVE  OnceFor(l)'
  <2>1. /\ UNCHANGED <<made, runs, again, heard>> /\ phase[j] \in Unsettled
        /\ \E p : Becomes(j, p)
    BY <1>7 DEF Works, WrittenOff, SavedAgain, Unsettled, hearingVars, past
  <2> QED BY <1>01, <1>03, <2>1, OtherJobKeeps DEF Unsettled
<1>8. ASSUME NEW j \in Jobs, Processed(j)
      PROVE  OnceFor(l)'
  <2>1. /\ UNCHANGED <<made, again, heard>> /\ phase[j] = "running"
        /\ phase' = [phase EXCEPT ![j] = "done"]
        /\ runs' = [runs EXCEPT ![LogOf(j)] = IF @ < Twice THEN @ + 1 ELSE @]
    BY <1>8 DEF Processed, Becomes, hearingVars
  <2>2. OnceFor(l)
    BY <2>1 DEF OnceControl
  <2>3. CASE LogOf(j) = l
    <3>1. j = <<l, j[2]>> /\ j[2] \in 1..MaxJobs
      BY <2>3, JobPairs
    <3>2. ~ (j[2] > made[l])
      BY <2>1, <3>1 DEF MadeControl
    <3>3. made[l] = 1 /\ j = k
      BY <1>0, <2>2, <3>1, <3>2 DEF OnceFor
    <3>4. runs[l] = 0
      BY <2>1, <2>2, <3>3 DEF OnceFor
    <3>5. runs'[l] = 1 /\ phase'[k] = "done"
      BY <1>0, <2>1, <2>3, <3>3, <3>4 DEF TypeOK, Twice
    <3> QED BY <1>01, <2>1, <2>2, <3>3, <3>5 DEF OnceFor
  <2>4. CASE LogOf(j) # l
    <3>1. runs'[l] = runs[l] /\ (k \in Jobs => phase'[k] = phase[k])
      BY <1>0, <2>1, <2>4 DEF TypeOK, LogOf
    <3> QED BY <1>01, <1>02, <2>1, <2>2, <3>1 DEF OnceFor
  <2> QED BY <2>3, <2>4
<1>9. CASE End
  <2>1. /\ l \notin again /\ UNCHANGED <<made, runs, pending, saved>> /\ current' = NoBlock
        /\ ~ (l \in heard /\ (saved = NoBlock \/ saved <= Height[l]))
        /\ \A j \in Jobs : ~ (j = hand /\ l = LogOf(j))
    BY <1>9 DEF End, Restart, table
  <2>2. OnceFor(l)
    BY <2>1 DEF OnceControl
  <2>3. l \in heard => Behind(l)'
    BY <1>0, <2>1 DEF Behind
  <2>4. phase[k] \in {"done", "lost"} /\ k \in Jobs => phase'[k] = "lost"
    <3> SUFFICES ASSUME phase[k] \in {"done", "lost"}, k \in Jobs
                 PROVE  phase'[k] = "lost"
      OBVIOUS
    <3>1. k # hand /\ LogOf(k) \notin again
      BY <2>1 DEF LogOf
    <3>2. k \notin pending
      BY <3>1 DEF RowControl
    <3> QED BY <1>9, <3>2 DEF End
  <2> QED BY <1>01, <1>02, <2>1, <2>2, <2>3, <2>4 DEF OnceFor
<1>10. ASSUME NEW j \in Jobs, PoolStep(j) \/ JobLost(j)
       PROVE  OnceFor(l)'
  BY <1>7, <1>8, <1>10, JobSteps
<1> QED BY <1>1, <1>2, <1>3, <1>4, <1>5, <1>6, <1>9, <1>10, QuietSteps
        DEF Next, StartStep, ListenerStep, MarkRow, Exit, Crash, past
-----------------------------------------------------------------------------
(* The invariant, and what follows *)

\* No job is made, and nothing is heard, at first.
LEMMA InitInv == Init => BridgeInv
<1> SUFFICES ASSUME Init
             PROVE  BridgeInv
  OBVIOUS
<1>1. HearingInv
  BY HearingInitInv DEF Init
<1>2. ClosingControl /\ RowControl
  BY BridgeAssumption DEF Init, HearingInit, ClosingControl, RowControl
<1>3. MadeControl
  BY JobPairs, BridgeAssumption DEF Init, MadeControl
<1>4. OnceControl
  BY DEF Init, OnceControl, OnceFor
<1> QED BY <1>1, <1>2, <1>3, <1>4, InitTyped DEF BridgeInv

\* Every step keeps every part.
LEMMA NextInv == BridgeInv /\ [Next]_bridgeVars => BridgeInv'
BY TypedKept, HearingKept, ClosingKept, RowsKept, MadeKept, OnceKept DEF BridgeInv

\* Every state of the bridge satisfies the invariant, from start to start.
THEOREM Invariance == Spec => []BridgeInv
BY InitInv, NextInv, PTL DEF Spec

\* Types: a row is in hand during the start only, and no row counts as old that was
\* written in the second of the start or since (controller.go:226-232, stores/job.go:49).
THEOREM TypeCorrectness == Spec => []TypeOK
BY Invariance, PTL DEF BridgeInv

\* For any logs, faults, closings, crashes and restarts, a log is processed once, unless
\* its process ended before the save of its block or the update of its row, that update
\* failed, or its batch was repeated (controller.go:232, 490).
THEOREM ProcessesAtMostOnce == Spec => []AtMostOnce
<1>1. BridgeInv => AtMostOnce
  <2> SUFFICES ASSUME BridgeInv, NEW l \in HeardLogs \ again
               PROVE  runs[l] <= 1
    BY DEF AtMostOnce
  <2>1. OnceFor(l)
    BY DEF BridgeInv, OnceControl
  <2>2. runs[l] = 0 \/ runs[l] = 1
    BY <2>1 DEF OnceFor
  <2> QED BY <2>2
<1> QED BY <1>1, Invariance, PTL
-----------------------------------------------------------------------------
(* Bridge implements Delivery *)

\* A log's fate is one of four, before and after a step.
LEMMA FateIs ==
  \A l \in HeardLogs : /\ Fate(l) \in {"ahead", "held", "settled", "lost"}
                       /\ Fate(l)' \in {"ahead", "held", "settled", "lost"}
BY DEF Fate

\* A log's fate changes by what settles it, holds it or is ahead of it only.
LEMMA FateStays ==
  ASSUME NEW l \in HeardLogs, Settled(l)' <=> Settled(l), Held(l)' <=> Held(l),
         Ahead(l)' <=> Ahead(l)
  PROVE  Fate(l)' = Fate(l)
BY DEF Fate

\* The fates that change do so from and to the ones named.
LEMMA DeliveryMoves ==
  ASSUME NEW from, NEW to,
         \A l \in HeardLogs : Fate(l)' # Fate(l) => Fate(l) \in from /\ Fate(l)' \in to
  PROVE  Promised!Moves(from, to)
BY FateIs DEF Promised!Moves

\* A step that costs a fault may do anything but to a log that is settled.
LEMMA DeliveryFaults ==
  ASSUME TypeOK, Pays, \A l \in HeardLogs : Settled(l)' <=> Settled(l)
  PROVE  Promised!Fault
<1>1. \A l \in HeardLogs : Fate(l)' # Fate(l) =>
        Fate(l) \in {"ahead", "held", "lost"} /\ Fate(l)' \in {"ahead", "held", "lost"}
  BY DEF Fate
<1>2. Promised!Moves({"ahead", "held", "lost"}, {"ahead", "held", "lost"})
  BY <1>1, DeliveryMoves
<1> QED BY <1>2 DEF Promised!Fault, Pays

\* Where no fate changes, and no fault is paid for, Delivery has gained nothing or stutters.
LEMMA DeliveryStutters ==
  ASSUME \A l \in HeardLogs : Fate(l)' = Fate(l), UNCHANGED budget
  PROVE  Promised!Gain
<1>1. Promised!Moves({"ahead", "lost"}, {"ahead", "held"})
  BY DeliveryMoves
<1> QED BY <1>1 DEF Promised!Gain

\* What holds a log: a job in the pool's hands, or a row.
Holds(j) == phase[j] \in Unsettled \/ (j \in pending /\ ~ (j = hand /\ j \in old))

\* Nothing settles or holds a log but its jobs and rows.
LEMMA JobsStay ==
  ASSUME UNCHANGED <<phase, pending, hand, past>>, UNCHANGED old \/ (hand = NoJob /\ NoJob \notin Jobs),
         NEW l \in HeardLogs
  PROVE  (Settled(l)' <=> Settled(l)) /\ (Held(l)' <=> Held(l))
<1>1. \A j \in Jobs : Holds(j)' <=> Holds(j)
  BY DEF Holds
<1> QED BY <1>1 DEF Settled, past, Held, Holds, JobsOf

\* A block that is loaded, moved or saved is behind what is ahead of the listener.
LEMMA AheadStays ==
  ASSUME BridgeInv, NEW l \in HeardLogs,
         \/ UNCHANGED hearingVars
         \/ ListenerLoads \/ ListenerAdvances \/ ListenerSaves
  PROVE  Ahead(l)' <=> Ahead(l)
<1>0. Height[l] \in Nat /\ NoBlock \notin Nat /\ Height[l] >= FirstBlock
  BY HearingAssumption, BridgeAssumption
<1>1. CASE ListenerLoads
  <2>1. /\ current = NoBlock /\ heard = {} /\ heard' = {}
        /\ base' = current' /\ current' = IF saved = NoBlock THEN FirstBlock ELSE saved
        /\ saved' = saved
    BY <1>1 DEF ListenerLoads, Load, BridgeInv, ClosingControl
  <2>2. current' # NoBlock
    BY <2>1, BridgeAssumption, HearingAssumption
  <2> QED BY <1>0, <2>1, <2>2 DEF Ahead
<1>2. CASE ListenerAdvances \/ ListenerSaves
  <2>1. current # NoBlock /\ current' # NoBlock /\ UNCHANGED <<base, heard>>
    BY <1>2, HearingAssumption DEF ListenerAdvances, ListenerSaves, Advance, Save
  <2> QED BY <2>1 DEF Ahead
<1>3. CASE UNCHANGED hearingVars
  BY <1>3 DEF hearingVars, Ahead
<1> QED BY <1>1, <1>2, <1>3

\* Steps of the process that no log can tell
LEMMA StutterSteps ==
  ASSUME BridgeInv,
         \/ Boot \/ StartListeners \/ ListenerLoads \/ ListenerAdvances
         \/ ListenerSaves \/ PoolCloses \/ PoolStops \/ UNCHANGED bridgeVars
  PROVE  Promised!Gain
<1>1. /\ UNCHANGED <<phase, pending, hand, past>>
      /\ UNCHANGED old \/ (hand = NoJob /\ NoJob \notin Jobs)
  BY QuietSteps, BridgeAssumption DEF BridgeInv
<1>2. UNCHANGED budget
  BY DEF Boot, StartListeners, ListenerLoads, ListenerAdvances, ListenerSaves,
         PoolCloses, PoolStops, bridgeVars, rest, bounds
<1>3. ASSUME NEW l \in HeardLogs
      PROVE  Ahead(l)' <=> Ahead(l)
  <2>1. \/ UNCHANGED hearingVars
        \/ ListenerLoads \/ ListenerAdvances \/ ListenerSaves
    BY DEF Boot, StartListeners, PoolCloses, PoolStops, bridgeVars
  <2> QED BY <2>1, AheadStays
<1> QED BY <1>1, <1>2, <1>3, JobsStay, FateStays, DeliveryStutters

\* A row that is found goes on as a job or as a row, but for a fault.
LEMMA TakeUpSteps ==
  ASSUME BridgeInv, EnqueueRow
  PROVE  Promised!Gain \/ Promised!Fault
<1> PICK j \in Jobs : TakesUp(j)
  BY RowSteps DEF BridgeInv
<1> PICK r \in Jobs : r = rowOf[j]
  BY DEF BridgeInv, TypeOK
<1>0. /\ phase \in [Jobs -> Phases] /\ NoJob \notin Jobs /\ LogOf(r) = LogOf(j)
      /\ r \in pending
      /\ hand = NoJob /\ hand' = r /\ UNCHANGED <<hearingVars, pending, past>>
  BY BridgeAssumption
     DEF TakesUp, BridgeInv, TypeOK, LifecycleTypeOK, Phases, RowControl
<1>1. \A l \in HeardLogs : (Settled(l)' <=> Settled(l)) /\ (Ahead(l)' <=> Ahead(l))
  BY <1>0, AheadStays DEF Settled, past
<1>2. CASE Pays
  BY <1>1, <1>2, DeliveryFaults DEF BridgeInv
<1>3. CASE UNCHANGED budget
  <2>1. Holds(r) /\ (Holds(j)' \/ Holds(r)')
    <3>1. CASE Becomes(j, "waiting")
      BY <1>0, <3>1 DEF Holds, Becomes, Unsettled
    <3>2. CASE r \notin old'
      BY <1>0, <3>2 DEF Holds
    <3>3. ~ (Becomes(j, "lost") /\ Pays)
      BY <1>3 DEF Pays, BridgeInv, TypeOK
    <3>4. Becomes(j, "waiting") \/ r \notin old'
      BY <3>3 DEF TakesUp
    <3> QED BY <1>0, <3>1, <3>2, <3>4 DEF Holds
  <2>2. \A k \in Jobs \ {j, r} : Holds(k)' <=> Holds(k)
    <3>1. \E p : Becomes(j, p)
      BY DEF TakesUp
    <3>2. \A k \in Jobs \ {j} : phase'[k] = phase[k]
      BY <1>0, <3>1 DEF Becomes
    <3> QED BY <1>0, <3>2 DEF Holds
  <2>3. ASSUME NEW l \in HeardLogs
        PROVE  Held(l)' <=> Held(l)
    BY <1>0, <2>1, <2>2 DEF Held, Holds, JobsOf
  <2> QED BY <1>1, <1>3, <2>3, FateStays, DeliveryStutters
<1> QED BY <1>2, <1>3 DEF TakesUp

\* The update of a row whose job was enqueued takes nothing away, unless the pool has
\* written the row meanwhile.
LEMMA MarkSteps ==
  ASSUME BridgeInv, MarkRow
  PROVE  Promised!Gain \/ (Promised!Overwrite /\ closing /\ up = "starting") \/ Promised!Fault
<1> PICK r \in Jobs : r = hand
  BY DEF MarkRow, BridgeInv, TypeOK
<1>0. /\ UNCHANGED <<hearingVars, phase, runs, givenUp>> /\ hand = r /\ NoJob \notin Jobs
      /\ hand' = NoJob /\ up = "starting"
  BY BridgeAssumption DEF MarkRow, RowMarked, RowUnmarked, lifecycleVars, BridgeInv, TypeOK
<1>1. \A l \in HeardLogs : (Settled(l)' <=> Settled(l)) /\ (Ahead(l)' <=> Ahead(l))
  BY <1>0, AheadStays DEF Settled
<1>2. CASE RowUnmarked
  BY <1>1, <1>2, DeliveryFaults DEF RowUnmarked, BridgeInv
<1>3. CASE RowMarked
  <2>0. pending' = pending \ {r} /\ old' = old \ {r} /\ UNCHANGED budget
    BY <1>0, <1>3 DEF RowMarked, WritesOver
  <2>1. \A k \in Jobs \ {r} : Holds(k)' <=> Holds(k)
    BY <1>0, <2>0 DEF Holds
  <2>2. CASE hand \in pending \ old
    <3>1. closing
      BY <2>2 DEF BridgeInv, ClosingControl
    <3>2. ASSUME NEW l \in HeardLogs, Fate(l)' # Fate(l)
          PROVE  Fate(l) \in {"held"} /\ Fate(l)' \in {"ahead", "lost"}
      <4>1. Held(l)' => Held(l)
        BY <1>0, <2>0, <2>1 DEF Held, Holds, JobsOf
      <4> QED BY <1>1, <3>2, <4>1 DEF Fate
    <3>3. Promised!Moves({"held"}, {"ahead", "lost"})
      BY <3>2, DeliveryMoves
    <3> QED BY <1>0, <2>0, <3>1, <3>3 DEF Promised!Overwrite
  <2>3. CASE hand \notin pending \ old
    <3>1. Holds(r)' <=> Holds(r)
      BY <1>0, <2>0, <2>3 DEF Holds
    <3>2. ASSUME NEW l \in HeardLogs
          PROVE  Held(l)' <=> Held(l)
      BY <2>1, <3>1 DEF Held, Holds, JobsOf
    <3> QED BY <1>1, <2>0, <3>2, FateStays, DeliveryStutters
  <2> QED BY <2>2, <2>3
<1> QED BY <1>2, <1>3 DEF MarkRow

\* A log that is heard is held by its job or by the job's row, unless a fault, the
\* row that cannot be written, loses it at once.
LEMMA HearSteps ==
  ASSUME BridgeInv, NEW i \in HeardLogs, ListenerHears(i)
  PROVE  Promised!Gain \/ Promised!Fault
<1> DEFINE j == <<i, made[i] + 1>>
<1>0. \A l \in HeardLogs : Settled(l)' <=> Settled(l)
  BY DEF ListenerHears, past, Settled
<1>1. CASE Pays
  BY <1>0, <1>1, DeliveryFaults DEF BridgeInv
<1>2. CASE UNCHANGED budget /\ (Accept(j) \/ (RecordPending(j) /\ SavesPending(j)))
  <2>0. /\ phase \in [Jobs -> Phases] /\ NoJob \notin Jobs /\ hand = NoJob /\ hand' = NoJob
    BY BridgeAssumption
       DEF ListenerHears, BridgeInv, TypeOK, LifecycleTypeOK, Phases
  <2>1. j \in Jobs /\ LogOf(j) = i
    BY NextJob, JobPairs DEF ListenerHears, BridgeInv, LogOf
  <2>2. Ahead(i) /\ \A l \in HeardLogs \ {i} : Ahead(l)' <=> Ahead(l)
    BY DEF ListenerHears, Hear, Ahead
  <2>3. /\ \/ Becomes(j, "waiting") \/ (Becomes(j, "pending") /\ pending' = pending \cup {j})
        /\ pending' = pending \/ pending' = pending \cup {j}
    <3>1. /\ Becomes(j, "waiting") \/ Becomes(j, "pending") \/ Becomes(j, "lost")
          /\ \/ pending' = pending
             \/ Becomes(j, "pending") /\ pending' = pending \cup {j}
      BY Enqueued DEF ListenerHears, BridgeInv
    <3>2. CASE Accept(j) /\ UNCHANGED table
      BY <3>2 DEF Accept, table
    <3>3. CASE RecordPending(j) /\ SavesPending(j)
      <4>1. rowOf[j] = j
        <5>1. made[i] + 1 \in 1..MaxJobs /\ made[i] + 1 > made[i]
          BY NextJob DEF ListenerHears, BridgeInv
        <5> QED BY <2>1, <5>1 DEF BridgeInv, MadeControl
      <4> QED BY <3>3, <4>1 DEF RecordPending, SavesPending
    <3>4. Enqueue(j)
      BY DEF ListenerHears
    <3> QED BY <1>2, <3>2, <3>3, <3>4 DEF Enqueue, Pays, BridgeInv, TypeOK
  <2> PICK n \in Jobs : n = j
    BY <2>1
  <2> HIDE DEF j
  <2>4. Holds(n)' /\ \A k \in Jobs \ {n} : Holds(k)' <=> Holds(k)
    BY <2>0, <2>1, <2>3 DEF Becomes, Holds, Unsettled
  <2>5. Held(i)' /\ \A l \in HeardLogs \ {i} : Held(l)' <=> Held(l)
    BY <2>1, <2>4 DEF Held, Holds, JobsOf
  <2>6. ASSUME NEW l \in HeardLogs, Fate(l)' # Fate(l)
        PROVE  Fate(l) \in {"ahead", "lost"} /\ Fate(l)' \in {"ahead", "held"}
    <3>1. l = i
      BY <1>0, <2>2, <2>5, <2>6, FateStays
    <3> QED BY <1>0, <2>2, <2>5, <2>6, <3>1 DEF Fate
  <2>7. Promised!Moves({"ahead", "lost"}, {"ahead", "held"})
    BY <2>6, DeliveryMoves
  <2> QED BY <1>2, <2>7 DEF Promised!Gain
<1>3. Enqueue(j)
  BY DEF ListenerHears
<1> QED BY <1>1, <1>2, <1>3 DEF Enqueue

\* A job that goes from one place of the pool to the next, or into a row, holds its
\* log all the way.
LEMMA MoveSteps ==
  ASSUME BridgeInv, NEW j \in Jobs, JobMoves(j) \/ SavedAgain(j)
  PROVE  Promised!Gain
<1> PICK r \in Jobs : r = rowOf[j]
  BY DEF BridgeInv, TypeOK
<1>0. phase \in [Jobs -> Phases] /\ LogOf(r) = LogOf(j)
  BY DEF BridgeInv, TypeOK, LifecycleTypeOK, Phases, RowControl
<1>1. /\ UNCHANGED <<hearingVars, hand, budget, past>> /\ phase[j] \in Unsettled
      /\ \E p : Becomes(j, p)
      /\ \/ phase'[j] \in Unsettled /\ UNCHANGED <<pending, old>>
         \/ pending' = pending \cup {r} /\ old' = old \ {r}
  <2>1. CASE JobMoves(j)
    BY <1>0, <2>1 DEF JobMoves, Run, Retry, GiveUp, Accept, Becomes, Unsettled, rest, table,
                      bounds
  <2>2. CASE SavedAgain(j)
    BY <2>2 DEF SavedAgain
  <2> QED BY <2>1, <2>2
<1>2. Holds(j) /\ (Holds(j)' \/ Holds(r)')
  BY <1>0, <1>1 DEF Holds
<1>3. \A k \in Jobs \ {j, r} : Holds(k)' <=> Holds(k)
  <2>1. \A k \in Jobs \ {j} : phase'[k] = phase[k]
    BY <1>0, <1>1 DEF Becomes
  <2> QED BY <1>1, <2>1 DEF Holds
<1>4. Holds(r)' \/ (Holds(r)' <=> Holds(r)) \/ r = j
  <2>1. \A k \in Jobs \ {j} : phase'[k] = phase[k]
    BY <1>0, <1>1 DEF Becomes
  <2> QED BY <1>0, <1>1, <2>1 DEF Holds
<1>5. ASSUME NEW l \in HeardLogs
      PROVE  (Held(l)' <=> Held(l)) /\ (Settled(l)' <=> Settled(l))
  BY <1>0, <1>1, <1>2, <1>3, <1>4 DEF Held, Holds, JobsOf, Settled, past
<1> QED BY <1>1, <1>5, AheadStays, FateStays, DeliveryStutters

\* A job that succeeds, or is written off, settles the log it has held.
LEMMA SettleSteps ==
  ASSUME BridgeInv, NEW j \in Jobs, Processed(j) \/ WrittenOff(j)
  PROVE  Promised!Settle
<1>0. /\ phase \in [Jobs -> Phases] /\ runs \in [HeardLogs -> 0..Twice]
      /\ LogOf(j) \in HeardLogs /\ rowOf[j] \in Jobs /\ LogOf(rowOf[j]) = LogOf(j)
  BY JobPairs DEF BridgeInv, TypeOK, LifecycleTypeOK, Phases, RowControl
<1>1. /\ UNCHANGED <<hearingVars, hand, budget>> /\ phase[j] \in Unsettled
      /\ \E p : Becomes(j, p)
      /\ \/ UNCHANGED <<pending, old>>
         \/ pending' = pending \ {rowOf[j]} /\ old' = old \ {rowOf[j]}
  BY DEF Processed, WrittenOff, Unsettled
<1>2. \A k \in Jobs : LogOf(k) # LogOf(j) => (Holds(k)' <=> Holds(k))
  <2>1. \A k \in Jobs \ {j} : phase'[k] = phase[k]
    BY <1>0, <1>1 DEF Becomes
  <2> QED BY <1>0, <1>1, <2>1 DEF Holds
<1>3. Held(LogOf(j))
  BY <1>1 DEF Held, JobsOf
<1>4. Settled(LogOf(j))'
  <2>1. CASE Processed(j)
    <3>1. runs[LogOf(j)] \in 0..2
      BY <1>0 DEF Twice
    <3>2. runs'[LogOf(j)] = 1 \/ runs'[LogOf(j)] = 2
      BY <1>0, <2>1, <3>1 DEF Processed, Twice
    <3> QED BY <3>2 DEF Settled
  <2>2. CASE WrittenOff(j)
    BY <2>2 DEF WrittenOff, Settled
  <2> QED BY <2>1, <2>2
<1>5. ASSUME NEW l \in HeardLogs, l # LogOf(j)
      PROVE  Fate(l)' = Fate(l)
  <2>1. runs'[l] = runs[l] /\ (l \in givenUp' <=> l \in givenUp)
    BY <1>0, <1>5 DEF Processed, WrittenOff
  <2>2. Settled(l)' <=> Settled(l)
    BY <2>1 DEF Settled
  <2>3. Held(l)' <=> Held(l)
    BY <1>2, <1>5 DEF Held, Holds, JobsOf
  <2>4. Ahead(l)' <=> Ahead(l)
    BY <1>1, AheadStays
  <2> QED BY <2>2, <2>3, <2>4, FateStays
<1>6. \A l \in HeardLogs : Fate(l)' # Fate(l) => Fate(l) \in {"held"} /\ Fate(l)' \in {"settled"}
  <2>1. Fate(LogOf(j))' = "settled"
    BY <1>4 DEF Fate
  <2>2. Fate(LogOf(j)) \in {"settled", "held"}
    BY <1>3 DEF Fate
  <2> QED BY <1>5, <2>1, <2>2
<1>7. Promised!Moves({"held"}, {"settled"})
  BY <1>6, DeliveryMoves
<1> QED BY <1>1, <1>7 DEF Promised!Settle

\* When a process has stopped the pool has no job, so the rows hold what is held, and
\* the row in hand is due again; and what the listener has not come to is ahead of the
\* saved block.
LEMMA ExitSteps ==
  ASSUME BridgeInv, Exit
  PROVE  Promised!Gain
<1>0. /\ End /\ UNCHANGED budget /\ (\A k \in Jobs : phase[k] \notin Unsettled)
      /\ NoJob \notin Jobs
  BY BridgeAssumption DEF Exit, BridgeInv, ClosingControl, TypeOK
<1>1. ASSUME NEW l \in HeardLogs
      PROVE  (Held(l) => Held(l)') /\ (Settled(l)' <=> Settled(l))
  <2>1. UNCHANGED <<pending, runs, givenUp>> /\ hand' = NoJob
    BY <1>0 DEF End, table
  <2> QED BY <1>0, <2>1 DEF Held, JobsOf, Settled
<1>2. ASSUME NEW l \in HeardLogs, Ahead(l)
      PROVE  Ahead(l)'
  <2>1. current' = NoBlock /\ saved' = saved
    BY <1>0 DEF End, Restart
  <2>2. CASE current = NoBlock
    BY <1>2, <2>1, <2>2 DEF Ahead
  <2>3. CASE current # NoBlock
    <3>1. base <= Height[l] /\ l \notin heard
      BY <1>2, <2>3 DEF Ahead
    <3>2. ~ (Height[l] < current)
      BY <2>3, <3>1 DEF BridgeInv, HearingInv, NothingSkipped
    <3>3. saved = NoBlock \/ (saved \in Nat /\ saved <= current)
      BY <2>3, HearingTypes DEF BridgeInv, HearingInv, SavedBehind
    <3>4. current \in Nat /\ Height[l] \in Nat
      BY <2>3, HearingTypes, HearingAssumption DEF BridgeInv, HearingInv
    <3>5. saved = NoBlock \/ saved <= Height[l]
      BY <3>2, <3>3, <3>4
    <3> QED BY <2>1, <3>5 DEF Ahead
  <2> QED BY <2>2, <2>3
<1>3. \A l \in HeardLogs :
        Fate(l)' # Fate(l) => Fate(l) \in {"ahead", "lost"} /\ Fate(l)' \in {"ahead", "held"}
  BY <1>1, <1>2 DEF Fate
<1>4. Promised!Moves({"ahead", "lost"}, {"ahead", "held"})
  BY <1>3, DeliveryMoves
<1> QED BY <1>0, <1>4 DEF Promised!Gain

\* Every step is one of Delivery.
LEMMA DeliverySteps ==
  ASSUME BridgeInv, [Next]_bridgeVars
  PROVE  [Promised!DeliveryNext]_(Promised!deliveryVars)
<1>0. (closing' /\ up' = "starting") \in BOOLEAN
  OBVIOUS
<1> SUFFICES \/ Promised!Gain \/ Promised!Settle \/ Promised!Fault
             \/ Promised!Overwrite /\ closing /\ up = "starting"
  BY <1>0 DEF Promised!DeliveryNext
<1>1. ASSUME NEW l \in HeardLogs, ListenerRepeats(l)
      PROVE  Promised!Fault
  BY <1>1, DeliveryFaults DEF ListenerRepeats, BridgeInv, Settled
<1>2. ASSUME NEW j \in Jobs, JobLost(j)
      PROVE  Promised!Fault
  BY <1>2, DeliveryFaults DEF JobLost, BridgeInv, Settled, past
<1>3. ASSUME NEW j \in Jobs, PoolStep(j)
      PROVE  Promised!Gain \/ Promised!Settle
  <2>1. JobMoves(j) \/ Processed(j) \/ WrittenOff(j) \/ SavedAgain(j)
    <3>1. CASE JobSucceeds(j)
      <4>1. Succeed(j) /\ Becomes(j, "done")
        BY <3>1, SucceedTyped DEF JobSucceeds, BridgeInv, TypeOK
      <4> QED BY <3>1, <4>1 DEF JobSucceeds, Succeed, Processed, table, bounds
    <3>2. CASE JobSaved(j)
      BY <3>2 DEF JobSaved, RecordFailed, WritesOver, WrittenOff, RecordPending, SavesPending,
                  SavedAgain, Unsettled, bounds, past
    <3> QED BY <1>3, <3>1, <3>2 DEF PoolStep
  <2> QED BY <2>1, MoveSteps, SettleSteps
<1>4. CASE Crash
  BY <1>4, DeliveryFaults DEF Crash, End, BridgeInv, Settled
<1> QED BY <1>1, <1>2, <1>3, <1>4, StutterSteps, TakeUpSteps, MarkSteps, HearSteps, ExitSteps
        DEF Next, StartStep, ListenerStep

\* At first every log is ahead of the listener.
LEMMA DeliveryStarts == Init => Promised!DeliveryInit
<1> SUFFICES ASSUME Init
             PROVE  Promised!DeliveryInit
  OBVIOUS
<1>1. ASSUME NEW l \in HeardLogs
      PROVE  Fate(l) = "ahead"
  <2>1. ~ (runs[l] > 0) /\ givenUp = {}
    BY DEF Init
  <2>2. \A j \in Jobs : phase[j] \notin Unsettled /\ j \notin pending
    BY DEF Init, Unsettled
  <2>3. ~Settled(l) /\ ~Held(l) /\ Ahead(l)
    BY <2>1, <2>2 DEF Init, HearingInit, Settled, Held, Ahead, JobsOf
  <2> QED BY <2>3 DEF Fate
<1>2. [l \in HeardLogs |-> Fate(l)] = [l \in HeardLogs |-> "ahead"]
  BY <1>1
<1>3. (closing /\ up = "starting") = FALSE
  BY DEF Init
<1> QED BY <1>2, <1>3 DEF Init, Promised!DeliveryInit

\* From end to end, for any logs, chain and tries, whatever fails, closes, crashes, exits
\* and is started again: a log that is not settled is ahead of the listener or held by a
\* job or a row, and only a fault takes it away, or a start that marks the row which the
\* closing pool has written (controller.go:230-232, 489, pool.go:300).
THEOREM BridgeImplementsDelivery == Spec => ImplementsDelivery
<1>1. Spec => Promised!DeliveryInit /\ [][Promised!DeliveryNext]_(Promised!deliveryVars)
  BY DeliveryStarts, DeliverySteps, Invariance, PTL DEF Spec
<1> QED BY <1>1 DEF ImplementsDelivery, Promised!DeliverySpec
=============================================================================
