---------------------------- MODULE PendingProofs ----------------------------
(***************************************************************************)
(* The start of a controller for any rows, batch size and failures: the    *)
(* inductive invariant of PendingJobs and what follows from it.            *)
(***************************************************************************)
EXTENDS PendingJobs, FiniteSetTheorems, TLAPS

CountsOK(b, c) ==
  /\ b \in {"closed", "open", "halfOpen"}
  /\ c \in [requests : Nat, failures : Nat, consecutive : Nat]
  /\ c.consecutive <= c.failures /\ c.failures <= c.requests

\* Types, the sizes of batch and counts among them
Typed ==
  /\ status \in [Jobs -> {"pending", "processed", "failed"}]
  /\ recent \subseteq Jobs /\ method \subseteq WithMethod
  /\ pc \in {"search", "rows", "update", "listeners", "started"}
  /\ batch \subseteq Jobs /\ Cardinality(batch) <= Limit /\ copied \subseteq WithMethod
  /\ job \in Jobs \cup {NoJob} /\ (job = NoJob <=> pc # "update")
  /\ CountsOK(breaker, counts)
  /\ ctxDone \in BOOLEAN /\ budget \in 0..Budget
  /\ inPool \in [Jobs -> 0..Twice] /\ ran \in [Jobs -> 0..Twice]
  /\ disabled \subseteq Disabled /\ malformed \subseteq Malformed
  /\ writtenOff \subseteq Jobs /\ unmarked \subseteq Jobs
  /\ overwritten \subseteq Jobs /\ forgotten \subseteq Jobs

\* The pool has j, had it, has written it off or dropped it once in all.
AtMostOnceTaken(j) ==
  /\ inPool[j] <= 1 /\ ran[j] <= 1
  /\ inPool[j] > 0 => ran[j] = 0
  /\ inPool[j] > 0 \/ ran[j] > 0 => j \notin writtenOff /\ j \notin forgotten

\* A row of the batch is still to be taken up: no other row of its job is in hand,
\* and whatever marks it, writes it off or saves it comes after.
OnceFor(j) ==
  /\ AtMostOnceTaken(j)
  /\ status[j] = "pending" /\ j # job => ~Taken(j) /\ j \notin forgotten
  /\ j \in batch => status[j] = "pending" /\ j # job

OnceControl == \A j \in Jobs \ unmarked : OnceFor(j)

\* What a row was read with is what it has, or more.
CopiesControl == batch \cap method \subseteq copied

\* The job whose update is due was taken or lost, or came back from a closing pool.
UpdateControl ==
  pc = "update" =>
    \/ Taken(job) \/ job \in forgotten
    \/ ctxDone /\ status[job] = "pending" /\ job \in recent

\* A callback's row that was failed as invalid
FailedInvalid(j) == status[j] = "failed" /\ j \in Callbacks \ method

PendingInv ==
  Typed /\ OnceControl /\ CopiesControl /\ UpdateControl /\ LostOnlyAsNamed
-----------------------------------------------------------------------------
(* Batches and counts *)

\* A batch of SearchJobs has no more rows than its limit.
LEMMA BatchFits ==
  ASSUME NEW B \in kSubset(Min({Cardinality(Found), Limit}), Found)
  PROVE  B \subseteq Found /\ Cardinality(B) <= Limit
<1>1. B \subseteq Found /\ Cardinality(B) = Min({Cardinality(Found), Limit})
  BY DEF kSubset
<1>2. Cardinality(Found) \in Nat /\ Limit \in Nat
  BY FS_Subset, FS_CardinalityType, PendingAssumption DEF Found
<1> DEFINE n == Cardinality(Found)
<1>3. \E x \in {n, Limit} : \A y \in {n, Limit} : x =< y
  <2>1. CASE n =< Limit
    BY <2>1, <1>2
  <2>2. CASE ~ (n =< Limit)
    BY <2>2, <1>2
  <2> QED BY <2>1, <2>2
<1>4. \A y \in {n, Limit} : Min({n, Limit}) =< y
  BY <1>3, Zenon DEF Min
<1>5. Min({n, Limit}) =< Limit
  BY <1>4, Zenon
<1> QED BY <1>1, <1>5

\* It gets no larger by a row that is taken from it.
LEMMA BatchShrinks ==
  ASSUME Typed, NEW j
  PROVE  Cardinality(batch \ {j}) <= Limit
<1>1. IsFiniteSet(batch)
  BY FS_Subset, PendingAssumption DEF Typed
<1>2. Cardinality(batch \ {j}) \in Nat /\ Cardinality(batch) \in Nat /\ Limit \in Nat
  BY <1>1, FS_RemoveElement, FS_CardinalityType, PendingAssumption
<1> QED BY <1>1, <1>2, FS_Subset DEF Typed

\* A breaker that changes its state starts to count anew,
LEMMA NoCountsOK == \A b \in {"closed", "open", "halfOpen"} : CountsOK(b, NoCounts)
BY DEF CountsOK, NoCounts

\* and no count passes another.
LEMMA SucceedsOK ==
  ASSUME Typed, Succeeds
  PROVE  CountsOK(breaker', counts')
<1>1. CASE breaker = "halfOpen"
  BY <1>1, NoCountsOK DEF Succeeds
<1>2. CASE breaker # "halfOpen"
  BY <1>2 DEF Succeeds, Typed, CountsOK
<1> QED BY <1>1, <1>2

\* The same for a failure
LEMMA TripsOK ==
  ASSUME Typed, Trips
  PROVE  CountsOK(breaker', counts')
<1> DEFINE c == [requests |-> counts.requests + 1, failures |-> counts.failures + 1,
                 consecutive |-> counts.consecutive + 1]
<1>1. CASE breaker = "halfOpen" \/ ReadyToTrip(c)
  BY <1>1, NoCountsOK DEF Trips
<1>2. CASE ~ (breaker = "halfOpen" \/ ReadyToTrip(c))
  <2>1. CountsOK(breaker, c)
    BY DEF Typed, CountsOK
  <2> QED BY <1>2, <2>1 DEF Trips
<1> QED BY <1>1, <1>2
-----------------------------------------------------------------------------
(* Types *)

\* All rows are there at the start.
LEMMA InitTyped == Init => Typed
<1> SUFFICES ASSUME Init
             PROVE  Typed
  OBVIOUS
<1>1. Cardinality(batch) <= Limit
  <2>1. Cardinality(batch) = 0
    BY FS_EmptySet DEF Init
  <2> QED BY <2>1, PendingAssumption
<1>2. CountsOK(breaker, counts)
  BY NoCountsOK DEF Init
<1>3. budget \in 0..Budget
  BY PendingAssumption DEF Init
<1>4. /\ status \in [Jobs -> {"pending", "processed", "failed"}]
      /\ inPool \in [Jobs -> 0..Twice] /\ ran \in [Jobs -> 0..Twice]
  BY DEF Init, Twice
<1>5. job \in Jobs \cup {NoJob} /\ (job = NoJob <=> pc # "update")
  BY DEF Init
<1>6. /\ recent \subseteq Jobs /\ method \subseteq WithMethod
      /\ batch \subseteq Jobs /\ copied \subseteq WithMethod
      /\ disabled \subseteq Disabled /\ malformed \subseteq Malformed
      /\ writtenOff \subseteq Jobs /\ unmarked \subseteq Jobs
      /\ overwritten \subseteq Jobs /\ forgotten \subseteq Jobs
  BY DEF Init
<1> QED BY <1>1, <1>2, <1>3, <1>4, <1>5, <1>6 DEF Init, Typed

\* What saving a row and updating it leave within the table
LEMMA RowsTyped ==
  ASSUME Typed, NEW j \in Jobs, NEW s \in {"pending", "processed", "failed"},
         Saves(j, s) \/ Updates(j, s) \/ UNCHANGED rows
  PROVE  /\ status' \in [Jobs -> {"pending", "processed", "failed"}]
         /\ recent' \subseteq Jobs /\ method' \subseteq WithMethod
<1>1. CASE Saves(j, s)
  BY <1>1 DEF Saves, Typed
<1>2. CASE Updates(j, s)
  BY <1>2 DEF Updates, Typed
<1>3. CASE UNCHANGED rows
  BY <1>3 DEF rows, Typed
<1> QED BY <1>1, <1>2, <1>3

\* The same for a row the store may refuse
LEMMA SavesTyped ==
  ASSUME Typed, NEW j \in Jobs, NEW s \in {"pending", "processed", "failed"}, SavesOrForgets(j, s)
  PROVE  /\ status' \in [Jobs -> {"pending", "processed", "failed"}]
         /\ recent' \subseteq Jobs /\ method' \subseteq WithMethod
         /\ budget' \in 0..Budget /\ forgotten' \subseteq Jobs
<1>1. /\ status' \in [Jobs -> {"pending", "processed", "failed"}]
      /\ recent' \subseteq Jobs /\ method' \subseteq WithMethod
  BY RowsTyped DEF SavesOrForgets
<1>2. budget' \in 0..Budget
  BY PendingAssumption DEF Typed, Fails, Answers, SavesOrForgets
<1> QED BY <1>1, <1>2 DEF SavesOrForgets, Typed

\* A failure is within the budget.
LEMMA FailsTyped ==
  ASSUME Typed, NEW kind, Fails(kind) \/ Answers
  PROVE  budget' \in 0..Budget
BY PendingAssumption DEF Typed, Fails, Answers

\* What the pool takes from a row's jobs it had.
LEMMA LeavesTyped ==
  ASSUME Typed, NEW j \in Jobs, Leaves(j)
  PROVE  inPool' \in [Jobs -> 0..Twice]
<1>1. inPool[j] \in 0..Twice /\ inPool[j] > 0
  BY DEF Typed, Leaves
<1>2. inPool[j] - 1 \in 0..Twice
  BY <1>1 DEF Twice
<1> QED BY <1>2 DEF Typed, Leaves

\* Steps of Start
LEMMA StartTyped ==
  ASSUME Typed, Start
  PROVE  Typed'
<1> USE DEF circuit, pool, marks, given
<1>1. CASE StopPending \/ StartListeners
  BY <1>1 DEF StopPending, StartListeners, Typed, rows
<1>2. CASE SearchJobs
  <2>1. batch' \subseteq Jobs /\ Cardinality(batch') <= Limit
    BY <1>2, BatchFits DEF SearchJobs, Found
  <2>2. copied' \subseteq WithMethod
    BY <1>2 DEF SearchJobs, Typed
  <2> QED BY <1>2, <2>1, <2>2 DEF SearchJobs, Typed, rows
<1>3. CASE NoMoreJobs
  <2>1. budget' \in 0..Budget
    BY <1>3, FailsTyped DEF NoMoreJobs
  <2> QED BY <1>3, <2>1 DEF NoMoreJobs, Typed, rows
<1>4. CASE SkipJob
  <2>1. batch' \subseteq Jobs /\ Cardinality(batch') <= Limit
    BY <1>4, BatchShrinks DEF SkipJob, Typed
  <2> QED BY <1>4, <2>1 DEF SkipJob, Typed, rows
<1>5. CASE FailInvalidJob
  <2> PICK j \in batch \ disabled :
        /\ Invalid(j) /\ batch' = batch \ {j}
        /\ \/ Updates(j, "failed") /\ Answers
           \/ UNCHANGED rows /\ Fails("update")
    BY <1>5 DEF FailInvalidJob
  <2>1. batch' \subseteq Jobs /\ Cardinality(batch') <= Limit
    BY BatchShrinks DEF Typed
  <2>2. /\ status' \in [Jobs -> {"pending", "processed", "failed"}]
        /\ recent' \subseteq Jobs /\ method' \subseteq WithMethod
    BY RowsTyped DEF Typed
  <2>3. budget' \in 0..Budget
    BY FailsTyped
  <2> QED BY <1>5, <2>1, <2>2, <2>3 DEF FailInvalidJob, Typed
<1>6. CASE EnqueueJob
  <2> PICK j \in Valid \ malformed :
        /\ batch' = batch \ {j} /\ job' = j
        /\ \/ /\ inPool' = [inPool EXCEPT ![j] = IF @ < Twice THEN @ + 1 ELSE @]
              /\ UNCHANGED <<rows, budget, forgotten>>
           \/ ctxDone /\ SavesOrForgets(j, "pending") /\ UNCHANGED inPool
    BY <1>6 DEF EnqueueJob
  <2>0. j \in Jobs /\ j # NoJob
    BY PendingAssumption DEF Valid, Typed
  <2>1. batch' \subseteq Jobs /\ Cardinality(batch') <= Limit
    BY BatchShrinks DEF Typed
  <2>2. /\ status' \in [Jobs -> {"pending", "processed", "failed"}]
        /\ recent' \subseteq Jobs /\ method' \subseteq WithMethod
        /\ budget' \in 0..Budget /\ forgotten' \subseteq Jobs
    BY <2>0, SavesTyped DEF Typed, rows
  <2>3. inPool' \in [Jobs -> 0..Twice]
    BY DEF Typed, Twice
  <2>4. CountsOK(breaker', counts')
    BY <1>6, SucceedsOK DEF EnqueueJob
  <2> QED BY <1>6, <2>0, <2>1, <2>2, <2>3, <2>4 DEF EnqueueJob, Typed
<1>7. CASE JobFails
  <2>1. batch' \subseteq Jobs /\ Cardinality(batch') <= Limit
    BY <1>7, BatchShrinks DEF JobFails, Valid, Typed
  <2>2. budget' \in 0..Budget
    BY <1>7, FailsTyped DEF JobFails, NewJobFails
  <2>3. CountsOK(breaker', counts')
    BY <1>7, TripsOK DEF JobFails
  <2> QED BY <1>7, <2>1, <2>2, <2>3 DEF JobFails, Typed, rows
<1>8. CASE BreakerOpen
  <2>1. batch' \subseteq Jobs /\ Cardinality(batch') <= Limit
    <3>1. batch' = {} /\ Cardinality({}) = 0
      BY <1>8, FS_EmptySet DEF BreakerOpen
    <3> QED BY <3>1, PendingAssumption
  <2> QED BY <1>8, <2>1 DEF BreakerOpen, Typed, rows
<1>9. CASE MarkProcessed
  <2>0. job \in Jobs
    BY <1>9 DEF MarkProcessed, Typed
  <2>1. /\ status' \in [Jobs -> {"pending", "processed", "failed"}]
        /\ recent' \subseteq Jobs /\ method' \subseteq WithMethod
    BY <1>9, <2>0, RowsTyped DEF MarkProcessed
  <2>2. budget' \in 0..Budget
    BY <1>9, FailsTyped DEF MarkProcessed
  <2>3. unmarked' \subseteq Jobs /\ overwritten' \subseteq Jobs
    BY <1>9, <2>0 DEF MarkProcessed, Typed
  <2> QED BY <1>9, <2>1, <2>2, <2>3, PendingAssumption DEF MarkProcessed, Typed
<1>10. CASE BatchDone
  BY <1>10 DEF BatchDone, Typed, rows
<1> QED BY <1>1, <1>2, <1>3, <1>4, <1>5, <1>6, <1>7, <1>8, <1>9, <1>10 DEF Start

\* The other steps
LEMMA TypedKept == Typed /\ [Next]_vars => Typed'
<1> SUFFICES ASSUME Typed, [Next]_vars
             PROVE  Typed'
  OBVIOUS
<1> USE DEF circuit, pool, marks, given
<1>1. CASE Timeout
  BY <1>1, NoCountsOK DEF Timeout, Typed, rows
<1>2. CASE Interval
  BY <1>2, NoCountsOK DEF Interval, Typed, rows
<1>3. ASSUME NEW j \in Jobs, PoolRuns(j)
      PROVE  Typed'
  <2>1. inPool' \in [Jobs -> 0..Twice]
    BY <1>3, LeavesTyped DEF PoolRuns
  <2>2. ran' \in [Jobs -> 0..Twice]
    BY <1>3 DEF PoolRuns, Typed, Twice
  <2> QED BY <1>3, <2>1, <2>2 DEF PoolRuns, Typed, rows
<1>4. ASSUME NEW j \in Jobs, PoolFails(j) \/ PoolSaves(j)
      PROVE  Typed'
  <2>1. inPool' \in [Jobs -> 0..Twice]
    BY <1>4, LeavesTyped DEF PoolFails, PoolSaves
  <2>2. /\ status' \in [Jobs -> {"pending", "processed", "failed"}]
        /\ recent' \subseteq Jobs /\ method' \subseteq WithMethod
        /\ budget' \in 0..Budget /\ forgotten' \subseteq Jobs
    BY <1>4, SavesTyped DEF PoolFails, PoolSaves
  <2>3. writtenOff' \subseteq Jobs
    BY <1>4 DEF PoolFails, PoolSaves, Typed
  <2> QED BY <1>4, <2>1, <2>2, <2>3 DEF PoolFails, PoolSaves, Typed
<1>8. ASSUME NEW j \in Jobs, PoolDrops(j)
      PROVE  Typed'
  <2>1. inPool' \in [Jobs -> 0..Twice]
    BY <1>8, LeavesTyped DEF PoolDrops
  <2>2. budget' \in 0..Budget
    BY <1>8, FailsTyped DEF PoolDrops
  <2> QED BY <1>8, <2>1, <2>2 DEF PoolDrops, Typed, rows
<1>5. CASE Cancel
  BY <1>5 DEF Cancel, Typed, rows
<1>6. CASE Restart
  <2>1. batch' \subseteq Jobs /\ Cardinality(batch') <= Limit
    <3>1. batch' = {} /\ Cardinality({}) = 0
      BY <1>6, FS_EmptySet DEF Restart
    <3> QED BY <3>1, PendingAssumption
  <2>2. CountsOK(breaker', counts')
    BY <1>6, NoCountsOK DEF Restart
  <2> QED BY <1>6, <2>1, <2>2 DEF Restart, Typed
<1>7. CASE UNCHANGED vars
  BY <1>7 DEF vars, Typed, rows
<1> QED BY <1>1, <1>2, <1>3, <1>4, <1>5, <1>6, <1>7, <1>8, StartTyped DEF Next, PoolStep
-----------------------------------------------------------------------------
(* Steps *)

\* A step that changes neither a row nor what the pool has of it: rows may leave
\* the batch.
Quiet ==
  /\ UNCHANGED <<status, recent, method, job, inPool, ran, writtenOff, unmarked, overwritten,
                 forgotten>>
  /\ batch' \subseteq batch /\ (copied' = copied \/ batch' = {})
  /\ pc' = "update" <=> pc = "update"
  /\ ctxDone => ctxDone'

\* The other steps, by what they do to rows and jobs
FailsInvalid(j) ==
  /\ pc = "rows" /\ pc' = "rows" /\ j \in batch /\ j \in Callbacks \ copied
  /\ batch' = batch \ {j}
  /\ Updates(j, "failed") \/ UNCHANGED rows
  /\ UNCHANGED <<copied, job, inPool, ran, writtenOff, unmarked, overwritten, forgotten>>

\* A failed job is written off, and a saved one comes back from a closing pool.
Returns(j) ==
  /\ Leaves(j)
  /\ \/ Saves(j, "failed") /\ writtenOff' = writtenOff \cup {j}
     \/ ctxDone /\ Saves(j, "pending") /\ UNCHANGED writtenOff
  /\ UNCHANGED <<pc, batch, copied, job, ctxDone, ran, unmarked, overwritten, forgotten>>

\* A job that is dropped, or whose row is refused, leaves no trace but in the history.
Drops(j) ==
  /\ Leaves(j)
  /\ writtenOff \subseteq writtenOff' /\ writtenOff' \subseteq writtenOff \cup {j}
  /\ forgotten' = forgotten \cup {j}
  /\ UNCHANGED <<rows, pc, batch, copied, job, ctxDone, ran, unmarked, overwritten>>

\* Every step is one of these.
LEMMA Steps ==
  ASSUME Typed, [Next]_vars
  PROVE  \/ Quiet \/ SearchJobs \/ EnqueueJob \/ MarkProcessed \/ Restart
         \/ \E j \in Jobs : FailsInvalid(j) \/ PoolRuns(j) \/ Returns(j) \/ Drops(j)
<1> USE DEF rows, pool, marks
<1>1. CASE StopPending
  BY <1>1 DEF StopPending, Quiet
<1>2. CASE NoMoreJobs
  BY <1>2 DEF NoMoreJobs, Quiet
<1>3. CASE SkipJob
  BY <1>3 DEF SkipJob, Quiet
<1>4. CASE FailInvalidJob
  <2> PICK j \in batch \ disabled :
        /\ Invalid(j) /\ batch' = batch \ {j}
        /\ Updates(j, "failed") \/ UNCHANGED rows
    BY <1>4 DEF FailInvalidJob
  <2>1. FailsInvalid(j)
    BY <1>4 DEF FailInvalidJob, FailsInvalid, Invalid
  <2> QED BY <2>1 DEF Typed
<1>5. CASE JobFails
  BY <1>5 DEF JobFails, Quiet
<1>6. CASE BreakerOpen
  BY <1>6 DEF BreakerOpen, Quiet
<1>7. CASE BatchDone
  BY <1>7 DEF BatchDone, Quiet
<1>8. CASE StartListeners
  BY <1>8 DEF StartListeners, Quiet
<1>9. CASE Timeout \/ Interval
  BY <1>9 DEF Timeout, Interval, Quiet
<1>10. CASE Cancel
  BY <1>10 DEF Cancel, Quiet
<1>11. CASE UNCHANGED vars
  BY <1>11 DEF vars, Quiet
<1>12. ASSUME NEW j \in Jobs, PoolFails(j) \/ PoolSaves(j)
       PROVE  Returns(j) \/ Drops(j)
  BY <1>12 DEF PoolFails, PoolSaves, SavesOrForgets, Returns, Drops
<1>13. ASSUME NEW j \in Jobs, PoolDrops(j)
       PROVE  Drops(j)
  BY <1>13 DEF PoolDrops, Drops
<1> QED BY <1>1, <1>2, <1>3, <1>4, <1>5, <1>6, <1>7, <1>8, <1>9, <1>10, <1>11, <1>12, <1>13
        DEF Next, Start, PoolStep
-----------------------------------------------------------------------------
(* Once, and never lost *)

\* What a step that takes a job from the pool leaves of it, if the pool had it once
LEMMA LeavesOnce ==
  ASSUME Typed, NEW j \in Jobs, Leaves(j), AtMostOnceTaken(j)
  PROVE  /\ inPool'[j] = 0 /\ \A i \in Jobs \ {j} : inPool'[i] = inPool[i]
         /\ ran[j] = 0 /\ j \notin writtenOff /\ j \notin forgotten
<1>1. inPool[j] = 1
  BY DEF Typed, Leaves, AtMostOnceTaken, Twice
<1>2. inPool' = [inPool EXCEPT ![j] = 0]
  BY <1>1 DEF Leaves
<1> QED BY <1>1, <1>2 DEF Typed, AtMostOnceTaken

\* A row is taken up once, however it leaves the batch and comes back.
LEMMA OnceKept ==
  ASSUME Typed, Typed', OnceControl, [Next]_vars
  PROVE  OnceControl'
<1> SUFFICES ASSUME NEW i \in Jobs \ unmarked'
             PROVE  OnceFor(i)'
  BY DEF OnceControl
<1>1. CASE Quiet
  BY <1>1 DEF Quiet, OnceControl, OnceFor, AtMostOnceTaken, Taken
<1>2. CASE SearchJobs
  <2>1. i \in batch' => status[i] = "pending" /\ i # job
    BY <1>2, BatchFits, PendingAssumption DEF SearchJobs, Found, Typed
  <2> QED BY <1>2, <2>1 DEF SearchJobs, rows, pool, marks, OnceControl, OnceFor, AtMostOnceTaken, Taken
<1>3. CASE EnqueueJob
  <2> PICK j \in Valid :
        /\ batch' = batch \ {j} /\ job' = j
        /\ \/ /\ inPool' = [inPool EXCEPT ![j] = IF @ < Twice THEN @ + 1 ELSE @]
              /\ UNCHANGED <<rows, budget, forgotten>>
           \/ ctxDone /\ SavesOrForgets(j, "pending") /\ UNCHANGED inPool
    BY <1>3 DEF EnqueueJob
  <2>0. j \in batch /\ j \in Jobs /\ job = NoJob /\ job # i /\ UNCHANGED <<ran, writtenOff, unmarked>>
    BY <1>3, PendingAssumption DEF EnqueueJob, Valid, Typed
  <2>1. OnceFor(i)
    BY <2>0 DEF OnceControl
  <2>2. CASE i = j
    <3>1. inPool[i] = 0 /\ ran[i] = 0 /\ i \notin writtenOff /\ i \notin forgotten /\ i # job
      BY <2>0, <2>1, <2>2 DEF OnceFor, Taken, Typed, Twice
    <3>2. \/ inPool'[i] = 0
          \/ inPool'[i] = 1 /\ i \notin forgotten'
      BY <2>2, <3>1 DEF Typed, Twice
    <3> QED BY <2>0, <2>2, <3>1, <3>2 DEF OnceFor, AtMostOnceTaken, Taken
  <2>3. CASE i # j
    <3>1. inPool'[i] = inPool[i] /\ status'[i] = status[i] /\ (i \in forgotten' <=> i \in forgotten)
      BY <2>3 DEF Typed, SavesOrForgets, Saves, rows
    <3> QED BY <2>0, <2>1, <2>3, <3>1 DEF OnceFor, AtMostOnceTaken, Taken
  <2> QED BY <2>2, <2>3
<1>4. CASE MarkProcessed
  <2>1. UNCHANGED <<batch, inPool, ran, writtenOff, forgotten>> /\ job \in Jobs /\ job' = NoJob /\ i # NoJob
    BY <1>4, PendingAssumption DEF MarkProcessed, pool, Typed
  <2>2. i \notin unmarked
    BY <1>4 DEF MarkProcessed
  <2>3. OnceFor(i)
    BY <2>2 DEF OnceControl
  <2>4. CASE i = job
    <3>1. status'[i] = "processed"
      BY <1>4, <2>1, <2>4 DEF MarkProcessed, Updates, Typed
    <3> QED BY <2>1, <2>3, <2>4, <3>1 DEF OnceFor, AtMostOnceTaken, Taken
  <2>5. CASE i # job
    <3>1. status'[i] = status[i]
      BY <1>4, <2>1, <2>5 DEF MarkProcessed, Updates, rows, Typed
    <3> QED BY <2>1, <2>3, <2>5, <3>1 DEF OnceFor, AtMostOnceTaken, Taken
  <2> QED BY <2>4, <2>5
<1>5. CASE Restart
  BY <1>5 DEF Restart, pool, marks, Typed, OnceControl, OnceFor, AtMostOnceTaken, Taken
<1>6. ASSUME NEW j \in Jobs, FailsInvalid(j)
      PROVE  OnceFor(i)'
  <2>1. OnceFor(i) /\ i # NoJob
    BY <1>6, PendingAssumption DEF FailsInvalid, OnceControl
  <2>2. CASE i = j
    <3>1. i \notin batch' /\ (status[i] = "pending" /\ i # job)
      BY <1>6, <2>1, <2>2 DEF FailsInvalid, OnceFor
    <3> QED BY <1>6, <2>1, <3>1 DEF FailsInvalid, OnceFor, AtMostOnceTaken, Taken
  <2>3. CASE i # j
    <3>1. status'[i] = status[i]
      BY <1>6, <2>3 DEF FailsInvalid, Updates, rows, Typed
    <3> QED BY <1>6, <2>1, <3>1 DEF FailsInvalid, OnceFor, AtMostOnceTaken, Taken
  <2> QED BY <2>2, <2>3
<1>7. ASSUME NEW j \in Jobs, PoolRuns(j)
      PROVE  OnceFor(i)'
  <2>0. UNCHANGED <<status, batch, job, writtenOff, unmarked, forgotten>> /\ Leaves(j)
    BY <1>7 DEF PoolRuns, rows, marks
  <2>1. OnceFor(i)
    BY <2>0 DEF OnceControl
  <2>2. CASE i = j
    <3>1. inPool'[i] = 0 /\ ran[i] = 0 /\ i \notin writtenOff /\ i \notin forgotten
      BY <2>0, <2>1, <2>2, LeavesOnce DEF OnceFor
    <3>2. ran'[i] = 1
      BY <1>7, <2>2, <3>1 DEF PoolRuns, Typed, Twice
    <3>3. inPool[i] > 0
      BY <2>0, <2>2 DEF Leaves
    <3> QED BY <2>0, <2>1, <3>1, <3>2, <3>3 DEF OnceFor, AtMostOnceTaken, Taken
  <2>3. CASE i # j
    <3>1. inPool'[i] = inPool[i] /\ ran'[i] = ran[i]
      BY <1>7, <2>3 DEF PoolRuns, Leaves, Typed
    <3> QED BY <2>0, <2>1, <3>1 DEF OnceFor, AtMostOnceTaken, Taken
  <2> QED BY <2>2, <2>3
<1>8. ASSUME NEW j \in Jobs, Returns(j)
      PROVE  OnceFor(i)'
  <2>0. UNCHANGED <<batch, job, ran, unmarked, forgotten>> /\ Leaves(j)
    BY <1>8 DEF Returns
  <2>1. OnceFor(i)
    BY <2>0 DEF OnceControl
  <2>2. CASE i = j
    <3>1. inPool'[i] = 0 /\ ran[i] = 0 /\ i \notin writtenOff /\ i \notin forgotten
      BY <2>0, <2>1, <2>2, LeavesOnce DEF OnceFor
    <3>2. inPool[i] > 0
      BY <2>0, <2>2 DEF Leaves
    <3>3. i \notin batch \/ i = job
      BY <2>1, <3>2 DEF OnceFor, Taken
    <3>4. i \notin batch
      BY <2>1, <3>3 DEF OnceFor
    <3>5. (i \in writtenOff' /\ status'[i] = "failed") \/ i \notin writtenOff'
      BY <1>8, <2>2, <3>1 DEF Returns, Saves, Typed
    <3> QED BY <2>0, <3>1, <3>4, <3>5 DEF OnceFor, AtMostOnceTaken, Taken
  <2>3. CASE i # j
    <3>1. inPool'[i] = inPool[i] /\ status'[i] = status[i] /\ (i \in writtenOff' <=> i \in writtenOff)
      BY <1>8, <2>3 DEF Returns, Leaves, Saves, Typed
    <3> QED BY <2>0, <2>1, <3>1 DEF OnceFor, AtMostOnceTaken, Taken
  <2> QED BY <2>2, <2>3
<1>9. ASSUME NEW j \in Jobs, Drops(j)
      PROVE  OnceFor(i)'
  <2>0. UNCHANGED <<status, batch, job, ran, unmarked>> /\ Leaves(j)
    BY <1>9 DEF Drops, rows
  <2>1. OnceFor(i)
    BY <2>0 DEF OnceControl
  <2>2. CASE i = j
    <3>1. inPool'[i] = 0 /\ ran[i] = 0
      BY <2>0, <2>1, <2>2, LeavesOnce DEF OnceFor
    <3>2. Taken(i)
      BY <2>0, <2>2 DEF Leaves, Taken
    <3>3. i \notin batch /\ (status[i] = "pending" => i = job)
      BY <2>1, <3>2 DEF OnceFor
    <3> QED BY <2>0, <3>1, <3>3 DEF OnceFor, AtMostOnceTaken
  <2>3. CASE i # j
    <3>1. /\ inPool'[i] = inPool[i] /\ (i \in writtenOff' <=> i \in writtenOff)
          /\ i \in forgotten' <=> i \in forgotten
      BY <1>9, <2>3 DEF Drops, Leaves, Typed
    <3> QED BY <2>0, <2>1, <3>1 DEF OnceFor, AtMostOnceTaken, Taken
  <2> QED BY <2>2, <2>3
<1> QED BY <1>1, <1>2, <1>3, <1>4, <1>5, <1>6, <1>7, <1>8, <1>9, Steps

\* A row that was read without a Method does not get one while it waits.
LEMMA CopiesKept ==
  ASSUME Typed, CopiesControl, [Next]_vars
  PROVE  CopiesControl'
<1> USE DEF CopiesControl
<1>1. CASE Quiet
  BY <1>1 DEF Quiet
<1>2. CASE SearchJobs
  BY <1>2 DEF SearchJobs, rows
<1>3. CASE EnqueueJob
  BY <1>3 DEF EnqueueJob, SavesOrForgets, Saves, rows
<1>4. CASE MarkProcessed
  BY <1>4 DEF MarkProcessed, Updates, rows
<1>5. CASE Restart
  BY <1>5 DEF Restart
<1>6. ASSUME NEW j \in Jobs, FailsInvalid(j)
      PROVE  CopiesControl'
  BY <1>6 DEF FailsInvalid, Updates, rows
<1>7. ASSUME NEW j \in Jobs, PoolRuns(j)
      PROVE  CopiesControl'
  BY <1>7 DEF PoolRuns, rows
<1>8. ASSUME NEW j \in Jobs, Returns(j)
      PROVE  CopiesControl'
  BY <1>8 DEF Returns, Saves
<1>9. ASSUME NEW j \in Jobs, Drops(j)
      PROVE  CopiesControl'
  BY <1>9 DEF Drops, rows
<1> QED BY <1>1, <1>2, <1>3, <1>4, <1>5, <1>6, <1>7, <1>8, <1>9, Steps

\* What the pool takes up it has taken up for good, but for what it drops or saves
\* as it closes.
LEMMA TakenStays ==
  ASSUME Typed, NEW j \in Jobs, NEW i \in Jobs, PoolRuns(j) \/ Returns(j) \/ Drops(j), Taken(i)
  PROVE  \/ Taken(i)' \/ i \in forgotten'
         \/ ctxDone /\ status'[i] = "pending" /\ i \in recent'
<1>1. CASE i # j
  <2>1. inPool'[i] = inPool[i] /\ (ran[i] > 0 => ran'[i] > 0) /\ writtenOff \subseteq writtenOff'
    BY <1>1 DEF PoolRuns, Returns, Drops, Leaves, Typed, Twice
  <2> QED BY <2>1 DEF Taken
<1>2. CASE i = j /\ PoolRuns(j)
  <2>1. ran'[i] > 0
    BY <1>2 DEF PoolRuns, Typed, Twice
  <2> QED BY <2>1 DEF Taken
<1>3. CASE i = j /\ Returns(j)
  <2>1. i \in writtenOff' \/ (ctxDone /\ Saves(i, "pending"))
    BY <1>3 DEF Returns
  <2> QED BY <2>1 DEF Taken, Saves, Typed
<1>4. CASE i = j /\ Drops(j)
  BY <1>4 DEF Drops
<1> QED BY <1>1, <1>2, <1>3, <1>4

\* Nothing but the pool undoes what EnqueueJob does before the row is updated.
LEMMA UpdateKept ==
  ASSUME Typed, UpdateControl, [Next]_vars
  PROVE  UpdateControl'
<1> USE DEF UpdateControl
<1>1. CASE Quiet
  BY <1>1 DEF Quiet, Taken
<1>2. CASE SearchJobs \/ MarkProcessed \/ Restart
  BY <1>2 DEF SearchJobs, MarkProcessed, Restart
<1>3. CASE EnqueueJob
  <2> PICK j \in Valid :
        /\ job' = j
        /\ \/ inPool' = [inPool EXCEPT ![j] = IF @ < Twice THEN @ + 1 ELSE @]
           \/ ctxDone /\ SavesOrForgets(j, "pending")
    BY <1>3 DEF EnqueueJob
  <2>1. j \in Jobs /\ ctxDone' = ctxDone
    BY <1>3 DEF EnqueueJob, Valid, Typed
  <2>2. \/ inPool'[j] > 0 \/ j \in forgotten'
        \/ ctxDone /\ status'[j] = "pending" /\ j \in recent'
    BY <2>1 DEF SavesOrForgets, Saves, Typed, Twice
  <2> QED BY <2>1, <2>2 DEF Taken
<1>4. ASSUME NEW j \in Jobs, FailsInvalid(j)
      PROVE  UpdateControl'
  BY <1>4 DEF FailsInvalid
<1>5. ASSUME NEW j \in Jobs, PoolRuns(j) \/ Returns(j) \/ Drops(j)
      PROVE  UpdateControl'
  <2> SUFFICES ASSUME pc = "update"
               PROVE  \/ Taken(job)' \/ job \in forgotten'
                      \/ ctxDone /\ status'[job] = "pending" /\ job \in recent'
    BY <1>5 DEF PoolRuns, Returns, Drops
  <2>1. job \in Jobs /\ forgotten \subseteq forgotten'
    BY <1>5 DEF Typed, PoolRuns, Returns, Drops, marks
  <2>2. CASE Taken(job)
    <3> PICK i \in Jobs : i = job
      BY <2>1
    <3>1. \/ Taken(i)' \/ i \in forgotten'
          \/ ctxDone /\ status'[i] = "pending" /\ i \in recent'
      BY <1>5, <2>2, TakenStays
    <3>2. job' = job
      BY <1>5 DEF PoolRuns, Returns, Drops
    <3> QED BY <3>1, <3>2 DEF Taken
  <2>3. CASE ~Taken(job) /\ job \notin forgotten
    <3>1. job # j /\ ctxDone /\ status[job] = "pending" /\ job \in recent
      BY <1>5, <2>3 DEF PoolRuns, Returns, Drops, Leaves, Taken
    <3> QED BY <1>5, <2>1, <3>1 DEF PoolRuns, Returns, Drops, Saves, rows, Typed
  <2> QED BY <2>1, <2>2, <2>3
<1> QED BY <1>1, <1>2, <1>3, <1>4, <1>5, Steps

\* A row leaves its pending status with a job that was taken or lost, or without
\* what its job needs to be made.
LEMMA LostKept ==
  ASSUME Typed, CopiesControl, UpdateControl, LostOnlyAsNamed, [Next]_vars
  PROVE  LostOnlyAsNamed'
<1> SUFFICES ASSUME NEW i \in Jobs, i \notin overwritten', i \notin forgotten', status'[i] # "pending"
             PROVE  Taken(i)' \/ FailedInvalid(i)'
  BY DEF LostOnlyAsNamed, FailedInvalid
<1>0. ASSUME i \notin overwritten, i \notin forgotten, status[i] # "pending"
      PROVE  Taken(i) \/ FailedInvalid(i)
  BY <1>0 DEF LostOnlyAsNamed, FailedInvalid
<1>1. CASE Quiet
  BY <1>0, <1>1 DEF Quiet, Taken, FailedInvalid
<1>2. CASE SearchJobs \/ Restart
  BY <1>0, <1>2 DEF SearchJobs, Restart, rows, pool, marks, Taken, FailedInvalid
<1>3. CASE EnqueueJob
  <2> PICK j \in Valid :
        \/ /\ inPool' = [inPool EXCEPT ![j] = IF @ < Twice THEN @ + 1 ELSE @]
           /\ UNCHANGED <<rows, budget, forgotten>>
        \/ ctxDone /\ SavesOrForgets(j, "pending") /\ UNCHANGED inPool
    BY <1>3 DEF EnqueueJob
  <2>1. status'[i] = status[i] /\ (i \in method' => i \in method) /\ forgotten \subseteq forgotten'
    BY DEF SavesOrForgets, Saves, rows, Typed
  <2>2. UNCHANGED <<ran, writtenOff, overwritten>>
    BY <1>3 DEF EnqueueJob
  <2>3. inPool[i] > 0 => inPool'[i] > 0
    BY DEF Typed, Twice
  <2> QED BY <1>0, <2>1, <2>2, <2>3 DEF Taken, FailedInvalid
<1>4. CASE MarkProcessed
  <2>1. UNCHANGED <<inPool, ran, writtenOff, forgotten>> /\ job \in Jobs /\ pc = "update"
    BY <1>4 DEF MarkProcessed, pool, Typed
  <2>2. CASE /\ i = job
             /\ overwritten' = IF ctxDone /\ status[job] = "pending" /\ job \in recent
                               THEN overwritten \cup {job} ELSE overwritten
    <3>1. Taken(job)
      BY <2>1, <2>2 DEF UpdateControl
    <3> QED BY <2>1, <2>2, <3>1 DEF Taken
  <2>3. CASE i # job \/ UNCHANGED rows
    <3>1. status'[i] = status[i] /\ (i \in method' => i \in method) /\ i \notin overwritten
      BY <1>4, <2>3 DEF MarkProcessed, Updates, rows, Typed
    <3> QED BY <1>0, <2>1, <3>1 DEF Taken, FailedInvalid
  <2> QED BY <1>4, <2>2, <2>3 DEF MarkProcessed
<1>5. ASSUME NEW j \in Jobs, FailsInvalid(j)
      PROVE  Taken(i)' \/ FailedInvalid(i)'
  <2>1. UNCHANGED <<inPool, ran, writtenOff, overwritten, forgotten>> /\ j \notin method /\ j \in Callbacks
    BY <1>5 DEF FailsInvalid, CopiesControl
  <2>2. method' = method
    BY <1>5 DEF FailsInvalid, Updates, rows
  <2>3. CASE status'[i] = status[i]
    BY <1>0, <2>1, <2>2, <2>3 DEF Taken, FailedInvalid
  <2>4. CASE status'[i] # status[i]
    <3>1. i = j /\ status'[i] = "failed"
      BY <1>5, <2>4 DEF FailsInvalid, Updates, rows, Typed
    <3> QED BY <2>1, <2>2, <3>1 DEF FailedInvalid
  <2> QED BY <2>3, <2>4
<1>6. ASSUME NEW j \in Jobs, PoolRuns(j) \/ Returns(j) \/ Drops(j)
      PROVE  Taken(i)' \/ FailedInvalid(i)'
  <2>1. CASE Taken(i)
    BY <1>6, <2>1, TakenStays
  <2>2. CASE ~Taken(i)
    <3>1. i # j
      BY <1>6, <2>2 DEF PoolRuns, Returns, Drops, Leaves, Taken
    <3>2. /\ status'[i] = status[i] /\ (i \in method' => i \in method)
          /\ i \notin overwritten /\ i \notin forgotten
      BY <1>6, <3>1 DEF PoolRuns, Returns, Drops, Saves, rows, marks, Typed
    <3> QED BY <1>0, <2>2, <3>2 DEF FailedInvalid
  <2> QED BY <2>1, <2>2
<1> QED BY <1>1, <1>2, <1>3, <1>4, <1>5, <1>6, Steps
-----------------------------------------------------------------------------
(* The invariant, and what follows *)

\* Nothing is taken at the start.
LEMMA InitInv == Init => PendingInv
<1> SUFFICES ASSUME Init
             PROVE  PendingInv
  OBVIOUS
<1>1. OnceControl
  BY DEF Init, OnceControl, OnceFor, AtMostOnceTaken, Taken
<1>2. CopiesControl /\ UpdateControl /\ LostOnlyAsNamed
  BY DEF Init, CopiesControl, UpdateControl, LostOnlyAsNamed
<1> QED BY <1>1, <1>2, InitTyped DEF PendingInv

\* Every step keeps every part.
LEMMA NextInv == PendingInv /\ [Next]_vars => PendingInv'
BY TypedKept, OnceKept, CopiesKept, UpdateKept, LostKept DEF PendingInv

\* Every reachable state of a start satisfies the invariant.
THEOREM Invariance == Spec => []PendingInv
BY InitInv, NextInv, PTL DEF Spec

\* Types: a batch has no more rows than the limit, an update is due for a job and
\* for no other reason, and the breaker's counts are ordered (controller.go:198-232).
THEOREM TypeCorrectness == Spec => []TypeOK
<1>1. Typed => TypeOK
  BY DEF Typed, TypeOK, CountsOK
<1> QED BY <1>1, Invariance, PTL DEF PendingInv

\* For any rows, batch size and failures, and across restarts, a job is in the pool,
\* processed, written off or dropped once in all, unless its update failed
\* (controller.go:226-232).
THEOREM TakesUpOnce == Spec => []TakenUpOnce
<1>1. PendingInv => TakenUpOnce
  <2> SUFFICES ASSUME PendingInv, NEW j \in Jobs \ unmarked
               PROVE  /\ inPool[j] + ran[j] + Cardinality({j} \cap (writtenOff \cup forgotten)) <= 1
                      /\ status[j] = "pending" /\ j # job =>
                           inPool[j] = 0 /\ ran[j] = 0 /\ j \notin writtenOff \cup forgotten
    BY DEF TakenUpOnce
  <2>1. OnceFor(j) /\ inPool[j] \in 0..2 /\ ran[j] \in 0..2
    BY DEF PendingInv, OnceControl, Typed, Twice
  <2>2. CASE j \in writtenOff \cup forgotten
    <3>1. {j} \cap (writtenOff \cup forgotten) = {j} /\ Cardinality({j}) = 1
      BY <2>2, FS_Singleton
    <3>2. inPool[j] = 0 /\ ran[j] = 0
      BY <2>1, <2>2 DEF OnceFor, AtMostOnceTaken
    <3> QED BY <2>1, <2>2, <3>1, <3>2 DEF OnceFor, Taken
  <2>3. CASE j \notin writtenOff \cup forgotten
    <3>1. {j} \cap (writtenOff \cup forgotten) = {} /\ Cardinality({}) = 0
      BY <2>3, FS_EmptySet
    <3>2. inPool[j] + ran[j] <= 1
      BY <2>1 DEF OnceFor, AtMostOnceTaken
    <3> QED BY <2>1, <2>3, <3>1, <3>2 DEF OnceFor, Taken
  <2> QED BY <2>2, <2>3
<1> QED BY <1>1, Invariance, PTL

\* For any rows, failing queries, refused writes, drops, closings and restarts, a job
\* is lost in no way but those named (controller.go:230-232, job.go:160-182,
\* pool.go:308-310, 335-338, 350-353).
THEOREM LosesOnlyAsNamed == Spec => []LostOnlyAsNamed
BY Invariance, PTL DEF PendingInv
==============================================================================
