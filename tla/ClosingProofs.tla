---------------------------- MODULE ClosingProofs ----------------------------
(* The closing of a controller for any number of listeners and callers. *)
EXTENDS Closing, TLAPS

\* Once stop is closed nothing is left in the pool, and nobody has returned before.
ClosingInv ==
  /\ inPool \in Nat
  /\ pool \in {"off", "serving", "closing", "listenersClosed", "draining", "stopped"}
  /\ start = "new" => pool = "off"
  /\ pool = "stopped" => inPool = 0
  /\ stop => pool = "stopped"
  /\ closer \in [Closers -> {"idle", "cancel", "wait", "returned"}]
  /\ \A c \in Closers : closer[c] = "returned" => stop

\* Nobody has called Close and the pool has not been started.
LEMMA ClosingInitInv == Init => ClosingInv
BY DEF Init, ClosingInv

\* A job taken in goes to the pool only while JobChan is open.
LEMMA TakeInKeeps ==
  ASSUME ClosingInv, TakeIn, start' = start \/ start' # "new",
         UNCHANGED <<poolVars, closer>>
  PROVE  ClosingInv'
BY DEF TakeIn, JobChanClosed, ClosingInv, poolVars

\* Steps that leave the pool, its jobs and the callers alone.
LEMMA ElsewhereKeeps ==
  ASSUME ClosingInv, start' = start \/ start' # "new",
         UNCHANGED <<poolVars, inPool, closer>>
  PROVE  ClosingInv'
BY DEF ClosingInv, poolVars

\* The dispatcher closes stop when the pool is empty and it is not hung.
LEMMA PoolKeeps ==
  ASSUME ClosingInv, PoolStep \/ JobSkipsDone \/ PoolGetsStuck
  PROVE  ClosingInv'
<1>1. CASE JobLeaves
  BY <1>1 DEF JobLeaves, ClosingInv, poolVars
<1>2. CASE PoolSeesDone
  BY <1>2 DEF PoolSeesDone, ClosingInv, jobs
<1>3. CASE CloseListeners
  BY <1>3 DEF CloseListeners, ClosingInv, jobs
<1>4. CASE CloseJobChan
  BY <1>4 DEF CloseJobChan, ClosingInv, jobs
<1>5. CASE CloseStop
  BY <1>5 DEF CloseStop, ClosingInv, jobs
<1>6. CASE JobSkipsDone \/ PoolGetsStuck
  BY <1>6 DEF JobSkipsDone, PoolGetsStuck, ClosingInv, jobs
<1> QED BY <1>1, <1>2, <1>3, <1>4, <1>5, <1>6 DEF PoolStep

\* A caller returns when stop is closed, and not before.
LEMMA CloserKeeps ==
  ASSUME ClosingInv, NEW c \in Closers, CloseCalled(c) \/ CloseStep(c)
  PROVE  ClosingInv'
<1>1. CASE CloseCalled(c)
  BY <1>1 DEF CloseCalled, ClosingInv, poolVars, jobs
<1>2. CASE CancelInner(c)
  BY <1>2 DEF CancelInner, ClosingInv, poolVars, jobs
<1>3. CASE CloseReturned(c)
  BY <1>3 DEF CloseReturned, ClosingInv, poolVars, jobs
<1> QED BY <1>1, <1>2, <1>3 DEF CloseStep

\* The start: the pool's goroutine begins, pending rows are taken in.
LEMMA StartKeeps ==
  ASSUME ClosingInv, StartStep
  PROVE  ClosingInv'
<1>1. CASE StartPool
  BY <1>1 DEF StartPool, ClosingInv, jobs
<1>2. CASE EnqueuePending
  BY <1>2, TakeInKeeps DEF EnqueuePending
<1>3. CASE PendingJobsProcessed
  BY <1>3, ElsewhereKeeps DEF PendingJobsProcessed, jobs
<1> QED BY <1>1, <1>2, <1>3 DEF StartStep

\* A listener touches the pool by what it enqueues only.
LEMMA ListenerKeeps ==
  ASSUME ClosingInv, NEW l \in Listeners, ListenerStep(l) \/ Done(l)
  PROVE  ClosingInv'
<1>1. CASE Enqueue(l)
  BY <1>1, TakeInKeeps DEF Enqueue
<1>2. CASE \/ FirstRound(l) \/ GiveUp(l) \/ Fetch(l) \/ RoundOver(l) \/ WalkOn(l)
           \/ WalkOver(l) \/ Tick(l) \/ PoolWaited(l) \/ Done(l)
  BY <1>2, ElsewhereKeeps DEF FirstRound, GiveUp, Fetch, RoundOver, WalkOn, WalkOver, Tick,
                              PoolWaited, Done, jobs
<1> QED BY <1>1, <1>2 DEF ListenerStep

\* Every step keeps the invariant.
LEMMA ClosingNextInv == ClosingInv /\ [Next]_vars => ClosingInv'
<1> SUFFICES ASSUME ClosingInv, [Next]_vars
             PROVE  ClosingInv'
  OBVIOUS
<1>1. CASE CancelOuter \/ StartListeners \/ NodeDies
  BY <1>1, ElsewhereKeeps DEF CancelOuter, StartListeners, NodeDies, jobs
<1>2. CASE UNCHANGED vars
  BY <1>2, ElsewhereKeeps DEF vars, jobs
<1> QED BY <1>1, <1>2, StartKeeps, PoolKeeps, ListenerKeeps, CloserKeeps DEF Next

\* With any number of listeners in any batch, and of callers at any moment:
\* after Close has returned no job is in memory (pool.go:177-179, 284,
\* controller.go:544).
THEOREM CloseSettlesAll == Spec => []ReturnMeansSettled
<1>1. ClosingInv => ReturnMeansSettled
  BY DEF ClosingInv, ReturnMeansSettled, JobChanClosed
<1> QED BY <1>1, ClosingInitInv, ClosingNextInv, PTL DEF Spec
-----------------------------------------------------------------------------
(* No job is doubled: a sum over the listeners, given by the function of all *)
(* its partial sums.                                                       *)

Sums == [SUBSET Listeners -> Nat]

Total(t) == t[Listeners]

\* t gives for every set of listeners what they have fetched together.
Totals(t, f) ==
  /\ t \in Sums /\ t[{}] = 0
  /\ \A S \in SUBSET Listeners : \A l \in Listeners \ S : t[S \cup {l}] = t[S] + f[l]

\* g is f but for l.
Changed(f, g, l, value) ==
  \A k \in Listeners : g[k] = IF k = l THEN value ELSE f[k]

\* The logs fetched and not enqueued yet, those not fetched, and the jobs in memory
\* and in rows are no more than there were logs and rows.
JobsControl ==
  \E t \in Sums :
    Totals(t, fetched) /\ Total(t) + hidden + inPool + saved <= MaxJobs

\* TypeOK but for the bounds that follow from JobsControl
Ranges ==
  /\ outer \in BOOLEAN /\ inner \in BOOLEAN /\ stop \in BOOLEAN /\ hung \in BOOLEAN
  /\ start \in {"new", "pending", "waiting", "returned"}
  /\ pool \in {"off", "serving", "closing", "listenersClosed", "draining", "stopped"}
  /\ inPool \in Nat /\ saved \in Nat /\ hidden \in Nat
  /\ listener \in [Listeners -> Places]
  /\ done \subseteq Listeners /\ dead \subseteq Listeners
  /\ fetched \in [Listeners -> 0..BatchSize]
  /\ closer \in [Closers -> {"idle", "cancel", "wait", "returned"}]

JobsInv == Ranges /\ JobsControl

\* A listener fetches: the sums of the sets it is in grow.
LEMMA FetchedMore ==
  ASSUME NEW f \in [Listeners -> Nat], NEW l \in Listeners, NEW n \in Nat,
         NEW g, Changed(f, g, l, f[l] + n), NEW t, Totals(t, f)
  PROVE  \E u \in Sums :
           Totals(u, g) /\ Total(u) = Total(t) + n
<1> DEFINE u == [S \in SUBSET Listeners |-> IF l \in S THEN t[S] + n ELSE t[S]]
<1>1. u \in Sums /\ u[{}] = 0
  BY DEF Totals, Sums
<1>3. Total(u) = Total(t) + n
  BY DEF Total
<1>2. ASSUME NEW S \in SUBSET Listeners, NEW k \in Listeners \ S
      PROVE  u[S \cup {k}] = u[S] + g[k]
  <2>1. t[S \cup {k}] = t[S] + f[k] /\ t[S] \in Nat /\ f[k] \in Nat /\ f[l] \in Nat
    BY DEF Totals, Sums
  <2>2. S \cup {k} \in SUBSET Listeners
    OBVIOUS
  <2> QED BY <2>1, <2>2 DEF Changed
<1> HIDE DEF u
<1> QED BY <1>1, <1>2, <1>3 DEF Totals

\* One of its logs is enqueued: they fall.
LEMMA FetchedLess ==
  ASSUME NEW f \in [Listeners -> Nat], NEW l \in Listeners, f[l] > 0,
         NEW g, Changed(f, g, l, f[l] - 1), NEW t, Totals(t, f)
  PROVE  \E u \in Sums :
           Totals(u, g) /\ Total(u) = Total(t) - 1
<1> DEFINE u == [S \in SUBSET Listeners |-> IF l \in S THEN t[S] - 1 ELSE t[S]]
<1>1. ASSUME NEW S \in SUBSET Listeners, l \in S
      PROVE  t[S] \in Nat /\ t[S] > 0
  <2>1. S \ {l} \in SUBSET Listeners /\ l \in Listeners \ (S \ {l}) /\ (S \ {l}) \cup {l} = S
    BY <1>1
  <2>2. t[S] = t[S \ {l}] + f[l] /\ t[S \ {l}] \in Nat
    BY <2>1 DEF Totals, Sums
  <2> QED BY <2>2
<1>2. u \in Sums /\ u[{}] = 0
  BY <1>1 DEF Totals, Sums
<1>4. Total(u) = Total(t) - 1
  BY DEF Total
<1>3. ASSUME NEW S \in SUBSET Listeners, NEW k \in Listeners \ S
      PROVE  u[S \cup {k}] = u[S] + g[k]
  <2>1. t[S \cup {k}] = t[S] + f[k] /\ t[S] \in Nat /\ f[k] \in Nat /\ f[l] \in Nat
    BY DEF Totals, Sums
  <2>2. S \cup {k} \in SUBSET Listeners
    OBVIOUS
  <2> QED BY <1>1, <2>1, <2>2 DEF Changed
<1> HIDE DEF u
<1> QED BY <1>2, <1>3, <1>4 DEF Totals

\* At the beginning nothing is fetched.
LEMMA JobsInit == Init => JobsInv
<1> SUFFICES ASSUME Init PROVE JobsInv
  OBVIOUS
<1>1. Ranges
  <2>1. fetched \in [Listeners -> 0..BatchSize] /\ hidden \in Nat
    BY ClosingAssumption DEF Init
  <2> QED BY <2>1 DEF Init, Ranges, Places
<1> DEFINE t == [S \in SUBSET Listeners |-> 0]
<1>2. t \in Sums /\ Totals(t, fetched) /\ Total(t) = 0
  BY DEF Totals, Sums, Total, Init
<1> HIDE DEF t
<1>3. Total(t) + hidden + inPool + saved <= MaxJobs
  BY <1>2, ClosingAssumption DEF Init
<1> QED BY <1>1, <1>2, <1>3 DEF JobsInv, JobsControl

\* No step makes the sum larger.
LEMMA JobsKept ==
  ASSUME JobsInv, [Next]_vars
  PROVE  JobsControl'
<1> PICK t \in Sums :
         Totals(t, fetched) /\ Total(t) + hidden + inPool + saved <= MaxJobs
  BY DEF JobsInv, JobsControl
<1>1. /\ Total(t) \in Nat /\ hidden \in Nat /\ inPool \in Nat /\ saved \in Nat
      /\ fetched \in [Listeners -> Nat] /\ MaxJobs \in Nat /\ BatchSize \in Nat
  BY ClosingAssumption DEF JobsInv, Ranges, Total, Sums
<1>2. ASSUME fetched' = fetched, Total(t) + hidden' + inPool' + saved' <= MaxJobs
      PROVE  JobsControl'
  <2>1. Totals(t, fetched')
    BY <1>2 DEF Totals
  <2> QED BY <1>2, <2>1 DEF JobsControl
<1> PICK f \in [Listeners -> Nat] : f = fetched /\ Totals(t, f)
  BY <1>1
<1> PICK g : g = fetched'
  OBVIOUS
<1>3. CASE \E l \in Listeners : Fetch(l) \/ WalkOn(l)
  <2> PICK l \in Listeners : Fetch(l) \/ WalkOn(l)
    BY <1>3
  <2>1. PICK n \in 0..BatchSize : /\ n <= hidden /\ hidden' = hidden - n
                                  /\ fetched' = [fetched EXCEPT ![l] = n]
    BY <1>1 DEF Fetch, WalkOn
  <2>2. n \in Nat /\ f[l] = 0 /\ Changed(f, g, l, f[l] + n)
    BY <1>1, <2>1 DEF Fetch, WalkOn, Changed
  <2>3. PICK u \in Sums :
          Totals(u, g) /\ Total(u) = Total(t) + n
    BY <2>2, FetchedMore
  <2>4. Total(u) + hidden' + inPool' + saved' <= MaxJobs
    BY <1>1, <2>1, <2>2, <2>3 DEF Fetch, WalkOn, jobs
  <2> QED BY <2>2, <2>3, <2>4 DEF JobsControl
<1>4. CASE \E l \in Listeners : Enqueue(l)
  <2>1. PICK l \in Listeners :
          /\ f[l] > 0 /\ Changed(f, g, l, f[l] - 1)
          /\ TakeIn /\ UNCHANGED hidden
    BY <1>4 DEF Enqueue, Changed
  <2>2. PICK u \in Sums :
          Totals(u, g) /\ Total(u) = Total(t) - 1
    BY <2>1, FetchedLess
  <2>3. Total(u) + hidden' + inPool' + saved' <= MaxJobs
    BY <1>1, <2>1, <2>2 DEF TakeIn
  <2> QED BY <2>1, <2>2, <2>3 DEF JobsControl
<1>5. CASE EnqueuePending
  <2>1. fetched' = fetched
    BY <1>5 DEF EnqueuePending
  <2>2. Total(t) + hidden' + inPool' + saved' <= MaxJobs
    BY <1>1, <1>5 DEF EnqueuePending, TakeIn
  <2> QED BY <1>2, <2>1, <2>2
<1>6. CASE JobLeaves \/ JobSkipsDone
  <2>1. fetched' = fetched
    BY <1>6 DEF JobLeaves, JobSkipsDone, rounds
  <2>2. Total(t) + hidden' + inPool' + saved' <= MaxJobs
    BY <1>1, <1>6 DEF JobLeaves, JobSkipsDone, rounds
  <2> QED BY <1>2, <2>1, <2>2
<1>7. CASE UNCHANGED <<fetched, hidden, inPool, saved>>
  <2>1. Total(t) + hidden' + inPool' + saved' <= MaxJobs
    BY <1>1, <1>7
  <2> QED BY <1>2, <1>7, <2>1
<1>8. CASE \/ \E l \in Listeners : \/ FirstRound(l) \/ GiveUp(l) \/ RoundOver(l) \/ WalkOver(l)
                                  \/ Tick(l) \/ PoolWaited(l) \/ Done(l)
           \/ \E c \in Closers : CloseCalled(c) \/ CloseStep(c)
  BY <1>7, <1>8 DEF FirstRound, GiveUp, RoundOver, WalkOver, Tick, PoolWaited, Done, CloseCalled,
     CloseStep, CancelInner, CloseReturned, jobs, rounds
<1>9. CASE \/ CancelOuter \/ StartPool \/ PendingJobsProcessed \/ StartListeners
           \/ PoolGetsStuck \/ NodeDies
           \/ PoolSeesDone \/ CloseListeners \/ CloseJobChan \/ CloseStop
           \/ UNCHANGED vars
  BY <1>7, <1>9 DEF CancelOuter, StartPool, PendingJobsProcessed, PoolGetsStuck, NodeDies,
     StartListeners, PoolSeesDone, CloseListeners, CloseJobChan, CloseStop, vars, jobs, rounds
<1> QED BY <1>3, <1>4, <1>5, <1>6, <1>8, <1>9 DEF Next, StartStep, PoolStep, ListenerStep

\* Each step of a goroutine goes to a place there is, and no count falls below 0.
LEMMA RangesKept ==
  ASSUME Ranges, [Next]_vars
  PROVE  Ranges'
<1> USE DEF Ranges, contexts, jobs, poolVars, rounds
<1>1. CASE CancelOuter \/ NodeDies \/ UNCHANGED vars
  BY <1>1 DEF CancelOuter, NodeDies, vars
<1>2. ASSUME TakeIn PROVE inPool' \in Nat /\ saved' \in Nat
  BY <1>2 DEF TakeIn
<1>3. CASE StartPool \/ PendingJobsProcessed \/ StartListeners
  BY <1>3 DEF StartPool, PendingJobsProcessed, StartListeners, Places
<1>4. CASE EnqueuePending
  BY <1>2, <1>4 DEF EnqueuePending
<1>5. CASE PoolStep \/ JobSkipsDone \/ PoolGetsStuck
  <2>1. CASE JobLeaves \/ JobSkipsDone
    <3>1. inPool' \in Nat /\ saved' \in Nat
      BY <2>1 DEF JobLeaves, JobSkipsDone
    <3> QED BY <2>1, <3>1 DEF JobLeaves, JobSkipsDone
  <2>2. CASE PoolGetsStuck \/ PoolSeesDone \/ CloseListeners \/ CloseJobChan \/ CloseStop
    BY <2>2 DEF PoolGetsStuck, PoolSeesDone, CloseListeners, CloseJobChan, CloseStop
  <2> QED BY <1>5, <2>1, <2>2 DEF PoolStep
<1>6. CASE \E l \in Listeners : Fetch(l) \/ WalkOn(l)
  <2> PICK l \in Listeners : Fetch(l) \/ WalkOn(l)
    BY <1>6
  <2>1. PICK n \in 0..BatchSize : /\ n <= hidden /\ hidden' = hidden - n
                                  /\ fetched' = [fetched EXCEPT ![l] = n]
    BY ClosingAssumption DEF Fetch, WalkOn
  <2>2. hidden' \in Nat /\ fetched' \in [Listeners -> 0..BatchSize]
    BY <2>1, ClosingAssumption
  <2>3. listener' \in [Listeners -> Places]
    BY DEF Fetch, WalkOn, Places
  <2> QED BY <2>2, <2>3 DEF Fetch, WalkOn
<1>7. CASE \E l \in Listeners : Enqueue(l)
  <2> PICK l \in Listeners : Enqueue(l)
    BY <1>7
  <2>1. fetched[l] - 1 \in 0..BatchSize
    BY ClosingAssumption DEF Enqueue
  <2>2. fetched' \in [Listeners -> 0..BatchSize]
    BY <2>1 DEF Enqueue
  <2> QED BY <1>2, <2>2 DEF Enqueue
<1>8. CASE \E l \in Listeners : \/ FirstRound(l) \/ GiveUp(l) \/ RoundOver(l) \/ WalkOver(l)
                               \/ Tick(l) \/ PoolWaited(l) \/ Done(l)
  <2> PICK l \in Listeners : \/ FirstRound(l) \/ GiveUp(l) \/ RoundOver(l) \/ WalkOver(l)
                             \/ Tick(l) \/ PoolWaited(l) \/ Done(l)
    BY <1>8
  <2>1. \E place \in Places : listener' = [listener EXCEPT ![l] = place]
    BY DEF FirstRound, GiveUp, RoundOver, WalkOver, Tick, PoolWaited, Done, Places
  <2>2. listener' \in [Listeners -> Places]
    BY <2>1
  <2> QED BY <2>2 DEF FirstRound, GiveUp, RoundOver, WalkOver, Tick, PoolWaited, Done
<1>9. CASE \E c \in Closers : CloseCalled(c) \/ CloseStep(c)
  BY <1>9 DEF CloseCalled, CloseStep, CancelInner, CloseReturned
<1> QED BY <1>1, <1>3, <1>4, <1>5, <1>6, <1>7, <1>8, <1>9 DEF Next, StartStep, ListenerStep

\* The state keeps its types, and of the logs and rows there were no more than that
\* many become jobs: none is taken in twice, and saving a job takes it out of memory.
THEOREM TypeCorrectness == Spec => []TypeOK
<1>1. JobsInv /\ [Next]_vars => JobsInv'
  BY JobsKept, RangesKept DEF JobsInv
<1>2. JobsInv => TypeOK
  <2> SUFFICES ASSUME JobsInv PROVE TypeOK
    OBVIOUS
  <2>1. PICK t \in Sums : Total(t) + hidden + inPool + saved <= MaxJobs
    BY DEF JobsInv, JobsControl
  <2>2. Total(t) \in Nat
    BY DEF Total, Sums
  <2>3. hidden \in Nat /\ inPool \in Nat /\ saved \in Nat /\ MaxJobs \in Nat
    BY ClosingAssumption DEF JobsInv, Ranges
  <2>4. /\ inPool \in 0..MaxJobs /\ saved \in 0..MaxJobs /\ hidden \in 0..MaxJobs
        /\ inPool + saved <= MaxJobs
    BY <2>1, <2>2, <2>3
  <2> QED BY <2>4 DEF JobsInv, Ranges, TypeOK
<1> QED BY <1>1, <1>2, JobsInit, PTL DEF Spec
=============================================================================
