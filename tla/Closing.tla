------------------------------ MODULE Closing ------------------------------
(***************************************************************************)
(* The closing of a controller: two contexts, one of the caller of         *)
(* NewWithContext ("outer", which the pool and the workers have) and one   *)
(* that the controller derives from it ("inner", which the listeners and   *)
(* FilterLogs have), the goroutine of Pool.Start, the one of               *)
(* Controller.Start, those of the listeners, and any number of callers of  *)
(* Close at any moment.                                                    *)
(*                                                                         *)
(* Jobs are counted only: those in the pool's memory, and those saved as   *)
(* rows.  Pool.Start gets rid of all jobs and closes stop once it is       *)
(* closing, unless one of the things it waits for never comes; Pool.tla    *)
(* has the details of both.                                                *)
(***************************************************************************)
EXTENDS Naturals

CONSTANTS
  Listeners,   \* those that are not disabled
  Closers,     \* the callers of Close
  Background,  \* the controller was made by New: outer is context.Background()
  BatchSize,   \* the logs of a batch (bound)
  MaxJobs,     \* the logs of the chain and the pending rows (bound)
  Faults       \* which of the kinds below there are

FaultKinds ==
  { "skip",   \* a retry is saved, and its Done skipped (pool.go:301-305)
    "drop",   \* a retry is late, and its Done skipped, or a worker panics
    "stuck",  \* a queue is full, dispatcher and workers wait for each other
    "node" }  \* GetBlock fails from some moment on, or for ten tries

ASSUME ClosingAssumption ==
  /\ Faults \subseteq FaultKinds
  /\ Background \in BOOLEAN /\ BatchSize \in Nat \ {0} /\ MaxJobs \in Nat

VARIABLES
  outer, inner,  \* cancelled by the caller, by cancelFunc
  start,         \* where Controller.Start is
  pool,          \* where Pool.Start is
  stop,          \* p.stop is closed
  inPool,        \* the jobs in the pool's memory
  saved,         \* the jobs saved as pending
  hung,          \* Pool.Start waits, or will wait, for what never comes
  dead,          \* the listeners whose GetBlock fails for good
  listener,      \* where each listener's goroutine is
  done,          \* the listeners that Close was called of
  fetched,       \* per listener, the logs of its batch that are not enqueued yet
  hidden,        \* the logs of the chain and the pending rows nobody has fetched
  closer         \* where each caller of Close is

contexts == <<outer, inner>>
jobs     == <<inPool, saved>>
poolVars == <<pool, stop, hung>>
rounds   == <<listener, fetched, hidden, dead>>
vars == <<contexts, start, poolVars, jobs, rounds, done, closer>>
-----------------------------------------------------------------------------
\* A child of a cancelled context is cancelled.
InnerDone == inner \/ outer


\* A listener's context is made from c.ctx; its Close cancels that.
ListenerDone(l) == l \in done \/ InnerDone

IsClosed == pool \notin {"off", "serving"}

JobChanClosed == pool \in {"draining", "stopped"}

\* The caller of NewWithContext cancels its context.
CancelOuter ==
  /\ ~Background /\ ~outer /\ start # "new" /\ outer' = TRUE
  /\ UNCHANGED <<inner, start, poolVars, jobs, rounds, done, closer>>
-----------------------------------------------------------------------------
(* Controller.Start *)

\* go c.Pool.Start(c.closeListeners)
StartPool ==
  /\ start = "new" /\ start' = "pending"
  /\ pool' = "serving"
  /\ UNCHANGED <<contexts, stop, hung, jobs, rounds, done, closer>>

\* Variant: a closed pool takes the job all the same.
TakeInAnyway == inPool' = inPool + 1 /\ UNCHANGED saved

\* Pool.Enqueue(job), which saves it when JobChan is closed
TakeIn ==
  IF JobChanClosed THEN saved' = saved + 1 /\ UNCHANGED inPool
                   ELSE inPool' = inPool + 1 /\ UNCHANGED saved

\* A pending row's job is enqueued; the context is asked between batches only.
EnqueuePending ==
  /\ start = "pending" /\ hidden > 0 /\ hidden' = hidden - 1
  /\ TakeIn
  /\ UNCHANGED <<contexts, start, poolVars, listener, fetched, dead, done, closer>>

\* processPendingJobs returns: no row is left, or c.ctx is done.
PendingJobsProcessed ==
  /\ start = "pending" /\ start' = "waiting"
  /\ UNCHANGED <<contexts, poolVars, jobs, rounds, done, closer>>

\* "make sure all listeners are up-to-date", as they may never be; no context is
\* asked.
StartListeners ==
  /\ start = "waiting"
  /\ start' = "returned"
  /\ listener' = [l \in Listeners |-> "start"]
  /\ UNCHANGED <<contexts, poolVars, jobs, fetched, hidden, dead, done, closer>>

StartStep == StartPool \/ EnqueuePending \/ PendingJobsProcessed
-----------------------------------------------------------------------------
(* startListening: a round of batches at the start, and at the ticks *)

\* GetLatestBlockHeight and GetBlock(safeBlock) succeed within ten tries,
FirstRound(l) ==
  /\ listener[l] = "start"
  /\ listener' = [listener EXCEPT ![l] = "round"]
  /\ UNCHANGED <<contexts, start, poolVars, jobs, fetched, hidden, dead, done, closer>>

\* or do not: listener.Close().
GiveUp(l) ==
  /\ "node" \in Faults /\ listener[l] = "start"
  /\ listener' = [listener EXCEPT ![l] = "ended"] /\ done' = done \cup {l}
  /\ UNCHANGED <<contexts, start, poolVars, jobs, fetched, hidden, dead, closer>>

\* FilterLogs with c.ctx
Fetch(l) ==
  /\ listener[l] = "round" /\ fetched[l] = 0 /\ ~InnerDone
  /\ \E n \in 1..BatchSize : /\ n <= hidden /\ hidden' = hidden - n
                             /\ fetched' = [fetched EXCEPT ![l] = n]
  /\ UNCHANGED <<contexts, start, poolVars, jobs, listener, dead, done, closer>>

\* Of a batch, or of the transactions of a block
Enqueue(l) ==
  /\ fetched[l] > 0 /\ fetched' = [fetched EXCEPT ![l] = @ - 1]
  /\ TakeIn
  /\ UNCHANGED <<contexts, start, poolVars, listener, hidden, dead, done, closer>>

\* The current block has come to the safe block, or FilterLogs or GetBlock(safeBlock)
\* fails; then the transactions, if there are subscriptions.
RoundOver(l) ==
  /\ listener[l] = "round" /\ fetched[l] = 0
  /\ \E place \in {"walk", "select"} : listener' = [listener EXCEPT ![l] = place]
  /\ UNCHANGED <<contexts, start, poolVars, jobs, fetched, hidden, dead, done, closer>>

\* The next block with transactions, or the last one; no context is asked, and a
\* block that cannot be got is asked for again.
WalkOn(l) ==
  /\ listener[l] = "walk" /\ fetched[l] = 0 /\ l \notin dead
  /\ \E n \in 0..BatchSize, place \in {"walk", "last"} :
       /\ n <= hidden /\ hidden' = hidden - n /\ (n = 0 => place = "last")
       /\ fetched' = [fetched EXCEPT ![l] = n]
       /\ listener' = [listener EXCEPT ![l] = place]
  /\ UNCHANGED <<contexts, start, poolVars, jobs, dead, done, closer>>

WalkOver(l) ==
  /\ listener[l] = "last" /\ fetched[l] = 0
  /\ listener' = [listener EXCEPT ![l] = "select"]
  /\ UNCHANGED <<contexts, start, poolVars, jobs, fetched, hidden, dead, done, closer>>

\* case <-tick.C
Tick(l) ==
  /\ listener[l] = "select"
  /\ listener' = [listener EXCEPT ![l] = IF IsClosed THEN "poolWait" ELSE "round"]
  /\ UNCHANGED <<contexts, start, poolVars, jobs, fetched, hidden, dead, done, closer>>

\* case <-listener.Context().Done()
Done(l) ==
  /\ listener[l] = "select" /\ ListenerDone(l)
  /\ listener' = [listener EXCEPT ![l] = "ended"]
  /\ UNCHANGED <<contexts, start, poolVars, jobs, fetched, hidden, dead, done, closer>>

\* "wait for pool is totally shutdown"
PoolWaited(l) ==
  /\ listener[l] = "poolWait" /\ stop
  /\ listener' = [listener EXCEPT ![l] = "ended"]
  /\ UNCHANGED <<contexts, start, poolVars, jobs, fetched, hidden, dead, done, closer>>

ListenerStep(l) ==
  \/ FirstRound(l) \/ GiveUp(l) \/ Fetch(l) \/ Enqueue(l) \/ RoundOver(l)
  \/ WalkOn(l) \/ WalkOver(l) \/ Tick(l) \/ PoolWaited(l)

NodeDies ==
  /\ "node" \in Faults /\ \E l \in Listeners \ dead : dead' = dead \cup {l}
  /\ UNCHANGED <<contexts, start, poolVars, jobs, listener, fetched, hidden, done, closer>>
-----------------------------------------------------------------------------
(* The pool *)

\* Variant: a saved job stays where it is.
JobLeavesSaved ==
  /\ inPool > 0
  /\ \/ inPool' = inPool - 1 /\ UNCHANGED saved
     \/ IsClosed /\ saved' = saved + 1 /\ UNCHANGED inPool
  /\ UNCHANGED <<contexts, start, poolVars, rounds, done, closer>>

\* A job is processed, written off, or, once the pool is closing or its context is
\* done, saved.
JobLeaves ==
  /\ inPool > 0 /\ inPool' = inPool - 1
  /\ UNCHANGED saved \/ ((IsClosed \/ outer) /\ saved' = saved + 1)
  /\ UNCHANGED <<contexts, start, poolVars, rounds, done, closer>>

\* A retry that finds the pool closed is saved, one that is late is dropped, and
\* neither counts down the wait group; nor does a worker whose job panics stop.
JobSkipsDone ==
  /\ inPool > 0 /\ inPool' = inPool - 1 /\ hung' = TRUE
  /\ \/ "skip" \in Faults /\ IsClosed /\ saved' = saved + 1
     \/ "drop" \in Faults /\ UNCHANGED saved
  /\ UNCHANGED <<contexts, start, pool, stop, rounds, done, closer>>

\* The dispatcher waits for a worker that never comes back to Queue or never stops;
\* with more workers than Queue has room for even when there is no job.
PoolGetsStuck ==
  /\ "stuck" \in Faults /\ ~stop /\ hung' = TRUE
  /\ UNCHANGED <<contexts, start, pool, stop, jobs, rounds, done, closer>>

\* case <-p.ctx.Done(): isClosed is set.
PoolSeesDone ==
  /\ pool = "serving" /\ outer
  /\ pool' = "closing"
  /\ UNCHANGED <<contexts, start, stop, hung, jobs, rounds, done, closer>>

\* Variant: the listeners' goroutines are waited for.
CloseListenersAndWait ==
  /\ pool = "closing" /\ \A l \in Listeners : listener[l] \in {"off", "ended"}
  /\ pool' = "listenersClosed" /\ done' = Listeners
  /\ UNCHANGED <<contexts, start, stop, hung, jobs, rounds, closer>>

\* "call close function firstly"; its listeners may not have been started yet.
CloseListeners ==
  /\ pool = "closing" /\ pool' = "listenersClosed"
  /\ done' = Listeners
  /\ UNCHANGED <<contexts, start, stop, hung, jobs, rounds, closer>>

CloseJobChan ==
  /\ pool = "listenersClosed" /\ pool' = "draining"
  /\ UNCHANGED <<contexts, start, stop, hung, jobs, rounds, done, closer>>

\* All jobs are dealt with, the workers have stopped and the wait group is at zero:
\* close(p.stop).
CloseStop ==
  /\ pool = "draining" /\ inPool = 0 /\ ~hung
  /\ pool' = "stopped" /\ stop' = TRUE
  /\ UNCHANGED <<contexts, start, hung, jobs, rounds, done, closer>>

PoolStep == JobLeaves \/ PoolSeesDone \/ CloseListeners \/ CloseJobChan \/ CloseStop
-----------------------------------------------------------------------------
(* Controller.Close *)

\* val := c.Pool.IsClosed()
CloseCalled(c) ==
  /\ closer[c] = "idle" /\ start # "new"
  /\ closer' = [closer EXCEPT ![c] = IF IsClosed THEN "wait" ELSE "cancel"]
  /\ UNCHANGED <<contexts, start, poolVars, jobs, rounds, done>>

\* c.cancelFunc()
CancelInner(c) ==
  /\ closer[c] = "cancel" /\ inner' = TRUE
  /\ closer' = [closer EXCEPT ![c] = "wait"]
  /\ UNCHANGED <<outer, start, poolVars, jobs, rounds, done>>

\* c.Pool.Wait()
CloseReturned(c) ==
  /\ closer[c] = "wait" /\ stop
  /\ closer' = [closer EXCEPT ![c] = "returned"]
  /\ UNCHANGED <<contexts, start, poolVars, jobs, rounds, done>>

CloseStep(c) == CancelInner(c) \/ CloseReturned(c)
-----------------------------------------------------------------------------
Init ==
  /\ outer = FALSE /\ inner = FALSE
  /\ start = "new"
  /\ pool = "off" /\ stop = FALSE
  /\ inPool = 0 /\ saved = 0 /\ hung = FALSE /\ dead = {}
  /\ listener = [l \in Listeners |-> "off"] /\ done = {}
  /\ fetched = [l \in Listeners |-> 0] /\ hidden = MaxJobs
  /\ closer = [c \in Closers |-> "idle"]

Next ==
  \/ CancelOuter \/ StartStep \/ StartListeners \/ PoolStep
  \/ JobSkipsDone \/ PoolGetsStuck \/ NodeDies
  \/ \E l \in Listeners : ListenerStep(l) \/ Done(l)
  \/ \E c \in Closers : CloseCalled(c) \/ CloseStep(c)

Spec == Init /\ [][Next]_vars

\* Goroutines run on, the pool's unless it is hung; a select with two ready cases
\* takes each of them some time (Go chooses at random).  Nobody has to cancel, to
\* call Close, and no listener to get up to date.
FairSpec ==
  /\ Spec
  /\ WF_vars(StartStep) /\ WF_vars(~hung /\ PoolStep)
  /\ \A l \in Listeners : WF_vars(ListenerStep(l)) /\ SF_vars(Done(l))
  /\ \A c \in Closers : WF_vars(CloseStep(c))
-----------------------------------------------------------------------------
(* Properties *)

Places == {"off", "start", "round", "walk", "last", "select", "poolWait", "ended"}

\* Types; no log is lost or doubled between the chain and the pool.
TypeOK ==
  /\ {outer, inner, stop, hung} \subseteq BOOLEAN
  /\ start \in {"new", "pending", "waiting", "returned"}
  /\ pool \in {"off", "serving", "closing", "listenersClosed", "draining", "stopped"}
  /\ inPool \in 0..MaxJobs /\ saved \in 0..MaxJobs /\ inPool + saved <= MaxJobs
  /\ listener \in [Listeners -> Places]
  /\ done \subseteq Listeners /\ dead \subseteq Listeners
  /\ fetched \in [Listeners -> 0..BatchSize] /\ hidden \in 0..MaxJobs
  /\ closer \in [Closers -> {"idle", "cancel", "wait", "returned"}]

\* Once Close has returned to anyone, no job is in memory, nor ever will be: a
\* listener that is still in a batch has its jobs saved (pool.go:177-179, 284).
ReturnMeansSettled ==
  \A c \in Closers : closer[c] = "returned" => inPool = 0 /\ JobChanClosed

\* Close returns to every caller once the context of NewWithContext is cancelled,
\* wherever Start, the listeners and the other callers are, unless Pool.Start waits
\* for a Done or a worker's stop that was skipped, or for a worker that stands
\* (controller.go:544, pool.go:222, 253, 282).
CloseReturnsUnlessHung ==
  \A c \in Closers : outer /\ closer[c] # "idle" ~> closer[c] = "returned" \/ hung


\* Close returns to every caller (controller.go:537, pool.go:284 "send signal to
\* stop the program").
CloseReturns == \A c \in Closers : closer[c] # "idle" ~> closer[c] = "returned"
=============================================================================
