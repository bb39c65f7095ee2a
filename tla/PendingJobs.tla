---------------------------- MODULE PendingJobs ----------------------------
(***************************************************************************)
(* The start of a controller (controller.go, Start): processPendingJobs    *)
(* hands the jobs that an earlier run saved as pending to the pool and     *)
(* marks their rows as processed, and then startListeners starts the       *)
(* listeners.                                                              *)
(*                                                                         *)
(* Rows are read in batches of copies, so a row may change between the     *)
(* read and the write: the pool works on a job as soon as it is enqueued   *)
(* and, while it closes, saves it again.  A circuit breaker stands before  *)
(* the making of a job from its row.  The pool is reduced to what it does  *)
(* to rows (Pool.tla has the rest); a row stands for its job.              *)
(***************************************************************************)
EXTENDS Naturals, FiniteSets, FiniteSetsExt

CONSTANTS
  Jobs,            \* the rows of the table, all pending at the start
  Callbacks,       \* those of type CallbackHandler; the others are ListenHandler
  WithMethod,      \* those with a Method
  Disabled,        \* those of a listener that may be disabled
  Malformed,       \* those NewJobFromDB may refuse every time (job.go:53-56)
  Limit,           \* SearchJobs.Limit, 200 in the code
  MaxConsecutive,  \* the 5, and
  MinRequests,     \* the 10 of ReadyToTrip
  Faults,          \* what may fail, see FaultKinds
  Budget,          \* how many failures a run has (bound)
  NoJob            \* no row in hand

\* "search", "update": a query fails.  "job": NewJobFromDB fails this once.
\* "early": the context is cancelled before the listeners are started.  "save":
\* the store refuses a row the pool saves.  "drop": the pool drops a job.
FaultKinds == {"search", "update", "job", "early", "save", "drop"}

ASSUME PendingAssumption ==
  /\ Callbacks \subseteq Jobs /\ WithMethod \subseteq Callbacks /\ Disabled \subseteq Jobs
  /\ Malformed \subseteq Jobs
  /\ IsFiniteSet(Jobs) /\ NoJob \notin Jobs
  /\ Limit \in Nat \ {0} /\ MaxConsecutive \in Nat /\ MinRequests \in Nat
  /\ Faults \subseteq FaultKinds /\ Budget \in Nat

VARIABLES
  status,     \* per row: pending, processed or failed
  recent,     \* the rows with created_at >= processingFrame
  method,     \* the rows with a Method
  pc,         \* where Start is
  batch,      \* what is left of the rows SearchJobs returned
  copied,     \* those of them that were read with a Method
  job,        \* the row whose job was enqueued and whose status is to be updated
  breaker,    \* the circuit breaker's state
  counts,     \* and its counts
  ctxDone,    \* the context is cancelled
  budget,
  inPool,     \* per row: how many of its jobs the pool holds, counted to Twice
  ran,        \* history, per row: how often it was processed, counted to Twice
  disabled,   \* those of a listener that is disabled
  malformed,  \* those NewJobFromDB refuses
  writtenOff, \* history: the rows whose job was given up after its last try
  unmarked,   \* history: the rows whose update to processed has failed
  overwritten, \* history: the rows marked as processed after a closing pool saved them
  forgotten   \* history: the rows whose job the pool dropped or could not save

rows    == <<status, recent, method>>
circuit == <<breaker, counts>>
pool    == <<inPool, ran, writtenOff>>
given   == <<disabled, malformed>>
marks   == <<unmarked, overwritten, forgotten>>
vars    == <<rows, pc, batch, copied, job, circuit, ctxDone, budget, pool, given, marks>>
-----------------------------------------------------------------------------
Twice == 2

Answers == UNCHANGED budget
Fails(kind) == kind \in Faults /\ budget > 0 /\ budget' = budget - 1

\* The rows SearchJobs looks for
Found == {j \in Jobs : status[j] = "pending" /\ j \notin recent}

\* BaseJob.Save: the whole row is written, with the time of now and no Method.
Saves(j, s) ==
  /\ status' = [status EXCEPT ![j] = s]
  /\ recent' = recent \cup {j}
  /\ method' = method \ {j}

\* saveJob and processFailedJob: that the store refuses the row is only logged.
SavesOrForgets(j, s) ==
  \/ Saves(j, s) /\ Answers /\ UNCHANGED forgotten
  \/ UNCHANGED rows /\ Fails("save") /\ forgotten' = forgotten \cup {j}

\* JobStore.Update(copy of j): the fields that are not zero are written, so the
\* old created_at comes back, and the Method if the copy has one.
Updates(j, s) ==
  /\ status' = [status EXCEPT ![j] = s]
  /\ recent' = recent \ {j}
  /\ method' = IF j \in copied THEN method \cup {j} ELSE method
-----------------------------------------------------------------------------
(* The circuit breaker (sony/gobreaker with the settings of NewWithContext) *)

NoCounts == [requests |-> 0, failures |-> 0, consecutive |-> 0]

ReadyToTrip(c) ==
  \/ c.requests > MinRequests /\ 10 * c.failures >= 8 * c.requests
  \/ c.consecutive > MaxConsecutive

Succeeds ==
  IF breaker = "halfOpen"
  THEN breaker' = "closed" /\ counts' = NoCounts
  ELSE breaker' = breaker /\ counts' = [requests |-> counts.requests + 1,
                                        failures |-> counts.failures, consecutive |-> 0]

Trips ==
  LET c == [requests |-> counts.requests + 1, failures |-> counts.failures + 1,
            consecutive |-> counts.consecutive + 1]
  IN IF breaker = "halfOpen" \/ ReadyToTrip(c)
     THEN breaker' = "open" /\ counts' = NoCounts
     ELSE breaker' = breaker /\ counts' = c

\* Settings.Timeout is over.
Timeout ==
  /\ breaker = "open"
  /\ breaker' = "halfOpen" /\ counts' = NoCounts
  /\ UNCHANGED <<rows, pc, batch, copied, job, ctxDone, budget, pool, given, marks>>

\* Settings.Interval is over.
Interval ==
  /\ breaker = "closed" /\ counts # NoCounts
  /\ counts' = NoCounts
  /\ UNCHANGED <<rows, pc, batch, copied, job, breaker, ctxDone, budget, pool, given, marks>>
-----------------------------------------------------------------------------
(* processPendingJobs *)

\* "stop processing if controller is closed"
StopPending ==
  /\ pc = "search" /\ ctxDone
  /\ pc' = "listeners"
  /\ UNCHANGED <<rows, batch, copied, job, circuit, ctxDone, budget, pool, given, marks>>

\* Variant: no Limit
SearchAllJobs ==
  /\ pc = "search" /\ ~ctxDone /\ Found # {}
  /\ batch' = Found
  /\ copied' = batch' \cap method
  /\ pc' = "rows"
  /\ UNCHANGED <<rows, job, circuit, ctxDone, budget, pool, given, marks>>

SearchJobs ==
  /\ pc = "search" /\ ~ctxDone /\ Found # {}
  /\ batch' \in kSubset(Min({Cardinality(Found), Limit}), Found)
  /\ copied' = batch' \cap method
  /\ pc' = "rows"
  /\ UNCHANGED <<rows, job, circuit, ctxDone, budget, pool, given, marks>>

\* len(jobs) == 0: no row is left, or the query failed and "just log".
NoMoreJobs ==
  /\ pc = "search" /\ ~ctxDone
  /\ (Found = {} /\ Answers) \/ Fails("search")
  /\ pc' = "listeners"
  /\ UNCHANGED <<rows, batch, copied, job, circuit, ctxDone, pool, given, marks>>

\* The row's listener is disabled.
SkipJob ==
  /\ pc = "rows"
  /\ \E j \in batch \cap disabled : batch' = batch \ {j}
  /\ UNCHANGED <<rows, pc, copied, job, circuit, ctxDone, budget, pool, given, marks>>

Invalid(j) == j \in Callbacks \ copied

\* Variant: an invalid job is passed over.
SkipInvalidJob ==
  /\ pc = "rows"
  /\ \E j \in batch \ disabled : Invalid(j) /\ batch' = batch \ {j}
  /\ UNCHANGED <<rows, pc, copied, job, circuit, ctxDone, budget, pool, given, marks>>

\* "invalid job, update it to failed"
FailInvalidJob ==
  /\ pc = "rows"
  /\ \E j \in batch \ disabled :
       /\ Invalid(j) /\ batch' = batch \ {j}
       /\ \/ Updates(j, "failed") /\ Answers
          \/ UNCHANGED rows /\ Fails("update")
  /\ UNCHANGED <<pc, copied, job, circuit, ctxDone, pool, given, marks>>

\* The rows of the batch that reach the circuit breaker
Valid == {j \in batch \ disabled : ~Invalid(j)}

\* Pool.Enqueue(j): a pool that is closing may have closed JobChan already, and
\* then saves the job at once.
EnqueueJob ==
  /\ pc = "rows" /\ breaker # "open"
  /\ \E j \in Valid \ malformed :
       /\ batch' = batch \ {j} /\ job' = j
       /\ \/ /\ inPool' = [inPool EXCEPT ![j] = IF @ < Twice THEN @ + 1 ELSE @]
             /\ UNCHANGED <<rows, budget, forgotten>>
          \/ ctxDone /\ SavesOrForgets(j, "pending") /\ UNCHANGED inPool
  /\ Succeeds
  /\ pc' = "update"
  /\ UNCHANGED <<copied, ctxDone, ran, writtenOff, given, unmarked, overwritten>>

NewJobFails(j) ==
  \/ j \in malformed /\ Answers
  \/ j \notin malformed /\ Fails("job")

\* Variant: the row is marked although there is no job.
JobFailsMarked ==
  /\ pc = "rows" /\ breaker # "open"
  /\ \E j \in Valid : NewJobFails(j) /\ batch' = batch \ {j} /\ Updates(j, "processed")
  /\ Trips
  /\ UNCHANGED <<pc, copied, job, ctxDone, pool, given, marks>>

\* NewJobFromDB fails: the row stays as it is.
JobFails ==
  /\ pc = "rows" /\ breaker # "open"
  /\ \E j \in Valid : NewJobFails(j) /\ batch' = batch \ {j}
  /\ Trips
  /\ UNCHANGED <<rows, pc, copied, job, ctxDone, pool, given, marks>>

\* ErrOpenState: "failed too many times, break" leaves the rows of the batch,
\* and the loop around goes on.
BreakerOpen ==
  /\ pc = "rows" /\ breaker = "open" /\ Valid # {}
  /\ batch' = {} /\ copied' = {}
  /\ pc' = "search"
  /\ UNCHANGED <<rows, job, circuit, ctxDone, budget, pool, given, marks>>

\* Variant: the update is left out.
MarkNothing ==
  /\ pc = "update"
  /\ job' = NoJob /\ pc' = "rows"
  /\ UNCHANGED <<rows, batch, copied, circuit, ctxDone, budget, pool, given, marks>>

\* job.Status = STATUS_PROCESSED; Update(job), and its error is ignored.
MarkProcessed ==
  /\ pc = "update"
  /\ \/ /\ Updates(job, "processed") /\ Answers
        /\ overwritten' = IF ctxDone /\ status[job] = "pending" /\ job \in recent
                          THEN overwritten \cup {job} ELSE overwritten
        /\ UNCHANGED unmarked
     \/ /\ UNCHANGED <<rows, overwritten>> /\ Fails("update")
        /\ unmarked' = unmarked \cup {job}
  /\ job' = NoJob /\ pc' = "rows"
  /\ UNCHANGED <<batch, copied, circuit, ctxDone, pool, given, forgotten>>

BatchDone ==
  /\ pc = "rows" /\ batch = {}
  /\ pc' = "search" /\ copied' = {}
  /\ UNCHANGED <<rows, batch, job, circuit, ctxDone, budget, pool, given, marks>>

\* startListeners, when the listeners are up to date
StartListeners ==
  /\ pc = "listeners"
  /\ pc' = "started"
  /\ UNCHANGED <<rows, batch, copied, job, circuit, ctxDone, budget, pool, given, marks>>

Start ==
  \/ StopPending \/ SearchJobs \/ NoMoreJobs \/ SkipJob \/ FailInvalidJob
  \/ EnqueueJob \/ JobFails \/ BreakerOpen \/ MarkProcessed \/ BatchDone
  \/ StartListeners
-----------------------------------------------------------------------------
(* The pool: what it does with the jobs it holds *)

Leaves(j) == inPool[j] > 0 /\ inPool' = [inPool EXCEPT ![j] = @ - 1]

PoolRuns(j) ==
  /\ Leaves(j)
  /\ ran' = [ran EXCEPT ![j] = IF @ < Twice THEN @ + 1 ELSE @]
  /\ UNCHANGED <<rows, pc, batch, copied, job, circuit, ctxDone, budget, writtenOff, given, marks>>

\* processFailedJob, when all tries are used up
PoolFails(j) ==
  /\ Leaves(j)
  /\ SavesOrForgets(j, "failed")
  /\ writtenOff' = writtenOff \cup {j}
  /\ UNCHANGED <<pc, batch, copied, job, circuit, ctxDone, ran, given, unmarked, overwritten>>

\* saveJob, of a pool that closes
PoolSaves(j) ==
  /\ ctxDone /\ Leaves(j)
  /\ SavesOrForgets(j, "pending")
  /\ UNCHANGED <<pc, batch, copied, job, circuit, ctxDone, ran, writtenOff, given, unmarked,
                 overwritten>>

\* A retry that comes late, or a job whose worker panics
PoolDrops(j) ==
  /\ Leaves(j) /\ Fails("drop")
  /\ forgotten' = forgotten \cup {j}
  /\ UNCHANGED <<rows, pc, batch, copied, job, circuit, ctxDone, ran, writtenOff, given, unmarked,
                 overwritten>>

PoolStep(j) == PoolRuns(j) \/ PoolFails(j) \/ PoolSaves(j) \/ PoolDrops(j)
-----------------------------------------------------------------------------
Cancel ==
  /\ ~ctxDone /\ ("early" \in Faults \/ pc = "started")
  /\ ctxDone' = TRUE
  /\ UNCHANGED <<rows, pc, batch, copied, job, circuit, budget, pool, given, marks>>

\* Start and Pool.Wait have returned, or the process is stopped with no job in
\* memory; it is started again:
\* processingFrame is the new start, and the breaker is a new one.
Restart ==
  /\ ctxDone /\ pc = "started" /\ \A j \in Jobs : inPool[j] = 0
  /\ recent' = {} /\ pc' = "search" /\ batch' = {} /\ copied' = {} /\ job' = NoJob
  /\ breaker' = "closed" /\ counts' = NoCounts
  /\ ctxDone' = FALSE
  /\ UNCHANGED <<status, method, budget, pool, given, marks>>

Init ==
  /\ status = [j \in Jobs |-> "pending"] /\ recent = {} /\ method = WithMethod
  /\ pc = "search" /\ batch = {} /\ copied = {} /\ job = NoJob
  /\ breaker = "closed" /\ counts = NoCounts
  /\ ctxDone = FALSE /\ budget = Budget
  /\ inPool = [j \in Jobs |-> 0] /\ ran = [j \in Jobs |-> 0]
  /\ disabled \in SUBSET Disabled /\ malformed \in SUBSET Malformed
  /\ writtenOff = {} /\ unmarked = {} /\ overwritten = {} /\ forgotten = {}

Next ==
  \/ Start \/ Timeout \/ Interval
  \/ \E j \in Jobs : PoolStep(j)
  \/ Cancel \/ Restart

Spec == Init /\ [][Next]_vars

\* Start runs on, the breaker's timeout passes, and the failures that are not a
\* malformed row's end with the budget; the pool and what cancels the context owe
\* nothing.  Enqueue finds room in JobChan: Pool has its wait for a full one.
FairSpec == Spec /\ WF_vars(Start) /\ WF_vars(Timeout)
-----------------------------------------------------------------------------
(* Properties *)

\* Types; the breaker's counts are those of one window.
TypeOK ==
  /\ status \in [Jobs -> {"pending", "processed", "failed"}]
  /\ recent \subseteq Jobs /\ method \subseteq WithMethod
  /\ pc \in {"search", "rows", "update", "listeners", "started"}
  /\ batch \subseteq Jobs /\ Cardinality(batch) <= Limit /\ copied \subseteq WithMethod
  /\ job \in Jobs \cup {NoJob} /\ (job = NoJob <=> pc # "update")
  /\ breaker \in {"closed", "open", "halfOpen"}
  /\ {counts.requests, counts.failures, counts.consecutive} \subseteq Nat
  /\ counts.consecutive <= counts.failures /\ counts.failures <= counts.requests
  /\ ctxDone \in BOOLEAN /\ budget \in 0..Budget
  /\ inPool \in [Jobs -> 0..Twice] /\ ran \in [Jobs -> 0..Twice]
  /\ disabled \subseteq Disabled /\ malformed \subseteq Malformed
  /\ writtenOff \subseteq Jobs /\ unmarked \subseteq Jobs
  /\ overwritten \subseteq Jobs /\ forgotten \subseteq Jobs

\* Across batches, the breaker's breaks, closings and restarts a job is in the
\* pool, processed, written off or dropped once in all, and no row is pending for
\* a second time but the one whose update is due: unless that update failed.
TakenUpOnce ==
  \A j \in Jobs \ unmarked :
    /\ inPool[j] + ran[j] + Cardinality({j} \cap (writtenOff \cup forgotten)) <= 1
    /\ status[j] = "pending" /\ j # job =>
         inPool[j] = 0 /\ ran[j] = 0 /\ j \notin writtenOff \cup forgotten

\* The pool has j, had it or has written it off.
Taken(j) == inPool[j] > 0 \/ ran[j] > 0 \/ j \in writtenOff

\* A row that is marked as processed or failed is one whose job the pool has, had
\* or has written off, with three exceptions: the start marked it after a closing
\* pool had saved it (controller.go:230-232), the pool dropped the job or the
\* store refused its row (pool.go:308-310, 335-338, 350-353), or it is a callback
\* whose Method a save has dropped (job.go:160-182).  Nothing else loses a job
\* over batches, closings and restarts.
LostOnlyAsNamed ==
  \A j \in Jobs \ (overwritten \cup forgotten) :
    status[j] # "pending" => Taken(j) \/ (status[j] = "failed" /\ j \in Callbacks \ method)

\* The jobs that could be processed when they were saved
Sound == {j \in Jobs : j \in Callbacks => j \in WithMethod}

\* Closing the pool loses none of them: what it saves is taken up again, or is
\* what a start or a refused write has lost (pool.go:300).
NothingLost ==
  \A j \in Sound \ (overwritten \cup forgotten) : status[j] # "pending" => Taken(j)

\* The listeners are eventually started, whatever jobs fail to be made and
\* however often the breaker opens (controller.go:253).
ListenersStart == pc # "started" ~> pc = "started"

\* They are, unless from some point on a row waits that every query finds and no
\* start takes up: that of a disabled listener (controller.go:203), or one
\* NewJobFromDB refuses every time (controller.go:215-218).
ListenersStartUnlessStuck ==
  pc # "started" ~> (pc = "started" \/ [](Found \cap (disabled \cup malformed) # {}))
=============================================================================
