---------------------------- MODULE JobLifecycle ----------------------------
(***************************************************************************)
(* What the worker pool promises of each job, without its channels,        *)
(* workers and goroutines.  A job that was handed in waits, is processed   *)
(* and is then done, tried again later, or written off after MaxTry        *)
(* retries; once the pool is closing a job that is not being processed     *)
(* may be saved for the next run instead; when the pool has stopped no     *)
(* job is left in its hands.  Only a fault makes it lose a job.            *)
(***************************************************************************)
EXTENDS Naturals

CONSTANTS Jobs, CallBacks, MaxTry, Faults

VARIABLES phase, retries, closing, stopped

lifecycleVars == <<phase, retries, closing, stopped>>

Unsettled == {"waiting", "running", "backoff", "dying"}

LifecycleTypeOK ==
  /\ phase \in [Jobs -> {"new", "done", "pending", "failed", "lost"} \cup Unsettled]
  /\ retries \in [Jobs -> 0..MaxTry]
  /\ closing \in BOOLEAN /\ stopped \in BOOLEAN

Becomes(j, p) == phase' = [phase EXCEPT ![j] = p]

\* A settled job has no more tries to count; a pending one's are in its row.
Forgets(j) == retries' = [retries EXCEPT ![j] = 0]

LifecycleInit ==
  /\ phase = [j \in Jobs |-> "new"]
  /\ retries \in [Jobs -> 0..MaxTry]
  /\ closing = FALSE /\ stopped = FALSE

\* A job is handed in, or, after its backoff, handed in again.
Accept(j) ==
  /\ phase[j] \in {"new", "backoff"} /\ ~stopped
  /\ Becomes(j, "waiting")
  /\ UNCHANGED <<retries, closing, stopped>>

Run(j) ==
  /\ phase[j] = "waiting"
  /\ Becomes(j, "running")
  /\ UNCHANGED <<retries, closing, stopped>>

\* The job is done, and the jobs it calls back are handed in.
Succeed(j) ==
  /\ phase[j] = "running"
  /\ \A k \in CallBacks[j] : phase[k] = "new"
  /\ phase' = [k \in Jobs |-> IF k = j THEN "done"
                              ELSE IF k \in CallBacks[j] THEN "waiting" ELSE phase[k]]
  /\ Forgets(j)
  /\ UNCHANGED <<closing, stopped>>

Retry(j) ==
  /\ phase[j] = "running" /\ retries[j] < MaxTry
  /\ Becomes(j, "backoff")
  /\ retries' = [retries EXCEPT ![j] = @ + 1]
  /\ UNCHANGED <<closing, stopped>>

GiveUp(j) ==
  /\ phase[j] = "running" /\ retries[j] = MaxTry
  /\ Becomes(j, "dying")
  /\ UNCHANGED <<retries, closing, stopped>>

\* The row of a job written off
RecordFailed(j) ==
  /\ phase[j] = "dying"
  /\ Becomes(j, "failed") /\ Forgets(j)
  /\ UNCHANGED <<closing, stopped>>

\* The row of a job the next run takes up
RecordPending(j) ==
  /\ closing /\ phase[j] \in {"new", "waiting", "backoff"}
  /\ Becomes(j, "pending") /\ Forgets(j)
  /\ UNCHANGED <<closing, stopped>>

Lose(j) ==
  /\ \/ "panic" \in Faults /\ phase[j] = "running"
     \/ "late" \in Faults /\ phase[j] = "backoff"
     \/ "save" \in Faults /\ phase[j] = "dying"
     \/ "save" \in Faults /\ closing /\ phase[j] \in {"new", "waiting", "backoff"}
  /\ Becomes(j, "lost") /\ Forgets(j)
  /\ UNCHANGED <<closing, stopped>>

Close ==
  /\ ~closing /\ closing' = TRUE
  /\ UNCHANGED <<phase, retries, stopped>>

Stop ==
  /\ closing /\ ~stopped /\ \A j \in Jobs : phase[j] \notin Unsettled
  /\ stopped' = TRUE
  /\ UNCHANGED <<phase, retries, closing>>

LifecycleNext ==
  \/ \E j \in Jobs : \/ Accept(j) \/ Run(j) \/ Succeed(j) \/ Retry(j) \/ GiveUp(j)
                     \/ RecordFailed(j) \/ RecordPending(j) \/ Lose(j)
  \/ Close \/ Stop

LifecycleSpec == LifecycleInit /\ [][LifecycleNext]_lifecycleVars
=============================================================================
