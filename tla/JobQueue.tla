------------------------------ MODULE JobQueue ------------------------------
(***************************************************************************)
(* A BullMQ queue as this system uses it: jobs are added, taken by a       *)
(* worker's slot, finished or retried after a delay, redelivered when      *)
(* their lock expires, and managed by an operator.                         *)
(*                                                                         *)
(* Every operation is one script that the queue's server executes          *)
(* atomically.  The order of the waiting jobs and the length of a delay    *)
(* are left open: any waiting job may be taken, any delay may end.         *)
(***************************************************************************)
EXTENDS Naturals, FiniteSets

CONSTANTS
  Jobs,
  Slots,         \* places of the workers' concurrency, each runs one job at a time
  NoSlot,        \* the lock of a job nobody runs
  MaxRetries,    \* attempts after the first, the producer's option
  MaxStalls,     \* lost locks after which a job is failed, BullMQ's maxStalledCount
  MaxManual      \* bound on how often an operator retries one job

ASSUME JobQueueConstants ==
  /\ IsFiniteSet(Slots)
  /\ NoSlot \notin Slots
  /\ MaxRetries \in Nat
  /\ MaxStalls \in Nat
  /\ MaxManual \in Nat

VARIABLES
  jobs,          \* job -> its record
  paused         \* no slot takes a job

queue == <<jobs, paused>>

\* The attempts a job has, as the producer asks for them.
Attempts == MaxRetries + 1

JobStates == {"absent", "waiting", "delayed", "active", "completed", "failed", "removed"}

\* The states in which nothing is due to happen to a job.
Ended == {"completed", "failed", "removed"}

\* made: failed attempts.  stalls: locks lost.  manual: retries by the operator.
\* lock: the slot that runs it.
JobRecord ==
  [state : JobStates, made : Nat, stalls : 0..MaxStalls, manual : 0..MaxManual,
   lock : Slots \cup {NoSlot}]

JobQueueTypeOK ==
  /\ jobs \in [Jobs -> JobRecord]
  /\ paused \in BOOLEAN

JobQueueInit ==
  /\ jobs = [j \in Jobs |-> [state |-> "absent", made |-> 0, stalls |-> 0, manual |-> 0,
                             lock |-> NoSlot]]
  /\ paused = FALSE

\* A job enters a state unlocked, after so many failed attempts and lost locks.
Put(j, state, made, stalls) ==
  jobs' = [jobs EXCEPT ![j] = [state |-> state, made |-> made, stalls |-> stalls,
                               manual |-> jobs[j].manual, lock |-> NoSlot]]

-----------------------------------------------------------------------------

\* A job scheduled for later waits for its time.
Add(j, delayed) ==
  /\ jobs[j].state = "absent"
  /\ Put(j, IF delayed THEN "delayed" ELSE "waiting", 0, 0)
  /\ UNCHANGED paused

\* A delay, of a schedule or of a backoff, is over.
Promote(j) ==
  /\ jobs[j].state = "delayed"
  /\ Put(j, "waiting", jobs[j].made, jobs[j].stalls)
  /\ UNCHANGED paused

Take(s, j) ==
  /\ ~paused
  /\ jobs[j].state = "waiting"
  /\ jobs' = [jobs EXCEPT ![j] = [state |-> "active", made |-> jobs[j].made,
                                  stalls |-> jobs[j].stalls, manual |-> jobs[j].manual,
                                  lock |-> s]]
  /\ UNCHANGED paused

Holds(s, j) == jobs[j].state = "active" /\ jobs[j].lock = s

\* What a slot reports of a job whose lock it lost is refused.
Complete(s, j) ==
  /\ IF Holds(s, j) THEN Put(j, "completed", jobs[j].made, jobs[j].stalls)
                    ELSE UNCHANGED jobs
  /\ UNCHANGED paused

\* Faulty variant: the attempts are compared without the one that failed.
FailAttemptOneMore(s, j) ==
  /\ LET made == jobs[j].made + 1
     IN IF Holds(s, j)
        THEN Put(j, IF made <= Attempts THEN "delayed" ELSE "failed", made, jobs[j].stalls)
        ELSE UNCHANGED jobs
  /\ UNCHANGED paused

FailAttempt(s, j) ==
  /\ LET made == jobs[j].made + 1
     IN IF Holds(s, j)
        THEN Put(j, IF made < Attempts THEN "delayed" ELSE "failed", made, jobs[j].stalls)
        ELSE UNCHANGED jobs
  /\ UNCHANGED paused

\* Faulty variant: redelivered for ever.
StallForever(j) ==
  /\ jobs[j].state = "active"
  /\ Put(j, "waiting", jobs[j].made, jobs[j].stalls + 1)
  /\ UNCHANGED paused

\* The lock of an active job has expired: the job is delivered again, so often.
Stall(j) ==
  /\ jobs[j].state = "active"
  /\ IF jobs[j].stalls < MaxStalls
     THEN Put(j, "waiting", jobs[j].made, jobs[j].stalls + 1)
     ELSE Put(j, "failed", jobs[j].made, jobs[j].stalls)
  /\ UNCHANGED paused

-----------------------------------------------------------------------------
\* The operations of the management service.

Pause == ~paused /\ paused' = TRUE /\ UNCHANGED jobs

Resume == paused /\ paused' = FALSE /\ UNCHANGED jobs

\* Jobs that wait go; delayed and active ones stay.
Drain ==
  /\ jobs' = [j \in Jobs |-> IF jobs[j].state = "waiting"
                             THEN [jobs[j] EXCEPT !.state = "removed"] ELSE jobs[j]]
  /\ UNCHANGED paused

\* A failed job has another attempt; the ones it made are not forgotten.
RetryJob(j) ==
  /\ jobs[j].state = "failed"
  /\ jobs[j].manual < MaxManual
  /\ jobs' = [jobs EXCEPT ![j] = [state |-> "waiting", made |-> jobs[j].made,
                                  stalls |-> jobs[j].stalls, manual |-> jobs[j].manual + 1,
                                  lock |-> NoSlot]]
  /\ UNCHANGED paused

\* A job that is being run is locked and cannot be removed.
RemoveJob(j) ==
  /\ jobs[j].state \notin {"absent", "active", "removed"}
  /\ Put(j, "removed", jobs[j].made, jobs[j].stalls)
  /\ UNCHANGED paused

=============================================================================
