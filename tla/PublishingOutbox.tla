-------------------------- MODULE PublishingOutbox --------------------------
(***************************************************************************)
(* The durable publishing outbox: one row per handoff, claimed by workers  *)
(* under optimistic concurrency (a version that every update increments)   *)
(* and an append-only table of attempts.  Each operation is one database   *)
(* transaction of PrismaPublishingOutboxRepository.                        *)
(*                                                                         *)
(* The handoff identifies the row: outboxId is a hash of handoffId and the *)
(* pair (project, handoff) is unique.  lockedAt and lockedBy are always    *)
(* written together, so the lock is its holder.  Every operation receives  *)
(* its time from the caller, as in the code.                               *)
(***************************************************************************)
EXTENDS PublishingDomain

CONSTANTS
  Workers,      \* identities passed as workerId to claimNext
  NoWorker,     \* lockedBy = null
  Priorities,   \* priorities a record may be enqueued with
  MaxAttempts,  \* maxAttempts of every record
  BaseDelay     \* baseDelayMs of the retry backoff, in clock ticks

\* The exponential backoff before attempt n + 1.
RetryDelay(n) == BaseDelay * 2^(n - 1)

ASSUME OutboxConstants ==
  /\ NoWorker \notin Workers
  /\ Priorities \subseteq Int
  /\ MaxAttempts \in Nat \ {0}
  /\ BaseDelay \in Nat

ASSUME RetryDelayInNat == \A n \in 1..MaxAttempts : RetryDelay(n) \in Nat

VARIABLES
  outbox,       \* handoff -> its outbox row
  attempts      \* handoff -> the attempts recorded for it

-----------------------------------------------------------------------------

\* Instants past the horizon are the horizon: a delay never disables a row forever.
AtMostHorizon(t) == IF t > Horizon THEN Horizon ELSE t

ClaimableStatuses == {"pending", "scheduled", "failed"}
TerminalStatuses == {"succeeded", "dead-letter", "cancelled"}
OutboxStatuses == {"absent", "processing"} \cup ClaimableStatuses \cup TerminalStatuses

OutboxRow ==
  [status : OutboxStatuses, version : Nat, lockedBy : Workers \cup {NoWorker},
   attemptCount : Nat, availableAt : Times, scheduledAt : Times,
   priority : Int, hash : Hashes \cup {NoHash}]

Attempt == [number : Nat, status : {"started", "succeeded", "failed"}, retryable : BOOLEAN]

AbsentRow ==
  [status |-> "absent", version |-> 0, lockedBy |-> NoWorker, attemptCount |-> 0,
   availableAt |-> 0, scheduledAt |-> 0, priority |-> 0, hash |-> NoHash]

Exists(h) == outbox[h].status # "absent"
Terminal(h) == outbox[h].status \in TerminalStatuses

\* The unique index on (project, outbox, attemptNumber).
NumberIsFree(h, n) == \A a \in attempts[h] : a.number # n

OutboxInit ==
  /\ outbox = [h \in Handoffs |-> AbsentRow]
  /\ attempts = [h \in Handoffs |-> {}]

-----------------------------------------------------------------------------

\* A scheduledAt that is null is never in the future: time 0 stands for it.
EnqueuedRow(x, p, scheduledAt, availableAt, t) ==
  [status |-> IF scheduledAt > t THEN "scheduled" ELSE "pending", version |-> 1,
   lockedBy |-> NoWorker, attemptCount |-> 0, availableAt |-> availableAt,
   scheduledAt |-> scheduledAt, priority |-> p, hash |-> x]

Enqueue(h, x, p, scheduledAt, availableAt, t) ==
  /\ ~Exists(h)
  /\ outbox' = [outbox EXCEPT ![h] = EnqueuedRow(x, p, scheduledAt, availableAt, t)]
  /\ UNCHANGED attempts

\* Every later update writes the status and the lock and increments the version; the
\* rest of the request never changes.
UpdatedRow(h, status, lockedBy, attemptCount, availableAt) ==
  [status |-> status, version |-> outbox[h].version + 1,
   lockedBy |-> lockedBy, attemptCount |-> attemptCount, availableAt |-> availableAt,
   scheduledAt |-> outbox[h].scheduledAt, priority |-> outbox[h].priority,
   hash |-> outbox[h].hash]

\* Faulty variant: a release hands the attempt back.
ReleasedRowRefunded(h, status) ==
  UpdatedRow(h, status, NoWorker, outbox[h].attemptCount - 1, outbox[h].availableAt)

\* An update that only releases the row into a state.
ReleasedRow(h, status) ==
  UpdatedRow(h, status, NoWorker, outbox[h].attemptCount, outbox[h].availableAt)

Claimable(h, t) ==
  /\ outbox[h].status \in ClaimableStatuses
  /\ outbox[h].availableAt <= t
  /\ outbox[h].scheduledAt <= t
  /\ outbox[h].lockedBy = NoWorker

\* g is served before h: ORDER BY priority DESC, availableAt ASC.
ServedBefore(g, h) ==
  \/ outbox[g].priority > outbox[h].priority
  \/ /\ outbox[g].priority = outbox[h].priority
     /\ outbox[g].availableAt < outbox[h].availableAt

\* The rows that the first query of claimNext may return.
ClaimCandidates(t) ==
  {h \in Handoffs : /\ Claimable(h, t)
                    /\ \A g \in Handoffs : Claimable(g, t) => ~ServedBefore(g, h)}

\* Faulty variant: the second query finds the row by its id.
StillClaimableById(h, seen) == Exists(h)

\* Faulty variant: the second query looks at the lock only.
StillClaimableByLock(h, seen) == outbox[h].lockedBy = NoWorker

\* The second query of claimNext finds the row as the first one read it.
StillClaimable(h, seen) ==
  /\ outbox[h].version = seen.version
  /\ outbox[h].status = seen.status
  /\ outbox[h].lockedBy = NoWorker

Claimed(w, h) ==
  UpdatedRow(h, "processing", w, outbox[h].attemptCount, outbox[h].availableAt)

Claim(w, h, seen) ==
  /\ StillClaimable(h, seen)
  /\ outbox' = [outbox EXCEPT ![h] = Claimed(w, h)]
  /\ UNCHANGED attempts

-----------------------------------------------------------------------------

\* A settling transaction commits: the row is not terminal, its version is the
\* caller's, and the attempt it inserts is new.  In every other case it throws.
CanSettle(h, v, n) ==
  /\ Exists(h)
  /\ ~Terminal(h)
  /\ outbox[h].version = v
  /\ NumberIsFree(h, n)

RecordAttempt(h, n, status, retryable) ==
  attempts' = [attempts EXCEPT ![h] =
    @ \cup {[number |-> n, status |-> status, retryable |-> retryable]}]

MarkSucceeded(h, v, n) ==
  /\ CanSettle(h, v, n)
  /\ outbox' = [outbox EXCEPT ![h] = ReleasedRow(h, "succeeded")]
  /\ RecordAttempt(h, n, "succeeded", FALSE)

\* Faulty variant: one attempt too many.
ShouldRetryOnceMore(h, retryable) == retryable /\ outbox[h].attemptCount + 1 <= MaxAttempts

ShouldRetry(h, retryable) == retryable /\ outbox[h].attemptCount + 1 < MaxAttempts

\* Faulty variant: a row to be retried keeps its lock.
FailedRowLocked(h, retryable, t) ==
  LET next == outbox[h].attemptCount + 1
  IN IF ShouldRetry(h, retryable)
     THEN UpdatedRow(h, "failed", outbox[h].lockedBy, next, AtMostHorizon(t + RetryDelay(next)))
     ELSE UpdatedRow(h, "dead-letter", NoWorker, next, t)

FailedRow(h, retryable, t) ==
  LET next == outbox[h].attemptCount + 1
  IN IF ShouldRetry(h, retryable)
     THEN UpdatedRow(h, "failed", NoWorker, next, AtMostHorizon(t + RetryDelay(next)))
     ELSE UpdatedRow(h, "dead-letter", NoWorker, next, t)

MarkFailed(h, v, n, retryable, t) ==
  /\ CanSettle(h, v, n)
  /\ outbox' = [outbox EXCEPT ![h] = FailedRow(h, retryable, t)]
  /\ RecordAttempt(h, n, "failed", retryable)

\* An operator's commands carry a version too, but neither looks at the status.
Cancel(h, v) ==
  /\ Exists(h)
  /\ outbox[h].version = v
  /\ outbox' = [outbox EXCEPT ![h] = ReleasedRow(h, "cancelled")]
  /\ UNCHANGED attempts

MoveToDeadLetter(h, v, n) ==
  /\ Exists(h)
  /\ outbox[h].version = v
  /\ NumberIsFree(h, n)
  /\ outbox' = [outbox EXCEPT ![h] = ReleasedRow(h, "dead-letter")]
  /\ RecordAttempt(h, n, "failed", FALSE)

AppendAttempt(h, n) ==
  /\ Exists(h)
  /\ NumberIsFree(h, n)
  /\ RecordAttempt(h, n, "started", TRUE)
  /\ UNCHANGED outbox

-----------------------------------------------------------------------------

OutboxTypeOK ==
  /\ outbox \in [Handoffs -> OutboxRow]
  /\ attempts \in [Handoffs -> SUBSET Attempt]

=============================================================================
