---------------------- MODULE DurablePublishingProofs ----------------------
(***************************************************************************)
(* Safety of DurablePublishing, for every value of its constants: what has *)
(* a type keeps it, claims exclude each other, terminal rows stay          *)
(* terminal, a remote id has a post behind it, and what is published is    *)
(* what was reserved.                                                      *)
(***************************************************************************)
EXTENDS DurablePublishing, TLAPS

-----------------------------------------------------------------------------
\* Type correctness, with the invariant it needs.

\* A process that is neither at rest nor done works on a handoff.
HasJob ==
  \A p \in Processes : proc[p].label \notin {"idle", "done"} => proc[p].handoff \in Handoffs

TypeInv == TypeOK /\ HasJob

-----------------------------------------------------------------------------
\* Rows and reservations that the operations build are rows and reservations.

\* An updated row is a row.
LEMMA UpdatedRowType ==
  ASSUME OutboxTypeOK, NEW h \in Handoffs,
         NEW status \in OutboxStatuses, NEW lock \in Workers \cup {NoWorker},
         NEW count \in Nat, NEW available \in Times
  PROVE  UpdatedRow(h, status, lock, count, available) \in OutboxRow
BY DEF UpdatedRow, OutboxTypeOK, OutboxRow

\* A released row is a row.
LEMMA ReleasedRowType ==
  ASSUME OutboxTypeOK, NEW h \in Handoffs, NEW status \in OutboxStatuses
  PROVE  ReleasedRow(h, status) \in OutboxRow
<1>1. outbox[h].attemptCount \in Nat /\ outbox[h].availableAt \in Times
  BY DEF OutboxTypeOK, OutboxRow
<1>2. QED
  BY <1>1, UpdatedRowType DEF ReleasedRow

\* A claimed row is a row.
LEMMA ClaimedType ==
  ASSUME OutboxTypeOK, NEW h \in Handoffs, NEW w \in Workers
  PROVE  Claimed(w, h) \in OutboxRow
<1>1. outbox[h].attemptCount \in Nat /\ outbox[h].availableAt \in Times
  BY DEF OutboxTypeOK, OutboxRow
<1>2. "processing" \in OutboxStatuses
  BY DEF OutboxStatuses
<1>3. QED
  BY <1>1, <1>2, UpdatedRowType DEF Claimed

\* A new row is a row, a direct publisher's too.
LEMMA EnqueuedRowType ==
  ASSUME NEW x \in Hashes, NEW p \in Priorities \cup {0}, NEW s \in Times, NEW a \in Times,
         NEW t
  PROVE  EnqueuedRow(x, p, s, a, t) \in OutboxRow
BY OutboxConstants DEF EnqueuedRow, OutboxRow, OutboxStatuses, ClaimableStatuses

\* The instant of the next attempt is on the clock.
LEMMA RetryAvailable ==
  ASSUME NEW n \in 1..MaxAttempts, NEW t \in Times
  PROVE  AtMostHorizon(t + RetryDelay(n)) \in Times
<1>1. RetryDelay(n) \in Nat
  BY RetryDelayInNat
<1> HIDE DEF RetryDelay
<1>2. QED
  BY <1>1, DomainConstants DEF AtMostHorizon, Times

\* A failed row is a row: the attempt that is counted is one the backoff is defined for.
LEMMA FailedRowType ==
  ASSUME OutboxTypeOK, NEW h \in Handoffs, NEW r \in BOOLEAN, NEW t \in Times
  PROVE  FailedRow(h, r, t) \in OutboxRow
<1> DEFINE next == outbox[h].attemptCount + 1
<1>1. next \in Nat /\ next > 0
  BY DEF OutboxTypeOK, OutboxRow
<1>2. CASE ShouldRetry(h, r)
  <2>1. next \in 1..MaxAttempts
    BY <1>1, <1>2, OutboxConstants DEF ShouldRetry
  <2>2. AtMostHorizon(t + RetryDelay(next)) \in Times
    BY <2>1, RetryAvailable
  <2>3. "failed" \in OutboxStatuses
    BY DEF OutboxStatuses, ClaimableStatuses
  <2>4. QED
    BY <1>1, <1>2, <2>2, <2>3, UpdatedRowType DEF FailedRow
<1>3. CASE ~ShouldRetry(h, r)
  <2>1. "dead-letter" \in OutboxStatuses
    BY DEF OutboxStatuses, TerminalStatuses
  <2>2. QED
    BY <1>1, <1>3, <2>1, UpdatedRowType DEF FailedRow
<1>4. QED
  BY <1>2, <1>3

\* A settled reservation is a reservation.
LEMMA SettledReservationType ==
  ASSUME IdempotencyTypeOK, NEW k \in Handoffs, NEW status \in IdempotencyStatuses,
         NEW remote \in BOOLEAN
  PROVE  SettledReservation(k, status, remote) \in IdempotencyRow
BY DEF SettledReservation, IdempotencyTypeOK, IdempotencyRow

-----------------------------------------------------------------------------
\* The operations of the two tables keep their types.

\* An attempt that is recorded is an attempt.
LEMMA RecordType ==
  ASSUME OutboxTypeOK, NEW h \in Handoffs, NEW n \in Nat,
         NEW st \in {"started", "succeeded", "failed"}, NEW r \in BOOLEAN,
         RecordAttempt(h, n, st, r)
  PROVE  attempts' \in [Handoffs -> SUBSET Attempt]
BY DEF OutboxTypeOK, RecordAttempt, Attempt

\* markSucceeded keeps the types of the outbox.
LEMMA MarkSucceededType ==
  ASSUME OutboxTypeOK, NEW h \in Handoffs, NEW v, NEW n \in Nat, MarkSucceeded(h, v, n)
  PROVE  OutboxTypeOK'
<1>1. attempts' \in [Handoffs -> SUBSET Attempt]
  BY RecordType DEF MarkSucceeded
<1>2. ReleasedRow(h, "succeeded") \in OutboxRow
  BY ReleasedRowType DEF OutboxStatuses, TerminalStatuses
<1>3. QED
  BY <1>1, <1>2 DEF OutboxTypeOK, MarkSucceeded

\* markFailed keeps the types of the outbox.
LEMMA MarkFailedType ==
  ASSUME OutboxTypeOK, NEW h \in Handoffs, NEW v, NEW n \in Nat, NEW r \in BOOLEAN,
         NEW t \in Times, MarkFailed(h, v, n, r, t)
  PROVE  OutboxTypeOK'
<1>1. attempts' \in [Handoffs -> SUBSET Attempt]
  BY RecordType DEF MarkFailed
<1>2. FailedRow(h, r, t) \in OutboxRow
  BY FailedRowType
<1>3. QED
  BY <1>1, <1>2 DEF OutboxTypeOK, MarkFailed

\* cancel keeps the types of the outbox.
LEMMA CancelType ==
  ASSUME OutboxTypeOK, NEW h \in Handoffs, NEW v, Cancel(h, v)
  PROVE  OutboxTypeOK'
<1>1. ReleasedRow(h, "cancelled") \in OutboxRow
  BY ReleasedRowType DEF OutboxStatuses, TerminalStatuses
<1>2. QED
  BY <1>1 DEF OutboxTypeOK, Cancel

\* moveToDeadLetter keeps the types of the outbox.
LEMMA MoveToDeadLetterType ==
  ASSUME OutboxTypeOK, NEW h \in Handoffs, NEW v, NEW n \in Nat, MoveToDeadLetter(h, v, n)
  PROVE  OutboxTypeOK'
<1>1. attempts' \in [Handoffs -> SUBSET Attempt]
  BY RecordType DEF MoveToDeadLetter
<1>2. ReleasedRow(h, "dead-letter") \in OutboxRow
  BY ReleasedRowType DEF OutboxStatuses, TerminalStatuses
<1>3. QED
  BY <1>1, <1>2 DEF OutboxTypeOK, MoveToDeadLetter

\* A reserve that proceeds keeps the types of the reservations.
LEMMA ReserveType ==
  ASSUME IdempotencyTypeOK, NEW k \in Handoffs, NEW x \in Hashes \cup {NoHash},
         NEW t \in Times, Reserve(k, x, t)
  PROVE  IdempotencyTypeOK'
BY ReservationTTLInNat, DomainConstants
DEF Reserve, IdempotencyTypeOK, IdempotencyRow, IdempotencyStatuses, Times

\* releaseExpired keeps the types of the reservations.
LEMMA ReleaseExpiredType ==
  ASSUME IdempotencyTypeOK, NEW t, ReleaseExpired(t)
  PROVE  IdempotencyTypeOK'
<1>1. ASSUME NEW k \in Handoffs
      PROVE  /\ idem[k] \in IdempotencyRow
             /\ SettledReservation(k, "expired", idem[k].remote) \in IdempotencyRow
  BY DEF SettledReservation, IdempotencyTypeOK, IdempotencyRow, IdempotencyStatuses
<1>2. QED
  BY <1>1 DEF IdempotencyTypeOK, ReleaseExpired

-----------------------------------------------------------------------------
\* A process that changes only itself keeps the types of all of them.

\* A process at rest is a process.
LEMMA RestingType ==
  ASSUME NEW label \in {"idle", "done"}
  PROVE  Resting(label) \in Process
<1>1. AbsentRow \in OutboxRow
  BY DomainConstants DEF AbsentRow, OutboxRow, OutboxStatuses, Times
<1>2. NoReservation \in IdempotencyRow
  BY DEF NoReservation, IdempotencyRow, IdempotencyStatuses
<1>3. 0 \in Times
  BY DomainConstants DEF Times
<1>4. QED
  BY <1>1, <1>2, <1>3 DEF Resting, Process, Labels

\* What a single process does to proc: a new state that is well typed and has a job.
Steps(p, new) ==
  /\ proc' = [proc EXCEPT ![p] = new]
  /\ new \in Process
  /\ new.label \notin {"idle", "done"} => new.handoff \in Handoffs

\* A process that steps to a process of its own keeps the types of all.
LEMMA StepsKeepsProc ==
  ASSUME TypeInv, NEW p \in Processes, NEW new, Steps(p, new)
  PROVE  proc' \in [Processes -> Process] /\ HasJob'
BY DEF Steps, TypeInv, TypeOK, HasJob

\* Ending a cycle keeps the types of the processes.
LEMMA RestType ==
  ASSUME TypeInv, NEW p \in Processes, Rest(p)
  PROVE  proc' \in [Processes -> Process] /\ HasJob'
<1> DEFINE label == IF p \in Workers THEN "idle" ELSE "done"
<1>1. Resting(label) \in Process /\ Resting(label).label \in {"idle", "done"}
  BY RestingType DEF Resting
<1>2. QED
  BY <1>1, StepsKeepsProc DEF Rest, Steps

\* Going on with a failure's kind keeps the types of the processes.
LEMMA GoWithType ==
  ASSUME TypeInv, NEW p \in Processes, proc[p].label \notin {"idle", "done"},
         NEW label \in Labels, NEW row \in OutboxRow, NEW seen \in IdempotencyRow,
         NEW r \in BOOLEAN, GoWith(p, label, row, seen, r)
  PROVE  proc' \in [Processes -> Process] /\ HasJob'
<1> DEFINE new == [label |-> label, handoff |-> proc[p].handoff, row |-> row,
                   seen |-> seen, at |-> proc[p].at, retryable |-> r]
<1>1. proc[p].handoff \in Handoffs /\ proc[p].at \in Times
  BY DEF TypeInv, TypeOK, HasJob, Process
<1>2. new \in Process /\ new.handoff \in Handoffs
  BY <1>1 DEF Process
<1>3. QED
  BY <1>2, StepsKeepsProc DEF GoWith, Steps

\* Going on keeps the types of the processes.
LEMMA GoType ==
  ASSUME TypeInv, NEW p \in Processes, proc[p].label \notin {"idle", "done"},
         NEW label \in Labels, Go(p, label)
  PROVE  proc' \in [Processes -> Process] /\ HasJob'
<1>1. /\ proc[p].row \in OutboxRow
      /\ proc[p].seen \in IdempotencyRow
      /\ proc[p].retryable \in BOOLEAN
  BY DEF TypeInv, TypeOK, Process
<1>2. QED
  BY <1>1, GoWithType DEF Go

\* Beginning on a handoff keeps the types of the processes.
LEMMA BeginType ==
  ASSUME TypeInv, NEW p \in Processes, NEW label \in Labels, NEW h \in Handoffs,
         NEW row \in OutboxRow, NEW seen \in IdempotencyRow, Begin(p, label, h, row, seen)
  PROVE  proc' \in [Processes -> Process] /\ HasJob'
<1> DEFINE new == [label |-> label, handoff |-> h, row |-> row, seen |-> seen, at |-> now,
                   retryable |-> FALSE]
<1>1. new \in Process /\ new.handoff \in Handoffs
  BY DEF Process, TypeInv, TypeOK
<1>2. QED
  BY <1>1, StepsKeepsProc DEF Begin, Steps

\* The job of a process in the middle of its cycle.
LEMMA JobType ==
  ASSUME TypeInv, NEW p \in Processes, proc[p].label \notin {"idle", "done"}
  PROVE  /\ proc[p].handoff \in Handoffs
         /\ proc[p].row \in OutboxRow
         /\ proc[p].seen \in IdempotencyRow
         /\ proc[p].at \in Times
         /\ proc[p].retryable \in BOOLEAN
         /\ proc[p].row.attemptCount + 1 \in Nat
BY DEF TypeInv, TypeOK, HasJob, Process, OutboxRow

-----------------------------------------------------------------------------
\* Settling an outbox row, whether it commits or throws.

\* Settling a success keeps the types, whether it commits or throws.
LEMMA SucceedType ==
  ASSUME TypeInv, NEW w \in Workers, proc[w].label \notin {"idle", "done"}, Succeed(w)
  PROVE  TypeInv'
<1>1. w \in Processes
  BY DEF Processes
<1>2. OutboxTypeOK'
  <2>1. CASE MarkSucceeded(proc[w].handoff, proc[w].row.version, AttemptNumber(w))
    BY <1>1, <2>1, JobType, MarkSucceededType DEF AttemptNumber, TypeInv, TypeOK
  <2>2. CASE UNCHANGED <<outbox, attempts>>
    BY <2>2 DEF TypeInv, TypeOK, OutboxTypeOK
  <2>3. QED
    BY <2>1, <2>2 DEF Succeed
<1>3. proc' \in [Processes -> Process] /\ HasJob'
  BY <1>1, RestType DEF Succeed
<1>4. QED
  BY <1>2, <1>3 DEF TypeInv, TypeOK, IdempotencyTypeOK, Succeed

\* Settling a failure keeps the types, whether it commits or throws.
LEMMA FailType ==
  ASSUME TypeInv, NEW w \in Workers, proc[w].label \notin {"idle", "done"},
         NEW r \in BOOLEAN, Fail(w, r)
  PROVE  TypeInv'
<1>1. w \in Processes
  BY DEF Processes
<1>2. OutboxTypeOK'
  <2>1. CASE MarkFailed(proc[w].handoff, proc[w].row.version, AttemptNumber(w), r,
                        proc[w].at)
    BY <1>1, <2>1, JobType, MarkFailedType DEF AttemptNumber, TypeInv, TypeOK
  <2>2. CASE UNCHANGED <<outbox, attempts>>
    BY <2>2 DEF TypeInv, TypeOK, OutboxTypeOK
  <2>3. QED
    BY <2>1, <2>2 DEF Fail
<1>3. proc' \in [Processes -> Process] /\ HasJob'
  BY <1>1, RestType DEF Fail
<1>4. QED
  BY <1>2, <1>3 DEF TypeInv, TypeOK, IdempotencyTypeOK, Fail

-----------------------------------------------------------------------------
\* Type correctness.

\* The types hold initially.
LEMMA TypeInit == Init => TypeInv
<1> SUFFICES ASSUME Init PROVE TypeInv
  OBVIOUS
<1>1. AbsentRow \in OutboxRow
  BY DomainConstants DEF AbsentRow, OutboxRow, OutboxStatuses, Times
<1>2. NoReservation \in IdempotencyRow
  BY DEF NoReservation, IdempotencyRow, IdempotencyStatuses
<1>3. Resting("idle") \in Process /\ Resting("idle").label = "idle"
  BY RestingType DEF Resting
<1>4. QED
  BY <1>1, <1>2, <1>3, DomainConstants
  DEF Init, OutboxInit, IdempotencyInit, TypeInv, TypeOK, HasJob, OutboxTypeOK,
      IdempotencyTypeOK, Times

\* The clock, expiry, clients and operators keep the types.
LEMMA EnvironmentType ==
  ASSUME TypeInv,
         \/ Tick
         \/ ReleaseExpiredReservations
         \/ \E h \in Handoffs : EnqueueHandoff(h) \/ OperatorStep(h)
  PROVE  TypeInv'
<1>1. CASE Tick
  BY <1>1, DomainConstants
  DEF Tick, TypeInv, TypeOK, HasJob, OutboxTypeOK, IdempotencyTypeOK, Times
<1>2. CASE ReleaseExpiredReservations
  <2>1. IdempotencyTypeOK'
    BY <1>2, ReleaseExpiredType DEF ReleaseExpiredReservations, TypeInv, TypeOK
  <2>2. QED
    BY <1>2, <2>1 DEF ReleaseExpiredReservations, TypeInv, TypeOK, HasJob, OutboxTypeOK
<1>3. ASSUME NEW h \in Handoffs, EnqueueHandoff(h) PROVE TypeInv'
  <2>1. PICK x \in Hashes, p \in Priorities, s \in Times :
          Enqueue(h, x, p, s, IF s = 0 THEN now ELSE s, now)
    BY <1>3 DEF EnqueueHandoff
  <2>2. (IF s = 0 THEN now ELSE s) \in Times
    BY DEF TypeInv, TypeOK
  <2>3. EnqueuedRow(x, p, s, IF s = 0 THEN now ELSE s, now) \in OutboxRow
    BY <2>2, EnqueuedRowType
  <2>4. OutboxTypeOK'
    BY <2>1, <2>3 DEF Enqueue, TypeInv, TypeOK, OutboxTypeOK
  <2>5. QED
    BY <1>3, <2>4 DEF EnqueueHandoff, TypeInv, TypeOK, HasJob, IdempotencyTypeOK
<1>4. ASSUME NEW h \in Handoffs, OperatorStep(h) PROVE TypeInv'
  <2>1. outbox[h].attemptCount + 1 \in Nat
    BY DEF TypeInv, TypeOK, OutboxTypeOK, OutboxRow
  <2>2. OutboxTypeOK'
    <3>1. CASE OperatorCancels(h)
      BY <3>1, CancelType DEF OperatorCancels, TypeInv, TypeOK
    <3>2. CASE OperatorMovesToDeadLetter(h)
      BY <2>1, <3>2, MoveToDeadLetterType DEF OperatorMovesToDeadLetter, TypeInv, TypeOK
    <3>3. CASE OperatorAppendsAttempt(h)
      BY <2>1, <3>3, RecordType
      DEF OperatorAppendsAttempt, AppendAttempt, TypeInv, TypeOK, OutboxTypeOK
    <3>4. QED
      BY <1>4, <3>1, <3>2, <3>3 DEF OperatorStep
  <2>3. UNCHANGED <<idem, now, posts, proc>>
    BY <1>4 DEF OperatorStep, OperatorCancels, OperatorMovesToDeadLetter,
                OperatorAppendsAttempt
  <2>4. QED
    BY <2>2, <2>3 DEF TypeInv, TypeOK, HasJob, IdempotencyTypeOK
<1>5. QED
  BY <1>1, <1>2, <1>3, <1>4

\* Every step of a worker's cycle keeps the types.
LEMMA WorkerType ==
  ASSUME TypeInv, NEW w \in Workers, WorkerStep(w)
  PROVE  TypeInv'
<1> USE DEF TypeInv
<1>0. w \in Processes
  BY DEF Processes
<1>1. CASE ReadCandidate(w)
  <2>1. PICK h \in ClaimCandidates(now) :
          Begin(w, "claiming", h, outbox[h], NoReservation)
    BY <1>1 DEF ReadCandidate
  <2>2. h \in Handoffs /\ outbox[h] \in OutboxRow
    BY DEF ClaimCandidates, TypeOK, OutboxTypeOK
  <2>3. NoReservation \in IdempotencyRow /\ "claiming" \in Labels
    BY DEF NoReservation, IdempotencyRow, IdempotencyStatuses, Labels
  <2>4. proc' \in [Processes -> Process] /\ HasJob'
    BY <1>0, <2>1, <2>2, <2>3, BeginType
  <2>5. QED
    BY <1>1, <2>4 DEF ReadCandidate, TypeOK, OutboxTypeOK, IdempotencyTypeOK
<1>2. CASE ClaimCandidate(w)
  <2> DEFINE h == proc[w].handoff
  <2>1. h \in Handoffs
    BY <1>0, <1>2, JobType DEF ClaimCandidate, At
  <2>2. Claimed(w, h) \in OutboxRow
    BY <2>1, ClaimedType DEF TypeOK
  <2>3. NoReservation \in IdempotencyRow /\ "claimed" \in Labels
    BY DEF NoReservation, IdempotencyRow, IdempotencyStatuses, Labels
  <2>4. OutboxTypeOK' /\ proc' \in [Processes -> Process] /\ HasJob'
    <3>1. CASE Claim(w, h, proc[w].row) /\ GoWith(w, "claimed", Claimed(w, h),
                                                 NoReservation, FALSE)
      <4>1. OutboxTypeOK'
        BY <2>2, <3>1 DEF Claim, TypeOK, OutboxTypeOK
      <4>2. QED
        BY <1>0, <1>2, <2>2, <2>3, <3>1, <4>1, GoWithType DEF ClaimCandidate, At
    <3>2. CASE Rest(w) /\ UNCHANGED <<outbox, attempts>>
      BY <1>0, <3>2, RestType DEF TypeOK, OutboxTypeOK
    <3>3. QED
      BY <1>2, <3>1, <3>2 DEF ClaimCandidate
  <2>5. QED
    BY <1>2, <2>4 DEF ClaimCandidate, TypeOK, IdempotencyTypeOK
<1>3. CASE RejectPackage(w)
  BY <1>3, FailType DEF RejectPackage, At
<1>4. CASE ReserveRead(w)
  <2>1. proc[w].row \in OutboxRow /\ idem[proc[w].handoff] \in IdempotencyRow
    BY <1>0, <1>4, JobType DEF ReserveRead, At, TypeOK, IdempotencyTypeOK
  <2>2. proc' \in [Processes -> Process] /\ HasJob'
    BY <1>0, <1>4, <2>1, GoWithType DEF ReserveRead, At, Labels
  <2>3. QED
    BY <1>4, <2>2 DEF ReserveRead, TypeOK, OutboxTypeOK, IdempotencyTypeOK
<1>5. CASE SettleSuccess(w)
  BY <1>5, SucceedType DEF SettleSuccess, At
<1>6. CASE SettleFailure(w)
  BY <1>0, <1>6, FailType, JobType DEF SettleFailure, At
<1>7. QED
  BY <1>1, <1>2, <1>3, <1>4, <1>5, <1>6 DEF WorkerStep

\* Reserving, publishing, settling and dying keep the types.
LEMMA PublisherType ==
  ASSUME TypeInv, NEW p \in Processes,
         PublisherStep(p) \/ Crash(p) \/ (p \in Direct /\ DirectStep(p))
  PROVE  TypeInv'
<1> USE DEF TypeInv
<1>1. CASE ReserveWrite(p)
  <2> DEFINE k == proc[p].handoff
             x == proc[p].row.hash
  <2>1. /\ proc[p].label \notin {"idle", "done"}
        /\ k \in Handoffs /\ x \in Hashes \cup {NoHash} /\ proc[p].at \in Times
        /\ proc[p].row \in OutboxRow /\ proc[p].seen \in IdempotencyRow
    BY <1>1, JobType DEF ReserveWrite, At, OutboxRow
  <2>2. IdempotencyTypeOK'
    <3>1. Reserve(k, x, proc[p].at) \/ UNCHANGED idem
      BY <1>1 DEF ReserveWrite
    <3>2. QED
      BY <2>1, <3>1, ReserveType DEF TypeOK, IdempotencyTypeOK
  <2>3. proc' \in [Processes -> Process] /\ HasJob'
    <3>1. \/ \E label \in {"publishing", "settleSuccess", "published"} : Go(p, label)
          \/ GoWith(p, "settleFailure", proc[p].row, proc[p].seen, TRUE)
          \/ Rest(p)
      BY <1>1 DEF ReserveWrite, ReserveAnswer
    <3>2. {"publishing", "settleSuccess", "settleFailure", "published"} \subseteq Labels
      BY DEF Labels
    <3>3. QED
      BY <2>1, <3>1, <3>2, GoType, GoWithType, RestType
  <2>4. QED
    BY <1>1, <2>2, <2>3 DEF ReserveWrite, TypeOK, OutboxTypeOK
<1>2. ASSUME NEW o \in Outcomes, Publish(p, o) PROVE TypeInv'
  <2>1. /\ proc[p].label \notin {"idle", "done"} /\ proc[p].handoff \in Handoffs
        /\ proc[p].row \in OutboxRow /\ proc[p].seen \in IdempotencyRow
    BY <1>2, JobType DEF Publish, At
  <2>2. posts' \in [Handoffs -> Nat]
    BY <1>2, <2>1 DEF Publish, TypeOK
  <2>3. proc' \in [Processes -> Process] /\ HasJob'
    <3>1. \/ Rest(p)
          \/ GoWith(p, IF o = "created" THEN "accepted" ELSE "declined",
                    proc[p].row, proc[p].seen, Retryable(p, o))
      BY <1>2 DEF Publish
    <3>2. /\ (IF o = "created" THEN "accepted" ELSE "declined") \in Labels
          /\ Retryable(p, o) \in BOOLEAN
      BY DEF Labels, Retryable
    <3>3. QED
      BY <2>1, <3>1, <3>2, GoWithType, RestType
  <2>4. QED
    BY <1>2, <2>2, <2>3 DEF Publish, TypeOK, OutboxTypeOK, IdempotencyTypeOK
<1>3. CASE CompleteReservation(p)
  <2>1. proc[p].label \notin {"idle", "done"} /\ proc[p].handoff \in Handoffs
    BY <1>3, JobType DEF CompleteReservation, At
  <2>2. SettledReservation(proc[p].handoff, "completed", TRUE) \in IdempotencyRow
    BY <2>1, SettledReservationType DEF IdempotencyStatuses, TypeOK
  <2>3. IdempotencyTypeOK'
    BY <1>3, <2>2 DEF CompleteReservation, MarkCompleted, TypeOK, IdempotencyTypeOK
  <2>4. proc' \in [Processes -> Process] /\ HasJob'
    BY <1>3, <2>1, GoType, RestType DEF CompleteReservation, Labels
  <2>5. QED
    BY <1>3, <2>3, <2>4 DEF CompleteReservation, TypeOK, OutboxTypeOK
<1>4. CASE FailReservation(p)
  <2> DEFINE k == proc[p].handoff
             status == IF proc[p].retryable THEN "failed" ELSE "completed"
  <2>1. proc[p].label \notin {"idle", "done"} /\ k \in Handoffs
    BY <1>4, JobType DEF FailReservation, At
  <2>2. status \in IdempotencyStatuses /\ idem[k].remote \in BOOLEAN
    BY <2>1 DEF IdempotencyStatuses, TypeOK, IdempotencyTypeOK, IdempotencyRow
  <2>3. SettledReservation(k, status, idem[k].remote) \in IdempotencyRow
    BY <2>1, <2>2, SettledReservationType DEF TypeOK
  <2>4. IdempotencyTypeOK'
    BY <1>4, <2>3 DEF FailReservation, MarkReservationFailed, TypeOK, IdempotencyTypeOK
  <2>5. proc' \in [Processes -> Process] /\ HasJob'
    BY <1>4, <2>1, GoType, RestType DEF FailReservation, Labels
  <2>6. QED
    BY <1>4, <2>4, <2>5 DEF FailReservation, TypeOK, OutboxTypeOK
<1>5. CASE Crash(p)
  BY <1>5, RestType DEF Crash, TypeOK, OutboxTypeOK, IdempotencyTypeOK
<1>6. CASE DirectPublish(p)
  <2>1. PICK h \in Handoffs, x \in Hashes :
          Begin(p, IF idem[h].status = "completed" THEN "published" ELSE "reserving",
                h, EnqueuedRow(x, 0, 0, 0, 0), idem[h])
    BY <1>6 DEF DirectPublish
  <2>2. /\ 0 \in Times
        /\ (IF idem[h].status = "completed" THEN "published" ELSE "reserving") \in Labels
    BY DomainConstants DEF Times, Labels
  <2>3. EnqueuedRow(x, 0, 0, 0, 0) \in OutboxRow /\ idem[h] \in IdempotencyRow
    BY <2>2, EnqueuedRowType DEF TypeOK, IdempotencyTypeOK
  <2>4. proc' \in [Processes -> Process] /\ HasJob'
    BY <2>1, <2>2, <2>3, BeginType
  <2>5. QED
    BY <1>6, <2>4 DEF DirectPublish, TypeOK, OutboxTypeOK, IdempotencyTypeOK
<1>7. CASE DeclineInvalid(p) \/ SettlingThrows(p)
  <2>1. /\ proc[p].label \notin {"idle", "done"}
        /\ proc[p].row \in OutboxRow /\ proc[p].seen \in IdempotencyRow
    BY <1>7, JobType DEF DeclineInvalid, SettlingThrows, At
  <2>2. \E r \in BOOLEAN : GoWith(p, "declined", proc[p].row, proc[p].seen, r)
    BY <1>7 DEF DeclineInvalid, SettlingThrows
  <2>3. proc' \in [Processes -> Process] /\ HasJob'
    BY <2>1, <2>2, GoWithType DEF Labels
  <2>4. UNCHANGED <<outbox, attempts, idem, now, posts>>
    BY <1>7 DEF DeclineInvalid, SettlingThrows
  <2>5. QED
    BY <2>3, <2>4 DEF TypeOK, OutboxTypeOK, IdempotencyTypeOK
<1>8. QED
  BY <1>1, <1>2, <1>3, <1>4, <1>5, <1>6, <1>7 DEF PublisherStep, DirectStep

\* TypeInv is inductive.
LEMMA TypeNext ==
  ASSUME TypeInv, [Next]_vars
  PROVE  TypeInv'
<1>1. CASE UNCHANGED vars
  BY <1>1 DEF vars, TypeInv, TypeOK, HasJob, OutboxTypeOK, IdempotencyTypeOK
<1>2. CASE Next
  BY <1>2, EnvironmentType, WorkerType, PublisherType DEF Next, Processes
<1>3. QED
  BY <1>1, <1>2

\* TypeInv holds in every reachable state.
LEMMA TypeInvariant == Spec => []TypeInv
<1>1. Init => TypeInv
  BY TypeInit
<1>2. TypeInv /\ [Next]_vars => TypeInv'
  BY TypeNext
<1>3. QED
  BY <1>1, <1>2, PTL DEF Spec

\* Whatever the workers, direct publishers, operators and the target do, every row,
\* reservation and process keeps its type, and a process in its cycle has a handoff.
THEOREM TypeCorrect == Spec => []TypeOK
<1>1. TypeInv => TypeOK
  BY DEF TypeInv
<1>2. QED
  BY <1>1, TypeInvariant, PTL

-----------------------------------------------------------------------------
\* The invariant behind ClaimExclusive.

\* A worker in its cycle remembers the row it claimed, locked by itself.
HoldsClaim ==
  \A w \in Workers :
    proc[w].label \in InCycle =>
      proc[w].row.status = "processing" /\ proc[w].row.lockedBy = w

\* Between its two queries claimNext remembers a row it may claim.
SawClaimable ==
  \A w \in Workers : At(w, "claiming") => proc[w].row.status \in ClaimableStatuses

ClaimFacts == ClaimExclusive /\ HoldsClaim /\ SawClaimable

ClaimInv == TypeInv /\ ClaimFacts

\* What a step that claims nothing does to a worker: nothing, the end of its cycle, the
\* first query of a new one, or progress on the row it claimed.
Kept(w) ==
  \/ proc'[w] = proc[w]
  \/ proc'[w].label \notin InCycle \cup {"claiming"}
  \/ proc'[w].label = "claiming" /\ proc'[w].row.status \in ClaimableStatuses
  \/ /\ proc[w].label \in InCycle /\ proc'[w].label \in InCycle
     /\ proc'[w].handoff = proc[w].handoff
     /\ proc'[w].row = proc[w].row

\* Claims survive a step that leaves the outbox alone and every worker as it was, resting,
\* reading a candidate or going on with its row.
LEMMA KeptKeepsClaims ==
  ASSUME ClaimFacts, outbox' = outbox, \A w \in Workers : Kept(w)
  PROVE  ClaimFacts'
<1>1. ASSUME NEW w \in Workers, NEW h \in Handoffs, Working(w, h)'
      PROVE  Working(w, h) /\ proc'[w].row = proc[w].row
  BY <1>1 DEF Kept, Working, InCycle
<1>2. ClaimExclusive'
  BY <1>1 DEF ClaimFacts, ClaimExclusive, Terminal
<1>3. HoldsClaim' /\ SawClaimable'
  BY DEF ClaimFacts, HoldsClaim, SawClaimable, At, Kept, InCycle
<1>4. QED
  BY <1>2, <1>3 DEF ClaimFacts

\* A row changes, and whoever still works on it finds it ended.
LEMMA RowChangeKeepsClaims ==
  ASSUME TypeInv, ClaimFacts, NEW h0 \in Handoffs, NEW r,
         outbox' = [outbox EXCEPT ![h0] = r],
         r.status = "processing" <=> r.lockedBy # NoWorker,
         \A w \in Workers : Kept(w),
         \A w \in Workers : Working(w, h0)' => r.status \in TerminalStatuses
  PROVE  ClaimFacts'
<1>1. ASSUME NEW w \in Workers, NEW h \in Handoffs, Working(w, h)'
      PROVE  Working(w, h) /\ proc'[w].row = proc[w].row
  BY <1>1 DEF Kept, Working, InCycle
<1>2. outbox'[h0] = r /\ \A h \in Handoffs \ {h0} : outbox'[h] = outbox[h]
  BY DEF TypeInv, TypeOK, OutboxTypeOK
<1>3. ClaimExclusive'
  <2>1. \A h \in Handoffs : outbox'[h].status = "processing" <=> outbox'[h].lockedBy # NoWorker
    BY <1>2 DEF ClaimFacts, ClaimExclusive
  <2>2. ASSUME NEW w \in Workers, NEW h \in Handoffs, Working(w, h)'
        PROVE  outbox'[h] = proc'[w].row \/ Terminal(h)'
    BY <1>1, <1>2, <2>2 DEF ClaimFacts, ClaimExclusive, Terminal
  <2>3. \A v, w \in Workers, h \in Handoffs : Working(v, h)' /\ Working(w, h)' => v = w
    BY <1>1 DEF ClaimFacts, ClaimExclusive
  <2>4. QED
    BY <2>1, <2>2, <2>3 DEF ClaimExclusive
<1>4. HoldsClaim' /\ SawClaimable'
  BY DEF ClaimFacts, HoldsClaim, SawClaimable, At, Kept, InCycle
<1>5. QED
  BY <1>3, <1>4 DEF ClaimFacts

\* A row that someone works on is "processing" or ended.
LEMMA WorkedOn ==
  ASSUME ClaimFacts, NEW w \in Workers, NEW h \in Handoffs, Working(w, h)
  PROVE  outbox[h].status = "processing" \/ Terminal(h)
BY DEF ClaimFacts, ClaimExclusive, HoldsClaim, Working

-----------------------------------------------------------------------------
\* What the outbox's operations do to a row, as far as claims are concerned.

\* An updated row has the status and the lock it was updated with.
LEMMA UpdatedFields ==
  ASSUME NEW h, NEW status, NEW lock, NEW count, NEW available
  PROVE  /\ UpdatedRow(h, status, lock, count, available).status = status
         /\ UpdatedRow(h, status, lock, count, available).lockedBy = lock
BY DEF UpdatedRow

\* A released row has its new status and no lock.
LEMMA ReleasedFields ==
  ASSUME NEW h, NEW status
  PROVE  ReleasedRow(h, status).status = status /\ ReleasedRow(h, status).lockedBy = NoWorker
BY UpdatedFields DEF ReleasedRow

\* A failed row is to be retried or given up, and unlocked either way.
LEMMA FailedFields ==
  ASSUME NEW h, NEW r, NEW t
  PROVE  /\ FailedRow(h, r, t).status \in {"failed", "dead-letter"}
         /\ FailedRow(h, r, t).lockedBy = NoWorker
BY UpdatedFields DEF FailedRow

\* No claim exists initially.
LEMMA InitClaims == Init => ClaimFacts
BY DEF Init, OutboxInit, AbsentRow, Resting, ClaimFacts, ClaimExclusive, HoldsClaim,
       SawClaimable, Working, At, InCycle, Processes

\* The clock, expiry, clients and operators keep the facts about claims.
LEMMA EnvironmentClaims ==
  ASSUME ClaimInv,
         \/ Tick
         \/ ReleaseExpiredReservations
         \/ \E h \in Handoffs : EnqueueHandoff(h) \/ OperatorStep(h)
  PROVE  ClaimFacts'
<1>0. UNCHANGED proc /\ TypeInv /\ ClaimFacts
  BY DEF Tick, ReleaseExpiredReservations, EnqueueHandoff, OperatorStep, OperatorCancels,
         OperatorMovesToDeadLetter, OperatorAppendsAttempt, ClaimInv
<1>1. \A w \in Workers : Kept(w)
  BY <1>0 DEF Kept
<1>2. CASE outbox' = outbox
  BY <1>0, <1>1, <1>2, KeptKeepsClaims
<1>3. ASSUME NEW h \in Handoffs, EnqueueHandoff(h) PROVE ClaimFacts'
  <2>0. PICK x \in Hashes, p \in Priorities, s \in Times :
          Enqueue(h, x, p, s, IF s = 0 THEN now ELSE s, now)
    BY <1>3 DEF EnqueueHandoff
  <2> DEFINE r == EnqueuedRow(x, p, s, IF s = 0 THEN now ELSE s, now)
  <2>1. /\ outbox' = [outbox EXCEPT ![h] = r]
        /\ r.status # "processing" /\ r.lockedBy = NoWorker
    BY <2>0 DEF Enqueue, EnqueuedRow
  <2> HIDE DEF r
  <2>2. \A w \in Workers : ~Working(w, h)
    BY <1>0, <1>3, WorkedOn
    DEF EnqueueHandoff, Enqueue, Exists, Terminal, TerminalStatuses
  <2>3. \A w \in Workers : ~Working(w, h)'
    BY <1>0, <2>2 DEF Working
  <2>4. QED
    BY <1>0, <1>1, <2>1, <2>3, RowChangeKeepsClaims
<1>4. ASSUME NEW h \in Handoffs, OperatorCancels(h) \/ OperatorMovesToDeadLetter(h)
      PROVE  ClaimFacts'
  <2>1. ASSUME NEW r, outbox' = [outbox EXCEPT ![h] = r],
               r.status \in TerminalStatuses, r.lockedBy = NoWorker
        PROVE  ClaimFacts'
    <3>1. r.status # "processing"
      BY <2>1 DEF TerminalStatuses
    <3>2. QED
      BY <1>0, <1>1, <2>1, <3>1, RowChangeKeepsClaims
  <2>2. {"cancelled", "dead-letter"} \subseteq TerminalStatuses
    BY DEF TerminalStatuses
  <2>3. PICK st \in {"cancelled", "dead-letter"} :
          outbox' = [outbox EXCEPT ![h] = ReleasedRow(h, st)]
    BY <1>4 DEF OperatorCancels, Cancel, OperatorMovesToDeadLetter, MoveToDeadLetter
  <2>4. /\ ReleasedRow(h, st).status \in TerminalStatuses
        /\ ReleasedRow(h, st).lockedBy = NoWorker
    BY <2>2, ReleasedFields
  <2>5. QED
    BY <2>1, <2>3, <2>4
<1>5. ASSUME NEW h \in Handoffs, OperatorAppendsAttempt(h) PROVE outbox' = outbox
  BY <1>5 DEF OperatorAppendsAttempt, AppendAttempt
<1>6. QED
  BY <1>2, <1>3, <1>4, <1>5 DEF Tick, ReleaseExpiredReservations, OperatorStep

-----------------------------------------------------------------------------
\* The worker's own steps.

\* A process changes only its own state.
LEMMA OthersKept ==
  ASSUME TypeInv, NEW p \in Processes, NEW new, proc' = [proc EXCEPT ![p] = new]
  PROVE  proc'[p] = new /\ \A w \in Workers \ {p} : Kept(w)
BY DEF TypeInv, TypeOK, Kept, Processes

\* A process that ends its cycle claims nothing, and the others are as they were.
LEMMA RestKept ==
  ASSUME TypeInv, NEW p \in Processes, Rest(p)
  PROVE  /\ \A w \in Workers : Kept(w)
         /\ proc'[p].label \in {"idle", "done"}
<1> DEFINE label == IF p \in Workers THEN "idle" ELSE "done"
<1>1. proc'[p] = Resting(label) /\ \A w \in Workers \ {p} : Kept(w)
  BY OthersKept DEF Rest
<1>2. proc'[p].label \in {"idle", "done"}
  BY <1>1 DEF Resting
<1>3. p \in Workers => Kept(p)
  BY <1>2 DEF Kept, InCycle
<1>4. QED
  BY <1>1, <1>2, <1>3

\* A worker that goes on in its cycle keeps the row it claimed.
LEMMA GoWithKept ==
  ASSUME TypeInv, NEW p \in Processes, proc[p].label \in InCycle,
         NEW label \in InCycle, NEW seen, NEW r,
         GoWith(p, label, proc[p].row, seen, r)
  PROVE  \A w \in Workers : Kept(w)
<1> DEFINE new == [label |-> label, handoff |-> proc[p].handoff, row |-> proc[p].row,
                   seen |-> seen, at |-> proc[p].at, retryable |-> r]
<1>1. proc'[p] = new /\ \A w \in Workers \ {p} : Kept(w)
  BY OthersKept DEF GoWith
<1>2. Kept(p)
  BY <1>1 DEF Kept
<1>3. QED
  BY <1>1, <1>2

\* The same for a step that changes only where the worker stands.
LEMMA GoKept ==
  ASSUME TypeInv, NEW p \in Processes, proc[p].label \in InCycle,
         NEW label \in InCycle, Go(p, label)
  PROVE  \A w \in Workers : Kept(w)
BY GoWithKept DEF Go

\* Settling ends the cycle of the only worker on the row.
LEMMA SettleClaims ==
  ASSUME ClaimInv, NEW w \in Workers, proc[w].label \in InCycle,
         Succeed(w) \/ \E r \in BOOLEAN : Fail(w, r)
  PROVE  ClaimFacts'
<1>0. w \in Processes /\ TypeInv /\ ClaimFacts /\ Rest(w)
  BY DEF Processes, ClaimInv, Succeed, Fail
<1>a. PICK h \in Handoffs : h = proc[w].handoff
  BY <1>0, JobType DEF InCycle
<1>1. /\ \A v \in Workers : Kept(v)
      /\ proc'[w].label \in {"idle", "done"}
  BY <1>0, RestKept
<1>2. \A v \in Workers : ~Working(v, h)'
  <2>1. ~Working(w, h)'
    BY <1>1 DEF Working, InCycle
  <2>2. ASSUME NEW v \in Workers \ {w} PROVE ~Working(v, h)'
    <3>1. ~Working(v, h)
      BY <1>0, <1>a DEF ClaimFacts, ClaimExclusive, Working
    <3>2. proc'[v] = proc[v]
      BY <1>0 DEF Rest, TypeInv, TypeOK, Processes
    <3>3. QED
      BY <3>1, <3>2 DEF Working
  <2>3. QED
    BY <2>1, <2>2
<1>3. CASE outbox' = outbox
  BY <1>0, <1>1, <1>3, KeptKeepsClaims
<1>4. ASSUME NEW r, outbox' = [outbox EXCEPT ![h] = r],
             r.status # "processing", r.lockedBy = NoWorker
      PROVE  ClaimFacts'
  BY <1>0, <1>1, <1>2, <1>4, RowChangeKeepsClaims
<1>5. CASE Succeed(w)
  <2>1. /\ ReleasedRow(h, "succeeded").status # "processing"
        /\ ReleasedRow(h, "succeeded").lockedBy = NoWorker
    BY ReleasedFields
  <2>2. \/ outbox' = outbox
        \/ outbox' = [outbox EXCEPT ![h] = ReleasedRow(h, "succeeded")]
    BY <1>5, <1>a DEF Succeed, MarkSucceeded
  <2>3. QED
    BY <1>3, <1>4, <2>1, <2>2
<1>6. ASSUME NEW r \in BOOLEAN, Fail(w, r) PROVE ClaimFacts'
  <2>1. /\ FailedRow(h, r, proc[w].at).status # "processing"
        /\ FailedRow(h, r, proc[w].at).lockedBy = NoWorker
    BY FailedFields
  <2>2. \/ outbox' = outbox
        \/ outbox' = [outbox EXCEPT ![h] = FailedRow(h, r, proc[w].at)]
    BY <1>6, <1>a DEF Fail, MarkFailed
  <2>3. QED
    BY <1>3, <1>4, <2>1, <2>2
<1>7. QED
  BY <1>5, <1>6

\* A claim takes a row that nobody works on.
LEMMA ClaimClaims ==
  ASSUME ClaimInv, NEW w \in Workers, ClaimCandidate(w)
  PROVE  ClaimFacts'
<1> DEFINE h == proc[w].handoff
<1>0. w \in Processes /\ TypeInv /\ ClaimFacts /\ h \in Handoffs
  BY JobType DEF Processes, ClaimInv, ClaimCandidate, At
<1>1. CASE Rest(w) /\ UNCHANGED <<outbox, attempts>>
  BY <1>0, <1>1, RestKept, KeptKeepsClaims
<1>2. CASE Claim(w, h, proc[w].row) /\ GoWith(w, "claimed", Claimed(w, h), NoReservation, FALSE)
  <2> DEFINE r == Claimed(w, h)
  <2>1. outbox[h].status \in ClaimableStatuses
    BY <1>0, <1>2 DEF ClaimCandidate, Claim, StillClaimable, ClaimFacts, SawClaimable
  <2>2. r.status = "processing" /\ r.lockedBy = w /\ w # NoWorker
    BY UpdatedFields, OutboxConstants DEF Claimed
  <2>3. outbox'[h] = r /\ \A g \in Handoffs \ {h} : outbox'[g] = outbox[g]
    BY <1>0, <1>2 DEF Claim, TypeInv, TypeOK, OutboxTypeOK
  <2>4. /\ proc'[w].label = "claimed" /\ proc'[w].handoff = h /\ proc'[w].row = r
        /\ \A v \in Workers \ {w} : proc'[v] = proc[v]
    BY <1>0, <1>2 DEF GoWith, TypeInv, TypeOK, Processes
  <2>5. \A v \in Workers : ~Working(v, h)
    BY <1>0, <2>1, WorkedOn DEF ClaimableStatuses, Terminal, TerminalStatuses
  <2>6. \A v \in Workers, g \in Handoffs : Working(v, g)' <=>
          (IF v = w THEN g = h ELSE Working(v, g))
    BY <2>4 DEF Working, InCycle
  <2>7. ClaimExclusive'
    <3>1. \A g \in Handoffs : outbox'[g].status = "processing" <=> outbox'[g].lockedBy # NoWorker
      BY <1>0, <2>2, <2>3 DEF ClaimFacts, ClaimExclusive
    <3>2. ASSUME NEW v \in Workers, NEW g \in Handoffs, Working(v, g)'
          PROVE  outbox'[g] = proc'[v].row \/ Terminal(g)'
      <4>1. CASE v = w
        BY <2>3, <2>4, <2>6, <3>2, <4>1
      <4>2. CASE v # w
        BY <1>0, <2>3, <2>4, <2>5, <2>6, <3>2, <4>2 DEF ClaimFacts, ClaimExclusive, Terminal
      <4>3. QED
        BY <4>1, <4>2
    <3>3. \A u, v \in Workers, g \in Handoffs : Working(u, g)' /\ Working(v, g)' => u = v
      BY <1>0, <2>5, <2>6 DEF ClaimFacts, ClaimExclusive
    <3>4. QED
      BY <3>1, <3>2, <3>3 DEF ClaimExclusive
  <2>8. HoldsClaim' /\ SawClaimable'
    BY <1>0, <2>2, <2>4 DEF ClaimFacts, HoldsClaim, SawClaimable, At
  <2>9. QED
    BY <2>7, <2>8 DEF ClaimFacts
<1>3. QED
  BY <1>1, <1>2 DEF ClaimCandidate

\* Every step of a worker's cycle keeps the facts about claims.
LEMMA WorkerClaims ==
  ASSUME ClaimInv, NEW w \in Workers, WorkerStep(w)
  PROVE  ClaimFacts'
<1>0. w \in Processes /\ TypeInv /\ ClaimFacts
  BY DEF Processes, ClaimInv
<1>1. CASE ReadCandidate(w)
  <2>1. PICK h \in ClaimCandidates(now) :
          Begin(w, "claiming", h, outbox[h], NoReservation)
    BY <1>1 DEF ReadCandidate
  <2>2. outbox[h].status \in ClaimableStatuses
    BY DEF ClaimCandidates, Claimable
  <2> DEFINE new == [label |-> "claiming", handoff |-> h, row |-> outbox[h],
                     seen |-> NoReservation, at |-> now, retryable |-> FALSE]
  <2>a. proc' = [proc EXCEPT ![w] = new]
    BY <2>1 DEF Begin
  <2>b. new.label = "claiming" /\ new.row = outbox[h]
    OBVIOUS
  <2> HIDE DEF new
  <2>3. /\ proc'[w].label = "claiming" /\ proc'[w].row = outbox[h]
        /\ \A v \in Workers \ {w} : Kept(v)
    BY <1>0, <2>a, <2>b, OthersKept
  <2>4. Kept(w)
    BY <2>2, <2>3 DEF Kept
  <2>5. QED
    BY <1>0, <1>1, <2>3, <2>4, KeptKeepsClaims DEF ReadCandidate
<1>2. CASE ClaimCandidate(w)
  BY <1>2, ClaimClaims
<1>3. CASE RejectPackage(w)
  BY <1>3, SettleClaims DEF RejectPackage, At, InCycle
<1>4. CASE ReserveRead(w)
  BY <1>0, <1>4, GoWithKept, KeptKeepsClaims DEF ReserveRead, At, InCycle
<1>5. CASE SettleSuccess(w)
  BY <1>5, SettleClaims DEF SettleSuccess, At, InCycle
<1>6. CASE SettleFailure(w)
  BY <1>0, <1>6, SettleClaims, JobType DEF SettleFailure, At, InCycle
<1>7. QED
  BY <1>1, <1>2, <1>3, <1>4, <1>5, <1>6 DEF WorkerStep

\* Reserving, publishing, settling the reservation and dying do not touch claims.
LEMMA PublisherClaims ==
  ASSUME ClaimInv, NEW p \in Processes,
         PublisherStep(p) \/ Crash(p) \/ (p \in Direct /\ DirectStep(p))
  PROVE  ClaimFacts'
<1>0. TypeInv /\ ClaimFacts
  BY DEF ClaimInv
<1>1. outbox' = outbox
  BY DEF PublisherStep, ReserveWrite, Publish, CompleteReservation, FailReservation, Crash,
         DirectStep, DirectPublish, DeclineInvalid, SettlingThrows
<1>2. \A w \in Workers : Kept(w)
  <2>1. CASE Rest(p)
    BY <1>0, <2>1, RestKept
  <2>2. CASE /\ proc[p].label \in InCycle
             /\ \E label \in InCycle : \E seen, r : GoWith(p, label, proc[p].row, seen, r)
    BY <1>0, <2>2, GoWithKept
  <2>a. CASE /\ proc[p].label \in InCycle /\ p \in Direct
             /\ \E label : Go(p, label)
    <3>1. p \notin Workers
      BY <2>a, DurablePublishingConstants
    <3>2. PICK new : proc' = [proc EXCEPT ![p] = new]
      BY <2>a DEF Go, GoWith
    <3>3. QED
      BY <1>0, <3>1, <3>2, OthersKept
  <2>3. CASE p \in Direct /\ DirectStep(p)
    <3>1. p \notin Workers
      BY <2>3, DurablePublishingConstants
    <3>2. PICK new : proc' = [proc EXCEPT ![p] = new]
      BY <2>3 DEF DirectStep, DirectPublish, DeclineInvalid, SettlingThrows, Begin, GoWith
    <3>3. QED
      BY <1>0, <3>1, <3>2, OthersKept
  <2>4. CASE PublisherStep(p)
    <3>0. p \notin Workers => p \in Direct
      BY DEF Processes
    <3>1. ReserveWrite(p) => \/ Rest(p)
                             \/ \E label \in InCycle : \E seen, r :
                                  GoWith(p, label, proc[p].row, seen, r)
                             \/ p \in Direct /\ \E label : Go(p, label)
      BY <3>0 DEF ReserveWrite, ReserveAnswer, Go, InCycle
    <3>2. CompleteReservation(p) \/ FailReservation(p) =>
            \/ Rest(p)
            \/ \E label \in InCycle : \E seen, r : GoWith(p, label, proc[p].row, seen, r)
            \/ p \in Direct /\ \E label : Go(p, label)
      BY <3>0 DEF CompleteReservation, FailReservation, Go, InCycle
    <3>3. ASSUME NEW o \in Outcomes, Publish(p, o)
          PROVE  Rest(p) \/ \E label \in InCycle : \E seen, r :
                              GoWith(p, label, proc[p].row, seen, r)
      <4>1. (IF o = "created" THEN "accepted" ELSE "declined") \in InCycle
        BY DEF InCycle
      <4>2. QED
        BY <3>3, <4>1 DEF Publish
    <3>4. proc[p].label \in InCycle
      BY <2>4 DEF PublisherStep, ReserveWrite, Publish, CompleteReservation,
                  FailReservation, At, InCycle
    <3>5. QED
      BY <2>1, <2>2, <2>4, <2>a, <3>1, <3>2, <3>3, <3>4 DEF PublisherStep
  <2>5. QED
    BY <2>1, <2>3, <2>4 DEF Crash
<1>3. QED
  BY <1>0, <1>1, <1>2, KeptKeepsClaims

\* ClaimInv is inductive.
LEMMA ClaimNext ==
  ASSUME ClaimInv, [Next]_vars
  PROVE  ClaimInv'
<1>1. TypeInv'
  BY TypeNext DEF ClaimInv
<1>2. CASE UNCHANGED vars
  <2>1. outbox' = outbox /\ \A w \in Workers : Kept(w)
    BY <1>2 DEF vars, Kept
  <2>2. QED
    BY <1>1, <2>1, KeptKeepsClaims DEF ClaimInv
<1>3. CASE Next
  <2>1. ClaimFacts'
    BY <1>3, EnvironmentClaims, WorkerClaims, PublisherClaims DEF Next, Processes
  <2>2. QED
    BY <1>1, <2>1 DEF ClaimInv
<1>4. QED
  BY <1>2, <1>3

\* ClaimInv holds in every reachable state.
LEMMA ClaimInvariant == Spec => []ClaimInv
<1>1. Init => ClaimInv
  BY TypeInit, InitClaims DEF ClaimInv
<1>2. ClaimInv /\ [Next]_vars => ClaimInv'
  BY ClaimNext
<1>3. QED
  BY <1>1, <1>2, PTL DEF Spec

\* For any number of workers, handoffs and attempts, with crashes and operators: no two
\* workers are in a cycle for one row, and a worker owns the row it works on until an
\* operator ends it.
THEOREM ClaimsExclude == Spec => []ClaimExclusive
<1>1. ClaimInv => ClaimExclusive
  BY DEF ClaimInv, ClaimFacts
<1>2. QED
  BY <1>1, ClaimInvariant, PTL

-----------------------------------------------------------------------------
\* Terminal rows.

\* No step leads out of a terminal state: a claim and a settlement both refuse such a row.
LEMMA TerminalStep ==
  ASSUME ClaimInv, [Next]_vars, NEW h \in Handoffs, Terminal(h)
  PROVE  Terminal(h)'
<1>0. outbox \in [Handoffs -> OutboxRow]
  BY DEF ClaimInv, TypeInv, TypeOK, OutboxTypeOK
<1>1. CASE outbox'[h] = outbox[h]
  BY <1>1 DEF Terminal
<1>2. CASE EnqueueHandoff(h)
  BY <1>2 DEF EnqueueHandoff, Enqueue, Exists, Terminal, TerminalStatuses
<1>3. CASE OperatorCancels(h) \/ OperatorMovesToDeadLetter(h)
  <2>1. \E st \in TerminalStatuses : outbox' = [outbox EXCEPT ![h] = ReleasedRow(h, st)]
    BY <1>3 DEF OperatorCancels, Cancel, OperatorMovesToDeadLetter, MoveToDeadLetter,
                TerminalStatuses
  <2>2. QED
    BY <1>0, <2>1, ReleasedFields DEF Terminal
<1>4. ASSUME NEW w \in Workers, proc[w].handoff = h, ClaimCandidate(w)
      PROVE  outbox' = outbox
  BY <1>4 DEF ClaimCandidate, Claim, StillClaimable, ClaimInv, ClaimFacts, SawClaimable,
              ClaimableStatuses, Terminal, TerminalStatuses
<1>5. ASSUME NEW w \in Workers, proc[w].handoff = h, Succeed(w) \/ \E r \in BOOLEAN : Fail(w, r)
      PROVE  outbox' = outbox
  BY <1>5 DEF Succeed, MarkSucceeded, Fail, MarkFailed, CanSettle
<1>6. ASSUME NEW g \in Handoffs \ {h}, NEW r, outbox' = [outbox EXCEPT ![g] = r]
      PROVE  outbox'[h] = outbox[h]
  BY <1>0, <1>6
<1>7. ASSUME NEW g \in Handoffs, EnqueueHandoff(g) \/ OperatorStep(g)
      PROVE  Terminal(h)'
  <2>1. \/ outbox' = outbox
        \/ \E r : outbox' = [outbox EXCEPT ![g] = r]
    BY <1>7 DEF EnqueueHandoff, Enqueue, OperatorStep, OperatorCancels, Cancel,
                OperatorMovesToDeadLetter, MoveToDeadLetter, OperatorAppendsAttempt,
                AppendAttempt
  <2>2. CASE g = h /\ OperatorAppendsAttempt(g)
    BY <1>1, <2>2 DEF OperatorAppendsAttempt, AppendAttempt
  <2>3. QED
    BY <1>1, <1>2, <1>3, <1>6, <1>7, <2>1, <2>2 DEF OperatorStep
<1>8. ASSUME NEW w \in Workers, WorkerStep(w)
      PROVE  Terminal(h)'
  <2>1. PICK g : g = proc[w].handoff
    OBVIOUS
  <2>2. CASE ReadCandidate(w) \/ ReserveRead(w)
    BY <1>1, <2>2 DEF ReadCandidate, ReserveRead
  <2>3. CASE ClaimCandidate(w) \/ Succeed(w) \/ \E r \in BOOLEAN : Fail(w, r)
    <3>1. \/ outbox' = outbox
          \/ \E r : outbox' = [outbox EXCEPT ![g] = r]
      BY <2>1, <2>3 DEF ClaimCandidate, Claim, Succeed, MarkSucceeded, Fail, MarkFailed
    <3>2. CASE g = h
      BY <1>1, <1>4, <1>5, <2>1, <2>3, <3>2
    <3>3. CASE g # h
      BY <1>0, <1>1, <3>1, <3>3
    <3>4. QED
      BY <3>2, <3>3
  <2>4. proc[w].retryable \in BOOLEAN
    BY DEF ClaimInv, TypeInv, TypeOK, Process, Processes
  <2>5. QED
    BY <1>8, <2>2, <2>3, <2>4 DEF WorkerStep, RejectPackage, SettleSuccess, SettleFailure
<1>9. QED
  BY <1>1, <1>7, <1>8
  DEF Next, vars, Tick, ReleaseExpiredReservations, DirectStep, DirectPublish,
      DeclineInvalid, SettlingThrows, PublisherStep,
      ReserveWrite, Publish, CompleteReservation, FailReservation, Crash

\* No step, an operator's or a late worker's included, takes a row out of "succeeded",
\* "dead-letter" and "cancelled".
THEOREM TerminalStays == Spec => TerminalIsFinal
<1>1. ClaimInv /\ [Next]_vars => [\A h \in Handoffs : Terminal(h) => Terminal(h)']_vars
  BY TerminalStep
<1>2. QED
  BY <1>1, ClaimInvariant, PTL DEF Spec, TerminalIsFinal

-----------------------------------------------------------------------------
\* The invariant behind RemoteIdIsReal and PublishMatchesReservation.

\* A reservation exists with the hash x.
ReservedFor(h, x) == idem[h].status # "absent" /\ idem[h].hash = x

\* What a process knows of the table: the row it read is still there for the payload it
\* had, the row it reserved is there for its own, and an accepted request made a post.
Knows(p) ==
  /\ At(p, "reserving") /\ proc[p].seen.status # "absent" =>
       ReservedFor(proc[p].handoff, proc[p].seen.hash)
  /\ proc[p].label \in {"publishing", "accepted", "declined"} =>
       ReservedFor(proc[p].handoff, proc[p].row.hash)
  /\ At(p, "accepted") => posts[proc[p].handoff] >= 1

ReservationFacts == RemoteIdIsReal /\ \A p \in Processes : Knows(p)

ReservationInv == TypeInv /\ ReservationFacts

\* A step of the table: a reservation is never withdrawn and never changes its payload, a
\* post is never taken back, and a remote id comes with a post.
Grows ==
  \A h \in Handoffs :
    /\ idem[h].status # "absent" => ReservedFor(h, idem[h].hash)'
                                    /\ idem'[h].hash = idem[h].hash
    /\ posts'[h] \in Nat /\ posts'[h] >= posts[h]
    /\ idem'[h].remote => idem[h].remote \/ posts[h] >= 1

\* Reservations and posts that only grow keep the facts about them, provided that whoever
\* moves knows what it then relies on.
LEMMA GrowthKeepsFacts ==
  ASSUME ReservationInv, Grows, \A p \in Processes : proc'[p] = proc[p] \/ Knows(p)'
  PROVE  ReservationFacts'
<1>0. posts \in [Handoffs -> Nat] /\ HasJob
  BY DEF ReservationInv, TypeInv, TypeOK
<1>1. RemoteIdIsReal'
  <2>1. ASSUME NEW h \in Handoffs, idem'[h].remote PROVE posts'[h] >= 1
    <3>1. posts[h] >= 1
      BY <2>1 DEF Grows, ReservationInv, ReservationFacts, RemoteIdIsReal
    <3>2. QED
      BY <1>0, <3>1 DEF Grows
  <2>2. QED
    BY <2>1 DEF RemoteIdIsReal
<1>2. ASSUME NEW p \in Processes, proc'[p] = proc[p] PROVE Knows(p)'
  <2>0. PICK h : h = proc[p].handoff
    OBVIOUS
  <2>1. Knows(p)
    BY DEF ReservationInv, ReservationFacts
  <2>2. CASE proc[p].label \in {"reserving", "publishing", "accepted", "declined"}
    <3>1. h \in Handoffs
      BY <1>0, <2>0, <2>2 DEF HasJob
    <3>2. \A x : ReservedFor(h, x) => ReservedFor(h, x)'
      BY <3>1 DEF Grows, ReservedFor
    <3>3. posts[h] >= 1 => posts'[h] >= 1
      BY <1>0, <3>1 DEF Grows
    <3>4. QED
      BY <1>2, <2>0, <2>1, <3>2, <3>3 DEF Knows, At, ReservedFor
  <2>3. CASE proc[p].label \notin {"reserving", "publishing", "accepted", "declined"}
    BY <1>2, <2>3 DEF Knows, At
  <2>4. QED
    BY <2>2, <2>3
<1>3. QED
  BY <1>1, <1>2 DEF ReservationFacts

\* Nothing is lost where nothing changes.
LEMMA SameTableGrows ==
  ASSUME TypeInv, idem' = idem, posts' = posts
  PROVE  Grows
BY DEF TypeInv, TypeOK, Grows, ReservedFor

\* Settling a reservation keeps its payload, and adds a remote id only to a post.
LEMMA SettledGrows ==
  ASSUME TypeInv, NEW k \in Handoffs, NEW status \in IdempotencyStatuses \ {"absent"},
         NEW remote, remote => idem[k].remote \/ posts[k] >= 1,
         idem' = [idem EXCEPT ![k] = SettledReservation(k, status, remote)],
         posts' = posts
  PROVE  Grows
BY DEF TypeInv, TypeOK, IdempotencyTypeOK, Grows, ReservedFor, SettledReservation

\* A process changes only itself.
LEMMA OthersSame ==
  ASSUME TypeInv, NEW p \in Processes, NEW new, proc' = [proc EXCEPT ![p] = new]
  PROVE  proc'[p] = new /\ \A q \in Processes \ {p} : proc'[q] = proc[q]
BY DEF TypeInv, TypeOK

\* A process at rest relies on nothing.
LEMMA RestKnows ==
  ASSUME TypeInv, NEW p \in Processes, Rest(p)
  PROVE  Knows(p)' /\ \A q \in Processes \ {p} : proc'[q] = proc[q]
<1> DEFINE label == IF p \in Workers THEN "idle" ELSE "done"
<1>1. /\ proc'[p] = Resting(label)
      /\ \A q \in Processes \ {p} : proc'[q] = proc[q]
  BY OthersSame DEF Rest
<1>2. proc'[p].label \in {"idle", "done"}
  BY <1>1 DEF Resting
<1>3. QED
  BY <1>1, <1>2 DEF Knows, At

\* Where a process is after GoWith.
LEMMA GoWithFields ==
  ASSUME TypeInv, NEW p \in Processes, NEW label, NEW row, NEW seen, NEW r,
         GoWith(p, label, row, seen, r)
  PROVE  /\ proc'[p].label = label /\ proc'[p].handoff = proc[p].handoff
         /\ proc'[p].row = row /\ proc'[p].seen = seen
         /\ \A q \in Processes \ {p} : proc'[q] = proc[q]
BY DEF GoWith, TypeInv, TypeOK

\* The facts about reservations hold initially.
LEMMA InitReservations == Init => ReservationFacts
BY DEF Init, IdempotencyInit, NoReservation, Resting, ReservationFacts, RemoteIdIsReal,
       Knows, At

\* The write of a reserve keeps the payload of a row that exists.
LEMMA ReserveGrows ==
  ASSUME TypeInv, NEW k \in Handoffs, NEW x, NEW t, Reserve(k, x, t), posts' = posts
  PROVE  /\ Grows
         /\ idem'[k].status # "absent"
         /\ idem'[k].hash = IF idem[k].status = "absent" THEN x ELSE idem[k].hash
BY DEF TypeInv, TypeOK, IdempotencyTypeOK, Grows, ReservedFor, Reserve

\* A reserve that proceeds has its own payload in the table: it inserts it, or it read it.
LEMMA ProceedsForItsPayload ==
  ASSUME ReservationInv, NEW p \in Processes, ReserveWrite(p), Go(p, "publishing"),
         Reserve(proc[p].handoff, proc[p].row.hash, proc[p].at),
         ReserveOutcome(proc[p].handoff, proc[p].row.hash, proc[p].seen, proc[p].at) = "proceed"
  PROVE  Grows /\ Knows(p)'
<1>0. TypeInv /\ Knows(p) /\ At(p, "reserving") /\ posts' = posts
  BY DEF ReservationInv, ReservationFacts, ReserveWrite
<1>1. PICK k \in Handoffs : k = proc[p].handoff
  BY <1>0, JobType DEF At
<1> DEFINE x == proc[p].row.hash
           seen == proc[p].seen
<1>2. /\ Grows
      /\ idem'[k].status # "absent"
      /\ idem'[k].hash = IF idem[k].status = "absent" THEN x ELSE idem[k].hash
  BY <1>0, <1>1, ReserveGrows
<1>3. idem[k].status # "absent" => idem[k].hash = x
  <2>1. CASE seen.status = "absent"
    BY <1>1, <2>1 DEF ReserveOutcome, InsertLost, OutcomeOfRace
  <2>2. CASE seen.status # "absent"
    <3>1. seen.hash = x
      BY <1>1, <2>2 DEF ReserveOutcome, InsertLost, OutcomeOfRead
    <3>2. ReservedFor(k, seen.hash)
      BY <1>0, <1>1, <2>2 DEF Knows
    <3>3. QED
      BY <3>1, <3>2 DEF ReservedFor
  <2>3. QED
    BY <2>1, <2>2
<1>4. /\ proc'[p].label = "publishing" /\ proc'[p].handoff = k
      /\ proc'[p].row = proc[p].row
  BY <1>0, <1>1, GoWithFields DEF Go
<1>5. QED
  BY <1>2, <1>3, <1>4 DEF Knows, At, ReservedFor

\* Steps that leave the table, the posts and what a process knows alone.
LEMMA SilentReservations ==
  ASSUME ReservationInv, idem' = idem, posts' = posts,
         \A p \in Processes : proc'[p] = proc[p] \/ Knows(p)'
  PROVE  ReservationFacts'
BY SameTableGrows, GrowthKeepsFacts DEF ReservationInv

\* The clock, expiry, clients and operators keep the facts about reservations.
LEMMA EnvironmentReservations ==
  ASSUME ReservationInv,
         \/ Tick
         \/ ReleaseExpiredReservations
         \/ \E h \in Handoffs : EnqueueHandoff(h) \/ OperatorStep(h)
  PROVE  ReservationFacts'
<1>0. UNCHANGED <<posts, proc>> /\ TypeInv
  BY DEF Tick, ReleaseExpiredReservations, EnqueueHandoff, OperatorStep, OperatorCancels,
         OperatorMovesToDeadLetter, OperatorAppendsAttempt, ReservationInv
<1>1. CASE idem' = idem
  BY <1>0, <1>1, SilentReservations
<1>2. CASE ReleaseExpiredReservations
  <2>1. Grows
    BY <1>0, <1>2 DEF ReleaseExpiredReservations, ReleaseExpired, SettledReservation, TypeInv,
                      TypeOK, Grows, ReservedFor
  <2>2. QED
    BY <1>0, <2>1, GrowthKeepsFacts
<1>3. QED
  BY <1>1, <1>2 DEF Tick, EnqueueHandoff, OperatorStep, OperatorCancels,
                    OperatorMovesToDeadLetter, OperatorAppendsAttempt

\* A worker's steps on its outbox row keep them too.
LEMMA WorkerReservations ==
  ASSUME ReservationInv, NEW w \in Workers, WorkerStep(w)
  PROVE  ReservationFacts'
<1>0. w \in Processes /\ TypeInv
  BY DEF Processes, ReservationInv
<1>1. idem' = idem /\ posts' = posts
  BY DEF WorkerStep, ReadCandidate, ClaimCandidate, RejectPackage, ReserveRead, SettleSuccess,
         SettleFailure, Succeed, Fail
<1>2. Knows(w)' /\ \A q \in Processes \ {w} : proc'[q] = proc[q]
  <2>1. CASE ReadCandidate(w)
    <3>1. PICK h \in ClaimCandidates(now) :
            Begin(w, "claiming", h, outbox[h], NoReservation)
      BY <2>1 DEF ReadCandidate
    <3> DEFINE new == [label |-> "claiming", handoff |-> h, row |-> outbox[h],
                       seen |-> NoReservation, at |-> now, retryable |-> FALSE]
    <3>2. proc'[w] = new /\ \A q \in Processes \ {w} : proc'[q] = proc[q]
      BY <1>0, <3>1, OthersSame DEF Begin
    <3>3. proc'[w].label = "claiming"
      BY <3>2
    <3> HIDE DEF new
    <3>4. QED
      BY <3>2, <3>3 DEF Knows, At
  <2>2. CASE ClaimCandidate(w)
    <3>1. CASE Rest(w)
      BY <1>0, <3>1, RestKnows
    <3>2. CASE GoWith(w, "claimed", Claimed(w, proc[w].handoff), NoReservation, FALSE)
      <4>1. /\ proc'[w].label = "claimed"
            /\ \A q \in Processes \ {w} : proc'[q] = proc[q]
        BY <1>0, <3>2 DEF GoWith, TypeInv, TypeOK
      <4>2. QED
        BY <4>1 DEF Knows, At
    <3>3. QED
      BY <2>2, <3>1, <3>2 DEF ClaimCandidate
  <2>3. CASE ReserveRead(w)
    <3>1. PICK h : h = proc[w].handoff
      OBVIOUS
    <3>a. GoWith(w, "reserving", proc[w].row, idem[h], FALSE)
      BY <2>3, <3>1 DEF ReserveRead
    <3>2. /\ proc'[w].label = "reserving" /\ proc'[w].handoff = h /\ proc'[w].seen = idem[h]
          /\ \A q \in Processes \ {w} : proc'[q] = proc[q]
      BY <1>0, <3>1, <3>a DEF GoWith, TypeInv, TypeOK
    <3>3. QED
      BY <1>1, <3>2 DEF Knows, At, ReservedFor
  <2>4. CASE RejectPackage(w) \/ SettleSuccess(w) \/ SettleFailure(w)
    BY <1>0, <2>4, RestKnows DEF RejectPackage, SettleSuccess, SettleFailure, Succeed, Fail
  <2>5. QED
    BY <2>1, <2>2, <2>3, <2>4 DEF WorkerStep
<1>3. QED
  BY <1>1, <1>2, SilentReservations

\* Reserving, publishing, settling and dying keep the facts about reservations.
LEMMA PublisherReservations ==
  ASSUME ReservationInv, NEW p \in Processes,
         PublisherStep(p) \/ Crash(p) \/ (p \in Direct /\ DirectStep(p))
  PROVE  ReservationFacts'
<1>0. TypeInv /\ RemoteIdIsReal /\ Knows(p) /\ posts \in [Handoffs -> Nat]
  BY DEF ReservationInv, ReservationFacts, TypeInv, TypeOK
<1>1. CASE ReserveWrite(p)
  <2>0. posts' = posts
    BY <1>1 DEF ReserveWrite
  <2>1. CASE Rest(p) /\ UNCHANGED idem
    BY <1>0, <2>0, <2>1, RestKnows, SilentReservations
  <2>2. CASE /\ UNCHANGED idem
             /\ \E r : GoWith(p, "settleFailure", proc[p].row, proc[p].seen, r)
    <3>1. Knows(p)' /\ \A q \in Processes \ {p} : proc'[q] = proc[q]
      BY <1>0, <2>2, GoWithFields DEF Knows, At
    <3>2. QED
      BY <2>0, <2>2, <3>1, SilentReservations
  <2>3. CASE UNCHANGED idem /\ \E label \in {"settleSuccess", "published"} : Go(p, label)
    <3>1. Knows(p)' /\ \A q \in Processes \ {p} : proc'[q] = proc[q]
      BY <1>0, <2>3, GoWithFields DEF Go, Knows, At
    <3>2. QED
      BY <2>0, <2>3, <3>1, SilentReservations
  <2>4. CASE /\ Go(p, "publishing")
             /\ Reserve(proc[p].handoff, proc[p].row.hash, proc[p].at)
             /\ ReserveOutcome(proc[p].handoff, proc[p].row.hash, proc[p].seen, proc[p].at)
                  = "proceed"
    <3>1. Grows /\ Knows(p)'
      BY <1>1, <2>4, ProceedsForItsPayload
    <3>2. \A q \in Processes \ {p} : proc'[q] = proc[q]
      BY <1>0, <2>4, GoWithFields DEF Go
    <3>3. QED
      BY <3>1, <3>2, GrowthKeepsFacts
  <2>5. QED
    BY <1>1, <2>1, <2>2, <2>3, <2>4 DEF ReserveWrite, ReserveAnswer
<1>2. ASSUME NEW o \in Outcomes, Publish(p, o) PROVE ReservationFacts'
  <2>1. PICK h \in Handoffs : h = proc[p].handoff
    BY <1>0, <1>2, JobType DEF Publish, At
  <2>2. /\ \A g \in Handoffs : posts'[g] \in Nat /\ posts'[g] >= posts[g]
        /\ o = "created" => posts'[h] >= 1
    BY <1>0, <1>2, <2>1 DEF Publish
  <2>3. Grows
    BY <1>2, <2>2 DEF Publish, Grows, ReservedFor
  <2>4. ReservedFor(h, proc[p].row.hash)
    BY <1>0, <1>2, <2>1 DEF Publish, Knows, At
  <2>5. Knows(p)' /\ \A q \in Processes \ {p} : proc'[q] = proc[q]
    <3>1. CASE Rest(p)
      BY <1>0, <3>1, RestKnows
    <3>2. CASE GoWith(p, IF o = "created" THEN "accepted" ELSE "declined",
                      proc[p].row, proc[p].seen, Retryable(p, o))
      <4>1. /\ proc'[p].label = (IF o = "created" THEN "accepted" ELSE "declined")
            /\ proc'[p].handoff = h
            /\ proc'[p].row = proc[p].row
            /\ \A q \in Processes \ {p} : proc'[q] = proc[q]
        BY <1>0, <2>1, <3>2, GoWithFields
      <4>2. ReservedFor(h, proc[p].row.hash)'
        BY <1>2, <2>4, <4>1 DEF Publish, ReservedFor
      <4>3. QED
        BY <2>2, <4>1, <4>2 DEF Knows, At, ReservedFor
    <3>3. QED
      BY <1>2, <3>1, <3>2 DEF Publish
  <2>6. QED
    BY <2>3, <2>5, GrowthKeepsFacts
<1>3. CASE CompleteReservation(p) \/ FailReservation(p)
  <2>1. PICK h \in Handoffs : h = proc[p].handoff
    BY <1>0, <1>3, JobType DEF CompleteReservation, FailReservation, At
  <2>2. posts' = posts
    BY <1>3 DEF CompleteReservation, FailReservation
  <2>3. CASE CompleteReservation(p)
    <3>1. posts[h] >= 1 /\ "completed" \in IdempotencyStatuses \ {"absent"}
      BY <1>0, <2>1, <2>3 DEF CompleteReservation, Knows, At, IdempotencyStatuses
    <3>2. idem' = [idem EXCEPT ![h] = SettledReservation(h, "completed", TRUE)]
      BY <2>1, <2>3 DEF CompleteReservation, MarkCompleted
    <3>3. Grows
      BY <1>0, <2>2, <3>1, <3>2, SettledGrows
    <3>4. \E label \in {"settleSuccess", "published"} : Go(p, label)
      BY <2>3 DEF CompleteReservation
    <3>5. Knows(p)' /\ \A q \in Processes \ {p} : proc'[q] = proc[q]
      BY <1>0, <3>4, GoWithFields DEF Go, Knows, At
    <3>6. QED
      BY <3>3, <3>5, GrowthKeepsFacts
  <2>4. CASE FailReservation(p)
    <3> DEFINE status == IF proc[p].retryable THEN "failed" ELSE "completed"
    <3>0. status \in IdempotencyStatuses \ {"absent"}
      BY DEF IdempotencyStatuses
    <3>1. idem' = [idem EXCEPT ![h] = SettledReservation(h, status, idem[h].remote)]
      BY <2>1, <2>4 DEF FailReservation, MarkReservationFailed
    <3> HIDE DEF status
    <3>2. Grows
      BY <1>0, <2>2, <3>0, <3>1, SettledGrows
    <3>3. Rest(p) \/ Go(p, "settleFailure")
      BY <2>4 DEF FailReservation
    <3>4. Knows(p)' /\ \A q \in Processes \ {p} : proc'[q] = proc[q]
      BY <1>0, <3>3, RestKnows, GoWithFields DEF Go, Knows, At
    <3>5. QED
      BY <3>2, <3>4, GrowthKeepsFacts
  <2>5. QED
    BY <1>3, <2>3, <2>4
<1>4. CASE Crash(p)
  BY <1>0, <1>4, RestKnows, SilentReservations DEF Crash
<1>5. CASE DirectPublish(p)
  <2>1. PICK h \in Handoffs, x \in Hashes :
          Begin(p, IF idem[h].status = "completed" THEN "published" ELSE "reserving",
                h, EnqueuedRow(x, 0, 0, 0, 0), idem[h])
    BY <1>5 DEF DirectPublish
  <2>2. idem' = idem /\ posts' = posts
    BY <1>5 DEF DirectPublish
  <2> DEFINE label == IF idem[h].status = "completed" THEN "published" ELSE "reserving"
             new == [label |-> label, handoff |-> h,
                     row |-> EnqueuedRow(x, 0, 0, 0, 0), seen |-> idem[h], at |-> now,
                     retryable |-> FALSE]
  <2>3. proc'[p] = new /\ \A q \in Processes \ {p} : proc'[q] = proc[q]
    BY <1>0, <2>1, OthersSame DEF Begin
  <2>4. /\ proc'[p].label \in {"published", "reserving"}
        /\ proc'[p].handoff = h /\ proc'[p].seen = idem[h]
    BY <2>3
  <2> HIDE DEF new
  <2>5. Knows(p)'
    BY <2>2, <2>4 DEF Knows, At, ReservedFor
  <2>6. QED
    BY <2>2, <2>3, <2>5, SilentReservations
<1>6. CASE DeclineInvalid(p) \/ SettlingThrows(p)
  <2>1. PICK h : h = proc[p].handoff
    OBVIOUS
  <2>2. /\ idem' = idem /\ posts' = posts
        /\ \E r : GoWith(p, "declined", proc[p].row, proc[p].seen, r)
    BY <1>6 DEF DeclineInvalid, SettlingThrows
  <2>3. ReservedFor(h, proc[p].row.hash)
    BY <1>0, <1>6, <2>1 DEF DeclineInvalid, SettlingThrows, Knows, At
  <2>4. /\ proc'[p].label = "declined" /\ proc'[p].handoff = h
        /\ proc'[p].row = proc[p].row
        /\ \A q \in Processes \ {p} : proc'[q] = proc[q]
    BY <1>0, <2>1, <2>2, GoWithFields
  <2>5. Knows(p)'
    BY <2>2, <2>3, <2>4 DEF Knows, At, ReservedFor
  <2>6. QED
    BY <2>2, <2>4, <2>5, SilentReservations
<1>7. QED
  BY <1>1, <1>2, <1>3, <1>4, <1>5, <1>6 DEF PublisherStep, DirectStep

\* ReservationInv is inductive.
LEMMA ReservationNext ==
  ASSUME ReservationInv, [Next]_vars
  PROVE  ReservationInv'
<1>1. TypeInv'
  BY TypeNext DEF ReservationInv
<1>2. CASE UNCHANGED vars
  BY <1>1, <1>2, SilentReservations DEF vars, ReservationInv
<1>3. CASE Next
  <2>1. ReservationFacts'
    BY <1>3, EnvironmentReservations, WorkerReservations, PublisherReservations
    DEF Next, Processes
  <2>2. QED
    BY <1>1, <2>1 DEF ReservationInv
<1>4. QED
  BY <1>2, <1>3

\* ReservationInv holds in every reachable state.
LEMMA ReservationInvariant == Spec => []ReservationInv
<1>1. Init => ReservationInv
  BY TypeInit, InitReservations DEF ReservationInv
<1>2. ReservationInv /\ [Next]_vars => ReservationInv'
  BY ReservationNext
<1>3. QED
  BY <1>1, <1>2, PTL DEF Spec

\* Whatever answers are lost and whoever crashes, a remote id in the table is that of a
\* post that was made.
THEOREM RemoteIdsAreReal == Spec => []RemoteIdIsReal
<1>1. ReservationInv => RemoteIdIsReal
  BY DEF ReservationInv, ReservationFacts
<1>2. QED
  BY <1>1, ReservationInvariant, PTL

\* However the two queries of concurrent reserves interleave, the payload that is being
\* published is the one its reservation was made for.
THEOREM PublishesWhatWasReserved == Spec => []PublishMatchesReservation
<1>1. ReservationInv => PublishMatchesReservation
  BY DEF ReservationInv, ReservationFacts, Knows, ReservedFor, PublishMatchesReservation
<1>2. QED
  BY <1>1, ReservationInvariant, PTL

-----------------------------------------------------------------------------
\* The invariant behind AttemptsMatchCount and GivenUpForCause.

\* What a step does to a row and its attempts.  An attempt that is recorded:
Adds(h, n, status, retryable) ==
  attempts'[h] =
    attempts[h] \cup {[number |-> n, status |-> status, retryable |-> retryable]}

Untouched(h) == outbox'[h] = outbox[h] /\ attempts'[h] = attempts[h]

Enqueued(h) ==
  /\ ~Exists(h)
  /\ outbox'[h].status \in {"scheduled", "pending"}
  /\ outbox'[h].attemptCount = 0
  /\ attempts'[h] = attempts[h]

Moved(h) ==
  /\ outbox'[h].attemptCount = outbox[h].attemptCount
  /\ attempts'[h] = attempts[h]
  /\ \/ outbox[h].status \in ClaimableStatuses /\ outbox'[h].status = "processing"
     \/ Exists(h) /\ outbox'[h].status = "cancelled"

Succeeded(h) ==
  /\ outbox[h].status = "processing" /\ outbox'[h].status = "succeeded"
  /\ outbox'[h].attemptCount = outbox[h].attemptCount
  /\ NumberIsFree(h, outbox[h].attemptCount + 1)
  /\ Adds(h, outbox[h].attemptCount + 1, "succeeded", FALSE)

FailedFor(h, r) ==
  /\ outbox[h].status = "processing"
  /\ outbox'[h].attemptCount = outbox[h].attemptCount + 1
  /\ NumberIsFree(h, outbox[h].attemptCount + 1)
  /\ Adds(h, outbox[h].attemptCount + 1, "failed", r)
  /\ IF r /\ outbox[h].attemptCount + 1 < MaxAttempts
     THEN outbox'[h].status = "failed"
     ELSE outbox'[h].status = "dead-letter"

\* What only an operator's commands do.
Appended(h) ==
  /\ "append" \in OperatorOps
  /\ outbox'[h] = outbox[h]
  /\ Adds(h, outbox[h].attemptCount + 1, "started", TRUE)

DeadLettered(h) ==
  /\ "dead-letter" \in OperatorOps
  /\ outbox'[h].status = "dead-letter"
  /\ outbox'[h].attemptCount = outbox[h].attemptCount
  /\ Adds(h, outbox[h].attemptCount + 1, "failed", FALSE)

RowMoves(h) ==
  \/ Untouched(h)
  \/ Enqueued(h)
  \/ Moved(h)
  \/ Succeeded(h)
  \/ \E r \in BOOLEAN : FailedFor(h, r)
  \/ Appended(h)
  \/ DeadLettered(h)

\* An updated row counts the attempts it was updated with.
LEMMA UpdatedCount ==
  ASSUME NEW h, NEW status, NEW lock, NEW count, NEW available
  PROVE  UpdatedRow(h, status, lock, count, available).attemptCount = count
BY DEF UpdatedRow

\* A release keeps the count.
LEMMA ReleasedCount ==
  ASSUME NEW h, NEW status
  PROVE  ReleasedRow(h, status).attemptCount = outbox[h].attemptCount
BY UpdatedCount DEF ReleasedRow

\* A worker in its cycle whose row has not ended settles it with the next number.
LEMMA SettlesTheNext ==
  ASSUME ClaimFacts, NEW w \in Workers, NEW h \in Handoffs, NEW v, NEW n,
         Working(w, h), CanSettle(h, v, n), n = AttemptNumber(w)
  PROVE  outbox[h].status = "processing" /\ n = outbox[h].attemptCount + 1
BY DEF ClaimFacts, ClaimExclusive, HoldsClaim, Working, CanSettle, AttemptNumber

\* Every step does one of these to every row.
LEMMA RowSteps ==
  ASSUME ClaimInv, Next, NEW h \in Handoffs
  PROVE  RowMoves(h)
<1>0. /\ outbox \in [Handoffs -> OutboxRow] /\ attempts \in [Handoffs -> SUBSET Attempt]
      /\ ClaimFacts
  BY DEF ClaimInv, TypeInv, TypeOK, OutboxTypeOK
<1>1. CASE UNCHANGED <<outbox, attempts>>
  BY <1>1 DEF RowMoves, Untouched
<1>2. ASSUME NEW g \in Handoffs \ {h}, NEW r, NEW S,
             outbox' = [outbox EXCEPT ![g] = r],
             attempts' = attempts \/ attempts' = [attempts EXCEPT ![g] = S]
      PROVE  RowMoves(h)
  BY <1>0, <1>2 DEF RowMoves, Untouched
<1>3. ASSUME NEW g \in Handoffs, EnqueueHandoff(g) PROVE RowMoves(h)
  <2>1. PICK x \in Hashes, p \in Priorities, s \in Times :
          Enqueue(g, x, p, s, IF s = 0 THEN now ELSE s, now)
    BY <1>3 DEF EnqueueHandoff
  <2>2. CASE g = h
    <3> DEFINE r == EnqueuedRow(x, p, s, IF s = 0 THEN now ELSE s, now)
    <3>1. r.status \in {"scheduled", "pending"} /\ r.attemptCount = 0
      BY DEF EnqueuedRow
    <3> HIDE DEF r
    <3>2. outbox'[h] = r /\ attempts'[h] = attempts[h] /\ ~Exists(h)
      BY <1>0, <2>1, <2>2 DEF Enqueue, r
    <3>3. QED
      BY <3>1, <3>2 DEF RowMoves, Enqueued
  <2>3. CASE g # h
    BY <1>2, <2>1, <2>3 DEF Enqueue
  <2>4. QED
    BY <2>2, <2>3
<1>4. ASSUME NEW g \in Handoffs, OperatorStep(g) PROVE RowMoves(h)
  <2>1. CASE OperatorCancels(g)
    <3>1. /\ Exists(g) /\ outbox' = [outbox EXCEPT ![g] = ReleasedRow(g, "cancelled")]
          /\ attempts' = attempts
      BY <2>1 DEF OperatorCancels, Cancel
    <3>2. /\ ReleasedRow(g, "cancelled").status = "cancelled"
          /\ ReleasedRow(g, "cancelled").attemptCount = outbox[g].attemptCount
      BY ReleasedFields, ReleasedCount
    <3>3. QED
      BY <1>0, <3>1, <3>2 DEF RowMoves, Moved, Untouched
  <2>2. CASE OperatorMovesToDeadLetter(g)
    <3>1. /\ "dead-letter" \in OperatorOps
          /\ outbox' = [outbox EXCEPT ![g] = ReleasedRow(g, "dead-letter")]
          /\ RecordAttempt(g, outbox[g].attemptCount + 1, "failed", FALSE)
      BY <2>2 DEF OperatorMovesToDeadLetter, MoveToDeadLetter
    <3>2. /\ ReleasedRow(g, "dead-letter").status = "dead-letter"
          /\ ReleasedRow(g, "dead-letter").attemptCount = outbox[g].attemptCount
      BY ReleasedFields, ReleasedCount
    <3>3. CASE g = h
      BY <1>0, <3>1, <3>2, <3>3 DEF RowMoves, DeadLettered, Adds, RecordAttempt
    <3>4. CASE g # h
      BY <1>2, <3>1, <3>4 DEF RecordAttempt
    <3>5. QED
      BY <3>3, <3>4
  <2>3. CASE OperatorAppendsAttempt(g)
    BY <1>0, <2>3
    DEF OperatorAppendsAttempt, AppendAttempt, RecordAttempt, Adds, RowMoves, Appended, Untouched
  <2>4. QED
    BY <1>4, <2>1, <2>2, <2>3 DEF OperatorStep
<1>5. ASSUME NEW w \in Workers, WorkerStep(w) PROVE RowMoves(h)
  <2>1. CASE ReadCandidate(w) \/ ReserveRead(w)
    BY <1>1, <2>1 DEF ReadCandidate, ReserveRead
  <2>2. CASE ClaimCandidate(w)
    <3>1. PICK g \in Handoffs : g = proc[w].handoff
      BY <2>2, JobType DEF ClaimCandidate, At, ClaimInv, Processes
    <3>2. CASE Claim(w, g, proc[w].row)
      <4>1. /\ outbox' = [outbox EXCEPT ![g] = Claimed(w, g)] /\ attempts' = attempts
            /\ outbox[g].status \in ClaimableStatuses
        BY <1>0, <2>2, <3>2
        DEF Claim, StillClaimable, ClaimFacts, SawClaimable, ClaimCandidate
      <4>2. /\ Claimed(w, g).status = "processing"
            /\ Claimed(w, g).attemptCount = outbox[g].attemptCount
        BY UpdatedFields, UpdatedCount DEF Claimed
      <4>3. QED
        BY <1>0, <4>1, <4>2 DEF RowMoves, Moved, Untouched
    <3>3. QED
      BY <1>1, <2>2, <3>1, <3>2 DEF ClaimCandidate
  <2>3. CASE proc[w].label \in InCycle /\ Succeed(w)
    <3>1. PICK g \in Handoffs : g = proc[w].handoff
      BY <2>3, JobType DEF InCycle, ClaimInv, Processes
    <3>2. CASE MarkSucceeded(g, proc[w].row.version, AttemptNumber(w))
      <4>1. PICK n : n = AttemptNumber(w)
        OBVIOUS
      <4>2. outbox[g].status = "processing" /\ n = outbox[g].attemptCount + 1
        BY <1>0, <2>3, <3>1, <3>2, <4>1, SettlesTheNext DEF MarkSucceeded, Working
      <4>3. /\ outbox' = [outbox EXCEPT ![g] = ReleasedRow(g, "succeeded")]
            /\ RecordAttempt(g, n, "succeeded", FALSE)
            /\ NumberIsFree(g, n)
        BY <3>2, <4>1 DEF MarkSucceeded, CanSettle
      <4>4. /\ ReleasedRow(g, "succeeded").status = "succeeded"
            /\ ReleasedRow(g, "succeeded").attemptCount = outbox[g].attemptCount
        BY ReleasedFields, ReleasedCount
      <4>5. CASE g = h
        BY <1>0, <4>2, <4>3, <4>4, <4>5 DEF RowMoves, Succeeded, Adds, RecordAttempt
      <4>6. CASE g # h
        BY <1>2, <4>3, <4>6 DEF RecordAttempt
      <4>7. QED
        BY <4>5, <4>6
    <3>3. QED
      BY <1>1, <2>3, <3>1, <3>2 DEF Succeed
  <2>4. ASSUME NEW r \in BOOLEAN, proc[w].label \in InCycle, Fail(w, r)
        PROVE  RowMoves(h)
    <3>1. PICK g \in Handoffs : g = proc[w].handoff
      BY <2>4, JobType DEF InCycle, ClaimInv, Processes
    <3>2. CASE MarkFailed(g, proc[w].row.version, AttemptNumber(w), r, proc[w].at)
      <4>1. PICK n, row : n = AttemptNumber(w) /\ row = FailedRow(g, r, proc[w].at)
        OBVIOUS
      <4>2. outbox[g].status = "processing" /\ n = outbox[g].attemptCount + 1
        BY <1>0, <2>4, <3>1, <3>2, <4>1, SettlesTheNext DEF MarkFailed, Working
      <4>3. /\ outbox' = [outbox EXCEPT ![g] = row]
            /\ RecordAttempt(g, n, "failed", r)
            /\ NumberIsFree(g, n)
        BY <3>2, <4>1 DEF MarkFailed, CanSettle
      <4>4. /\ row.attemptCount = outbox[g].attemptCount + 1
            /\ IF r /\ outbox[g].attemptCount + 1 < MaxAttempts
               THEN row.status = "failed"
               ELSE row.status = "dead-letter"
        BY <4>1, UpdatedFields, UpdatedCount DEF FailedRow, ShouldRetry
      <4>5. CASE g = h
        <5>1. FailedFor(h, r)
          BY <1>0, <4>2, <4>3, <4>4, <4>5 DEF FailedFor, Adds, RecordAttempt
        <5>2. QED
          BY <5>1 DEF RowMoves
      <4>6. CASE g # h
        BY <1>2, <4>3, <4>6 DEF RecordAttempt
      <4>7. QED
        BY <4>5, <4>6
    <3>3. QED
      BY <1>1, <2>4, <3>1, <3>2 DEF Fail
  <2>5. proc[w].retryable \in BOOLEAN
    BY DEF ClaimInv, TypeInv, TypeOK, Process, Processes
  <2>6. QED
    BY <1>5, <2>1, <2>2, <2>3, <2>4, <2>5
    DEF WorkerStep, RejectPackage, SettleSuccess, SettleFailure, At, InCycle
<1>6. QED
  BY <1>1, <1>3, <1>4, <1>5
  DEF Next, Tick, ReleaseExpiredReservations, DirectStep, DirectPublish, DeclineInvalid,
      SettlingThrows, PublisherStep, ReserveWrite, Publish, CompleteReservation,
      FailReservation, Crash

\* A row is given up for cause, and a row that was never enqueued has no attempts.
GivenUpFacts ==
  /\ GivenUpForCause
  /\ \A h \in Handoffs : ~Exists(h) => outbox[h].attemptCount = 0

GivenUpInv == ClaimInv /\ GivenUpFacts

\* What GivenUpForCause asks of one row.
ForCause(h) ==
  /\ outbox[h].status \in {"pending", "scheduled", "failed", "processing"} =>
       outbox[h].attemptCount < MaxAttempts
  /\ outbox[h].status = "dead-letter" =>
       \/ outbox[h].attemptCount = MaxAttempts
       \/ \E a \in attempts[h] :
            /\ a.number \in {outbox[h].attemptCount, outbox[h].attemptCount + 1}
            /\ a.status = "failed" /\ ~a.retryable
  /\ ~Exists(h) => outbox[h].attemptCount = 0

\* Every row on its own.
LEMMA GivenUpByRow ==
  /\ GivenUpFacts <=> \A h \in Handoffs : ForCause(h)
  /\ GivenUpFacts' <=> \A h \in Handoffs : ForCause(h)'
BY DEF GivenUpFacts, GivenUpForCause, ForCause

\* A step keeps it.
LEMMA ForCauseStep ==
  ASSUME GivenUpInv, NEW h \in Handoffs, RowMoves(h)
  PROVE  ForCause(h)'
<1>0. /\ ForCause(h) /\ outbox[h].attemptCount \in Nat /\ outbox[h].status \in OutboxStatuses
      /\ MaxAttempts \in Nat \ {0}
  BY GivenUpByRow, OutboxConstants
  DEF GivenUpInv, ClaimInv, TypeInv, TypeOK, OutboxTypeOK, OutboxRow
<1>1. CASE Untouched(h)
  BY <1>0, <1>1 DEF Untouched, ForCause, Exists
<1>2. CASE Enqueued(h)
  BY <1>0, <1>2 DEF Enqueued, ForCause, Exists
<1>3. CASE Moved(h)
  BY <1>0, <1>3 DEF Moved, ForCause, Exists, ClaimableStatuses
<1>4. CASE Succeeded(h)
  BY <1>0, <1>4 DEF Succeeded, ForCause, Exists
<1>5. ASSUME NEW r \in BOOLEAN, FailedFor(h, r) PROVE ForCause(h)'
  <2>1. /\ outbox'[h].attemptCount = outbox[h].attemptCount + 1
        /\ outbox[h].attemptCount < MaxAttempts
        /\ [number |-> outbox'[h].attemptCount, status |-> "failed", retryable |-> r]
             \in attempts'[h]
        /\ outbox'[h].status = IF r /\ outbox'[h].attemptCount < MaxAttempts
                               THEN "failed" ELSE "dead-letter"
    BY <1>0, <1>5 DEF FailedFor, Adds, ForCause
  <2>2. CASE r /\ outbox'[h].attemptCount < MaxAttempts
    BY <2>1, <2>2 DEF ForCause, Exists
  <2>3. CASE r /\ ~(outbox'[h].attemptCount < MaxAttempts)
    BY <1>0, <2>1, <2>3 DEF ForCause, Exists
  <2>4. CASE ~r
    BY <2>1, <2>4 DEF ForCause, Exists
  <2>5. QED
    BY <2>2, <2>3, <2>4
<1>6. CASE Appended(h)
  BY <1>0, <1>6 DEF Appended, Adds, ForCause, Exists
<1>7. CASE DeadLettered(h)
  <2>1. /\ outbox'[h].attemptCount = outbox[h].attemptCount
        /\ outbox'[h].status = "dead-letter"
        /\ [number |-> outbox[h].attemptCount + 1, status |-> "failed", retryable |-> FALSE]
             \in attempts'[h]
    BY <1>7 DEF DeadLettered, Adds
  <2>2. QED
    BY <2>1 DEF ForCause, Exists
<1>8. QED
  BY <1>1, <1>2, <1>3, <1>4, <1>5, <1>6, <1>7 DEF RowMoves

\* GivenUpInv is inductive.
LEMMA GivenUpNext ==
  ASSUME GivenUpInv, [Next]_vars
  PROVE  GivenUpInv'
<1>1. ClaimInv /\ ClaimInv'
  BY ClaimNext DEF GivenUpInv
<1>2. \A h \in Handoffs : RowMoves(h)
  BY <1>1, RowSteps DEF vars, RowMoves, Untouched
<1>3. GivenUpFacts'
  BY <1>2, ForCauseStep, GivenUpByRow
<1>4. QED
  BY <1>1, <1>3 DEF GivenUpInv

\* However failures, crashes and operators interleave, a row is given up only when its
\* attempts are used up or a final failure is on record, and retried only below the limit.
THEOREM GivenUpWithCause == Spec => []GivenUpForCause
<1>1. Init => GivenUpInv
  <2>1. Init => GivenUpFacts
    BY OutboxConstants
    DEF Init, OutboxInit, AbsentRow, GivenUpFacts, GivenUpForCause, Exists
  <2>2. QED
    BY <2>1, TypeInit, InitClaims DEF GivenUpInv, ClaimInv
<1>2. GivenUpInv /\ [Next]_vars => GivenUpInv'
  BY GivenUpNext
<1>3. GivenUpInv => GivenUpForCause
  BY DEF GivenUpInv, GivenUpFacts
<1>4. QED
  BY <1>1, <1>2, <1>3, PTL DEF Spec

\* The story of a row and its attempts, where operators do not record attempts of their own.
HistoryFacts ==
  /\ AttemptsMatchCount
  /\ \A h \in Handoffs : ~Exists(h) => outbox[h].attemptCount = 0

HistoryInv == ClaimInv /\ HistoryFacts

\* What AttemptsMatchCount asks of one row.
Told(h) ==
  /\ Recorded(h, "failed") = 1..outbox[h].attemptCount
  /\ Recorded(h, "succeeded") \in {{}, {outbox[h].attemptCount + 1}}
  /\ outbox[h].status = "succeeded" => Recorded(h, "succeeded") # {}
  /\ Recorded(h, "succeeded") # {} => outbox[h].status \in {"succeeded", "cancelled"}
  /\ \A a, b \in attempts[h] : a.number = b.number => a = b
  /\ ~Exists(h) => outbox[h].attemptCount = 0

\* Every row on its own.
LEMMA HistoryByRow ==
  /\ HistoryFacts <=> \A h \in Handoffs : Told(h)
  /\ HistoryFacts' <=> \A h \in Handoffs : Told(h)'
BY DEF HistoryFacts, AttemptsMatchCount, Told

\* A recorded attempt adds its number to those of its kind.
LEMMA RecordedGrows ==
  ASSUME NEW h, NEW n, NEW status, NEW r, Adds(h, n, status, r), NEW kind
  PROVE  Recorded(h, kind)' = IF kind = status THEN Recorded(h, kind) \cup {n}
                                               ELSE Recorded(h, kind)
<1> DEFINE new == [number |-> n, status |-> status, retryable |-> r]
<1>1. \A x : x \in Recorded(h, kind)' <=>
               \/ \E b \in attempts[h] : b.status = kind /\ x = b.number
               \/ new.status = kind /\ x = new.number
  BY DEF Adds, Recorded
<1>2. \A x : x \in Recorded(h, kind) <=>
               \E b \in attempts[h] : b.status = kind /\ x = b.number
  BY DEF Recorded
<1>3. new.status = status /\ new.number = n
  OBVIOUS
<1> HIDE DEF new
<1>4. CASE kind = status
  BY <1>1, <1>2, <1>3, <1>4
<1>5. CASE kind # status
  BY <1>1, <1>2, <1>3, <1>5
<1>6. QED
  BY <1>4, <1>5

\* An attempt with a number that was free leaves the numbers distinct.
LEMMA NumbersStayDistinct ==
  ASSUME NEW h, NEW n, NEW status, NEW r, Adds(h, n, status, r), NumberIsFree(h, n),
         \A a, b \in attempts[h] : a.number = b.number => a = b
  PROVE  (\A a, b \in attempts[h] : a.number = b.number => a = b)'
BY DEF Adds, NumberIsFree

\* A step keeps the story.
LEMMA ToldStep ==
  ASSUME OperatorOps \subseteq {"cancel"}, HistoryInv, NEW h \in Handoffs, RowMoves(h)
  PROVE  Told(h)'
<1>0. Told(h) /\ outbox[h].attemptCount \in Nat /\ outbox[h].status \in OutboxStatuses
  BY HistoryByRow DEF HistoryInv, ClaimInv, TypeInv, TypeOK, OutboxTypeOK, OutboxRow
<1>1. CASE Untouched(h)
  BY <1>0, <1>1 DEF Untouched, Told, Exists, Recorded
<1>2. ASSUME attempts'[h] = attempts[h],
             outbox'[h].attemptCount = outbox[h].attemptCount,
             Recorded(h, "succeeded") # {} => outbox'[h].status = "cancelled",
             outbox'[h].status \notin {"succeeded", "absent"}
      PROVE  Told(h)'
  BY <1>0, <1>2 DEF Told, Exists, Recorded
<1>3. CASE Enqueued(h)
  <2>1. outbox[h].attemptCount = 0 /\ Recorded(h, "succeeded") = {}
    BY <1>0, <1>3 DEF Enqueued, Told, Exists
  <2>2. QED
    BY <1>2, <1>3, <2>1 DEF Enqueued
<1>4. CASE Moved(h)
  <2>1. outbox[h].status \in ClaimableStatuses => Recorded(h, "succeeded") = {}
    BY <1>0 DEF Told, ClaimableStatuses
  <2>2. QED
    BY <1>2, <1>4, <2>1 DEF Moved
<1>5. CASE Succeeded(h)
  <2>0. PICK n : n = outbox[h].attemptCount + 1
    OBVIOUS
  <2>a. Adds(h, n, "succeeded", FALSE)
    BY <1>5, <2>0 DEF Succeeded
  <2>b. \A kind : Recorded(h, kind)' = IF kind = "succeeded" THEN Recorded(h, kind) \cup {n}
                                                           ELSE Recorded(h, kind)
    BY <2>a, RecordedGrows
  <2>1. /\ Recorded(h, "failed")' = Recorded(h, "failed")
        /\ Recorded(h, "succeeded")' = Recorded(h, "succeeded") \cup {outbox[h].attemptCount + 1}
    BY <2>0, <2>b
  <2>2. Recorded(h, "succeeded") = {}
    BY <1>0, <1>5 DEF Succeeded, Told
  <2>3. (\A a, b \in attempts[h] : a.number = b.number => a = b)'
    BY <1>0, <1>5, NumbersStayDistinct DEF Succeeded, Told
  <2>4. QED
    BY <1>0, <1>5, <2>1, <2>2, <2>3 DEF Succeeded, Told, Exists
<1>6. ASSUME NEW r \in BOOLEAN, FailedFor(h, r) PROVE Told(h)'
  <2>1. /\ Recorded(h, "failed")' = Recorded(h, "failed") \cup {outbox[h].attemptCount + 1}
        /\ Recorded(h, "succeeded")' = Recorded(h, "succeeded")
    BY <1>6, RecordedGrows DEF FailedFor
  <2>2. Recorded(h, "succeeded") = {}
    BY <1>0, <1>6 DEF FailedFor, Told
  <2>3. (\A a, b \in attempts[h] : a.number = b.number => a = b)'
    BY <1>0, <1>6, NumbersStayDistinct DEF FailedFor, Told
  <2>4. /\ outbox'[h].attemptCount = outbox[h].attemptCount + 1
        /\ outbox'[h].status \in {"failed", "dead-letter"}
    BY <1>6 DEF FailedFor
  <2>5. Recorded(h, "failed")' = 1..outbox'[h].attemptCount
    <3>1. Recorded(h, "failed") = 1..outbox[h].attemptCount
      BY <1>0 DEF Told
    <3>2. \A n \in Nat : (1..n) \cup {n + 1} = 1..(n + 1)
      OBVIOUS
    <3>3. QED
      BY <1>0, <2>1, <2>4, <3>1, <3>2
  <2>6. QED
    BY <2>1, <2>2, <2>3, <2>4, <2>5 DEF Told, Exists
<1>7. ~Appended(h) /\ ~DeadLettered(h)
  BY DEF Appended, DeadLettered
<1>8. QED
  BY <1>1, <1>3, <1>4, <1>5, <1>6, <1>7 DEF RowMoves

\* HistoryInv is inductive.
LEMMA HistoryNext ==
  ASSUME OperatorOps \subseteq {"cancel"}, HistoryInv, [Next]_vars
  PROVE  HistoryInv'
<1>1. ClaimInv /\ ClaimInv'
  BY ClaimNext DEF HistoryInv
<1>2. \A h \in Handoffs : RowMoves(h)
  BY <1>1, RowSteps DEF vars, RowMoves, Untouched
<1>3. HistoryFacts'
  BY <1>2, ToldStep, HistoryByRow
<1>4. QED
  BY <1>1, <1>3 DEF HistoryInv

\* The attempt table tells the whole story of every row, for any number of workers that
\* race, crash and retry, while operators may cancel any row at any time.  The hypothesis
\* is about the two commands that take the number of their attempt from the operator:
\* such an attempt is not one the row's counter counts.
THEOREM AttemptsTellTheStory ==
  ASSUME OperatorOps \subseteq {"cancel"}
  PROVE  Spec => []AttemptsMatchCount
<1>1. Init => HistoryInv
  <2>1. ASSUME Init, NEW h \in Handoffs PROVE Told(h)
    <3>1. outbox[h] = AbsentRow /\ attempts[h] = {} /\ 1..0 = {}
      BY <2>1 DEF Init, OutboxInit
    <3>2. QED
      BY <3>1 DEF Told, Recorded, AbsentRow, Exists
  <2>2. QED
    BY <2>1, TypeInit, InitClaims, HistoryByRow DEF HistoryInv, ClaimInv
<1>2. HistoryInv /\ [Next]_vars => HistoryInv'
  BY HistoryNext
<1>3. HistoryInv => AttemptsMatchCount
  BY DEF HistoryInv, HistoryFacts
<1>4. QED
  BY <1>1, <1>2, <1>3, PTL DEF Spec

-----------------------------------------------------------------------------
\* The invariant behind PublishedOnce and SuccessIsPublished, where the workers are the
\* only ones who use the idempotency table.

\* A row that is, or may come to be, up for a claim.
Free(h) == outbox[h].status \in ClaimableStatuses \cup {"absent"}

\* The target answers every request it accepts, and its answer can be read.
Answers == Outcomes \cap {"lost", "malformed"} = {}

\* A handoff with a completed reservation, or with a post, is never claimed again.
Backed(h) ==
  /\ idem[h].status = "completed" => ~Free(h)
  /\ outbox[h].status = "succeeded" => posts[h] >= 1
  /\ Answers => posts[h] <= 1 /\ (posts[h] >= 1 => ~Free(h))

\* A worker has found no completed reservation until it completes its own, and no post
\* until its request is accepted.
Honest(w, h) ==
  /\ proc[w].label \in {"claimed", "reserving", "publishing", "accepted", "declined"} =>
       idem[h].status # "completed"
  /\ proc[w].label = "reserving" => proc[w].seen.status # "completed"
  /\ proc[w].label = "settleFailure" /\ proc[w].retryable => idem[h].status # "completed"
  /\ proc[w].label \in {"accepted", "settleSuccess"} => posts[h] >= 1
  /\ Answers /\ proc[w].label \notin {"accepted", "settleSuccess"} => posts[h] = 0

PostFact(h) == Backed(h) /\ \A w \in Workers : Working(w, h) => Honest(w, h)

PostFacts == \A h \in Handoffs : PostFact(h)

PostInv == ClaimInv /\ PostFacts

\* Nothing happens to a handoff's result, or someone's cycle on it ends.
Quiet(h) ==
  /\ posts'[h] = posts[h]
  /\ idem'[h].status = "completed" => idem[h].status = "completed"
  /\ Free(h)' => Free(h)
  /\ outbox'[h].status = "succeeded" => outbox[h].status = "succeeded"
  /\ \A w \in Workers : Working(w, h)' => Working(w, h) /\ proc'[w] = proc[w]

\* Such a step keeps what is known.
LEMMA QuietKeeps ==
  ASSUME NEW h, PostFact(h), Quiet(h)
  PROVE  PostFact(h)'
<1>1. Backed(h)'
  BY DEF PostFact, Backed, Quiet
<1>2. ASSUME NEW w \in Workers, Working(w, h)' PROVE Honest(w, h)'
  BY <1>2 DEF PostFact, Quiet, Honest
<1>3. QED
  BY <1>1, <1>2 DEF PostFact

\* A step of a worker on its row keeps what is known when it does so for that worker.
LEMMA AloneKeeps ==
  ASSUME ClaimInv, NEW w \in Workers, NEW h \in Handoffs, Working(w, h),
         \A v \in Workers \ {w} : proc'[v] = proc[v],
         Backed(h)',
         Working(w, h)' => Honest(w, h)'
  PROVE  PostFact(h)'
<1>1. ASSUME NEW v \in Workers \ {w} PROVE ~Working(v, h)'
  BY <1>1 DEF ClaimInv, ClaimFacts, ClaimExclusive, Working
<1>2. QED
  BY <1>1 DEF PostFact

\* A row that is worked on is not free.
LEMMA WorkedOnIsNotFree ==
  ASSUME ClaimInv, NEW w \in Workers, NEW h \in Handoffs, Working(w, h)
  PROVE  ~Free(h)
BY WorkedOn DEF ClaimInv, Free, ClaimableStatuses, Terminal, TerminalStatuses

\* What a worker that goes on changes elsewhere: nothing.
LEMMA ElsewhereQuiet ==
  ASSUME NEW w \in Workers, NEW h, proc[w].handoff # h,
         \A v \in Workers \ {w} : proc'[v] = proc[v],
         proc'[w].handoff # h \/ proc'[w].label \notin InCycle,
         outbox'[h] = outbox[h], idem'[h] = idem[h], posts'[h] = posts[h]
  PROVE  Quiet(h)
BY DEF Quiet, Free, Working

\* The clock, expiry, clients and operators: a reservation that expires is not a completed
\* one, a row that is enqueued was free, and a row that an operator ends is free no more.
LEMMA EnvironmentQuiet ==
  ASSUME ClaimInv, NEW h \in Handoffs,
         \/ Tick
         \/ ReleaseExpiredReservations
         \/ \E g \in Handoffs : EnqueueHandoff(g) \/ OperatorStep(g)
  PROVE  Quiet(h)
<1>0. /\ UNCHANGED <<posts, proc>> /\ TypeInv
      /\ outbox \in [Handoffs -> OutboxRow]
  BY DEF Tick, ReleaseExpiredReservations, EnqueueHandoff, OperatorStep, OperatorCancels,
         OperatorMovesToDeadLetter, OperatorAppendsAttempt, ClaimInv, TypeInv, TypeOK,
         OutboxTypeOK
<1>1. idem'[h].status = "completed" => idem[h].status = "completed"
  <2>1. CASE ReleaseExpiredReservations
    BY <2>1 DEF ReleaseExpiredReservations, ReleaseExpired, SettledReservation
  <2>2. CASE idem' = idem
    BY <2>2
  <2>3. QED
    BY <2>1, <2>2 DEF Tick, EnqueueHandoff, OperatorStep, OperatorCancels,
                      OperatorMovesToDeadLetter, OperatorAppendsAttempt
<1>2. /\ Free(h)' => Free(h)
      /\ outbox'[h].status = "succeeded" => outbox[h].status = "succeeded"
  <2>1. CASE outbox'[h] = outbox[h]
    BY <2>1 DEF Free
  <2>2. ASSUME NEW g \in Handoffs, EnqueueHandoff(g), outbox'[h] # outbox[h]
        PROVE  ~Exists(h) /\ outbox'[h].status \in {"scheduled", "pending"}
    <3>1. PICK x \in Hashes, p \in Priorities, s \in Times :
            Enqueue(g, x, p, s, IF s = 0 THEN now ELSE s, now)
      BY <2>2 DEF EnqueueHandoff
    <3> DEFINE r == EnqueuedRow(x, p, s, IF s = 0 THEN now ELSE s, now)
    <3>2. r.status \in {"scheduled", "pending"}
      BY DEF EnqueuedRow
    <3> HIDE DEF r
    <3>3. outbox' = [outbox EXCEPT ![g] = r] /\ ~Exists(g)
      BY <3>1 DEF Enqueue, r
    <3>4. QED
      BY <1>0, <2>2, <3>2, <3>3
  <2>3. ASSUME NEW g \in Handoffs, OperatorStep(g), outbox'[h] # outbox[h]
        PROVE  outbox'[h].status \in {"cancelled", "dead-letter"}
    <3>1. PICK st \in {"cancelled", "dead-letter"} :
            outbox' = [outbox EXCEPT ![g] = ReleasedRow(g, st)]
      BY <2>3 DEF OperatorStep, OperatorCancels, Cancel, OperatorMovesToDeadLetter,
                  MoveToDeadLetter, OperatorAppendsAttempt, AppendAttempt
    <3>2. QED
      BY <1>0, <2>3, <3>1, ReleasedFields
  <2>4. QED
    BY <2>1, <2>2, <2>3 DEF Tick, ReleaseExpiredReservations, Free, Exists, ClaimableStatuses
<1>3. QED
  BY <1>0, <1>1, <1>2 DEF Quiet, Working

\* A worker that rests leaves its handoff quiet when the row is not freed by it.
LEMMA RestQuiet ==
  ASSUME ClaimInv, NEW w \in Workers, Rest(w), idem' = idem, posts' = posts,
         NEW h \in Handoffs, Free(h)' => Free(h),
         outbox'[h].status = "succeeded" => outbox[h].status = "succeeded"
  PROVE  Quiet(h)
<1>1. /\ proc'[w].label \notin InCycle
      /\ \A v \in Workers \ {w} : proc'[v] = proc[v]
  <2>1. proc'[w] = Resting("idle") /\ \A v \in Workers \ {w} : proc'[v] = proc[v]
    BY DEF Rest, ClaimInv, TypeInv, TypeOK, Processes
  <2>2. QED
    BY <2>1 DEF Resting, InCycle
<1>2. QED
  BY <1>1 DEF Quiet, Working

\* A claim is made of a free row only: no reservation of it is completed, and it has no post.
LEMMA ClaimPosts ==
  ASSUME ClaimInv, PostFacts, NEW w \in Workers, NEW h \in Handoffs, ClaimCandidate(w)
  PROVE  PostFact(h)'
<1>0. /\ PostFact(h) /\ w \in Processes /\ TypeInv /\ ClaimFacts
      /\ idem' = idem /\ posts' = posts
  BY DEF PostFacts, Processes, ClaimInv, ClaimCandidate
<1>1. PICK k \in Handoffs : k = proc[w].handoff
  BY <1>0, JobType DEF ClaimCandidate, At
<1>2. CASE Rest(w) /\ UNCHANGED outbox
  BY <1>0, <1>2, RestQuiet, QuietKeeps DEF Free
<1>3. CASE Claim(w, k, proc[w].row) /\ GoWith(w, "claimed", Claimed(w, k), NoReservation, FALSE)
  <2>1. /\ proc'[w].label = "claimed" /\ proc'[w].handoff = k
        /\ \A v \in Workers \ {w} : proc'[v] = proc[v]
    BY <1>0, <1>1, <1>3 DEF GoWith, TypeInv, TypeOK, Processes
  <2>2. outbox[k].status \in ClaimableStatuses
    BY <1>0, <1>3 DEF Claim, StillClaimable, ClaimFacts, SawClaimable, ClaimCandidate
  <2>3. outbox'[k].status = "processing" /\ \A g \in Handoffs \ {k} : outbox'[g] = outbox[g]
    BY <1>0, <1>3, UpdatedFields DEF Claim, Claimed, TypeInv, TypeOK, OutboxTypeOK
  <2>4. CASE h = k
    <3>1. /\ idem'[k].status # "completed"
          /\ Answers => posts'[k] = 0
      <4>1. Free(k) /\ Backed(k) /\ posts[k] \in Nat
        BY <1>0, <2>2, <2>4 DEF Free, PostFact, TypeInv, TypeOK
      <4>2. QED
        BY <1>0, <4>1 DEF Backed
    <3>2. Backed(k)'
      BY <2>3, <3>1 DEF Backed
    <3>3. Honest(w, k)'
      BY <2>1, <3>1 DEF Honest
    <3>4. ASSUME NEW v \in Workers \ {w} PROVE ~Working(v, k)'
      BY <1>0, <2>1, <2>2, <3>4, WorkedOn
      DEF Working, ClaimableStatuses, Terminal, TerminalStatuses
    <3>5. QED
      BY <2>4, <3>2, <3>3, <3>4 DEF PostFact
  <2>5. CASE h # k
    BY <1>0, <1>1, <2>1, <2>3, <2>5, ElsewhereQuiet, QuietKeeps
  <2>6. QED
    BY <2>4, <2>5
<1>4. QED
  BY <1>1, <1>2, <1>3 DEF ClaimCandidate

\* A worker frees its row only after a failure that left no completed reservation and,
\* where the target answers, no post.
LEMMA FailPosts ==
  ASSUME ClaimInv, PostFacts, NEW w \in Workers, NEW h \in Handoffs, NEW r \in BOOLEAN,
         proc[w].label \in InCycle \ {"accepted", "settleSuccess"}, Fail(w, r),
         r => proc[w].label = "settleFailure" /\ proc[w].retryable
  PROVE  PostFact(h)'
<1>0. /\ PostFact(h) /\ w \in Processes /\ TypeInv /\ Rest(w)
      /\ idem' = idem /\ posts' = posts
  BY DEF PostFacts, Processes, ClaimInv, Fail
<1>1. PICK k \in Handoffs : k = proc[w].handoff
  BY <1>0, JobType DEF InCycle
<1>2. CASE UNCHANGED outbox
  BY <1>0, <1>2, RestQuiet, QuietKeeps DEF Free
<1>3. CASE MarkFailed(k, proc[w].row.version, AttemptNumber(w), r, proc[w].at)
  <2>1. PICK row : row = FailedRow(k, r, proc[w].at)
    OBVIOUS
  <2>2. outbox'[k] = row /\ \A g \in Handoffs \ {k} : outbox'[g] = outbox[g]
    BY <1>0, <1>3, <2>1 DEF MarkFailed, TypeInv, TypeOK, OutboxTypeOK
  <2>3. row.status \in {"failed", "dead-letter"} /\ (~r => row.status = "dead-letter")
    BY <2>1, UpdatedFields DEF FailedRow, ShouldRetry
  <2>4. CASE h = k /\ r
    <3>1. Working(w, k) /\ Honest(w, k) /\ Backed(k)
      BY <1>0, <1>1, <2>4 DEF Working, PostFact
    <3>2. idem'[k].status # "completed" /\ (Answers => posts'[k] = 0)
      BY <1>0, <2>4, <3>1 DEF Honest
    <3>3. Backed(k)'
      BY <2>2, <2>3, <3>2 DEF Backed
    <3>4. /\ ~Working(w, k)'
          /\ \A v \in Workers \ {w} : proc'[v] = proc[v]
      <4>1. proc'[w] = Resting("idle") /\ \A v \in Workers \ {w} : proc'[v] = proc[v]
        BY <1>0 DEF Rest, TypeInv, TypeOK, Processes
      <4>2. QED
        BY <4>1 DEF Working, Resting, InCycle
    <3>5. QED
      BY <2>4, <3>1, <3>3, <3>4, AloneKeeps
  <2>5. CASE h # k \/ ~r
    <3>1. Free(h)' => Free(h)
      BY <2>2, <2>3, <2>5 DEF Free, ClaimableStatuses
    <3>2. outbox'[h].status = "succeeded" => outbox[h].status = "succeeded"
      BY <2>2, <2>3, <2>5
    <3>3. QED
      BY <1>0, <3>1, <3>2, RestQuiet, QuietKeeps
  <2>6. QED
    BY <2>4, <2>5
<1>4. QED
  BY <1>1, <1>2, <1>3 DEF Fail

\* Every step of a worker on its outbox row keeps what is known.
LEMMA WorkerPosts ==
  ASSUME ClaimInv, PostFacts, NEW w \in Workers, NEW h \in Handoffs, WorkerStep(w)
  PROVE  PostFact(h)'
<1>0. /\ PostFact(h) /\ w \in Processes /\ TypeInv
  BY DEF PostFacts, Processes, ClaimInv
<1>1. CASE ReadCandidate(w)
  <2>1. PICK k \in ClaimCandidates(now) :
          Begin(w, "claiming", k, outbox[k], NoReservation)
    BY <1>1 DEF ReadCandidate
  <2>2. /\ proc'[w].label = "claiming"
        /\ \A v \in Workers \ {w} : proc'[v] = proc[v]
    BY <1>0, <2>1 DEF Begin, TypeInv, TypeOK, Processes
  <2>3. Quiet(h)
    BY <1>1, <2>2 DEF ReadCandidate, Quiet, Free, Working, InCycle
  <2>4. QED
    BY <1>0, <2>3, QuietKeeps
<1>2. CASE ClaimCandidate(w)
  BY <1>2, ClaimPosts
<1>3. CASE RejectPackage(w)
  BY <1>3, FailPosts DEF RejectPackage, At, InCycle
<1>4. CASE ReserveRead(w)
  <2>1. PICK k \in Handoffs : k = proc[w].handoff
    BY <1>0, <1>4, JobType DEF ReserveRead, At
  <2>a. GoWith(w, "reserving", proc[w].row, idem[k], FALSE)
    BY <1>4, <2>1 DEF ReserveRead
  <2>2. /\ proc'[w].label = "reserving" /\ proc'[w].handoff = k /\ proc'[w].seen = idem[k]
        /\ \A v \in Workers \ {w} : proc'[v] = proc[v]
    BY <1>0, <2>1, <2>a DEF GoWith, TypeInv, TypeOK, Processes
  <2>3. CASE h = k
    <3>1. Working(w, h) /\ proc[w].label = "claimed" /\ Honest(w, h) /\ Backed(h)
      BY <1>0, <1>4, <2>1, <2>3 DEF ReserveRead, At, Working, InCycle, PostFact
    <3>2. Honest(w, h)'
      BY <1>4, <2>2, <2>3, <3>1 DEF ReserveRead, Honest
    <3>3. Backed(h)'
      BY <1>4, <3>1 DEF ReserveRead, Backed, Free
    <3>4. QED
      BY <2>2, <3>1, <3>2, <3>3, AloneKeeps
  <2>4. CASE h # k
    BY <1>0, <1>4, <2>1, <2>2, <2>4, ElsewhereQuiet, QuietKeeps DEF ReserveRead
  <2>5. QED
    BY <2>3, <2>4
<1>5. CASE SettleSuccess(w)
  <2>1. PICK k \in Handoffs : k = proc[w].handoff
    BY <1>0, <1>5, JobType DEF SettleSuccess, At
  <2>2. /\ Rest(w) /\ idem' = idem /\ posts' = posts
        /\ Working(w, k) /\ proc[w].label = "settleSuccess"
    BY <1>5, <2>1 DEF SettleSuccess, Succeed, At, Working, InCycle
  <2>3. CASE UNCHANGED outbox
    BY <1>0, <2>2, <2>3, RestQuiet, QuietKeeps DEF Free
  <2>4. CASE outbox' = [outbox EXCEPT ![k] = ReleasedRow(k, "succeeded")]
    <3>1. outbox'[k].status = "succeeded" /\ \A g \in Handoffs \ {k} : outbox'[g] = outbox[g]
      BY <1>0, <2>4, ReleasedFields DEF TypeInv, TypeOK, OutboxTypeOK
    <3>2. CASE h = k
      <4>1. Honest(w, h) /\ Backed(h)
        BY <1>0, <2>2, <3>2 DEF PostFact
      <4>2. Backed(h)'
        BY <2>2, <3>1, <3>2, <4>1 DEF Backed, Honest, Free, ClaimableStatuses
      <4>3. /\ ~Working(w, h)'
            /\ \A v \in Workers \ {w} : proc'[v] = proc[v]
        <5>1. /\ proc'[w] = Resting("idle")
              /\ \A v \in Workers \ {w} : proc'[v] = proc[v]
          BY <1>0, <2>2 DEF Rest, TypeInv, TypeOK, Processes
        <5>2. QED
          BY <5>1 DEF Working, Resting, InCycle
      <4>4. QED
        BY <2>2, <3>2, <4>2, <4>3, AloneKeeps
    <3>3. CASE h # k
      <4>1. outbox'[h] = outbox[h]
        BY <3>1, <3>3
      <4>2. QED
        BY <1>0, <2>2, <4>1, RestQuiet, QuietKeeps DEF Free
    <3>4. QED
      BY <3>2, <3>3
  <2>5. QED
    BY <1>5, <2>1, <2>3, <2>4 DEF SettleSuccess, Succeed, MarkSucceeded
<1>6. CASE SettleFailure(w)
  <2>1. proc[w].retryable \in BOOLEAN
    BY <1>0 DEF TypeInv, TypeOK, Process
  <2>2. QED
    BY <1>6, <2>1, FailPosts DEF SettleFailure, At, InCycle
<1>7. QED
  BY <1>1, <1>2, <1>3, <1>4, <1>5, <1>6 DEF WorkerStep

\* No worker is ever told that another one has published: its reserve finds no completed
\* reservation, neither when it reads nor when its insert loses.
LEMMA NothingToReturn ==
  ASSUME NEW w \in Workers, NEW k, k = proc[w].handoff, Honest(w, k), At(w, "reserving"),
         NEW x, NEW t
  PROVE  ReserveOutcome(k, x, proc[w].seen, t) # "return-existing"
<1>0. idem[k].status # "completed" /\ proc[w].seen.status # "completed"
  BY DEF Honest, At
<1>1. CASE InsertLost(k, proc[w].seen)
  <2>1. OutcomeOfRace(idem[k], x) # "return-existing"
    BY <1>0 DEF OutcomeOfRace
  <2>2. QED
    BY <1>1, <2>1 DEF ReserveOutcome
<1>2. CASE ~InsertLost(k, proc[w].seen)
  <2>1. ASSUME NEW seen, seen.status # "completed"
        PROVE  OutcomeOfRead(seen, x, t) # "return-existing"
    BY <2>1 DEF OutcomeOfRead
  <2>2. QED
    BY <1>0, <1>2, <2>1 DEF ReserveOutcome
<1>3. QED
  BY <1>1, <1>2

\* Reserving, publishing, settling the reservation and dying keep what is known.
LEMMA PublisherPosts ==
  ASSUME Direct = {}, ClaimInv, PostFacts, NEW w \in Workers, NEW h \in Handoffs,
         PublisherStep(w) \/ Crash(w)
  PROVE  PostFact(h)'
<1>0. /\ PostFact(h) /\ w \in Processes /\ TypeInv /\ outbox' = outbox
      /\ idem \in [Handoffs -> IdempotencyRow] /\ posts \in [Handoffs -> Nat]
  BY DEF PostFacts, Processes, ClaimInv, PublisherStep, ReserveWrite, Publish,
         CompleteReservation, FailReservation, Crash, TypeInv, TypeOK, IdempotencyTypeOK
<1>1. CASE Rest(w) /\ idem' = idem /\ posts' = posts
  BY <1>0, <1>1, RestQuiet, QuietKeeps DEF Free
<1>2. CASE Crash(w)
  BY <1>1, <1>2 DEF Crash
<1>3. CASE PublisherStep(w)
  <2>1. PICK k \in Handoffs : k = proc[w].handoff
    BY <1>0, <1>3, JobType
    DEF PublisherStep, ReserveWrite, Publish, CompleteReservation, FailReservation, At
  <2>2. /\ Working(w, k) /\ PostFact(k) /\ Honest(w, k) /\ Backed(k) /\ ~Free(k)
    <3>1. Working(w, k)
      BY <1>3, <2>1 DEF Working, InCycle, At, PublisherStep, ReserveWrite, Publish,
                        CompleteReservation, FailReservation
    <3>2. PostFact(k)
      BY DEF PostFacts
    <3>3. QED
      BY <3>1, <3>2, WorkedOnIsNotFree DEF PostFact
  <2>3. ASSUME NEW label, NEW seen, NEW r, GoWith(w, label, proc[w].row, seen, r),
               \A g \in Handoffs \ {k} : idem'[g] = idem[g] /\ posts'[g] = posts[g],
               Backed(k)',
               Honest(w, k)'
        PROVE  PostFact(h)'
    <3>1. /\ proc'[w].handoff = k
          /\ \A v \in Workers \ {w} : proc'[v] = proc[v]
      BY <1>0, <2>1, <2>3, GoWithFields DEF Processes
    <3>2. CASE h = k
      BY <2>2, <2>3, <3>1, <3>2, AloneKeeps
    <3>3. CASE h # k
      BY <1>0, <2>1, <2>3, <3>1, <3>3, ElsewhereQuiet, QuietKeeps
    <3>4. QED
      BY <3>2, <3>3
  <2>4. CASE ReserveWrite(w)
    <3> DEFINE outcome == ReserveOutcome(k, proc[w].row.hash, proc[w].seen, proc[w].at)
    <3>0. At(w, "reserving") /\ posts' = posts /\ outcome # "return-existing"
      BY <2>1, <2>2, <2>4, NothingToReturn DEF ReserveWrite
    <3>1. CASE Reserve(k, proc[w].row.hash, proc[w].at) /\ Go(w, "publishing")
      <4>1. /\ idem'[k].status = "reserved"
            /\ \A g \in Handoffs \ {k} : idem'[g] = idem[g]
        BY <1>0, <3>1 DEF Reserve
      <4>2. GoWith(w, "publishing", proc[w].row, proc[w].seen, proc[w].retryable)
        BY <3>1 DEF Go
      <4>3. proc'[w].label = "publishing"
        BY <1>0, <4>2, GoWithFields
      <4>4. Backed(k)'
        BY <1>0, <2>2, <3>0, <4>1 DEF Backed, Free
      <4>5. Honest(w, k)'
        BY <2>2, <3>0, <4>1, <4>3 DEF Honest, At
      <4>6. QED
        BY <2>3, <3>0, <4>1, <4>2, <4>4, <4>5
    <3>2. CASE /\ GoWith(w, "settleFailure", proc[w].row, proc[w].seen, TRUE)
               /\ UNCHANGED idem
      <4>1. proc'[w].label = "settleFailure"
        BY <1>0, <3>2, GoWithFields
      <4>2. Backed(k)'
        BY <1>0, <2>2, <3>0, <3>2 DEF Backed, Free
      <4>3. Honest(w, k)'
        BY <2>2, <3>0, <3>2, <4>1 DEF Honest, At
      <4>4. QED
        BY <2>3, <3>0, <3>2, <4>2, <4>3
    <3>3. QED
      BY <1>1, <2>1, <2>4, <3>0, <3>1, <3>2 DEF ReserveWrite, ReserveAnswer
  <2>5. ASSUME NEW o \in Outcomes, Publish(w, o) PROVE PostFact(h)'
    <3> DEFINE label == IF o = "created" THEN "accepted" ELSE "declined"
    <3>0. At(w, "publishing") /\ idem' = idem
      BY <2>5 DEF Publish
    <3>1. GoWith(w, label, proc[w].row, proc[w].seen, Retryable(w, o))
      BY <2>5 DEF Publish
    <3>2. proc'[w].label = label
      BY <1>0, <3>1, GoWithFields
    <3>3. /\ posts'[k] = posts[k] + (IF o \in {"created", "lost", "malformed"} THEN 1 ELSE 0)
          /\ \A g \in Handoffs \ {k} : posts'[g] = posts[g]
      BY <1>0, <2>1, <2>5 DEF Publish
    <3>4. posts[k] \in Nat /\ (Answers => posts[k] = 0 /\ o \notin {"lost", "malformed"})
      BY <1>0, <2>2, <3>0 DEF Honest, At, Answers
    <3>5. Backed(k)'
      BY <1>0, <2>2, <3>0, <3>3, <3>4 DEF Backed, Free
    <3>6. Honest(w, k)'
      <4>1. CASE o = "created"
        BY <2>2, <3>0, <3>2, <3>3, <3>4, <4>1 DEF Honest, At
      <4>2. CASE o # "created"
        BY <2>2, <3>0, <3>2, <3>3, <3>4, <4>2 DEF Honest, At
      <4>3. QED
        BY <4>1, <4>2
    <3>7. QED
      BY <2>3, <3>0, <3>1, <3>3, <3>5, <3>6
  <2>6. CASE CompleteReservation(w)
    <3>0. At(w, "accepted") /\ posts' = posts
      BY <2>6 DEF CompleteReservation
    <3>1. GoWith(w, "settleSuccess", proc[w].row, proc[w].seen, proc[w].retryable)
      BY <2>6 DEF CompleteReservation, Go
    <3>2. proc'[w].label = "settleSuccess"
      BY <1>0, <3>1, GoWithFields
    <3>3. \A g \in Handoffs \ {k} : idem'[g] = idem[g]
      BY <1>0, <2>1, <2>6 DEF CompleteReservation, MarkCompleted
    <3>4. Backed(k)'
      BY <1>0, <2>2, <3>0 DEF Backed, Free
    <3>5. Honest(w, k)'
      BY <2>2, <3>0, <3>2 DEF Honest, At
    <3>6. QED
      BY <2>3, <3>0, <3>1, <3>3, <3>4, <3>5
  <2>7. CASE FailReservation(w)
    <3>0. At(w, "declined") /\ posts' = posts
      BY <2>7 DEF FailReservation
    <3>1. GoWith(w, "settleFailure", proc[w].row, proc[w].seen, proc[w].retryable)
      BY <2>7 DEF FailReservation, Go
    <3>2. proc'[w].label = "settleFailure" /\ proc'[w].retryable = proc[w].retryable
      BY <1>0, <3>1 DEF GoWith, TypeInv, TypeOK
    <3>3. /\ \A g \in Handoffs \ {k} : idem'[g] = idem[g]
          /\ proc[w].retryable => idem'[k].status = "failed"
      BY <1>0, <2>1, <2>7 DEF FailReservation, MarkReservationFailed, SettledReservation
    <3>4. Backed(k)'
      BY <1>0, <2>2, <3>0 DEF Backed, Free
    <3>5. Honest(w, k)'
      BY <2>2, <3>0, <3>2, <3>3 DEF Honest, At
    <3>6. QED
      BY <2>3, <3>0, <3>1, <3>3, <3>4, <3>5
  <2>8. QED
    BY <1>3, <2>4, <2>5, <2>6, <2>7 DEF PublisherStep
<1>4. QED
  BY <1>2, <1>3

\* PostInv is inductive.
LEMMA PostNext ==
  ASSUME Direct = {}, PostInv, [Next]_vars
  PROVE  PostInv'
<1>1. ClaimInv /\ ClaimInv' /\ PostFacts
  BY ClaimNext DEF PostInv
<1>2. ASSUME NEW h \in Handoffs PROVE PostFact(h)'
  <2>1. PostFact(h)
    BY <1>1 DEF PostFacts
  <2>2. CASE UNCHANGED vars
    BY <2>1, <2>2, QuietKeeps DEF vars, Quiet, Free, Working
  <2>3. CASE Next
    <3>1. CASE \/ Tick
               \/ ReleaseExpiredReservations
               \/ \E g \in Handoffs : EnqueueHandoff(g) \/ OperatorStep(g)
      BY <1>1, <2>1, <3>1, EnvironmentQuiet, QuietKeeps
    <3>2. ASSUME NEW w \in Workers, WorkerStep(w) \/ PublisherStep(w) \/ Crash(w)
          PROVE  PostFact(h)'
      BY <1>1, <3>2, WorkerPosts, PublisherPosts
    <3>3. QED
      BY <2>3, <3>1, <3>2 DEF Next, Processes
  <2>4. QED
    BY <2>2, <2>3
<1>3. QED
  BY <1>1, <1>2 DEF PostInv, PostFacts

\* PostInv holds in every reachable state.
LEMMA PostInvariant ==
  ASSUME Direct = {}
  PROVE  Spec => []PostInv
<1>1. Init => PostInv
  <2>1. ASSUME Init, NEW h \in Handoffs PROVE PostFact(h)
    <3>1. outbox[h].status = "absent" /\ idem[h].status = "absent" /\ posts[h] = 0
      BY <2>1 DEF Init, OutboxInit, IdempotencyInit, AbsentRow, NoReservation
    <3>2. ASSUME NEW w \in Workers PROVE ~Working(w, h)
      BY <2>1 DEF Init, Working, Resting, InCycle, Processes
    <3>3. QED
      BY <3>1, <3>2 DEF PostFact, Backed
  <2>2. QED
    BY <2>1, TypeInit, InitClaims DEF PostInv, PostFacts, ClaimInv
<1>2. PostInv /\ [Next]_vars => PostInv'
  BY PostNext
<1>3. QED
  BY <1>1, <1>2, PTL DEF Spec

\* Where the workers are the only ones who use the idempotency table, a row that succeeded
\* has a post behind it, whatever the target does, whoever crashes and whatever operators
\* do: the reservation that a final failure completes is never taken for a success,
\* because a worker that could take it never claims that row.
THEOREM SuccessHasItsPost ==
  ASSUME Direct = {}
  PROVE  Spec => []SuccessIsPublished
<1>1. PostInv => SuccessIsPublished
  BY DEF PostInv, PostFacts, PostFact, Backed, SuccessIsPublished
<1>2. QED
  BY <1>1, PostInvariant, PTL

\* If moreover the target answers what it accepts, a handoff is posted at most once, for
\* any number of workers, retries, expired reservations and crashes between any two calls.
THEOREM PostsOnce ==
  ASSUME Direct = {}, Answers
  PROVE  Spec => []PublishedOnce
<1>1. PostInv => PublishedOnce
  BY DEF PostInv, PostFacts, PostFact, Backed, PublishedOnce
<1>2. QED
  BY <1>1, PostInvariant, PTL

=============================================================================
