------------------------- MODULE DurablePublishing -------------------------
(***************************************************************************)
(* Durable publishing: enqueue, the workers' run-once cycle, the           *)
(* idempotency table and the remote target.                                *)
(*                                                                         *)
(* A worker is a process that executes runOnce again and again; a direct   *)
(* publisher is one call of the WordPress adapter's publish that shares    *)
(* the idempotency table (its persistent guard).  Both reserve, publish    *)
(* and settle the reservation in the same way, one database transaction or *)
(* remote call per step, so every interleaving of those calls and a crash  *)
(* between any two of them is a behaviour.                                 *)
(***************************************************************************)
EXTENDS PublishingOutbox, PublishingIdempotency

CONSTANTS
  Direct,        \* calls of the adapter that bypass the outbox
  Unpublishable, \* payloads with no registered adapter or an invalid package
  Outcomes,      \* what the remote target may do with a request
  OperatorOps,   \* repository commands an operator uses
  MayCrash,      \* a process may die, or a call may throw, between two steps
  MaxVersion     \* bound on the versions an operator's commands may reach

\* "created": accepted and answered.  "rejected": refused, to be retried.
\* "refused", "unauthorized": refused as invalid, or for its credentials.
\* "lost": accepted, and the answer never arrives or reports an error.
\* "malformed": accepted, and the answer cannot be read.
AllOutcomes == {"created", "rejected", "refused", "unauthorized", "lost", "malformed"}

ASSUME DurablePublishingConstants ==
  /\ Direct \cap Workers = {}
  /\ Unpublishable \subseteq Hashes
  /\ Outcomes \subseteq AllOutcomes
  /\ OperatorOps \subseteq {"cancel", "dead-letter", "append"}
  /\ MayCrash \in BOOLEAN
  /\ MaxVersion \in Nat

VARIABLES
  now,           \* the clock
  posts,         \* handoff -> posts created for it at the remote target
  proc           \* process -> where it is in its cycle and what it remembers

vars == <<outbox, attempts, idem, now, posts, proc>>

-----------------------------------------------------------------------------

Processes == Workers \cup Direct

\* Where a process stands between two of its calls.  A direct publisher ends "published"
\* when it was told of a success, and "done" otherwise.
Labels == {"idle", "claiming", "claimed", "reserving", "publishing",
           "accepted", "declined", "settleSuccess", "settleFailure", "published", "done"}

\* The labels of a worker that has claimed a row and not let go of it.
InCycle == {"claimed", "reserving", "publishing", "accepted", "declined",
            "settleSuccess", "settleFailure"}

\* handoff: the row it works on.  row: the outbox row as last read (for a direct
\* publisher only its hash is meaningful).  seen: the idempotency row as read.
\* at: the time taken at the start of the cycle.  retryable: of its failure.
Process ==
  [label : Labels, handoff : Handoffs \cup {NoHandoff}, row : OutboxRow, seen : IdempotencyRow,
   at : Times, retryable : BOOLEAN]

Resting(label) ==
  [label |-> label, handoff |-> NoHandoff, row |-> AbsentRow,
   seen |-> NoReservation, at |-> 0, retryable |-> FALSE]

\* The cycle of a worker, or the only call of a direct publisher, is over.
Rest(p) ==
  proc' = [proc EXCEPT ![p] = Resting(IF p \in Workers THEN "idle" ELSE "done")]

At(p, label) == proc[p].label = label

\* A process starts on a row, moves on, or moves on with the kind of its failure.
Begin(p, label, h, row, seen) ==
  proc' = [proc EXCEPT ![p] =
    [label |-> label, handoff |-> h, row |-> row, seen |-> seen, at |-> now,
     retryable |-> FALSE]]

GoWith(p, label, row, seen, retryable) ==
  proc' = [proc EXCEPT ![p] =
    [label |-> label, handoff |-> proc[p].handoff, row |-> row, seen |-> seen,
     at |-> proc[p].at, retryable |-> retryable]]

Go(p, label) == GoWith(p, label, proc[p].row, proc[p].seen, proc[p].retryable)

Init ==
  /\ OutboxInit
  /\ IdempotencyInit
  /\ now = 0
  /\ posts = [h \in Handoffs |-> 0]
  /\ proc = [p \in Processes |-> Resting("idle")]

-----------------------------------------------------------------------------
\* The environment: the clock, the clients that enqueue, the operator.

Tick ==
  /\ now < Horizon
  /\ now' = now + 1
  /\ UNCHANGED <<outbox, attempts, idem, posts, proc>>

\* Enqueueing the same handoff again changes nothing: the service answers
\* "existing", or throws when the payload's hash differs.
EnqueueHandoff(h) ==
  /\ \E x \in Hashes, p \in Priorities, s \in Times :
       Enqueue(h, x, p, s, IF s = 0 THEN now ELSE s, now)
  /\ UNCHANGED <<idem, now, posts, proc>>

OperatorCancels(h) ==
  /\ "cancel" \in OperatorOps
  /\ outbox[h].version < MaxVersion
  /\ Cancel(h, outbox[h].version)
  /\ UNCHANGED <<idem, now, posts, proc>>

OperatorMovesToDeadLetter(h) ==
  /\ "dead-letter" \in OperatorOps
  /\ outbox[h].version < MaxVersion
  /\ MoveToDeadLetter(h, outbox[h].version, outbox[h].attemptCount + 1)
  /\ UNCHANGED <<idem, now, posts, proc>>

OperatorAppendsAttempt(h) ==
  /\ "append" \in OperatorOps
  /\ AppendAttempt(h, outbox[h].attemptCount + 1)
  /\ UNCHANGED <<idem, now, posts, proc>>

ReleaseExpiredReservations ==
  /\ \E h \in Handoffs : Expired(h, now)
  /\ ReleaseExpired(now)
  /\ UNCHANGED <<outbox, attempts, now, posts, proc>>

-----------------------------------------------------------------------------
\* The worker's cycle up to its reservation.

\* claimNext, first query; with no candidate the cycle ends and nothing changed.
ReadCandidate(w) ==
  /\ At(w, "idle")
  /\ \E h \in ClaimCandidates(now) : Begin(w, "claiming", h, outbox[h], NoReservation)
  /\ UNCHANGED <<outbox, attempts, idem, now, posts>>

\* claimNext, second query: a worker that lost the race is idle again.
ClaimCandidate(w) ==
  /\ At(w, "claiming")
  /\ LET h == proc[w].handoff
     IN \/ /\ Claim(w, h, proc[w].row)
           /\ GoWith(w, "claimed", Claimed(w, h), NoReservation, FALSE)
        \/ /\ ~StillClaimable(h, proc[w].row)
           /\ Rest(w)
           /\ UNCHANGED <<outbox, attempts>>
  /\ UNCHANGED <<idem, now, posts>>

\* Faulty variant: attempts are numbered from 0.
AttemptNumberFromZero(w) == proc[w].row.attemptCount

\* The attempt a worker's cycle records.
AttemptNumber(w) == proc[w].row.attemptCount + 1

\* markSucceeded and markFailed either commit or throw; the cycle ends either way.
Succeed(w) ==
  LET h == proc[w].handoff
      v == proc[w].row.version
  IN /\ \/ MarkSucceeded(h, v, AttemptNumber(w))
        \/ ~CanSettle(h, v, AttemptNumber(w)) /\ UNCHANGED <<outbox, attempts>>
     /\ Rest(w)
     /\ UNCHANGED <<idem, now, posts>>

Fail(w, retryable) ==
  LET h == proc[w].handoff
      v == proc[w].row.version
  IN /\ \/ MarkFailed(h, v, AttemptNumber(w), retryable, proc[w].at)
        \/ ~CanSettle(h, v, AttemptNumber(w)) /\ UNCHANGED <<outbox, attempts>>
     /\ Rest(w)
     /\ UNCHANGED <<idem, now, posts>>

\* No adapter for the target, or the adapter refuses the package.
RejectPackage(w) ==
  /\ At(w, "claimed")
  /\ proc[w].row.hash \in Unpublishable
  /\ Fail(w, FALSE)

-----------------------------------------------------------------------------
\* Reserve, publish and settle: workers and direct publishers alike.

\* A worker reserves for the row it claimed, with the hash of its payload.
ReserveRead(w) ==
  /\ At(w, "claimed")
  /\ proc[w].row.hash \notin Unpublishable
  /\ GoWith(w, "reserving", proc[w].row, idem[proc[w].handoff], FALSE)
  /\ UNCHANGED <<outbox, attempts, idem, now, posts>>

\* A direct publisher is called with a package; a completed reservation is the
\* cached answer, so it goes on only when there is none.
DirectPublish(d) ==
  /\ At(d, "idle")
  /\ \E h \in Handoffs, x \in Hashes :
       Begin(d, IF idem[h].status = "completed" THEN "published" ELSE "reserving",
             h, EnqueuedRow(x, 0, 0, 0, 0), idem[h])
  /\ UNCHANGED <<outbox, attempts, idem, now, posts>>

\* What reserve answers to a worker and to a direct publisher that it does not let
\* proceed.  A direct publisher that is blocked looks for an answer once more.
ReserveAnswer(p, outcome) ==
  \/ /\ outcome = "return-existing"
     /\ Go(p, IF p \in Workers THEN "settleSuccess" ELSE "published")
  \/ /\ outcome = "blocked" /\ p \in Workers
     /\ GoWith(p, "settleFailure", proc[p].row, proc[p].seen, TRUE)
  \/ /\ outcome = "blocked" /\ p \in Direct
     /\ IF idem[proc[p].handoff].status = "completed" THEN Go(p, "published") ELSE Rest(p)
  \* A conflict throws, and so may a lost insert, whose transaction PostgreSQL has aborted.
  \/ /\ outcome = "conflict" \/ InsertLost(proc[p].handoff, proc[p].seen)
     /\ Rest(p)

ReserveWrite(p) ==
  /\ At(p, "reserving")
  /\ LET k == proc[p].handoff
         x == proc[p].row.hash
         outcome == ReserveOutcome(k, x, proc[p].seen, proc[p].at)
     IN \/ /\ outcome = "proceed"
           /\ Reserve(k, x, proc[p].at)
           /\ Go(p, "publishing")
        \/ /\ outcome # "proceed"
           /\ ReserveAnswer(p, outcome)
           /\ UNCHANGED idem
  /\ UNCHANGED <<outbox, attempts, now, posts>>

\* A worker gives up on a package that is invalid or whose credentials are refused; the
\* direct publisher's guard gives up on an invalid one only.
Retryable(p, outcome) ==
  outcome # "refused" /\ ~(outcome = "unauthorized" /\ p \in Workers)

\* The remote call and its answer.  A direct publisher returns a malformed answer
\* without settling its reservation.
Publish(p, outcome) ==
  /\ At(p, "publishing")
  /\ proc[p].row.hash \notin Unpublishable
  /\ posts' = IF outcome \in {"created", "lost", "malformed"}
              THEN [posts EXCEPT ![proc[p].handoff] = @ + 1]
              ELSE posts
  /\ IF outcome = "malformed" /\ p \in Direct
     THEN Rest(p)
     ELSE GoWith(p, IF outcome = "created" THEN "accepted" ELSE "declined",
                 proc[p].row, proc[p].seen, Retryable(p, outcome))
  /\ UNCHANGED <<outbox, attempts, idem, now>>

\* The adapter validates a direct publisher's package only after its reservation.
DeclineInvalid(d) ==
  /\ At(d, "publishing")
  /\ proc[d].row.hash \in Unpublishable
  /\ GoWith(d, "declined", proc[d].row, proc[d].seen, FALSE)
  /\ UNCHANGED <<outbox, attempts, idem, now, posts>>

\* The adapter settles a reservation inside the try block of its request: when that throws
\* it takes the publish for failed, a published post included.
SettlingThrows(d) ==
  /\ MayCrash
  /\ proc[d].label \in {"accepted", "declined"}
  /\ proc[d].row.hash \notin Unpublishable
  /\ GoWith(d, "declined", proc[d].row, proc[d].seen, TRUE)
  /\ UNCHANGED <<outbox, attempts, idem, now, posts>>

\* After settling the reservation a worker settles its outbox row.
CompleteReservation(p) ==
  /\ At(p, "accepted")
  /\ MarkCompleted(proc[p].handoff)
  /\ Go(p, IF p \in Workers THEN "settleSuccess" ELSE "published")
  /\ UNCHANGED <<outbox, attempts, now, posts>>

FailReservation(p) ==
  /\ At(p, "declined")
  /\ MarkReservationFailed(proc[p].handoff, proc[p].retryable)
  /\ IF p \in Workers THEN Go(p, "settleFailure") ELSE Rest(p)
  /\ UNCHANGED <<outbox, attempts, now, posts>>

SettleSuccess(w) == At(w, "settleSuccess") /\ Succeed(w)

SettleFailure(w) == At(w, "settleFailure") /\ Fail(w, proc[w].retryable)

\* The process dies, or the call it waits for throws: nothing catches it.
Crash(p) ==
  /\ MayCrash
  /\ proc[p].label \notin {"idle", "published", "done"}
  /\ Rest(p)
  /\ UNCHANGED <<outbox, attempts, idem, now, posts>>

-----------------------------------------------------------------------------

WorkerStep(w) ==
  \/ ReadCandidate(w) \/ ClaimCandidate(w) \/ RejectPackage(w) \/ ReserveRead(w)
  \/ SettleSuccess(w) \/ SettleFailure(w)

PublisherStep(p) ==
  \/ ReserveWrite(p) \/ CompleteReservation(p) \/ FailReservation(p)
  \/ \E o \in Outcomes : Publish(p, o)

DirectStep(d) == DirectPublish(d) \/ DeclineInvalid(d) \/ SettlingThrows(d)

OperatorStep(h) ==
  OperatorCancels(h) \/ OperatorMovesToDeadLetter(h) \/ OperatorAppendsAttempt(h)

Next ==
  \/ Tick
  \/ ReleaseExpiredReservations
  \/ \E h \in Handoffs : EnqueueHandoff(h) \/ OperatorStep(h)
  \/ \E w \in Workers : WorkerStep(w)
  \/ \E d \in Direct : DirectStep(d)
  \/ \E p \in Processes : PublisherStep(p) \/ Crash(p)

Spec == Init /\ [][Next]_vars

\* Someone keeps invoking run-once for every worker identity, each call of a cycle
\* returns, and the clock advances.
FairSpec ==
  /\ Spec
  /\ WF_vars(Tick)
  /\ \A w \in Workers : WF_vars(WorkerStep(w) \/ PublisherStep(w))

-----------------------------------------------------------------------------
\* Properties.

\* Type invariant.
TypeOK ==
  /\ OutboxTypeOK
  /\ IdempotencyTypeOK
  /\ now \in Times
  /\ posts \in [Handoffs -> Nat]
  /\ proc \in [Processes -> Process]

Working(w, h) == proc[w].label \in InCycle /\ proc[w].handoff = h

\* Claims exclude each other: two workers are never in a cycle for the same row, a
\* row is locked exactly while it is "processing", and a worker in a cycle either
\* still owns the row it claimed, unchanged, or an operator has ended that row.
ClaimExclusive ==
  /\ \A h \in Handoffs :
       outbox[h].status = "processing" <=> outbox[h].lockedBy # NoWorker
  /\ \A w \in Workers, h \in Handoffs :
       Working(w, h) => outbox[h] = proc[w].row \/ Terminal(h)
  /\ \A v, w \in Workers, h \in Handoffs : Working(v, h) /\ Working(w, h) => v = w

Recorded(h, status) == {a.number : a \in {b \in attempts[h] : b.status = status}}

\* The attempt table tells the whole story of a row: its counted failures are the attempts
\* 1, 2, 3, ... with no gap and no repetition, a success is the next one, and it is on
\* record of every row that succeeded and of no other, one that was cancelled since aside.
AttemptsMatchCount ==
  \A h \in Handoffs :
    /\ Recorded(h, "failed") = 1..outbox[h].attemptCount
    /\ Recorded(h, "succeeded") \in {{}, {outbox[h].attemptCount + 1}}
    /\ outbox[h].status = "succeeded" => Recorded(h, "succeeded") # {}
    /\ Recorded(h, "succeeded") # {} => outbox[h].status \in {"succeeded", "cancelled"}
    /\ \A a, b \in attempts[h] : a.number = b.number => a = b

\* A row is given up only when its attempts are used up or its last failure, the one it
\* counted last or the one an operator recorded, is final; and it is retried only while
\* attempts remain.
GivenUpForCause ==
  \A h \in Handoffs :
    /\ outbox[h].status \in {"pending", "scheduled", "failed", "processing"} =>
         outbox[h].attemptCount < MaxAttempts
    /\ outbox[h].status = "dead-letter" =>
         \/ outbox[h].attemptCount = MaxAttempts
         \/ \E a \in attempts[h] :
              /\ a.number \in {outbox[h].attemptCount, outbox[h].attemptCount + 1}
              /\ a.status = "failed" /\ ~a.retryable

\* A handoff is posted at most once.
PublishedOnce == \A h \in Handoffs : posts[h] <= 1

\* A row that succeeded has a post behind it.
SuccessIsPublished ==
  \A h \in Handoffs : outbox[h].status = "succeeded" => posts[h] >= 1

\* A reservation that carries a remote id has a post behind it, whoever wrote it.
RemoteIdIsReal == \A h \in Handoffs : idem[h].remote => posts[h] >= 1

\* What is published under a key is the payload the key was reserved for: a second
\* payload for the same handoff is refused however the reservations interleave.
PublishMatchesReservation ==
  \A p \in Processes :
    proc[p].label \in {"publishing", "accepted", "declined"} =>
      idem[proc[p].handoff].hash = proc[p].row.hash

\* No step takes a row out of the terminal states.
TerminalIsFinal ==
  [][\A h \in Handoffs : Terminal(h) => Terminal(h)']_vars

\* Every row that is enqueued is eventually published or given up.
EventuallySettled ==
  \A h \in Handoffs : Exists(h) ~> Terminal(h)

=============================================================================
