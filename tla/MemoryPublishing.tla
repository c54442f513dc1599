-------------------------- MODULE MemoryPublishing --------------------------
(***************************************************************************)
(* The outbox and the idempotency store kept in memory, as operations on a *)
(* sequence of rows and a function of reservations.                        *)
(*                                                                         *)
(* Rows stand in the order they become available in, and a row waits while *)
(* its backoff or its schedule lasts.                                      *)
(***************************************************************************)
EXTENDS Naturals, SequencesExt

CONSTANT MaxAttempts   \* maxAttempts of every row

ASSUME MaxAttemptsIsPositive == MaxAttempts \in Nat \ {0}

Length(content) == content.length

HashWithoutLength(package) ==
  [handoff |-> package.handoff, target |-> package.target, slug |-> package.slug]

\* What of a package two enqueues of one handoff are compared by.
RequestHash(package) ==
  [handoff |-> package.handoff, target |-> package.target, length |-> Length(package.content),
   slug |-> package.slug]

Row(package, waits) ==
  [handoff |-> package.handoff, package |-> package, waits |-> waits, attempts |-> 0,
   status |-> IF waits THEN "scheduled" ELSE "pending", by |-> "nobody", version |-> 1]

Handoffs(rows) == {row.handoff : row \in ToSet(rows)}

RowOf(rows, handoff) == CHOOSE row \in ToSet(rows) : row.handoff = handoff

Place(rows, handoff) == CHOOSE i \in DOMAIN rows : rows[i].handoff = handoff

IsTerminal(row) == row.status \in {"succeeded", "dead-letter", "cancelled"}

\* A second enqueue of a handoff answers the first, unless its hash differs.
EnqueueAnswer(rows, package) ==
  IF package.handoff \notin Handoffs(rows) THEN "created"
  ELSE IF RequestHash(RowOf(rows, package.handoff).package) = RequestHash(package)
  THEN "existing" ELSE "conflict"

Enqueued(rows, package, scheduled) ==
  IF EnqueueAnswer(rows, package) = "created" THEN Append(rows, Row(package, scheduled))
  ELSE rows

\* A row that is locked is never claimed again: nothing here gives a lock up.
Claimable(row) ==
  row.status \in {"pending", "scheduled", "failed"} /\ ~row.waits /\ row.by = "nobody"

ClaimedAt(rows) ==
  IF \E i \in DOMAIN rows : Claimable(rows[i])
  THEN {CHOOSE i \in DOMAIN rows :
          Claimable(rows[i]) /\ \A j \in 1..(i - 1) : ~Claimable(rows[j])}
  ELSE {}

Claim(rows, i, worker) ==
  [rows EXCEPT ![i].status = "processing", ![i].by = worker, ![i].version = @ + 1]

\* The marks are refused on a finished row and on another version than the claimed one.
MayMark(rows, claimed) ==
  LET row == RowOf(rows, claimed.handoff)
  IN ~IsTerminal(row) /\ row.version = claimed.version

MarkSucceeded(rows, claimed) ==
  LET i == Place(rows, claimed.handoff)
  IN [rows EXCEPT ![i].status = "succeeded", ![i].by = "nobody", ![i].version = @ + 1]

MarkFailed(rows, claimed, retryable) ==
  LET row == RowOf(rows, claimed.handoff)
      again == retryable /\ row.attempts + 1 < MaxAttempts
  IN [rows EXCEPT ![Place(rows, claimed.handoff)] =
        [row EXCEPT !.status = IF again THEN "failed" ELSE "dead-letter",
                    !.attempts = @ + 1, !.waits = again, !.by = "nobody", !.version = @ + 1]]

\* The end of a backoff or of a schedule: by then every other row was available before.
Available(rows, i) == Append(RemoveAt(rows, i), [rows[i] EXCEPT !.waits = FALSE])

-----------------------------------------------------------------------------
\* Reservations: the handoffs met before, each with the state of its key.

KeyOf(keys, handoff) == IF handoff \in DOMAIN keys THEN keys[handoff] ELSE "none"

Reserve(keys, handoff) ==
  CASE KeyOf(keys, handoff) = "completed" -> "return-existing"
    [] KeyOf(keys, handoff) = "reserved" -> "blocked"
    [] OTHER -> "proceed"

Bound(keys, handoff, state) ==
  [h \in DOMAIN keys \cup {handoff} |-> IF h = handoff THEN state ELSE keys[h]]

Reserved(keys, handoff) == Bound(keys, handoff, "reserved")

Completed(keys, handoff) == Bound(keys, handoff, "completed")

\* A failure that is not worth a retry completes the reservation.
Failed(keys, handoff, retryable) ==
  Bound(keys, handoff, IF retryable THEN "failed" ELSE "completed")

=============================================================================
