------------------------ MODULE PublishingIdempotency ------------------------
(***************************************************************************)
(* The idempotency table: one row per (target, handoff), reserved before a *)
(* publish and settled after it.  A handoff names its target, so the row   *)
(* is the handoff's.                                                       *)
(*                                                                         *)
(* reserve is a transaction of two queries, a read and a write, at the     *)
(* database's default isolation: another transaction may commit between    *)
(* them.  Only the insert of a new row is protected, by the unique index.  *)
(***************************************************************************)
EXTENDS PublishingDomain

CONSTANT ReservationTTL   \* DEFAULT_TTL_MS, in clock ticks

ASSUME ReservationTTLInNat == ReservationTTL \in Nat

VARIABLE idem   \* handoff -> its idempotency row

-----------------------------------------------------------------------------

IdempotencyStatuses == {"absent", "reserved", "completed", "failed", "expired"}

IdempotencyRow ==
  [status : IdempotencyStatuses, hash : Hashes \cup {NoHash}, expiresAt : Nat, remote : BOOLEAN]

NoReservation ==
  [status |-> "absent", hash |-> NoHash, expiresAt |-> 0, remote |-> FALSE]

IdempotencyInit == idem = [k \in Handoffs |-> NoReservation]

\* Faulty variant: a failed reservation is an existing result.
OutcomeOfReadFailed(seen, x, t) ==
  CASE seen.status = "absent" -> "proceed"
    [] seen.status # "absent" /\ seen.hash # x -> "conflict"
    [] seen.status \in {"completed", "failed"} /\ seen.hash = x -> "return-existing"
    [] seen.status = "reserved" /\ seen.hash = x ->
         IF seen.expiresAt <= t THEN "proceed" ELSE "blocked"
    [] OTHER -> "proceed"

\* Faulty variant: the payload is compared only with a completed reservation's.
OutcomeOfReadUnhashed(seen, x, t) ==
  CASE seen.status = "completed" -> IF seen.hash = x THEN "return-existing" ELSE "conflict"
    [] seen.status = "reserved" -> IF seen.expiresAt <= t THEN "proceed" ELSE "blocked"
    [] OTHER -> "proceed"

\* What reserve decides from the row its first query returned.
OutcomeOfRead(seen, x, t) ==
  CASE seen.status = "absent" -> "proceed"
    [] seen.status # "absent" /\ seen.hash # x -> "conflict"
    [] seen.status = "completed" /\ seen.hash = x -> "return-existing"
    [] seen.status = "reserved" /\ seen.hash = x ->
         IF seen.expiresAt <= t THEN "proceed" ELSE "blocked"
    [] OTHER -> "proceed"

\* What it decides when the insert of a new row loses a race.
OutcomeOfRace(raced, x) ==
  CASE raced.hash # x -> "conflict"
    [] raced.hash = x /\ raced.status = "completed" -> "return-existing"
    [] OTHER -> "blocked"

InsertLost(k, seen) == seen.status = "absent" /\ idem[k].status # "absent"

ReserveOutcome(k, x, seen, t) ==
  IF InsertLost(k, seen)
  THEN OutcomeOfRace(idem[k], x)
  ELSE OutcomeOfRead(seen, x, t)

\* The write of a reserve that proceeds: an insert, or an update by row id alone.
Reserve(k, x, t) ==
  idem' = [idem EXCEPT ![k] =
    [status |-> "reserved",
     hash |-> IF idem[k].status = "absent" THEN x ELSE idem[k].hash,
     expiresAt |-> t + ReservationTTL,
     remote |-> idem[k].remote]]

\* A reservation whose status changes keeps its hash and its expiry.
SettledReservation(k, status, remote) ==
  [status |-> status, hash |-> idem[k].hash, expiresAt |-> idem[k].expiresAt,
   remote |-> remote]

MarkCompleted(k) ==
  /\ idem[k].status # "absent"
  /\ idem' = [idem EXCEPT ![k] = SettledReservation(k, "completed", TRUE)]

\* Faulty variant: a final failure is stored with a remote id.
MarkReservationFailedRemote(k, retryable) ==
  /\ idem[k].status # "absent"
  /\ idem' = [idem EXCEPT ![k] =
       SettledReservation(k, IF retryable THEN "failed" ELSE "completed", ~retryable)]

\* A failure that is not retryable is stored as a completed reservation.
MarkReservationFailed(k, retryable) ==
  /\ idem[k].status # "absent"
  /\ idem' = [idem EXCEPT ![k] =
       SettledReservation(k, IF retryable THEN "failed" ELSE "completed", idem[k].remote)]

Expired(k, t) == idem[k].status = "reserved" /\ idem[k].expiresAt <= t

ReleaseExpired(t) ==
  idem' = [k \in Handoffs |-> IF Expired(k, t)
                              THEN SettledReservation(k, "expired", idem[k].remote)
                              ELSE idem[k]]

-----------------------------------------------------------------------------

IdempotencyTypeOK == idem \in [Handoffs -> IdempotencyRow]

=============================================================================
