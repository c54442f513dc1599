\* One handoff, a worker and a direct publisher that share the idempotency table,
\* two payloads, one of them unpublishable, every outcome of the target, every operator
\* command, crashes.
CONSTANTS
  Handoffs = {h1}
  NoHandoff = NoHandoff
  Hashes = {x1, x2}
  NoHash = NoHash
  Horizon = 2
  Workers = {w1}
  NoWorker = NoWorker
  Priorities = {0}
  MaxAttempts = 2
  BaseDelay = 1
  ReservationTTL = 1
  Direct = {d1}
  Unpublishable = {x2}
  Outcomes <- AllOutcomes
  OperatorOps = {"cancel", "dead-letter", "append"}
  MayCrash = TRUE
  MaxVersion = 3
SPECIFICATION Spec
INVARIANTS
  PublishMatchesReservation
  RemoteIdIsReal
CHECK_DEADLOCK FALSE
