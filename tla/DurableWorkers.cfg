\* Two workers, two handoffs, crashes and an operator who cancels; a target that
\* answers whatever it accepts.  No one else uses the idempotency table.
CONSTANTS
  Handoffs = {h1, h2}
  NoHandoff = NoHandoff
  Hashes = {x1}
  NoHash = NoHash
  Horizon = 2
  Workers = {w1, w2}
  NoWorker = NoWorker
  Priorities = {0}
  MaxAttempts = 2
  BaseDelay = 1
  ReservationTTL = 1
  Direct = {}
  Unpublishable = {}
  Outcomes <- CleanOutcomes
  OperatorOps = {"cancel"}
  MayCrash = TRUE
  MaxVersion = 4
SYMMETRY Symmetry
SPECIFICATION Spec
INVARIANTS
  TypeOK
  ClaimExclusive
  AttemptsMatchCount
  GivenUpForCause
  PublishedOnce
  SuccessIsPublished
PROPERTY
  TerminalIsFinal
CHECK_DEADLOCK FALSE
