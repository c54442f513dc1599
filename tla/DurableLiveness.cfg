\* Two workers, two rows of two priorities, publishable or not; no crash and
\* no operator.  Fairness: run-once is invoked again and again, and time passes.
CONSTANTS
  Handoffs = {h1, h2}
  NoHandoff = NoHandoff
  Hashes = {x1, x2}
  NoHash = NoHash
  Horizon = 1
  Workers = {w1, w2}
  NoWorker = NoWorker
  Priorities = {0, 1}
  MaxAttempts = 2
  BaseDelay = 1
  ReservationTTL = 1
  Direct = {}
  Unpublishable = {x2}
  Outcomes <- CleanOutcomes
  OperatorOps = {}
  MayCrash = FALSE
  MaxVersion = 3
SPECIFICATION FairSpec
PROPERTY
  EventuallySettled
CHECK_DEADLOCK FALSE
