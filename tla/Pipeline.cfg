\* Two runs of the content pipeline over one knowledge service: what a plan contains, what
\* reaches the outbox and the adapter, and what a success means.
CONSTANTS
  r1 = r1
  r2 = r2
  Runs <- MCRuns
  Repositories <- MCRepositories
  NodeLimit = 5
  MaxAttempts = 2
  Requests <- MCRequests
  Contents <- MCContents
  Deliveries <- MCDeliveries
SYMMETRY Symmetry
SPECIFICATION Spec
INVARIANTS
  ContextIsComplete
  PostsAreEarned
  SuccessIsEnqueued
CHECK_DEADLOCK FALSE
