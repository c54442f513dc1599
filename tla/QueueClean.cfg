\* One slot, four jobs: two of one slug, one of that slug that the worker refuses, and one of
\* another slug whose publisher is missing; every command of the operator.  The target
\* answers whatever it accepts; nothing throws or dies.
CONSTANTS
  j1 = j1
  j2 = j2
  j3 = j3
  j4 = j4
  g1 = g1
  g2 = g2
  a1 = a1
  a2 = a2
  Jobs = {j1, j2, j3, j4}
  NoJob = NoJob
  Slots = {s1}
  NoSlot = NoSlot
  MaxRetries = 1
  MaxStalls = 1
  MaxManual = 1
  Slugs = {g1, g2}
  Assets = {a1, a2}
  SlugOf <- TwoSlugs
  AssetOf <- AssetPerSlug
  Delayed = {j2}
  FromComposer = {j2, j3}
  Invalid = {j4}
  Unconfigured = {j3}
  Unscoped = {}
  Untracked = {}
  Outcomes = {"created", "rejected"}
  OperatorOps = {"pause", "drain", "retry", "remove"}
  MayThrow = FALSE
  MayCrash = FALSE
  MayOutlive = FALSE
SPECIFICATION Spec
INVARIANTS
  PublishedOnce
  FailureIsGenuine
  SkipIsIdempotent
CHECK_DEADLOCK FALSE
