\* Two slots that may die or lose the lock of what they run, two jobs that leave no history
\* (without an organization, without a project), calls that throw, a queue that may be paused.
CONSTANTS
  j1 = j1
  j2 = j2
  j3 = j3
  j4 = j4
  g1 = g1
  g2 = g2
  a1 = a1
  a2 = a2
  Jobs = {j1, j2}
  NoJob = NoJob
  Slots = {s1, s2}
  NoSlot = NoSlot
  MaxRetries = 1
  MaxStalls = 1
  MaxManual = 0
  Slugs = {g1}
  Assets = {a1}
  SlugOf <- OneSlug
  AssetOf <- OneAsset
  Delayed = {j2}
  FromComposer = {}
  Invalid = {}
  Unconfigured = {}
  Unscoped = {j2}
  Untracked = {j1}
  Outcomes = {"created", "rejected"}
  OperatorOps = {"pause"}
  MayThrow = TRUE
  MayCrash = TRUE
  MayOutlive = TRUE
SPECIFICATION FairSpec
PROPERTY
  JobsEnd
CHECK_DEADLOCK FALSE
