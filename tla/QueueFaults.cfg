\* Two slots, two jobs of one slug, the second from the composer; every outcome of the
\* target, failing database calls, crashes, locks that expire too early, a drain.
CONSTANTS
  j1 = j1
  j2 = j2
  j3 = j3
  j4 = j4
  g1 = g1
  g2 = g2
  a1 = a1
  a2 = a2
  Jobs = {j1, j2}
  NoJob = NoJob
  Slots = {s1, s2}
  NoSlot = NoSlot
  MaxRetries = 1
  MaxStalls = 1
  MaxManual = 0
  Slugs = {g1}
  Assets = {a1}
  SlugOf <- OneSlug
  AssetOf <- OneAsset
  Delayed = {j2}
  FromComposer = {j2}
  Invalid = {}
  Unconfigured = {}
  Unscoped = {}
  Untracked = {}
  Outcomes = {"created", "rejected", "lost", "unlinked"}
  OperatorOps = {"drain"}
  MayThrow = TRUE
  MayCrash = TRUE
  MayOutlive = TRUE
SYMMETRY Symmetry
SPECIFICATION Spec
INVARIANTS
  TypeOK
  EvidenceChain
  CompletedIsPublished
  EffortIsBounded
PROPERTY
  HistoryStopsPublishing
CHECK_DEADLOCK FALSE
