\* Two uploads, one of them refused, two slots of the processing worker and every fault:
\* failing calls, deaths, locks that expire under a live run.  MaxStalls is one more than
\* the queue's default, so that three runs of one job meet.
CONSTANTS
  Jobs = {a1, a2}
  NoAsset = NoAsset
  Slots = {s1, s2}
  NoSlot = NoSlot
  MaxRetries = 0
  MaxStalls = 2
  MaxManual = 0
  Unsupported = {a2}
  Unreadable = {}
  AutoEnqueue = TRUE
  AutoPublish = TRUE
  MayThrow = TRUE
  MayCrash = TRUE
  MayOutlive = TRUE
SPECIFICATION FairSpec
INVARIANTS
  RecordsAreBacked
  AttemptsAreOwned
  AttemptsAccount
PROPERTY
  ProcessingEnds
CHECK_DEADLOCK FALSE
