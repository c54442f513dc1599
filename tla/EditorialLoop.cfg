\* One review, two callers, every sample draft first and two drafts as revisions.
CONSTANTS
  Intents <- WordsOf
  Editorial <- EditorialProfile
  Evidence <- EvidenceProfile
  Seo <- SeoProfile
  AiSeo <- AiSeoProfile
  Commercial <- CommercialProfile
  Enabled <- EnabledOrder
  SwitchedOff <- RulesOff
  Policy <- GenerationPolicy
  Reviews = {r1}
  Callers = {u1, u2}
  FirstDrafts <- Samples
  RevisedDrafts <- Revisions
  Selections <- SelectionsMade
  MaxRevisions = 2
  MaxRounds = 2
SYMMETRY CallerSymmetry
SPECIFICATION Spec
INVARIANTS
  NothingBlockingIsLost
  ReadinessIsSound
  ApprovedIsReady
PROPERTIES
  LineageHolds
  ImplementsReview
CHECK_DEADLOCK FALSE
