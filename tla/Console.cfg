\* Two requests, three assets, a page of the dashboard, one failing call and one restart.
CONSTANTS
  r1 = r1
  r2 = r2
  Assets <- MCAssets
  Slug <- MCSlug
  MaxAssets <- MCMaxAssets
  MaxPublishers <- MCMaxPublishers
  Requests <- MCRequests
  Calls <- MCCalls
  Callers <- MCCallers
  Deployments <- MCDeployments
  Stock <- MCStock
  Slots <- MCSlots
  MaxViews <- MCMaxViews
  MaxFaults <- MCMaxFaults
SYMMETRY MCSymmetry
SPECIFICATION Spec
INVARIANTS
  AnswersAreTrue
  TrailTellsTrue
  
  
  OnlyWhatWasAsked
CHECK_DEADLOCK FALSE
