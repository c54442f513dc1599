\* The same console: what an operator confirms is what was chosen.
CONSTANTS
  r1 = r1
  r2 = r2
  Assets <- MCAssets
  Slug <- MCSlug
  MaxAssets <- MCMaxAssets
  MaxPublishers <- MCMaxPublishers
  Requests <- MCRequests
  Calls <- MCCalls
  Callers <- MCCallers
  Deployments <- MCDeployments
  Stock <- MCStock
  Slots <- MCSlots
  MaxViews <- MCMaxViews
  MaxFaults <- MCMaxFaults
SYMMETRY MCSymmetry
SPECIFICATION Spec
INVARIANT SelectionIsAskedFor
CHECK_DEADLOCK FALSE
