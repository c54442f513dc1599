\* Two clients on one review and two artifacts.  The symmetry is over the clients, which no
\* property names.
CONSTANTS
  Artifacts = {a1, a2}
  Reviews = {r1}
  Clients = {c1, c2}
  NoArtifact = NoArtifact
  Saved = {"generated", "invalid"}
  MaxEvents = 4
SYMMETRY ClientSymmetry
SPECIFICATION Spec
INVARIANTS
  HistoryTellsAll
  InvalidIsNeverPublished
  ReadyStaysApproved
PROPERTY
  ImplementsReview
CHECK_DEADLOCK FALSE
