--------------------------- MODULE ContentWorkflow ---------------------------
(***************************************************************************)
(* The tables of generated artifacts, reviews and review events, their     *)
(* repositories, and the hand-off packages that callers build from what    *)
(* they read.  Any number of clients; each query of a transaction is a     *)
(* step, because another transaction may commit between the read on which  *)
(* a decision is validated and the write that makes it.                    *)
(***************************************************************************)
EXTENDS Naturals, Sequences, FiniteSets

CONSTANTS
  Artifacts,
  Reviews,
  Clients,
  NoArtifact,   \* what a review judges before it is created
  Saved,        \* statuses that artifacts are saved with
  MaxEvents     \* bound on the events of a review

ASSUME ContentWorkflowConstants ==
  /\ NoArtifact \notin Artifacts
  /\ Saved \subseteq {"generated", "generated-with-warnings", "invalid"}
  /\ MaxEvents \in Nat

VARIABLES
  artifact,     \* artifact -> status of its row
  first,        \* artifact -> the status it was saved with
  review,       \* review -> its row
  history,      \* review -> its events, in the order of their commits
  late,         \* the reviews past their expiry
  call,         \* client -> the call it is in and what it has read
  ready         \* <<review, artifact>> of the packages built with status ready

vars == <<artifact, first, review, history, late, call, ready>>

tables == <<artifact, first, review, history>>

-----------------------------------------------------------------------------

Generated == {"generated", "generated-with-warnings"}

Unpublishable == {"invalid", "rejected"}

ArtifactStatuses == Generated \cup Unpublishable \cup {"absent", "approved"}

Approved == {"approved", "approved-with-notes"}

Terminal == Approved \cup {"rejected"}

ReviewStatuses == Terminal \cup {"absent", "pending-review", "changes-requested"}

Decisions == {"approve", "approve-with-notes", "request-changes", "reject"}

Severities == {"low", "high"}

\* The status a decision leads to.
NextStatus ==
  [d \in Decisions |->
     CASE d = "approve" -> "approved"
       [] d = "approve-with-notes" -> "approved-with-notes"
       [] d = "request-changes" -> "changes-requested"
       [] d = "reject" -> "rejected"]

Row == [status : ReviewStatuses, version : Nat, artifact : Artifacts \cup {NoArtifact},
        artifactStatus : ArtifactStatuses]

NoRow == [status |-> "absent", version |-> 0, artifact |-> NoArtifact,
          artifactStatus |-> "absent"]

Event == [type : {"created", "decision-submitted", "reopened"},
          from : ReviewStatuses, to : ReviewStatuses]

Idle == [label |-> "idle"]

Init ==
  /\ artifact = [a \in Artifacts |-> "absent"]
  /\ first = [a \in Artifacts |-> "absent"]
  /\ review = [r \in Reviews |-> NoRow]
  /\ history = [r \in Reviews |-> <<>>]
  /\ late = {}
  /\ call = [c \in Clients |-> Idle]
  /\ ready = {}

Exists(r) == review[r].status # "absent"

-----------------------------------------------------------------------------
\* Artifacts.

\* An artifact that exists is refused.
Save(a, status) ==
  /\ artifact[a] = "absent"
  /\ artifact' = [artifact EXCEPT ![a] = status]
  /\ first' = [first EXCEPT ![a] = status]
  /\ UNCHANGED <<review, history, late, call, ready>>

\* Faulty variant: whatever is not rejected may be approved.
AllowedUnlessRejected(from, to) ==
  \/ from = to
  \/ to = "approved" /\ from # "rejected"
  \/ to = "rejected" /\ from \in Generated \cup {"invalid"}

AllowedTransition(from, to) ==
  \/ from = to
  \/ to = "approved" /\ from \in Generated
  \/ to = "rejected" /\ from \in Generated \cup {"invalid"}

ReadStatus(c, a, to) ==
  /\ call[c] = Idle
  /\ artifact[a] # "absent"
  /\ AllowedTransition(artifact[a], to)
  /\ call' = [call EXCEPT ![c] = [label |-> "updating", artifact |-> a, to |-> to]]
  /\ UNCHANGED <<tables, late, ready>>

\* The status is written whatever it is by now.
WriteStatus(c) ==
  /\ call[c].label = "updating"
  /\ artifact' = [artifact EXCEPT ![call[c].artifact] = call[c].to]
  /\ call' = [call EXCEPT ![c] = Idle]
  /\ UNCHANGED <<first, review, history, late, ready>>

-----------------------------------------------------------------------------
\* Reviews.

\* A review is built from an artifact the caller holds, perhaps as it was saved, and refused
\* when its id is taken.  Its row and its first event are inserted together.
CreateReview(r, a) ==
  /\ ~Exists(r)
  /\ artifact[a] # "absent"
  /\ \E status \in {first[a], artifact[a]} :
       review' = [review EXCEPT ![r] = [status |-> "pending-review", version |-> 1,
                                        artifact |-> a, artifactStatus |-> status]]
  /\ history' = [history EXCEPT ![r] = <<[type |-> "created", from |-> "absent",
                                          to |-> "pending-review"]>>]
  /\ UNCHANGED <<artifact, first, late, call, ready>>

PassesExpiry(r) ==
  /\ Exists(r) /\ late' = late \cup {r}
  /\ UNCHANGED <<tables, call, ready>>

\* Faulty variant: a decided review may be decided again.
AcceptsAgain(r, decision, worst) ==
  /\ r \notin late
  /\ decision \in {"approve", "approve-with-notes"} =>
       review[r].artifactStatus \notin Unpublishable /\ worst # "high"

\* The worst unresolved finding is the reviewer's own: the row holds none.
Accepts(r, decision, worst) ==
  /\ r \notin late
  /\ review[r].status \notin Terminal
  /\ decision \in {"approve", "approve-with-notes"} =>
       review[r].artifactStatus \notin Unpublishable /\ worst # "high"

\* The version a client expects is one it was told, by this or an earlier answer.
Told(r) == 1..review[r].version

ReadForDecision(c, r, decision) ==
  /\ call[c] = Idle
  /\ Exists(r)
  /\ \E worst \in Severities : Accepts(r, decision, worst)
  /\ \E version \in Told(r) :
       call' = [call EXCEPT ![c] =
                  [label |-> "writing", type |-> "decision-submitted", review |-> r,
                   version |-> version, from |-> review[r].status, to |-> NextStatus[decision]]]
  /\ UNCHANGED <<tables, late, ready>>

ReadForReopening(c, r) ==
  /\ call[c] = Idle
  /\ review[r].status = "changes-requested"
  /\ \E version \in Told(r) :
       call' = [call EXCEPT ![c] =
                  [label |-> "writing", type |-> "reopened", review |-> r, version |-> version,
                   from |-> review[r].status, to |-> "pending-review"]]
  /\ UNCHANGED <<tables, late, ready>>

\* Faulty variant: the update does not ask for the version.
WriteAnyway(c) ==
  /\ call[c].label = "writing"
  /\ LET r == call[c].review
     IN /\ Len(history[r]) < MaxEvents
        /\ review' = [review EXCEPT ![r].status = call[c].to, ![r].version = @ + 1]
        /\ history' = [history EXCEPT ![r] = Append(@,
                         [type |-> call[c].type, from |-> call[c].from, to |-> call[c].to])]
  /\ call' = [call EXCEPT ![c] = Idle]
  /\ UNCHANGED <<artifact, first, late, ready>>

\* The update finds the row only in the expected version; its event commits with it.
Write(c) ==
  /\ call[c].label = "writing"
  /\ LET r == call[c].review
     IN IF review[r].version = call[c].version
        THEN /\ Len(history[r]) < MaxEvents
             /\ review' = [review EXCEPT ![r].status = call[c].to, ![r].version = @ + 1]
             /\ history' = [history EXCEPT ![r] = Append(@,
                              [type |-> call[c].type, from |-> call[c].from, to |-> call[c].to])]
        ELSE UNCHANGED <<review, history>>
  /\ call' = [call EXCEPT ![c] = Idle]
  /\ UNCHANGED <<artifact, first, late, ready>>

-----------------------------------------------------------------------------
\* Hand-off: a client reads the review and the artifact and builds a package from them.

ReadReview(c, r) ==
  /\ call[c] = Idle
  /\ Exists(r)
  /\ call' = [call EXCEPT ![c] = [label |-> "reviewed", review |-> r,
                                  status |-> review[r].status, judged |-> review[r].artifact]]
  /\ UNCHANGED <<tables, late, ready>>

ReadArtifact(c, a) ==
  /\ call[c].label = "reviewed"
  /\ artifact[a] # "absent"
  /\ call' = [call EXCEPT ![c] =
       [label |-> "held", review |-> call[c].review, status |-> call[c].status,
        judged |-> call[c].judged, artifact |-> a, artifactStatus |-> artifact[a]]]
  /\ UNCHANGED <<tables, late, ready>>

\* Faulty variant: the artifact is not compared with the one the review judged.
ValidatesAnyArtifact(held) ==
  held.status \in Approved /\ held.artifactStatus \notin Unpublishable

ValidatesHandoff(held) ==
  /\ held.status \in Approved
  /\ held.artifactStatus \notin Unpublishable
  /\ held.judged = held.artifact

HandOff(c) ==
  /\ call[c].label = "held"
  /\ ready' = IF ValidatesHandoff(call[c]) THEN ready \cup {<<call[c].review, call[c].artifact>>}
              ELSE ready
  /\ call' = [call EXCEPT ![c] = Idle]
  /\ UNCHANGED <<tables, late>>

-----------------------------------------------------------------------------

Next ==
  \/ \E a \in Artifacts, status \in Saved : Save(a, status)
  \/ \E r \in Reviews, a \in Artifacts : CreateReview(r, a)
  \/ \E r \in Reviews : PassesExpiry(r)
  \/ \E c \in Clients, a \in Artifacts, to \in {"approved", "rejected"} : ReadStatus(c, a, to)
  \/ \E c \in Clients, r \in Reviews, d \in Decisions : ReadForDecision(c, r, d)
  \/ \E c \in Clients, r \in Reviews : ReadForReopening(c, r) \/ ReadReview(c, r)
  \/ \E c \in Clients, a \in Artifacts : ReadArtifact(c, a)
  \/ \E c \in Clients : WriteStatus(c) \/ Write(c) \/ HandOff(c)

Spec == Init /\ [][Next]_vars

-----------------------------------------------------------------------------
\* Properties.

Call ==
  {Idle}
  \cup [label : {"updating"}, artifact : Artifacts, to : ArtifactStatuses]
  \cup [label : {"writing"}, type : {"decision-submitted", "reopened"}, review : Reviews,
        version : Nat, from : ReviewStatuses, to : ReviewStatuses]
  \cup [label : {"reviewed"}, review : Reviews, status : ReviewStatuses,
        judged : Artifacts \cup {NoArtifact}]
  \cup [label : {"held"}, review : Reviews, status : ReviewStatuses,
        judged : Artifacts \cup {NoArtifact}, artifact : Artifacts,
        artifactStatus : ArtifactStatuses]

\* Type invariant.
TypeOK ==
  /\ artifact \in [Artifacts -> ArtifactStatuses]
  /\ first \in [Artifacts -> Generated \cup {"absent", "invalid"}]
  /\ review \in [Reviews -> Row]
  /\ \A r \in Reviews : history[r] \in Seq(Event)
  /\ DOMAIN history = Reviews
  /\ late \subseteq Reviews
  /\ call \in [Clients -> Call]
  /\ ready \subseteq Reviews \X Artifacts

\* However the transactions of several clients interleave, the events of a review tell its
\* whole story: there is one per version, each starts where the one before it ended, and the
\* last one ended where the row is.
HistoryTellsAll ==
  /\ TypeOK
  /\ \A r \in Reviews :
       /\ Len(history[r]) = review[r].version
       /\ \A i \in 2..Len(history[r]) : history[r][i].from = history[r][i - 1].to
       /\ Exists(r) => history[r][Len(history[r])].to = review[r].status

\* What was generated invalid is never approved or handed over, by any of the three ways that
\* lead there, though the status is checked on copies of it: in the row of the review, in the
\* caller's hands, and before another transaction commits.
InvalidIsNeverPublished ==
  \A a \in Artifacts : first[a] = "invalid" =>
    /\ artifact[a] # "approved"
    /\ \A r \in Reviews : review[r].artifact = a => review[r].status \notin Approved
    /\ \A r \in Reviews : <<r, a>> \notin ready

\* A package that was ready when it was built belongs to a review that approved that very
\* artifact and has not been taken back since, however old the copies it was built from.
ReadyStaysApproved ==
  \A p \in ready : review[p[1]].status \in Approved /\ review[p[1]].artifact = p[2]

\* How far a review in this status is.
Stage(status) ==
  CASE status = "absent" -> "none"
    [] status = "pending-review" -> "open"
    [] status = "changes-requested" -> "changes"
    [] status \in Approved -> "approved"
    [] status = "rejected" -> "rejected"

Promise == INSTANCE Review WITH
  Subjects <- Artifacts \cup {NoArtifact},
  stage <- [r \in Reviews |-> Stage(review[r].status)],
  subject <- [r \in Reviews |-> review[r].artifact]

\* The tables keep the promise of a review: decided once, and about one artifact.
ImplementsReview == Promise!Spec

=============================================================================
