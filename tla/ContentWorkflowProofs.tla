----------------------- MODULE ContentWorkflowProofs -----------------------
(***************************************************************************)
(* Safety of ContentWorkflow for every value of its constants: types, the  *)
(* history of a review, what became invalid, what was handed over, and     *)
(* that the tables keep the promise of Review.                             *)
(***************************************************************************)
EXTENDS ContentWorkflow, SequenceTheorems, TLAPS

-----------------------------------------------------------------------------
\* Types.

In(c, label) == call[c].label = label

\* A call is about rows that exist.
RealCall(c) ==
  /\ In(c, "updating") => /\ call[c].to \in {"approved", "rejected"}
                          /\ artifact[call[c].artifact] # "absent"
  /\ In(c, "writing") => /\ review[call[c].review].status # "absent"
                         /\ call[c].from \notin Terminal \cup {"absent"}
                         /\ call[c].to # "absent"
  /\ In(c, "reviewed") \/ In(c, "held") => review[call[c].review].status # "absent"

CallsAreReal == \A c \in Clients : RealCall(c)

\* A review that exists has a version and judges an artifact that was saved; the status an
\* artifact was saved with is known as long as the artifact is.
RowsAreReal ==
  /\ \A r \in Reviews :
       /\ Exists(r) <=> review[r].version # 0
       /\ Exists(r) <=> review[r].artifact \in Artifacts
       /\ Exists(r) => artifact[review[r].artifact] # "absent"
  /\ \A a \in Artifacts : first[a] = "absent" <=> artifact[a] = "absent"

TypeInv == TypeOK /\ CallsAreReal /\ RowsAreReal

\* What the label of a call says of its fields.
LEMMA CallFields ==
  ASSUME TypeOK, NEW c \in Clients
  PROVE  /\ In(c, "updating") =>
              call[c] \in [label : {"updating"}, artifact : Artifacts, to : ArtifactStatuses]
         /\ In(c, "writing") =>
              call[c] \in [label : {"writing"}, type : {"decision-submitted", "reopened"},
                           review : Reviews, version : Nat, from : ReviewStatuses,
                           to : ReviewStatuses]
         /\ In(c, "reviewed") =>
              call[c] \in [label : {"reviewed"}, review : Reviews, status : ReviewStatuses,
                           judged : Artifacts \cup {NoArtifact}]
         /\ In(c, "held") =>
              call[c] \in [label : {"held"}, review : Reviews, status : ReviewStatuses,
                           judged : Artifacts \cup {NoArtifact}, artifact : Artifacts,
                           artifactStatus : ArtifactStatuses]
<1>1. call[c] \in Call
  BY DEF TypeOK
<1>2. QED
  BY <1>1 DEF Call, Idle, In

\* The fields of a row.
LEMMA RowFields ==
  ASSUME TypeOK, NEW r \in Reviews
  PROVE  /\ review[r].status \in ReviewStatuses
         /\ review[r].version \in Nat
         /\ review[r].artifact \in Artifacts \cup {NoArtifact}
         /\ review[r].artifactStatus \in ArtifactStatuses
<1>1. review[r] \in Row
  BY DEF TypeOK
<1>2. QED
  BY <1>1 DEF Row

\* Where a decision leads.
LEMMA Decided ==
  ASSUME NEW d \in Decisions
  PROVE  /\ NextStatus[d] \in Approved \cup {"changes-requested", "rejected"}
         /\ NextStatus[d] \in Approved => d \in {"approve", "approve-with-notes"}
<1>1. CASE d = "approve"
  <2>1. NextStatus[d] = "approved"
    BY <1>1, Zenon DEF NextStatus
  <2>2. QED
    BY <1>1, <2>1 DEF Approved
<1>2. CASE d = "approve-with-notes"
  <2>1. NextStatus[d] = "approved-with-notes"
    BY <1>2, Zenon DEF NextStatus
  <2>2. QED
    BY <1>2, <2>1 DEF Approved
<1>3. CASE d = "request-changes"
  <2>1. NextStatus[d] = "changes-requested"
    BY <1>3, Zenon DEF NextStatus
  <2>2. QED
    BY <1>3, <2>1 DEF Approved
<1>4. CASE d = "reject"
  <2>1. NextStatus[d] = "rejected"
    BY <1>4, Zenon DEF NextStatus
  <2>2. QED
    BY <1>4, <2>1 DEF Approved
<1>5. QED
  BY <1>1, <1>2, <1>3, <1>4 DEF Decisions

\* The initial state has its types.
LEMMA TypeInit == Init => TypeInv
<1>1. SUFFICES ASSUME Init PROVE TypeInv
  OBVIOUS
<1>2. NoRow \in Row
  BY DEF NoRow, Row, ReviewStatuses, ArtifactStatuses
<1>3. TypeOK
  <2>1. \A r \in Reviews : history[r] \in Seq(Event)
    BY <1>1 DEF Init
  <2>2. QED
    BY <1>1, <1>2, <2>1 DEF Init, TypeOK, ArtifactStatuses, Call
<1>4. CallsAreReal
  BY <1>1 DEF Init, CallsAreReal, RealCall, Idle, In
<1>5. RowsAreReal
  BY <1>1, ContentWorkflowConstants DEF Init, RowsAreReal, Exists, NoRow
<1>6. QED
  BY <1>3, <1>4, <1>5 DEF TypeInv

\* A client that goes on with a call of the right type leaves the calls typed.
LEMMA CallTypes ==
  ASSUME TypeOK, NEW c \in Clients, NEW next \in Call, call' = [call EXCEPT ![c] = next]
  PROVE  /\ call' \in [Clients -> Call]
         /\ call'[c] = next
         /\ \A d \in Clients \ {c} : call'[d] = call[d]
  BY DEF TypeOK

\* A row whose status and version are written keeps what it judges.
LEMMA Rewritten ==
  ASSUME TypeOK, NEW r \in Reviews, NEW to \in ReviewStatuses,
         review' = [review EXCEPT ![r].status = to, ![r].version = @ + 1]
  PROVE  /\ review' \in [Reviews -> Row]
         /\ review'[r] = [status |-> to, version |-> review[r].version + 1,
                          artifact |-> review[r].artifact,
                          artifactStatus |-> review[r].artifactStatus]
         /\ \A q \in Reviews \ {r} : review'[q] = review[q]
<1>1. review \in [Reviews -> Row]
  BY DEF TypeOK
<1>2. review' = [review EXCEPT ![r] =
        [status |-> to, version |-> review[r].version + 1, artifact |-> review[r].artifact,
         artifactStatus |-> review[r].artifactStatus]]
  BY <1>1 DEF Row
<1>3. [status |-> to, version |-> review[r].version + 1, artifact |-> review[r].artifact,
       artifactStatus |-> review[r].artifactStatus] \in Row
  BY RowFields DEF Row
<1>4. QED
  BY <1>1, <1>2, <1>3

\* Every step leaves the tables typed, whatever is done to them.
LEMMA StepTypes == TypeInv /\ Next => TypeOK'
<1>1. SUFFICES ASSUME TypeInv, Next PROVE TypeOK'
  OBVIOUS
<1>2. TypeOK /\ CallsAreReal
  BY <1>1 DEF TypeInv
<1>3. ASSUME NEW a \in Artifacts, NEW status \in Saved, Save(a, status) PROVE TypeOK'
  <2>1. status \in Generated \cup {"invalid"}
    BY ContentWorkflowConstants DEF Generated
  <2>2. QED
    BY <1>2, <1>3, <2>1 DEF Save, TypeOK, ArtifactStatuses, Unpublishable
<1>4. ASSUME NEW r \in Reviews, NEW a \in Artifacts, CreateReview(r, a) PROVE TypeOK'
  <2>1. PICK status \in {first[a], artifact[a]} :
          review' = [review EXCEPT ![r] = [status |-> "pending-review", version |-> 1,
                                           artifact |-> a, artifactStatus |-> status]]
    BY <1>4 DEF CreateReview
  <2>2. status \in ArtifactStatuses
    BY <1>2 DEF TypeOK, ArtifactStatuses, Unpublishable
  <2>3. [status |-> "pending-review", version |-> 1, artifact |-> a, artifactStatus |-> status]
          \in Row
    BY <2>2 DEF Row, ReviewStatuses
  <2>4. review' \in [Reviews -> Row]
    BY <1>2, <2>1, <2>3 DEF TypeOK
  <2>5. [type |-> "created", from |-> "absent", to |-> "pending-review"] \in Event
    BY DEF Event, ReviewStatuses
  <2>6. DOMAIN history' = Reviews /\ \A q \in Reviews : history'[q] \in Seq(Event)
    BY <1>2, <1>4, <2>5 DEF CreateReview, TypeOK
  <2>7. QED
    BY <1>2, <1>4, <2>4, <2>6 DEF CreateReview, TypeOK
<1>5. ASSUME NEW r \in Reviews, PassesExpiry(r) PROVE TypeOK'
  BY <1>2, <1>5 DEF PassesExpiry, tables, TypeOK
<1>6. ASSUME NEW c \in Clients, NEW a \in Artifacts, NEW to \in {"approved", "rejected"},
             ReadStatus(c, a, to)
      PROVE TypeOK'
  <2>1. [label |-> "updating", artifact |-> a, to |-> to] \in Call
    BY DEF Call, ArtifactStatuses, Unpublishable
  <2>2. QED
    BY <1>2, <1>6, <2>1, CallTypes DEF ReadStatus, tables, TypeOK
<1>7. ASSUME NEW c \in Clients, NEW r \in Reviews, NEW d \in Decisions,
             ReadForDecision(c, r, d)
      PROVE TypeOK'
  <2>1. PICK version \in Told(r) :
          call' = [call EXCEPT ![c] =
            [label |-> "writing", type |-> "decision-submitted", review |-> r,
             version |-> version, from |-> review[r].status, to |-> NextStatus[d]]]
    BY <1>7 DEF ReadForDecision
  <2>2. version \in Nat /\ review[r].status \in ReviewStatuses
    BY <1>2, RowFields DEF Told
  <2>3. NextStatus[d] \in ReviewStatuses
    BY Decided DEF ReviewStatuses, Terminal
  <2>4. [label |-> "writing", type |-> "decision-submitted", review |-> r,
         version |-> version, from |-> review[r].status, to |-> NextStatus[d]] \in Call
    BY <2>2, <2>3 DEF Call
  <2>5. QED
    BY <1>2, <1>7, <2>1, <2>4, CallTypes DEF ReadForDecision, tables, TypeOK
<1>8. ASSUME NEW c \in Clients, NEW r \in Reviews, ReadForReopening(c, r) PROVE TypeOK'
  <2>1. PICK version \in Told(r) :
          call' = [call EXCEPT ![c] =
            [label |-> "writing", type |-> "reopened", review |-> r, version |-> version,
             from |-> review[r].status, to |-> "pending-review"]]
    BY <1>8 DEF ReadForReopening
  <2>2. version \in Nat /\ review[r].status \in ReviewStatuses
    BY <1>2, RowFields DEF Told
  <2>3. [label |-> "writing", type |-> "reopened", review |-> r, version |-> version,
         from |-> review[r].status, to |-> "pending-review"] \in Call
    BY <2>2 DEF Call, ReviewStatuses
  <2>4. QED
    BY <1>2, <1>8, <2>1, <2>3, CallTypes DEF ReadForReopening, tables, TypeOK
<1>9. ASSUME NEW c \in Clients, NEW r \in Reviews, ReadReview(c, r) PROVE TypeOK'
  <2>1. [label |-> "reviewed", review |-> r, status |-> review[r].status,
         judged |-> review[r].artifact] \in Call
    BY <1>2, RowFields DEF Call
  <2>2. QED
    BY <1>2, <1>9, <2>1, CallTypes DEF ReadReview, tables, TypeOK
<1>10. ASSUME NEW c \in Clients, NEW a \in Artifacts, ReadArtifact(c, a) PROVE TypeOK'
  <2>1. artifact[a] \in ArtifactStatuses
    BY <1>2 DEF TypeOK
  <2>2. [label |-> "held", review |-> call[c].review, status |-> call[c].status,
         judged |-> call[c].judged, artifact |-> a, artifactStatus |-> artifact[a]] \in Call
    BY <1>2, <1>10, <2>1, CallFields DEF ReadArtifact, Call, In
  <2>3. QED
    BY <1>2, <1>10, <2>2, CallTypes DEF ReadArtifact, tables, TypeOK
<1>11. ASSUME NEW c \in Clients, WriteStatus(c) PROVE TypeOK'
  <2>1. call[c].artifact \in Artifacts /\ call[c].to \in ArtifactStatuses
    BY <1>2, <1>11, CallFields DEF WriteStatus, In
  <2>2. Idle \in Call
    BY DEF Call
  <2>3. QED
    BY <1>2, <1>11, <2>1, <2>2, CallTypes DEF WriteStatus, TypeOK
<1>12. ASSUME NEW c \in Clients, Write(c) PROVE TypeOK'
  <2>1. Idle \in Call
    BY DEF Call
  <2>2. DEFINE r == call[c].review
  <2>3. /\ r \in Reviews /\ call[c].from \in ReviewStatuses /\ call[c].to \in ReviewStatuses
        /\ call[c].type \in {"decision-submitted", "reopened"}
    BY <1>2, <1>12, CallFields DEF Write, In
  <2>4. CASE review[r].version = call[c].version
    <3>1. /\ review' = [review EXCEPT ![r].status = call[c].to, ![r].version = @ + 1]
          /\ history' = [history EXCEPT ![r] = Append(@,
               [type |-> call[c].type, from |-> call[c].from, to |-> call[c].to])]
      BY <1>12, <2>4 DEF Write
    <3>2. review' \in [Reviews -> Row]
      BY <1>2, <2>3, <3>1, Rewritten
    <3>3. review[r] \in Row /\ history[r] \in Seq(Event)
      BY <1>2, <2>3 DEF TypeOK
    <3>4. [type |-> call[c].type, from |-> call[c].from, to |-> call[c].to] \in Event
      BY <2>3 DEF Event
    <3>5. DOMAIN history' = Reviews /\ \A q \in Reviews : history'[q] \in Seq(Event)
      <4>1. Append(history[r], [type |-> call[c].type, from |-> call[c].from,
                                to |-> call[c].to]) \in Seq(Event)
        BY <3>3, <3>4
      <4>2. QED
        BY <1>2, <2>3, <3>1, <4>1 DEF TypeOK
    <3>6. QED
      BY <1>2, <1>12, <2>1, <3>2, <3>5, CallTypes DEF Write, TypeOK
  <2>5. CASE review[r].version # call[c].version
    BY <1>2, <1>12, <2>1, <2>5, CallTypes DEF Write, TypeOK
  <2>6. QED
    BY <2>4, <2>5
<1>13. ASSUME NEW c \in Clients, HandOff(c) PROVE TypeOK'
  <2>1. Idle \in Call
    BY DEF Call
  <2>2. <<call[c].review, call[c].artifact>> \in Reviews \X Artifacts
    BY <1>2, <1>13, CallFields DEF HandOff, In
  <2>3. QED
    BY <1>2, <1>13, <2>1, <2>2, CallTypes DEF HandOff, tables, TypeOK
<1>14. QED
  BY <1>1, <1>3, <1>4, <1>5, <1>6, <1>7, <1>8, <1>9, <1>10, <1>11, <1>12, <1>13 DEF Next

\* What a client holds that has read a review in order to write: a version it was told, the
\* status of the row, and approval only of what may be published.
LEMMA WillWrite ==
  ASSUME TypeOK, NEW c \in Clients, NEW r \in Reviews,
         ReadForReopening(c, r) \/ \E d \in Decisions : ReadForDecision(c, r, d)
  PROVE  /\ In(c, "writing")' /\ call'[c].review = r
         /\ call'[c].version \in Told(r)
         /\ call'[c].from = review[r].status
         /\ call'[c].to \in Approved => review[r].artifactStatus \notin Unpublishable
         /\ call'[c].to = "pending-review" => review[r].status = "changes-requested"
         /\ UNCHANGED tables
<1>1. CASE ReadForReopening(c, r)
  <2>1. PICK version \in Told(r) :
          call' = [call EXCEPT ![c] =
            [label |-> "writing", type |-> "reopened", review |-> r, version |-> version,
             from |-> review[r].status, to |-> "pending-review"]]
    BY <1>1 DEF ReadForReopening
  <2>2. call'[c] = [label |-> "writing", type |-> "reopened", review |-> r,
                    version |-> version, from |-> review[r].status, to |-> "pending-review"]
    BY <2>1 DEF TypeOK
  <2>3. QED
    BY <1>1, <2>2 DEF In, Approved, ReadForReopening
<1>2. ASSUME NEW d \in Decisions, ReadForDecision(c, r, d)
      PROVE /\ In(c, "writing")' /\ call'[c].review = r
            /\ call'[c].version \in Told(r)
            /\ call'[c].from = review[r].status
            /\ call'[c].to \in Approved => review[r].artifactStatus \notin Unpublishable
            /\ call'[c].to # "pending-review"
            /\ UNCHANGED tables
  <2>1. PICK version \in Told(r) :
          call' = [call EXCEPT ![c] =
            [label |-> "writing", type |-> "decision-submitted", review |-> r,
             version |-> version, from |-> review[r].status, to |-> NextStatus[d]]]
    BY <1>2 DEF ReadForDecision
  <2>2. call'[c] = [label |-> "writing", type |-> "decision-submitted", review |-> r,
                    version |-> version, from |-> review[r].status, to |-> NextStatus[d]]
    BY <2>1 DEF TypeOK
  <2>3. NextStatus[d] \in Approved => review[r].artifactStatus \notin Unpublishable
    BY <1>2, Decided DEF ReadForDecision, Accepts
  <2>4. NextStatus[d] # "pending-review"
    BY Decided DEF Approved
  <2>5. QED
    BY <1>2, <2>2, <2>3, <2>4 DEF In, ReadForDecision
<1>3. QED
  BY <1>1, <1>2 DEF ReadForReopening

-----------------------------------------------------------------------------
\* What a step does to one row, and to one call.

\* A write that finds the row in the version it expects.
Writes(c, r) ==
  /\ Write(c) /\ call[c].review = r
  /\ review[r].version = call[c].version

\* What such a write leaves.
LEMMA Written ==
  ASSUME TypeInv, NEW c \in Clients, NEW r \in Reviews, Writes(c, r)
  PROVE  /\ In(c, "writing") /\ Exists(r)
         /\ review'[r].status = call[c].to
         /\ review'[r].version = review[r].version + 1
         /\ review'[r].artifact = review[r].artifact
         /\ review'[r].artifactStatus = review[r].artifactStatus
         /\ history'[r] = Append(history[r], [type |-> call[c].type, from |-> call[c].from,
                                             to |-> call[c].to])
         /\ call[c].to \in ReviewStatuses \ {"absent"}
         /\ call[c].from \in ReviewStatuses \ (Terminal \cup {"absent"})
<1>1. TypeOK /\ In(c, "writing") /\ Exists(r)
  BY DEF Writes, Write, In, TypeInv, CallsAreReal, RealCall, Exists
<1>2. call[c].to \in ReviewStatuses \ {"absent"}
  BY <1>1, CallFields DEF TypeInv, CallsAreReal, RealCall
<1>3. call[c].from \in ReviewStatuses \ (Terminal \cup {"absent"})
  BY <1>1, CallFields DEF TypeInv, CallsAreReal, RealCall
<1>4. /\ review' = [review EXCEPT ![r].status = call[c].to, ![r].version = @ + 1]
      /\ history' = [history EXCEPT ![r] = Append(@,
           [type |-> call[c].type, from |-> call[c].from, to |-> call[c].to])]
  BY DEF Writes, Write
<1>5. review'[r] = [status |-> call[c].to, version |-> review[r].version + 1,
                    artifact |-> review[r].artifact,
                    artifactStatus |-> review[r].artifactStatus]
  BY <1>1, <1>2, <1>4, Rewritten
<1>6. history'[r] = Append(history[r], [type |-> call[c].type, from |-> call[c].from,
                                        to |-> call[c].to])
  BY <1>1, <1>4 DEF TypeOK
<1>7. QED
  BY <1>1, <1>2, <1>3, <1>5, <1>6

\* A step leaves a review as it is, creates it, or writes what was decided of it.
LEMMA ReviewStep ==
  ASSUME TypeInv, [Next]_vars, NEW r \in Reviews
  PROVE  \/ review'[r] = review[r] /\ history'[r] = history[r]
         \/ \E a \in Artifacts : CreateReview(r, a)
         \/ \E c \in Clients : Writes(c, r)
<1>1. TypeOK
  BY DEF TypeInv
<1>2. ASSUME NEW q \in Reviews, NEW a \in Artifacts, CreateReview(q, a), q # r
      PROVE review'[r] = review[r] /\ history'[r] = history[r]
  BY <1>1, <1>2 DEF CreateReview, TypeOK
<1>3. ASSUME NEW c \in Clients, Write(c), ~Writes(c, r)
      PROVE review'[r] = review[r] /\ history'[r] = history[r]
  <2>1. DEFINE q == call[c].review
  <2>2. CASE review[q].version = call[c].version
    <3>1. q \in Reviews /\ q # r /\ call[c].to \in ReviewStatuses
      BY <1>1, <1>3, <2>2, CallFields DEF Write, Writes, In
    <3>2. /\ review' = [review EXCEPT ![q].status = call[c].to, ![q].version = @ + 1]
          /\ history' = [history EXCEPT ![q] = Append(@,
               [type |-> call[c].type, from |-> call[c].from, to |-> call[c].to])]
      BY <1>3, <2>2 DEF Write
    <3>3. review'[r] = review[r]
      BY <1>1, <3>1, <3>2, Rewritten
    <3>4. QED
      BY <1>1, <3>1, <3>2, <3>3 DEF TypeOK
  <2>3. CASE review[q].version # call[c].version
    BY <1>3, <2>3 DEF Write
  <2>4. QED
    BY <2>2, <2>3
<1>4. CASE UNCHANGED <<review, history>>
  BY <1>4
<1>5. QED
  BY <1>2, <1>3, <1>4
  DEF Next, vars, tables, Save, PassesExpiry, ReadStatus, WriteStatus, ReadForDecision,
      ReadForReopening, ReadReview, ReadArtifact, HandOff

\* A step leaves an artifact as it is, saves it, or writes its status.
LEMMA ArtifactStep ==
  ASSUME TypeInv, [Next]_vars, NEW a \in Artifacts
  PROVE  \/ artifact'[a] = artifact[a] /\ first'[a] = first[a]
         \/ \E status \in Saved : Save(a, status)
         \/ \E c \in Clients : WriteStatus(c) /\ call[c].artifact = a
<1>1. TypeOK
  BY DEF TypeInv
<1>2. ASSUME NEW b \in Artifacts, NEW status \in Saved, Save(b, status), b # a
      PROVE artifact'[a] = artifact[a] /\ first'[a] = first[a]
  BY <1>1, <1>2 DEF Save, TypeOK
<1>3. ASSUME NEW c \in Clients, WriteStatus(c), call[c].artifact # a
      PROVE artifact'[a] = artifact[a] /\ first'[a] = first[a]
  BY <1>1, <1>3 DEF WriteStatus, TypeOK
<1>4. CASE UNCHANGED <<artifact, first>>
  BY <1>4
<1>5. QED
  BY <1>2, <1>3, <1>4
  DEF Next, vars, tables, CreateReview, PassesExpiry, ReadStatus, Write, ReadForDecision,
      ReadForReopening, ReadReview, ReadArtifact, HandOff

\* A step leaves a client in its call, ends the call, or is the client's own read, which
\* leaves the tables as they are.
LEMMA CallStep ==
  ASSUME TypeInv, [Next]_vars, NEW c \in Clients
  PROVE  \/ call'[c] = call[c]
         \/ call'[c] = Idle
         \/ \E a \in Artifacts, to \in {"approved", "rejected"} : ReadStatus(c, a, to)
         \/ \E r \in Reviews, d \in Decisions : ReadForDecision(c, r, d)
         \/ \E r \in Reviews : ReadForReopening(c, r) \/ ReadReview(c, r)
         \/ \E a \in Artifacts : ReadArtifact(c, a)
<1>1. call \in [Clients -> Call]
  BY DEF TypeInv, TypeOK
<1>2. ASSUME NEW d \in Clients, WriteStatus(d) \/ Write(d) \/ HandOff(d)
      PROVE call'[c] \in {call[c], Idle}
  BY <1>1, <1>2 DEF WriteStatus, Write, HandOff
<1>3. ASSUME NEW d \in Clients, d # c,
             \/ \E a \in Artifacts, to \in {"approved", "rejected"} : ReadStatus(d, a, to)
             \/ \E r \in Reviews, x \in Decisions : ReadForDecision(d, r, x)
             \/ \E r \in Reviews : ReadForReopening(d, r) \/ ReadReview(d, r)
             \/ \E a \in Artifacts : ReadArtifact(d, a)
      PROVE call'[c] = call[c]
  BY <1>1, <1>3 DEF ReadStatus, ReadForDecision, ReadForReopening, ReadReview, ReadArtifact
<1>4. CASE UNCHANGED call
  BY <1>4
<1>5. QED
  BY <1>2, <1>3, <1>4 DEF Next, vars, Save, CreateReview, PassesExpiry

\* What exists goes on existing.
LEMMA Lasting ==
  ASSUME TypeInv, [Next]_vars
  PROVE  /\ \A r \in Reviews : Exists(r) => review'[r].status # "absent"
         /\ \A a \in Artifacts : artifact[a] # "absent" => artifact'[a] # "absent"
<1>1. ASSUME NEW r \in Reviews, Exists(r) PROVE review'[r].status # "absent"
  <2>1. CASE review'[r] = review[r]
    BY <1>1, <2>1 DEF Exists
  <2>2. ASSUME NEW c \in Clients, Writes(c, r) PROVE review'[r].status # "absent"
    <3>1. review'[r].status = call[c].to /\ call[c].to # "absent"
      BY <2>2, Written
    <3>2. QED
      BY <3>1 DEF Exists
  <2>3. QED
    BY <1>1, <2>1, <2>2, ReviewStep DEF CreateReview
<1>2. ASSUME NEW a \in Artifacts, artifact[a] # "absent" PROVE artifact'[a] # "absent"
  <2>1. ASSUME NEW c \in Clients, WriteStatus(c), call[c].artifact = a
        PROVE artifact'[a] # "absent"
    <3>1. call[c].to \in {"approved", "rejected"}
      BY <2>1 DEF TypeInv, CallsAreReal, RealCall, WriteStatus, In
    <3>2. QED
      BY <2>1, <3>1 DEF TypeInv, TypeOK, WriteStatus
  <2>2. QED
    BY <1>2, <2>1, ArtifactStep DEF Save
<1>3. QED
  BY <1>1, <1>2

-----------------------------------------------------------------------------
\* The type invariant holds.

\* A client's call is about rows that exist after the step too.
LEMMA CallsStayReal == TypeInv /\ [Next]_vars => CallsAreReal'
<1>1. SUFFICES ASSUME TypeInv, [Next]_vars, NEW c \in Clients
               PROVE RealCall(c)'
  BY DEF CallsAreReal
<1>2. TypeOK /\ CallsAreReal
  BY <1>1 DEF TypeInv
<1>3. CASE call'[c] = call[c]
  <2>1. /\ In(c, "updating") => call[c].artifact \in Artifacts
        /\ In(c, "writing") \/ In(c, "reviewed") \/ In(c, "held") => call[c].review \in Reviews
    BY <1>2, CallFields
  <2>2. QED
    BY <1>1, <1>2, <1>3, <2>1, Lasting DEF CallsAreReal, RealCall, Exists, In
<1>4. CASE call'[c] = Idle
  BY <1>4 DEF Idle, RealCall, In
<1>5. ASSUME NEW a \in Artifacts, NEW to \in {"approved", "rejected"}, ReadStatus(c, a, to)
      PROVE RealCall(c)'
  <2>1. call'[c] = [label |-> "updating", artifact |-> a, to |-> to]
    BY <1>2, <1>5 DEF ReadStatus, TypeOK
  <2>2. artifact'[a] # "absent"
    BY <1>1, <1>5, Lasting DEF ReadStatus
  <2>3. QED
    BY <2>1, <2>2 DEF RealCall, In
<1>6. ASSUME NEW r \in Reviews, NEW d \in Decisions, ReadForDecision(c, r, d)
      PROVE RealCall(c)'
  <2>1. PICK version \in Told(r) :
          call' = [call EXCEPT ![c] =
            [label |-> "writing", type |-> "decision-submitted", review |-> r,
             version |-> version, from |-> review[r].status, to |-> NextStatus[d]]]
    BY <1>6 DEF ReadForDecision
  <2>2. call'[c] = [label |-> "writing", type |-> "decision-submitted", review |-> r,
                    version |-> version, from |-> review[r].status, to |-> NextStatus[d]]
    BY <1>2, <2>1 DEF TypeOK
  <2>3. review[r].status \notin Terminal \cup {"absent"}
    BY <1>6 DEF ReadForDecision, Accepts, Exists
  <2>4. review'[r].status # "absent" /\ NextStatus[d] # "absent"
    BY <1>1, <1>6, Decided, Lasting DEF ReadForDecision, Approved
  <2>5. QED
    BY <2>2, <2>3, <2>4 DEF RealCall, In
<1>7. ASSUME NEW r \in Reviews, ReadForReopening(c, r)
      PROVE RealCall(c)'
  <2>1. PICK version \in Told(r) :
          call' = [call EXCEPT ![c] =
            [label |-> "writing", type |-> "reopened", review |-> r, version |-> version,
             from |-> review[r].status, to |-> "pending-review"]]
    BY <1>7 DEF ReadForReopening
  <2>2. call'[c] = [label |-> "writing", type |-> "reopened", review |-> r,
                    version |-> version, from |-> review[r].status, to |-> "pending-review"]
    BY <1>2, <2>1 DEF TypeOK
  <2>3. review[r].status \notin Terminal \cup {"absent"} /\ Exists(r)
    BY <1>7 DEF ReadForReopening, Terminal, Approved, Exists
  <2>4. QED
    BY <1>1, <2>2, <2>3, Lasting DEF RealCall, In
<1>8. ASSUME NEW r \in Reviews, ReadReview(c, r)
      PROVE RealCall(c)'
  <2>1. call'[c] = [label |-> "reviewed", review |-> r, status |-> review[r].status,
                    judged |-> review[r].artifact]
    BY <1>2, <1>8 DEF ReadReview, TypeOK
  <2>2. QED
    BY <1>1, <1>8, <2>1, Lasting DEF ReadReview, Exists, RealCall, In
<1>9. ASSUME NEW a \in Artifacts, ReadArtifact(c, a)
      PROVE RealCall(c)'
  <2>1. call'[c] = [label |-> "held", review |-> call[c].review, status |-> call[c].status,
                    judged |-> call[c].judged, artifact |-> a, artifactStatus |-> artifact[a]]
    BY <1>2, <1>9 DEF ReadArtifact, TypeOK
  <2>2. In(c, "reviewed") /\ call[c].review \in Reviews
    BY <1>2, <1>9, CallFields DEF ReadArtifact, In
  <2>3. QED
    BY <1>1, <1>2, <2>1, <2>2, Lasting DEF CallsAreReal, RealCall, Exists, In
<1>10. QED
  BY <1>1, <1>3, <1>4, <1>5, <1>6, <1>7, <1>8, <1>9, CallStep

\* So are the rows of the reviews and of the artifacts.
LEMMA RowsStayReal == TypeInv /\ [Next]_vars => RowsAreReal'
<1>1. SUFFICES ASSUME TypeInv, [Next]_vars PROVE RowsAreReal'
  OBVIOUS
<1>2. TypeOK /\ RowsAreReal
  BY <1>1 DEF TypeInv
<1>3. ASSUME NEW r \in Reviews
      PROVE /\ (review'[r].status # "absent") <=> review'[r].version # 0
            /\ (review'[r].status # "absent") <=> review'[r].artifact \in Artifacts
            /\ review'[r].status # "absent" => artifact'[review'[r].artifact] # "absent"
  <2>1. CASE review'[r] = review[r]
    BY <1>1, <1>2, <2>1, Lasting DEF RowsAreReal, Exists
  <2>2. ASSUME NEW a \in Artifacts, CreateReview(r, a)
        PROVE /\ review'[r].status # "absent" /\ review'[r].version # 0
              /\ review'[r].artifact \in Artifacts
              /\ artifact'[review'[r].artifact] # "absent"
    BY <1>2, <2>2 DEF CreateReview, TypeOK, Exists
  <2>3. ASSUME NEW c \in Clients, Writes(c, r)
        PROVE /\ review'[r].status # "absent" /\ review'[r].version # 0
              /\ review'[r].artifact \in Artifacts
              /\ artifact'[review'[r].artifact] # "absent"
    <3>1. /\ Exists(r) /\ review[r].version \in Nat
          /\ review'[r].version = review[r].version + 1
          /\ review'[r].artifact = review[r].artifact
      BY <1>1, <1>2, <2>3, Written, RowFields
    <3>2. review[r].version + 1 # 0
      BY <3>1
    <3>3. QED
      BY <1>1, <1>2, <3>1, <3>2, Lasting DEF RowsAreReal
  <2>4. QED
    BY <1>1, <2>1, <2>2, <2>3, ReviewStep
<1>4. ASSUME NEW a \in Artifacts PROVE first'[a] = "absent" <=> artifact'[a] = "absent"
  <2>1. ASSUME NEW status \in Saved, Save(a, status)
        PROVE first'[a] # "absent" /\ artifact'[a] # "absent"
    BY <1>2, <2>1, ContentWorkflowConstants DEF Save, TypeOK
  <2>2. ASSUME NEW c \in Clients, WriteStatus(c), call[c].artifact = a
        PROVE first'[a] # "absent" /\ artifact'[a] # "absent"
    <3>1. artifact[a] # "absent"
      BY <1>1, <2>2 DEF TypeInv, CallsAreReal, RealCall, WriteStatus, In
    <3>2. QED
      BY <1>1, <1>2, <2>2, <3>1, Lasting DEF WriteStatus, RowsAreReal
  <2>3. QED
    BY <1>1, <1>2, <2>1, <2>2, ArtifactStep DEF RowsAreReal
<1>5. QED
  BY <1>3, <1>4 DEF RowsAreReal, Exists

\* Every reachable state has its types, and its calls and rows are real.
LEMMA TypeInvariant == Spec => []TypeInv
<1>1. TypeInv /\ [Next]_vars => TypeInv'
  <2>1. SUFFICES ASSUME TypeInv, [Next]_vars PROVE TypeOK'
    BY CallsStayReal, RowsStayReal DEF TypeInv
  <2>2. CASE Next
    BY <2>1, <2>2, StepTypes
  <2>3. CASE UNCHANGED vars
    BY <2>1, <2>3 DEF TypeInv, TypeOK, vars
  <2>4. QED
    BY <2>1, <2>2, <2>3
<1>2. QED
  BY <1>1, TypeInit, PTL DEF Spec

\* Every variable of the tables and of the calls keeps its type.
THEOREM TypeCorrect == Spec => []TypeOK
<1>1. TypeInv => TypeOK
  BY DEF TypeInv
<1>2. QED
  BY <1>1, TypeInvariant, PTL

-----------------------------------------------------------------------------
\* The history of a review.

\* A client that writes holds a version the row had, and if the row has it still, the status
\* the client read is the status of the row: what it decided is decided of this row.
FreshIsTrue ==
  \A c \in Clients : In(c, "writing") =>
    /\ call[c].version <= review[call[c].review].version
    /\ call[c].version = review[call[c].review].version =>
         call[c].from = review[call[c].review].status

FreshInv == TypeInv /\ FreshIsTrue

\* Versions only grow, and every new one is a new row to whoever read before.
LEMMA FreshNext == FreshInv /\ [Next]_vars => FreshIsTrue'
<1>1. SUFFICES ASSUME FreshInv, [Next]_vars, NEW c \in Clients, In(c, "writing")'
               PROVE  /\ call'[c].version <= review'[call'[c].review].version
                      /\ call'[c].version = review'[call'[c].review].version =>
                           call'[c].from = review'[call'[c].review].status
  BY DEF FreshIsTrue, In
<1>2. TypeInv /\ TypeOK /\ FreshIsTrue
  BY <1>1 DEF FreshInv, TypeInv
<1>3. CASE call'[c] = call[c]
  <2>1. DEFINE r == call[c].review
  <2>2. In(c, "writing")
    BY <1>1, <1>3 DEF In
  <2>3. r \in Reviews /\ call[c].version \in Nat /\ review[r].status # "absent"
    BY <1>2, <2>2, CallFields DEF TypeInv, CallsAreReal, RealCall
  <2>4. review[r].version \in Nat
    BY <1>2, <2>3, RowFields
  <2>5. CASE review'[r] = review[r]
    BY <1>2, <1>3, <2>2, <2>5 DEF FreshIsTrue
  <2>6. ASSUME NEW a \in Artifacts, CreateReview(r, a) PROVE FALSE
    BY <2>3, <2>6 DEF CreateReview, Exists
  <2>7. ASSUME NEW d \in Clients, Writes(d, r)
        PROVE call'[c].version < review'[r].version
    <3>1. review'[r].version = review[r].version + 1
      BY <1>2, <2>3, <2>7, Written
    <3>2. call[c].version <= review[r].version
      BY <1>2, <2>2 DEF FreshIsTrue
    <3>3. QED
      BY <1>3, <2>3, <2>4, <3>1, <3>2
  <2>8. CASE \E d \in Clients : Writes(d, r)
    <3>1. PICK d \in Clients : Writes(d, r)
      BY <2>8
    <3>2. review'[r].version = review[r].version + 1
      BY <1>2, <2>3, <3>1, Written
    <3>3. call'[c].version < review'[r].version
      BY <2>7, <3>1
    <3>4. QED
      BY <1>3, <2>3, <2>4, <3>2, <3>3
  <2>9. QED
    BY <1>1, <1>2, <2>3, <2>5, <2>6, <2>8, ReviewStep, <1>3
<1>4. CASE call'[c] = Idle
  BY <1>1, <1>4 DEF Idle, In
<1>5. ASSUME NEW a \in Artifacts, NEW to \in {"approved", "rejected"}, ReadStatus(c, a, to)
      PROVE FALSE
  <2>1. call'[c] = [label |-> "updating", artifact |-> a, to |-> to]
    BY <1>2, <1>5 DEF ReadStatus, TypeOK
  <2>2. QED
    BY <1>1, <2>1 DEF In
<1>7. ASSUME NEW r \in Reviews,
             ReadForReopening(c, r) \/ \E d \in Decisions : ReadForDecision(c, r, d)
      PROVE /\ call'[c].version <= review'[call'[c].review].version
            /\ call'[c].from = review'[call'[c].review].status
  <2>1. review[r].version \in Nat
    BY <1>2, RowFields
  <2>2. QED
    BY <1>2, <1>7, <2>1, WillWrite DEF Told, tables
<1>8. ASSUME NEW r \in Reviews, ReadReview(c, r) PROVE FALSE
  <2>1. call'[c] = [label |-> "reviewed", review |-> r, status |-> review[r].status,
                    judged |-> review[r].artifact]
    BY <1>2, <1>8 DEF ReadReview, TypeOK
  <2>2. QED
    BY <1>1, <2>1 DEF In
<1>9. ASSUME NEW a \in Artifacts, ReadArtifact(c, a) PROVE FALSE
  <2>1. call'[c] = [label |-> "held", review |-> call[c].review, status |-> call[c].status,
                    judged |-> call[c].judged, artifact |-> a, artifactStatus |-> artifact[a]]
    BY <1>2, <1>9 DEF ReadArtifact, TypeOK
  <2>2. QED
    BY <1>1, <2>1 DEF In
<1>10. QED
  BY <1>1, <1>2, <1>3, <1>4, <1>5, <1>7, <1>8, <1>9, CallStep

\* The events of one review.
Story(r) ==
  /\ Len(history[r]) = review[r].version
  /\ \A i \in 2..Len(history[r]) : history[r][i].from = history[r][i - 1].to
  /\ Exists(r) => history[r][Len(history[r])].to = review[r].status

HistoryInv == FreshInv /\ \A r \in Reviews : Story(r)

\* A sequence of events grows at its end.
LEMMA Appended ==
  ASSUME NEW s \in Seq(Event), NEW e \in Event
  PROVE  /\ Len(Append(s, e)) = Len(s) + 1
         /\ \A i \in 1..Len(s) : Append(s, e)[i] = s[i]
         /\ Append(s, e)[Len(s) + 1] = e
  OBVIOUS

\* A write continues the story of its review.
LEMMA StoryGoesOn ==
  ASSUME HistoryInv, NEW c \in Clients, NEW r \in Reviews, Writes(c, r)
  PROVE  Story(r)'
<1>1. TypeInv /\ TypeOK /\ FreshIsTrue /\ Story(r)
  BY DEF HistoryInv, FreshInv, TypeInv
<1>2. /\ In(c, "writing") /\ Exists(r)
      /\ review'[r].status = call[c].to
      /\ review'[r].version = review[r].version + 1
  BY <1>1, Written
<1>3. DEFINE e == [type |-> call[c].type, from |-> call[c].from, to |-> call[c].to]
<1>4. history'[r] = Append(history[r], e)
  BY <1>1, Written
<1>5. e \in Event
  BY <1>1, <1>2, CallFields DEF Event
<1>6. /\ history[r] \in Seq(Event) /\ Len(history[r]) = review[r].version
      /\ review[r].version \in Nat \ {0}
  BY <1>1, <1>2, RowFields DEF TypeInv, TypeOK, RowsAreReal, Story
<1>7. e.from = history[r][Len(history[r])].to
  <2>1. call[c].from = review[r].status
    BY <1>1, <1>2 DEF FreshIsTrue, Writes
  <2>2. QED
    BY <1>1, <1>2, <2>1 DEF Story
<1>8. Len(history'[r]) = review'[r].version
  BY <1>2, <1>4, <1>5, <1>6, Appended
<1>9. ASSUME NEW i \in 2..Len(history'[r]) PROVE history'[r][i].from = history'[r][i - 1].to
  <2>1. CASE i = Len(history[r]) + 1
    <3>1. history'[r][i] = e /\ history'[r][i - 1] = history[r][Len(history[r])]
      BY <1>4, <1>5, <1>6, <2>1, Appended
    <3>2. QED
      BY <1>7, <3>1
  <2>2. CASE i # Len(history[r]) + 1
    <3>1. i \in 2..Len(history[r])
      BY <1>4, <1>5, <1>6, <1>9, <2>2, Appended
    <3>2. i \in 1..Len(history[r]) /\ i - 1 \in 1..Len(history[r])
      BY <1>6, <3>1
    <3>3. history'[r][i] = history[r][i] /\ history'[r][i - 1] = history[r][i - 1]
      BY <1>4, <1>5, <1>6, <3>2, Appended
    <3>4. QED
      BY <1>1, <3>1, <3>3 DEF Story
  <2>3. QED
    BY <2>1, <2>2
<1>10. history'[r][Len(history'[r])].to = review'[r].status
  BY <1>2, <1>4, <1>5, <1>6, Appended
<1>11. QED
  BY <1>8, <1>9, <1>10 DEF Story

\* The inductive invariant of the histories.
LEMMA HistoryInvariant == Spec => []HistoryInv
<1>1. Init => HistoryInv
  <2>1. SUFFICES ASSUME Init PROVE FreshIsTrue /\ \A r \in Reviews : Story(r)
    BY TypeInit DEF HistoryInv, FreshInv
  <2>2. FreshIsTrue
    BY <2>1 DEF Init, FreshIsTrue, Idle, In
  <2>3. ASSUME NEW r \in Reviews PROVE Story(r)
    <3>1. review[r].status = "absent" /\ review[r].version = 0 /\ history[r] = <<>>
      BY <2>1 DEF Init, NoRow
    <3>2. QED
      BY <3>1 DEF Story, Exists
  <2>4. QED
    BY <2>2, <2>3
<1>2. TypeInv' /\ HistoryInv /\ [Next]_vars => HistoryInv'
  <2>1. SUFFICES ASSUME HistoryInv, [Next]_vars, NEW r \in Reviews PROVE Story(r)'
    BY FreshNext DEF HistoryInv, FreshInv
  <2>2. TypeInv /\ TypeOK
    BY <2>1 DEF HistoryInv, FreshInv, TypeInv
  <2>3. CASE review'[r] = review[r] /\ history'[r] = history[r]
    BY <2>1, <2>3 DEF HistoryInv, Story, Exists
  <2>4. ASSUME NEW a \in Artifacts, CreateReview(r, a) PROVE Story(r)'
    <3>1. review'[r].status = "pending-review" /\ review'[r].version = 1
      BY <2>2, <2>4 DEF CreateReview, TypeOK
    <3>2. history'[r] = <<[type |-> "created", from |-> "absent", to |-> "pending-review"]>>
      BY <2>2, <2>4 DEF CreateReview, TypeOK
    <3>3. QED
      BY <3>1, <3>2 DEF Story
  <2>5. QED
    BY <2>1, <2>2, <2>3, <2>4, ReviewStep, StoryGoesOn
<1>3. QED
  BY <1>1, <1>2, TypeInvariant, PTL DEF Spec

\* However the transactions interleave, there is one event per version, each starts where the
\* one before it ended, and the last one ended where the row is: the version that the update
\* asks for makes a decision one about the row it was read from.
THEOREM HistoriesTellAll == Spec => []HistoryTellsAll
<1>1. HistoryInv => HistoryTellsAll
  BY DEF HistoryInv, FreshInv, TypeInv, HistoryTellsAll, Story
<1>2. QED
  BY <1>1, HistoryInvariant, PTL

-----------------------------------------------------------------------------
\* What was handed over.

\* A verdict stands: no write finds the row in the version it expects and decided.
LEMMA VerdictStands ==
  ASSUME FreshInv, [Next]_vars, NEW r \in Reviews, review[r].status \in Terminal
  PROVE  review'[r] = review[r]
<1>1. TypeInv /\ FreshIsTrue
  BY DEF FreshInv
<1>2. ASSUME NEW a \in Artifacts, CreateReview(r, a) PROVE FALSE
  BY <1>2 DEF CreateReview, Exists, Terminal, Approved
<1>3. ASSUME NEW c \in Clients, Writes(c, r) PROVE FALSE
  <2>1. In(c, "writing") /\ call[c].from \notin Terminal
    BY <1>1, <1>3, Written
  <2>2. call[c].from = review[r].status
    BY <1>1, <1>3, <2>1 DEF FreshIsTrue, Writes
  <2>3. QED
    BY <2>1, <2>2
<1>4. QED
  BY <1>1, <1>2, <1>3, ReviewStep

\* An approval that a client has read is one that the row still holds.
TrueCopy(c) ==
  In(c, "reviewed") \/ In(c, "held") =>
    (call[c].status \in Approved =>
       /\ review[call[c].review].status \in Approved
       /\ review[call[c].review].artifact = call[c].judged)

CopiesAreTrue == \A c \in Clients : TrueCopy(c)

ReadyInv == FreshInv /\ CopiesAreTrue /\ ReadyStaysApproved

\* A copy of an approval stays true, though the copy is not read again.
LEMMA CopiesNext == ReadyInv /\ [Next]_vars => CopiesAreTrue'
<1>1. SUFFICES ASSUME ReadyInv, [Next]_vars, NEW c \in Clients PROVE TrueCopy(c)'
  BY DEF CopiesAreTrue
<1>2. FreshInv /\ TypeInv /\ TypeOK /\ TrueCopy(c)
  BY <1>1 DEF ReadyInv, FreshInv, TypeInv, CopiesAreTrue
<1>3. CASE call'[c] = call[c]
  <2>1. SUFFICES ASSUME In(c, "reviewed") \/ In(c, "held"), call[c].status \in Approved
                 PROVE  review'[call[c].review] = review[call[c].review]
    BY <1>2, <1>3 DEF TrueCopy, In
  <2>2. call[c].review \in Reviews
    BY <1>2, <2>1, CallFields
  <2>3. review[call[c].review].status \in Terminal
    BY <1>2, <2>1 DEF TrueCopy, Terminal
  <2>4. QED
    BY <1>1, <1>2, <2>2, <2>3, VerdictStands
<1>4. CASE call'[c] = Idle
  BY <1>4 DEF TrueCopy, Idle, In
<1>5. ASSUME NEW a \in Artifacts, NEW to \in {"approved", "rejected"}, ReadStatus(c, a, to)
      PROVE TrueCopy(c)'
  <2>1. call'[c] = [label |-> "updating", artifact |-> a, to |-> to]
    BY <1>2, <1>5 DEF ReadStatus, TypeOK
  <2>2. QED
    BY <2>1 DEF TrueCopy, In
<1>6. ASSUME NEW r \in Reviews,
             ReadForReopening(c, r) \/ \E d \in Decisions : ReadForDecision(c, r, d)
      PROVE TrueCopy(c)'
  BY <1>2, <1>6, WillWrite DEF TrueCopy, In
<1>7. ASSUME NEW r \in Reviews, ReadReview(c, r) PROVE TrueCopy(c)'
  <2>1. call'[c] = [label |-> "reviewed", review |-> r, status |-> review[r].status,
                    judged |-> review[r].artifact]
    BY <1>2, <1>7 DEF ReadReview, TypeOK
  <2>2. UNCHANGED review
    BY <1>7 DEF ReadReview, tables
  <2>3. QED
    BY <2>1, <2>2 DEF TrueCopy
<1>8. ASSUME NEW a \in Artifacts, ReadArtifact(c, a) PROVE TrueCopy(c)'
  <2>1. call'[c] = [label |-> "held", review |-> call[c].review, status |-> call[c].status,
                    judged |-> call[c].judged, artifact |-> a, artifactStatus |-> artifact[a]]
    BY <1>2, <1>8 DEF ReadArtifact, TypeOK
  <2>2. UNCHANGED review /\ In(c, "reviewed")
    BY <1>8 DEF ReadArtifact, tables, In
  <2>3. QED
    BY <1>2, <2>1, <2>2 DEF TrueCopy
<1>9. QED
  BY <1>1, <1>2, <1>3, <1>4, <1>5, <1>6, <1>7, <1>8, CallStep

\* The inductive invariant of the hand-off.
LEMMA ReadyInvariant == Spec => []ReadyInv
<1>1. Init => ReadyInv
  <2>1. SUFFICES ASSUME Init PROVE FreshIsTrue /\ CopiesAreTrue /\ ReadyStaysApproved
    BY TypeInit DEF ReadyInv, FreshInv
  <2>2. \A c \in Clients : call[c].label = "idle"
    BY <2>1 DEF Init, Idle
  <2>3. QED
    BY <2>1, <2>2 DEF Init, FreshIsTrue, CopiesAreTrue, TrueCopy, ReadyStaysApproved, In
<1>2. TypeInv' /\ ReadyInv /\ [Next]_vars => ReadyInv'
  <2>1. SUFFICES ASSUME ReadyInv, [Next]_vars, NEW p \in ready'
                 PROVE  review'[p[1]].status \in Approved /\ review'[p[1]].artifact = p[2]
    BY FreshNext, CopiesNext DEF ReadyInv, FreshInv, ReadyStaysApproved
  <2>2. FreshInv /\ TypeInv /\ TypeOK /\ ReadyStaysApproved /\ CopiesAreTrue
    BY <2>1 DEF ReadyInv, FreshInv, TypeInv
  <2>3. CASE p \in ready
    <3>1. p[1] \in Reviews /\ review[p[1]].status \in Approved /\ review[p[1]].artifact = p[2]
      BY <2>2, <2>3 DEF TypeOK, ReadyStaysApproved
    <3>2. review'[p[1]] = review[p[1]]
      BY <2>1, <2>2, <3>1, VerdictStands DEF Terminal
    <3>3. QED
      BY <3>1, <3>2
  <2>4. CASE p \notin ready
    <3>1. PICK c \in Clients : HandOff(c)
      BY <2>1, <2>4 DEF Next, vars, tables, Save, CreateReview, PassesExpiry, ReadStatus,
            WriteStatus, ReadForDecision, ReadForReopening, Write, ReadReview, ReadArtifact
    <3>2. /\ p = <<call[c].review, call[c].artifact>> /\ ValidatesHandoff(call[c])
          /\ In(c, "held") /\ UNCHANGED review
      BY <2>1, <2>4, <3>1 DEF HandOff, tables, In
    <3>3. QED
      BY <2>2, <3>2 DEF ValidatesHandoff, CopiesAreTrue, TrueCopy
  <2>5. QED
    BY <2>3, <2>4
<1>3. QED
  BY <1>1, <1>2, TypeInvariant, PTL DEF Spec

\* Whoever holds a package that was ready may rely on it: the review it names approved that very
\* artifact and cannot be taken back, however old the copies were that the package was built from.
THEOREM ReadyIsApproved == Spec => []ReadyStaysApproved
<1>1. ReadyInv => ReadyStaysApproved
  BY DEF ReadyInv
<1>2. QED
  BY <1>1, ReadyInvariant, PTL

-----------------------------------------------------------------------------
\* What was generated invalid.

\* The review judges an artifact that was saved as invalid.
JudgesInvalid(r) == Exists(r) /\ first[review[r].artifact] = "invalid"

InvalidStaysOut ==
  /\ \A a \in Artifacts : first[a] = "invalid" => artifact[a] \in Unpublishable
  /\ \A r \in Reviews : JudgesInvalid(r) =>
       review[r].artifactStatus \in Unpublishable /\ review[r].status \notin Approved
  /\ \A c \in Clients :
       /\ In(c, "updating") /\ first[call[c].artifact] = "invalid" => call[c].to = "rejected"
       /\ In(c, "writing") /\ JudgesInvalid(call[c].review) => call[c].to \notin Approved

InvalidInv == TypeInv /\ InvalidStaysOut

\* How an artifact was saved does not change, nor does what a review judges.
LEMMA Remembered ==
  ASSUME TypeInv, [Next]_vars
  PROVE  /\ \A a \in Artifacts : artifact[a] # "absent" => first'[a] = first[a]
         /\ \A r \in Reviews : Exists(r) =>
              /\ review'[r].artifact = review[r].artifact
              /\ review'[r].artifactStatus = review[r].artifactStatus
              /\ first'[review'[r].artifact] = first[review[r].artifact]
<1>1. TypeOK /\ RowsAreReal
  BY DEF TypeInv
<1>2. ASSUME NEW a \in Artifacts, artifact[a] # "absent" PROVE first'[a] = first[a]
  BY <1>2, ArtifactStep DEF Save, WriteStatus
<1>3. ASSUME NEW r \in Reviews, Exists(r)
      PROVE /\ review'[r].artifact = review[r].artifact
            /\ review'[r].artifactStatus = review[r].artifactStatus
  <2>1. ASSUME NEW c \in Clients, Writes(c, r)
        PROVE /\ review'[r].artifact = review[r].artifact
              /\ review'[r].artifactStatus = review[r].artifactStatus
    BY <2>1, Written
  <2>2. QED
    BY <1>3, <2>1, ReviewStep DEF CreateReview
<1>4. ASSUME NEW r \in Reviews, Exists(r)
      PROVE first'[review'[r].artifact] = first[review[r].artifact]
  <2>1. review[r].artifact \in Artifacts /\ artifact[review[r].artifact] # "absent"
    BY <1>1, <1>4 DEF RowsAreReal
  <2>2. QED
    BY <1>2, <1>3, <1>4, <2>1
<1>5. QED
  BY <1>2, <1>3, <1>4

\* The status of an artifact that was invalid is that or rejected.
LEMMA InvalidArtifacts ==
  ASSUME InvalidInv, [Next]_vars, NEW a \in Artifacts, first'[a] = "invalid"
  PROVE  artifact'[a] \in Unpublishable
<1>1. TypeInv /\ TypeOK /\ InvalidStaysOut
  BY DEF InvalidInv, TypeInv
<1>2. ASSUME NEW status \in Saved, Save(a, status) PROVE artifact'[a] \in Unpublishable
  BY <1>1, <1>2 DEF Save, TypeOK, Unpublishable
<1>3. ASSUME NEW c \in Clients, WriteStatus(c), call[c].artifact = a
      PROVE artifact'[a] \in Unpublishable
  <2>1. In(c, "updating") /\ first[a] = "invalid" /\ artifact'[a] = call[c].to
    BY <1>1, <1>3 DEF WriteStatus, In, TypeOK
  <2>2. call[c].to = "rejected"
    BY <1>1, <1>3, <2>1 DEF InvalidStaysOut
  <2>3. QED
    BY <2>1, <2>2 DEF Unpublishable
<1>4. QED
  BY <1>1, <1>2, <1>3, ArtifactStep DEF InvalidStaysOut

\* Its reviews judge it as such, and none approves it.
LEMMA InvalidRows ==
  ASSUME InvalidInv, [Next]_vars, NEW r \in Reviews, JudgesInvalid(r)'
  PROVE  review'[r].artifactStatus \in Unpublishable /\ review'[r].status \notin Approved
<1>1. TypeInv /\ TypeOK /\ InvalidStaysOut
  BY DEF InvalidInv, TypeInv
<1>2. ASSUME NEW a \in Artifacts, CreateReview(r, a)
      PROVE review'[r].artifactStatus \in Unpublishable /\ review'[r].status \notin Approved
  <2>1. PICK status \in {first[a], artifact[a]} :
          review' = [review EXCEPT ![r] = [status |-> "pending-review", version |-> 1,
                                           artifact |-> a, artifactStatus |-> status]]
    BY <1>2 DEF CreateReview
  <2>2. review'[r] = [status |-> "pending-review", version |-> 1, artifact |-> a,
                      artifactStatus |-> status]
    BY <1>1, <2>1 DEF TypeOK
  <2>3. first[a] = "invalid"
    BY <1>2, <2>2 DEF JudgesInvalid, CreateReview
  <2>4. status \in Unpublishable
    BY <1>1, <2>3 DEF InvalidStaysOut, Unpublishable
  <2>5. QED
    BY <2>2, <2>4 DEF Approved
<1>3. CASE Exists(r)
  <2>1. JudgesInvalid(r) /\ review'[r].artifactStatus = review[r].artifactStatus
    BY <1>1, <1>3, Remembered DEF JudgesInvalid
  <2>2. review[r].artifactStatus \in Unpublishable /\ review[r].status \notin Approved
    BY <1>1, <2>1 DEF InvalidStaysOut
  <2>3. ASSUME NEW c \in Clients, Writes(c, r) PROVE review'[r].status \notin Approved
    <3>1. /\ In(c, "writing") /\ call[c].review = r
          /\ review'[r].status = call[c].to
      BY <1>1, <2>3, Written DEF Writes
    <3>2. QED
      BY <1>1, <2>1, <3>1 DEF InvalidStaysOut
  <2>4. QED
    BY <1>1, <1>3, <2>1, <2>2, <2>3, ReviewStep DEF CreateReview
<1>4. CASE ~Exists(r)
  <2>1. ASSUME NEW c \in Clients, Writes(c, r) PROVE FALSE
    BY <1>1, <1>4, <2>1, Written
  <2>2. ASSUME review'[r] = review[r] PROVE FALSE
    BY <1>4, <2>2 DEF JudgesInvalid, Exists
  <2>3. QED
    BY <1>1, <1>2, <2>1, <2>2, ReviewStep
<1>5. QED
  BY <1>3, <1>4

\* No client is about to approve it.
LEMMA InvalidCalls ==
  ASSUME InvalidInv, [Next]_vars, NEW c \in Clients
  PROVE  /\ In(c, "updating")' /\ first'[call'[c].artifact] = "invalid" =>
              call'[c].to = "rejected"
         /\ In(c, "writing")' /\ first'[review'[call'[c].review].artifact] = "invalid" =>
              call'[c].to \notin Approved
<1>1. TypeInv /\ TypeOK /\ InvalidStaysOut /\ RealCall(c)
  BY DEF InvalidInv, TypeInv, CallsAreReal
<1>2. CASE call'[c] = call[c]
  <2>1. ASSUME In(c, "updating"), first'[call'[c].artifact] = "invalid"
        PROVE call'[c].to = "rejected"
    <3>1. call[c].artifact \in Artifacts /\ artifact[call[c].artifact] # "absent"
      BY <1>1, <2>1, CallFields DEF RealCall
    <3>2. first[call[c].artifact] = "invalid"
      BY <1>1, <1>2, <2>1, <3>1, Remembered
    <3>3. QED
      BY <1>1, <1>2, <2>1, <3>2 DEF InvalidStaysOut
  <2>2. ASSUME In(c, "writing"), first'[review'[call'[c].review].artifact] = "invalid"
        PROVE call'[c].to \notin Approved
    <3>1. call[c].review \in Reviews /\ Exists(call[c].review)
      BY <1>1, <2>2, CallFields DEF RealCall, Exists
    <3>2. JudgesInvalid(call[c].review)
      BY <1>1, <1>2, <2>2, <3>1, Remembered DEF JudgesInvalid
    <3>3. QED
      BY <1>1, <1>2, <2>2, <3>2 DEF InvalidStaysOut
  <2>3. QED
    BY <1>2, <2>1, <2>2 DEF In
<1>3. CASE call'[c] = Idle
  BY <1>3 DEF Idle, In
<1>4. ASSUME NEW a \in Artifacts, NEW to \in {"approved", "rejected"}, ReadStatus(c, a, to)
      PROVE /\ call'[c].label = "updating" /\ call'[c].artifact = a
            /\ first'[a] = "invalid" => call'[c].to = "rejected"
  <2>1. call'[c] = [label |-> "updating", artifact |-> a, to |-> to]
    BY <1>1, <1>4 DEF ReadStatus, TypeOK
  <2>2. UNCHANGED first /\ AllowedTransition(artifact[a], to)
    BY <1>4 DEF ReadStatus, tables
  <2>3. ASSUME first[a] = "invalid" PROVE to # "approved"
    <3>1. artifact[a] \in Unpublishable
      BY <1>1, <2>3 DEF InvalidStaysOut
    <3>2. QED
      BY <2>2, <3>1 DEF AllowedTransition, Unpublishable, Generated
  <2>4. QED
    BY <2>1, <2>2, <2>3
<1>5. ASSUME NEW r \in Reviews,
             ReadForReopening(c, r) \/ \E d \in Decisions : ReadForDecision(c, r, d)
      PROVE /\ call'[c].label = "writing" /\ call'[c].review = r
            /\ first'[review'[r].artifact] = "invalid" => call'[c].to \notin Approved
  <2>1. /\ call'[c].label = "writing" /\ call'[c].review = r
        /\ call'[c].to \in Approved => review[r].artifactStatus \notin Unpublishable
        /\ UNCHANGED <<first, review>>
    BY <1>1, <1>5, WillWrite DEF In, tables
  <2>2. Exists(r)
    BY <1>5 DEF ReadForReopening, ReadForDecision, Exists
  <2>3. QED
    BY <1>1, <2>1, <2>2 DEF InvalidStaysOut, JudgesInvalid
<1>6. ASSUME NEW r \in Reviews, ReadReview(c, r) PROVE call'[c].label = "reviewed"
  BY <1>1, <1>6 DEF ReadReview, TypeOK
<1>7. ASSUME NEW a \in Artifacts, ReadArtifact(c, a) PROVE call'[c].label = "held"
  BY <1>1, <1>7 DEF ReadArtifact, TypeOK
<1>8. QED
  BY <1>1, <1>2, <1>3, <1>4, <1>5, <1>6, <1>7, CallStep DEF In

\* The inductive invariant of what was generated invalid.
LEMMA InvalidInvariant == Spec => []InvalidInv
<1>1. Init => InvalidInv
  <2>1. SUFFICES ASSUME Init PROVE InvalidStaysOut
    BY TypeInit DEF InvalidInv
  <2>2. /\ \A a \in Artifacts : first[a] = "absent"
        /\ \A r \in Reviews : review[r].status = "absent"
        /\ \A c \in Clients : call[c].label = "idle"
    BY <2>1 DEF Init, NoRow, Idle
  <2>3. QED
    BY <2>2 DEF InvalidStaysOut, JudgesInvalid, Exists, In
<1>2. TypeInv' /\ InvalidInv /\ [Next]_vars => InvalidInv'
  BY InvalidArtifacts, InvalidRows, InvalidCalls DEF InvalidInv, InvalidStaysOut, JudgesInvalid
<1>3. QED
  BY <1>1, <1>2, TypeInvariant, PTL DEF Spec

\* What was generated invalid is never approved or handed over: its status becomes nothing but
\* rejected, no review of it is ever approved, and so no package of it is ready.
THEOREM InvalidIsKeptBack == Spec => []InvalidIsNeverPublished
<1>1. TypeInv /\ InvalidInv /\ ReadyInv => InvalidIsNeverPublished
  <2>1. SUFFICES ASSUME TypeInv, InvalidInv, ReadyInv, NEW a \in Artifacts, first[a] = "invalid"
                 PROVE  /\ artifact[a] # "approved"
                        /\ \A r \in Reviews : review[r].artifact = a =>
                                              review[r].status \notin Approved
                        /\ \A r \in Reviews : <<r, a>> \notin ready
    BY DEF InvalidIsNeverPublished
  <2>2. artifact[a] # "approved"
    BY <2>1 DEF InvalidInv, InvalidStaysOut, Unpublishable
  <2>3. ASSUME NEW r \in Reviews, review[r].artifact = a PROVE review[r].status \notin Approved
    BY <2>1, <2>3 DEF InvalidInv, InvalidStaysOut, JudgesInvalid, TypeInv, RowsAreReal
  <2>4. ASSUME NEW r \in Reviews PROVE <<r, a>> \notin ready
    BY <2>1, <2>3 DEF ReadyInv, ReadyStaysApproved
  <2>5. QED
    BY <2>2, <2>3, <2>4
<1>2. QED
  BY <1>1, TypeInvariant, InvalidInvariant, ReadyInvariant, PTL

-----------------------------------------------------------------------------
\* The promise of a review.

\* The stage that each status of a review stands for.
LEMMA Stages ==
  /\ Stage("absent") = "none"
  /\ Stage("pending-review") = "open"
  /\ Stage("changes-requested") = "changes"
  /\ \A status \in Approved : Stage(status) = "approved"
  /\ Stage("rejected") = "rejected"
<1>1. Stage("absent") = "none"
  BY Zenon DEF Stage, Approved
<1>2. Stage("pending-review") = "open"
  BY Zenon DEF Stage, Approved
<1>3. Stage("changes-requested") = "changes"
  BY Zenon DEF Stage, Approved
<1>4. Stage("approved") = "approved" /\ Stage("approved-with-notes") = "approved"
  BY Zenon DEF Stage, Approved
<1>5. Stage("rejected") = "rejected"
  BY Zenon DEF Stage, Approved
<1>6. QED
  BY <1>1, <1>2, <1>3, <1>4, <1>5 DEF Approved

\* Only a review whose changes were requested is put back to pending.
ReopensChanged ==
  \A c \in Clients : In(c, "writing") /\ call[c].to = "pending-review" =>
                        call[c].from = "changes-requested"

PromiseInv == FreshInv /\ ReopensChanged

\* The stages when one review of the table is written.
LEMMA OneMoves ==
  ASSUME NEW r \in Reviews, NEW x, \A q \in Reviews \ {r} : review'[q] = review[q],
         Stage(review'[r].status) = x
  PROVE  [q \in Reviews |-> Stage(review'[q].status)] =
           [[q \in Reviews |-> Stage(review[q].status)] EXCEPT ![r] = x]
  OBVIOUS

\* The subjects when one review of the table is written.
LEMMA OneJudges ==
  ASSUME NEW r \in Reviews, NEW x, \A q \in Reviews \ {r} : review'[q] = review[q],
         review'[r].artifact = x
  PROVE  [q \in Reviews |-> review'[q].artifact] =
           [[q \in Reviews |-> review[q].artifact] EXCEPT ![r] = x]
  OBVIOUS

\* A step of the tables is a step of the promise.
LEMMA PromiseStep == PromiseInv /\ [Next]_vars => [Promise!Next]_(Promise!vars)
<1>1. SUFFICES ASSUME PromiseInv, [Next]_vars PROVE Promise!Next \/ UNCHANGED Promise!vars
  OBVIOUS
<1>2. FreshInv /\ TypeInv /\ TypeOK /\ FreshIsTrue /\ ReopensChanged
  BY <1>1 DEF PromiseInv, FreshInv, TypeInv
<1>3. CASE UNCHANGED review
  BY <1>3 DEF Promise!vars
<1>4. ASSUME NEW r \in Reviews, NEW a \in Artifacts, CreateReview(r, a) PROVE Promise!Open(r)
  <2>1. /\ \A q \in Reviews \ {r} : review'[q] = review[q]
        /\ review'[r].status = "pending-review" /\ review'[r].artifact = a
        /\ review[r].status = "absent"
    BY <1>2, <1>4 DEF CreateReview, Exists, TypeOK
  <2>2. /\ Stage(review[r].status) = "none"
        /\ Stage(review'[r].status) = "open"
    BY <2>1, Stages
  <2>3. QED
    BY <2>1, <2>2, OneMoves, OneJudges DEF Promise!Open, Promise!Move
<1>5. ASSUME NEW c \in Clients, NEW r \in Reviews, Writes(c, r)
      PROVE Promise!RequestChanges(r) \/ Promise!Reopen(r) \/ Promise!Decide(r)
  <2>1. /\ In(c, "writing") /\ call[c].from = review[r].status
        /\ call[c].from \in {"pending-review", "changes-requested"}
        /\ call[c].to \in ReviewStatuses \ {"absent"}
        /\ review'[r].status = call[c].to
        /\ review'[r].artifact = review[r].artifact
    BY <1>2, <1>5, Written DEF Writes, FreshIsTrue, ReviewStatuses
  <2>2. \A q \in Reviews \ {r} : review'[q] = review[q]
    <3>1. call[c].to \in ReviewStatuses
      BY <2>1
    <3>2. review' = [review EXCEPT ![r].status = call[c].to, ![r].version = @ + 1]
      BY <1>5 DEF Writes, Write
    <3>3. QED
      BY <1>2, <3>1, <3>2, Rewritten
  <2>3. UNCHANGED [q \in Reviews |-> review[q].artifact]
    BY <2>1, <2>2
  <2>4. Stage(review[r].status) \in {"open", "changes"}
    BY <2>1, Stages
  <2>5. CASE call[c].to = "pending-review"
    <3>1. Stage(review[r].status) = "changes" /\ Stage(review'[r].status) = "open"
      BY <1>2, <2>1, <2>5, Stages DEF ReopensChanged
    <3>2. review[r].artifact \in Artifacts \cup {NoArtifact}
      BY <1>2, RowFields
    <3>3. QED
      BY <2>1, <2>2, <3>1, <3>2, OneMoves, OneJudges DEF Promise!Reopen, Promise!Move
  <2>6. CASE call[c].to = "changes-requested"
    <3>1. Stage(review'[r].status) = "changes"
      BY <2>1, <2>6, Stages
    <3>2. QED
      BY <2>2, <2>3, <2>4, <3>1, OneMoves DEF Promise!RequestChanges, Promise!Move
  <2>7. CASE call[c].to \in Terminal
    <3>1. Stage(review'[r].status) \in Promise!Decided
      BY <2>1, <2>7, Stages DEF Terminal, Promise!Decided
    <3>2. QED
      BY <2>2, <2>3, <2>4, <3>1, OneMoves DEF Promise!Decide, Promise!Move
  <2>8. QED
    BY <2>1, <2>5, <2>6, <2>7 DEF ReviewStatuses
<1>6. CASE \E r \in Reviews : \/ \E a \in Artifacts : CreateReview(r, a)
                             \/ \E c \in Clients : Writes(c, r)
  BY <1>4, <1>5, <1>6 DEF Promise!Next
<1>7. CASE \A r \in Reviews : review'[r] = review[r]
  BY <1>7 DEF Promise!vars
<1>8. QED
  BY <1>2, <1>1, <1>6, <1>7, ReviewStep

\* The tables keep the promise of a review, whatever the number of reviews, artifacts and
\* clients: a review is opened, decided once, and about one artifact, and every other step of
\* the tables leaves it as it is.
THEOREM TablesKeepThePromise == Spec => ImplementsReview
<1>1. Init => Promise!Init
  <2>1. SUFFICES ASSUME Init PROVE Promise!Init
    OBVIOUS
  <2>2. \A r \in Reviews : review[r].status = "absent" /\ review[r].artifact = NoArtifact
    BY <2>1 DEF Init, NoRow
  <2>3. QED
    BY <2>2, Stages DEF Promise!Init
<1>2. Init => ReopensChanged
  BY DEF Init, Idle, ReopensChanged, In
<1>3. TypeInv /\ ReopensChanged /\ [Next]_vars => ReopensChanged'
  <2>1. SUFFICES ASSUME TypeInv, ReopensChanged, [Next]_vars, NEW c \in Clients,
                        In(c, "writing")', call'[c].to = "pending-review"
                 PROVE  call'[c].from = "changes-requested"
    BY DEF ReopensChanged, In
  <2>2. TypeOK
    BY <2>1 DEF TypeInv
  <2>3. CASE call'[c] = call[c]
    BY <2>1, <2>3 DEF ReopensChanged, In
  <2>4. CASE call'[c] = Idle
    BY <2>1, <2>4 DEF Idle, In
  <2>5. ASSUME NEW r \in Reviews,
               ReadForReopening(c, r) \/ \E d \in Decisions : ReadForDecision(c, r, d)
        PROVE call'[c].from = "changes-requested"
    BY <2>1, <2>2, <2>5, WillWrite
  <2>6. ASSUME \/ \E a \in Artifacts, to \in {"approved", "rejected"} : ReadStatus(c, a, to)
               \/ \E r \in Reviews : ReadReview(c, r)
               \/ \E a \in Artifacts : ReadArtifact(c, a)
        PROVE call'[c].label # "writing"
    BY <2>2, <2>6 DEF ReadStatus, ReadReview, ReadArtifact, TypeOK
  <2>7. QED
    BY <2>1, <2>3, <2>4, <2>5, <2>6, CallStep DEF In
<1>4. HistoryInv /\ ReopensChanged => PromiseInv
  BY DEF HistoryInv, PromiseInv
<1>5. QED
  BY <1>1, <1>2, <1>3, <1>4, TypeInvariant, HistoryInvariant, PromiseStep, PTL
  DEF Spec, ImplementsReview, Promise!Spec

=============================================================================
