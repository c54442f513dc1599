------------------------ MODULE EditorialLoopProofs ------------------------
(***************************************************************************)
(* Safety of EditorialLoop for every profile, every draft the generation   *)
(* may return and every number of reviews and callers: types, the lineage  *)
(* of the artifacts, what an approval on the report of the draft under     *)
(* review rests on, the promise of a review, and that no report leaves out *)
(* what blocks publication.  Only the last looks into the analysis of a    *)
(* draft: at the code and severity of every rule, and the deduplication.   *)
(***************************************************************************)
EXTENDS EditorialLoop, SequenceTheorems, WellFoundedInduction, FiniteSetTheorems,
        TLAPS

-----------------------------------------------------------------------------
\* Types, and what they rest on.

Statuses == Terminal \cup {"absent", "pending-review", "changes-requested", "revision-in-progress"}

ArtifactRecord ==
  [doc : DOMAIN Reports, number : 1..MaxRevisions, root : Ids, parent : Ids,
   status : {"generated", "generated-with-warnings", "invalid"}]

ReviewRecord ==
  [status : Statuses, active : Ids \cup {<< >>}, count : 0..MaxRounds,
   artifactStatus : {"none", "generated", "generated-with-warnings", "invalid"},
   approvedOn : {"nothing", "its report", "another report"}]

ArtifactsTyped ==
  /\ DOMAIN artifact \subseteq Ids
  /\ \A a \in DOMAIN artifact : artifact[a] \in ArtifactRecord

RequestsTyped ==
  /\ request \in [Reviews -> Seq([prior : Ids, selection : Selections])]
  /\ \A r \in Reviews : Len(request[r]) <= MaxRounds

\* A review is of an artifact of its own from the time it is opened.
JudgesItsOwn(r) ==
  IF review[r].status = "absent" THEN review[r].active = << >>
  ELSE review[r].active \in ArtifactsOf(r)

\* A generation is for a request that was made and a draft that may have another revision.
FitsItsPlan(u) ==
  run[u] # Idle =>
    /\ run[u].review \in Reviews /\ run[u].request \in 1..MaxRounds
    /\ run[u].prior \in DOMAIN artifact /\ WithinLimit(run[u].prior)

LoopInv ==
  /\ ArtifactsTyped
  /\ RequestsTyped
  /\ review \in [Reviews -> ReviewRecord]
  /\ \A r \in Reviews : JudgesItsOwn(r)
  /\ late \subseteq Reviews
  /\ run \in [Callers -> {Idle} \cup [review : Reviews, request : 1..MaxRounds, prior : Ids]]
  /\ \A u \in Callers : FitsItsPlan(u)

\* The first draft of a review has an identifier, and nothing else is one.
LEMMA RootIsId ==
  /\ \A r \in Reviews : Root(r) \in Ids
  /\ << >> \notin Ids
<1>1. 0 \in 0..MaxRounds /\ 1 \in 1..MaxRevisions
  BY EditorialLoopConstants
<1>2. QED
  BY <1>1 DEF Root, Id, Ids

\* Generation has three verdicts.
LEMMA Verdicts ==
  ASSUME NEW doc
  PROVE  ValidateGeneratedContent(doc) \in {"generated", "generated-with-warnings", "invalid"}
  BY DEF ValidateGeneratedContent

\* The types and their strengthening hold at first.
LEMMA LoopInit == Init => LoopInv
<1>1. SUFFICES ASSUME Init PROVE LoopInv
  OBVIOUS
<1>2. ArtifactsTyped
  BY <1>1 DEF Init, ArtifactsTyped
<1>3. RequestsTyped
  BY <1>1, EditorialLoopConstants DEF Init, RequestsTyped
<1>4. review \in [Reviews -> ReviewRecord]
  <2>1. 0 \in 0..MaxRounds
    BY EditorialLoopConstants
  <2>2. NoReview \in ReviewRecord
    BY <2>1 DEF NoReview, ReviewRecord, Statuses
  <2>3. QED
    BY <1>1, <2>2 DEF Init
<1>5. \A r \in Reviews : JudgesItsOwn(r)
  BY <1>1 DEF Init, JudgesItsOwn, NoReview
<1>6. QED
  BY <1>1, <1>2, <1>3, <1>4, <1>5 DEF Init, LoopInv, FitsItsPlan

-----------------------------------------------------------------------------
\* What a step does to the artifacts.

\* Saving an artifact under an identifier that is not taken leaves the others as they are.
LEMMA Saved ==
  ASSUME NEW id, NEW doc, NEW number, NEW root, NEW parent, Fresh(id),
         CreateArtifact(id, doc, number, root, parent)
  PROVE  /\ DOMAIN artifact' = DOMAIN artifact \cup {id}
         /\ artifact'[id] = [doc |-> doc, status |-> ValidateGeneratedContent(doc),
                             number |-> number, root |-> root, parent |-> parent]
         /\ \A a \in DOMAIN artifact : artifact'[a] = artifact[a]
  BY DEF CreateArtifact, Fresh

\* A step saves a first draft, saves a revision, or saves nothing.
LEMMA Saves ==
  ASSUME [Next]_vars
  PROVE  \/ artifact' = artifact
         \/ \E r \in Reviews, doc \in FirstDrafts :
              /\ Fresh(Root(r)) /\ CreateArtifact(Root(r), doc, 1, Root(r), Root(r))
         \/ \E u \in Callers, doc \in RevisedDrafts :
              /\ run[u] # Idle /\ Fresh(Lineage(u).id) /\ CreateRevisionArtifact(u, doc)
  BY DEF Next, vars, PrepareInitialReview, RequestRevision, ReopenReviewAfterRevision,
         ReopenAfterRevision, SubmitHumanDecision, PassesExpiry, BeginRevision, FailRevision,
         FinishRevision

\* Where an artifact that a step saves comes from.
Descends(a) ==
  \/ a = artifact'[a].root /\ artifact'[a].number = 1
  \/ /\ artifact'[a].parent \in DOMAIN artifact
     /\ artifact'[a].root = artifact[artifact'[a].parent].root
     /\ artifact'[a].number = artifact[artifact'[a].parent].number + 1
     /\ artifact'[a].number <= MaxRevisions

\* No artifact changes or goes, and one that comes has its type and its descent.
LEMMA ArtifactsStay ==
  ASSUME LoopInv, [Next]_vars
  PROVE  /\ ArtifactsTyped'
         /\ DOMAIN artifact \subseteq DOMAIN artifact'
         /\ \A a \in DOMAIN artifact : artifact'[a] = artifact[a]
         /\ \A a \in DOMAIN artifact' \ DOMAIN artifact : Descends(a)
<1>0. /\ ArtifactsTyped /\ DOMAIN artifact \subseteq Ids
      /\ \A a \in DOMAIN artifact : artifact[a] \in ArtifactRecord
      /\ MaxRevisions \in Nat \ {0}
  BY EditorialLoopConstants DEF LoopInv, ArtifactsTyped
<1>1. CASE artifact' = artifact
  BY <1>0, <1>1 DEF ArtifactsTyped
<1>2. ASSUME NEW r \in Reviews, NEW doc \in FirstDrafts, Fresh(Root(r)),
             CreateArtifact(Root(r), doc, 1, Root(r), Root(r))
      PROVE  /\ ArtifactsTyped'
             /\ DOMAIN artifact \subseteq DOMAIN artifact'
             /\ \A a \in DOMAIN artifact : artifact'[a] = artifact[a]
             /\ \A a \in DOMAIN artifact' \ DOMAIN artifact : Descends(a)
  <2>1. /\ DOMAIN artifact' = DOMAIN artifact \cup {Root(r)}
        /\ artifact'[Root(r)] = [doc |-> doc, status |-> ValidateGeneratedContent(doc),
                                 number |-> 1, root |-> Root(r), parent |-> Root(r)]
        /\ \A a \in DOMAIN artifact : artifact'[a] = artifact[a]
    BY <1>2, Saved
  <2>2. artifact'[Root(r)] \in ArtifactRecord /\ Root(r) \in Ids
    <3>1. doc \in DOMAIN Reports /\ 1 \in 1..MaxRevisions
      BY <1>0 DEF Reports
    <3>2. QED
      BY <2>1, <3>1, RootIsId, Verdicts DEF ArtifactRecord
  <2>3. Descends(Root(r))
    BY <2>1 DEF Descends
  <2>4. QED
    BY <1>0, <2>1, <2>2, <2>3 DEF ArtifactsTyped
<1>3. ASSUME NEW u \in Callers, NEW doc \in RevisedDrafts, run[u] # Idle,
             Fresh(Lineage(u).id), CreateRevisionArtifact(u, doc)
      PROVE  /\ ArtifactsTyped'
             /\ DOMAIN artifact \subseteq DOMAIN artifact'
             /\ \A a \in DOMAIN artifact : artifact'[a] = artifact[a]
             /\ \A a \in DOMAIN artifact' \ DOMAIN artifact : Descends(a)
  <2>1. /\ run[u].review \in Reviews /\ run[u].request \in 1..MaxRounds
        /\ run[u].prior \in DOMAIN artifact /\ WithinLimit(run[u].prior)
        /\ artifact[run[u].prior] \in ArtifactRecord
    BY <1>0, <1>3 DEF LoopInv, FitsItsPlan
  <2>2. PICK prior \in DOMAIN artifact : prior = run[u].prior
    BY <2>1
  <2>3. PICK number \in 1..MaxRevisions : number = artifact[prior].number + 1
    BY <1>0, <2>1, <2>2 DEF WithinLimit, ArtifactRecord
  <2>4. PICK id \in Ids : id = Id(run[u].review, run[u].request, number)
    <3>1. run[u].request \in 0..MaxRounds
      BY <2>1, EditorialLoopConstants
    <3>2. QED
      BY <2>1, <3>1 DEF Ids
  <2>5. /\ Lineage(u).id = id /\ Lineage(u).number = number
        /\ Lineage(u).root = artifact[prior].root /\ Lineage(u).parent = prior
    BY <2>2, <2>3, <2>4 DEF Lineage
  <2>6. /\ DOMAIN artifact' = DOMAIN artifact \cup {id}
        /\ artifact'[id] = [doc |-> doc, status |-> ValidateGeneratedContent(doc),
                            number |-> number, root |-> artifact[prior].root, parent |-> prior]
        /\ \A a \in DOMAIN artifact : artifact'[a] = artifact[a]
    <3>1. Fresh(id) /\ CreateArtifact(id, doc, number, artifact[prior].root, prior)
      BY <1>3, <2>5 DEF CreateRevisionArtifact
    <3>2. QED
      BY <3>1, Saved
  <2>7. artifact'[id] \in ArtifactRecord
    <3>1. doc \in DOMAIN Reports /\ artifact[prior].root \in Ids /\ prior \in Ids
      BY <1>0, <2>1, <2>2 DEF Reports, ArtifactRecord
    <3>2. QED
      BY <2>6, <3>1, Verdicts DEF ArtifactRecord
  <2>8. Descends(id)
    BY <1>0, <2>3, <2>6 DEF Descends
  <2>9. QED
    BY <1>0, <2>6, <2>7, <2>8 DEF ArtifactsTyped
<1>4. QED
  BY <1>1, <1>2, <1>3, Saves

\* What was saved for a review is still there, and its report is the same.
LEMMA OwnStay ==
  ASSUME LoopInv, [Next]_vars, NEW r \in Reviews, NEW a \in ArtifactsOf(r)
  PROVE  a \in ArtifactsOf(r)' /\ artifact'[a] = artifact[a]
  BY ArtifactsStay DEF ArtifactsOf, Root, Id

-----------------------------------------------------------------------------
\* What a step does to the reviews.

Approving == {"approved", "approved-with-notes"}

Opened(r) ==
  /\ review[r].status = "absent" /\ review'[r].status = "pending-review"
  /\ review'[r].active \in ArtifactsOf(r)' /\ review'[r].approvedOn = "nothing"

Asked(r) ==
  /\ review[r].status \in {"pending-review", "changes-requested"}
  /\ review'[r].status = "changes-requested" /\ review'[r].active = review[r].active

Begun(r) ==
  /\ review[r].status = "changes-requested" /\ review'[r].status = "revision-in-progress"
  /\ review'[r].active = review[r].active

Reopened(r) ==
  /\ review[r].status \in {"changes-requested", "revision-in-progress"}
  /\ review'[r].status = "pending-review"
  /\ review'[r].active \in ArtifactsOf(r)' /\ review'[r].approvedOn = "nothing"

Judged(r) ==
  /\ review[r].status \in {"pending-review", "changes-requested"}
  /\ review'[r].status \in Terminal /\ review'[r].active = review[r].active
  /\ review'[r].status \in Approving /\ review'[r].approvedOn = "its report" =>
       HighFindings(ReportOf(review[r].active)) = {}

ReviewMoves(r) ==
  /\ review' \in [Reviews -> ReviewRecord]
  /\ \A q \in Reviews \ {r} : review'[q] = review[q]
  /\ Opened(r) \/ Asked(r) \/ Begun(r) \/ Reopened(r) \/ Judged(r)

\* The record of a review, written anew.
LEMMA Rewritten ==
  ASSUME review \in [Reviews -> ReviewRecord], NEW r \in Reviews, NEW new \in ReviewRecord,
         review' = [review EXCEPT ![r] = new]
  PROVE  /\ review' \in [Reviews -> ReviewRecord] /\ review'[r] = new
         /\ \A q \in Reviews \ {r} : review'[q] = review[q]
  OBVIOUS

\* The record of a review with another status.
LEMMA Restated ==
  ASSUME review \in [Reviews -> ReviewRecord], NEW r \in Reviews, NEW status \in Statuses,
         review' = [review EXCEPT ![r].status = status]
  PROVE  /\ review' \in [Reviews -> ReviewRecord]
         /\ review'[r].status = status /\ review'[r].active = review[r].active
         /\ \A q \in Reviews \ {r} : review'[q] = review[q]
  BY DEF ReviewRecord

\* The record of a review with another status, and what it rests on.
LEMMA Resolved ==
  ASSUME review \in [Reviews -> ReviewRecord], NEW r \in Reviews, NEW status \in Statuses,
         NEW on \in {"nothing", "its report", "another report"},
         review' = [review EXCEPT ![r] = [@ EXCEPT !.status = status, !.approvedOn = on]]
  PROVE  /\ review' \in [Reviews -> ReviewRecord]
         /\ review'[r].status = status /\ review'[r].active = review[r].active
         /\ review'[r].approvedOn = on
         /\ \A q \in Reviews \ {r} : review'[q] = review[q]
<1>1. review[r] \in ReviewRecord
  OBVIOUS
<1>2. DEFINE new == [review[r] EXCEPT !.status = status, !.approvedOn = on]
<1>3. /\ new \in ReviewRecord /\ new.status = status /\ new.active = review[r].active
      /\ new.approvedOn = on
  BY <1>1 DEF ReviewRecord
<1>4. review' = [review EXCEPT ![r] = new]
  OBVIOUS
<1>5. QED
  BY <1>3, <1>4, Rewritten

\* A decision is within the statuses, and one that approves on the report of the draft under
\* review found no high finding there.
LEMMA Decision ==
  ASSUME LoopInv, NEW r \in Reviews, SubmitHumanDecision(r)
  PROVE  ReviewMoves(r)
<1>0. review \in [Reviews -> ReviewRecord] /\ Accepts(r) /\ JudgesItsOwn(r) /\ << >> \notin Ids
  BY RootIsId DEF LoopInv, SubmitHumanDecision
<1>1. PICK decision \in Terminal \cup {"changes-requested"},
           given \in ArtifactsOf(r) \cup {<< >>} :
        /\ decision \in {"approved", "approved-with-notes"} =>
             HighFindings(FindingsOf(given)) = {}
        /\ review' = [review EXCEPT ![r] = [@ EXCEPT !.status = decision,
             !.approvedOn = IF given = << >> THEN "nothing"
                            ELSE IF given = review[r].active THEN "its report"
                            ELSE "another report"]]
  BY DEF SubmitHumanDecision
<1>2. PICK on \in {"nothing", "its report", "another report"} :
        on = IF given = << >> THEN "nothing"
             ELSE IF given = review[r].active THEN "its report" ELSE "another report"
  OBVIOUS
<1>3. decision \in Statuses
  BY DEF Statuses
<1>4. review' = [review EXCEPT ![r] = [@ EXCEPT !.status = decision, !.approvedOn = on]]
  BY <1>1, <1>2
<1>5. /\ review' \in [Reviews -> ReviewRecord]
      /\ review'[r].status = decision /\ review'[r].active = review[r].active
      /\ review'[r].approvedOn = on
      /\ \A q \in Reviews \ {r} : review'[q] = review[q]
  BY <1>0, <1>3, <1>4, Resolved
<1>6. on = "its report" => given = review[r].active /\ given # << >>
  BY <1>2
<1>7. decision \in Approving /\ on = "its report" => HighFindings(ReportOf(review[r].active)) = {}
  BY <1>1, <1>6 DEF Approving, FindingsOf
<1>8. review[r].status \in {"pending-review", "changes-requested"}
  BY <1>0 DEF Accepts
<1>9. CASE decision = "changes-requested"
  BY <1>5, <1>8, <1>9 DEF ReviewMoves, Asked
<1>10. CASE decision \in Terminal
  BY <1>5, <1>7, <1>8, <1>10 DEF ReviewMoves, Judged
<1>11. QED
  BY <1>9, <1>10

\* A step moves one review, or none.
LEMMA ReviewSteps ==
  ASSUME LoopInv, [Next]_vars
  PROVE  review' = review \/ \E r \in Reviews : ReviewMoves(r)
<1>0. review \in [Reviews -> ReviewRecord] /\ MaxRounds \in Nat
      /\ \A r \in Reviews : JudgesItsOwn(r)
  BY EditorialLoopConstants DEF LoopInv
<1>1. ASSUME NEW r \in Reviews, PrepareInitialReview(r) PROVE ReviewMoves(r)
  <2>1. PICK doc \in FirstDrafts :
          /\ CreateArtifact(Root(r), doc, 1, Root(r), Root(r))
          /\ review' = [review EXCEPT ![r] =
               [status |-> "pending-review", active |-> Root(r),
                artifactStatus |-> ValidateGeneratedContent(doc), count |-> 0,
                approvedOn |-> "nothing"]]
    BY <1>1 DEF PrepareInitialReview
  <2>2. DEFINE new == [status |-> "pending-review", active |-> Root(r),
                       artifactStatus |-> ValidateGeneratedContent(doc), count |-> 0,
                       approvedOn |-> "nothing"]
  <2>3. new \in ReviewRecord
    <3>1. Root(r) \in Ids /\ 0 \in 0..MaxRounds
      BY <1>0, RootIsId
    <3>2. QED
      BY <3>1, Verdicts DEF ReviewRecord, Statuses
  <2>4. /\ review' \in [Reviews -> ReviewRecord] /\ review'[r] = new
        /\ \A q \in Reviews \ {r} : review'[q] = review[q]
    BY <1>0, <2>1, <2>3, Rewritten
  <2>5. Root(r) \in ArtifactsOf(r)'
    <3>1. Fresh(Root(r)) /\ CreateArtifact(Root(r), doc, 1, Root(r), Root(r))
      BY <1>1, <2>1 DEF PrepareInitialReview
    <3>2. /\ DOMAIN artifact' = DOMAIN artifact \cup {Root(r)}
          /\ artifact'[Root(r)] = [doc |-> doc, status |-> ValidateGeneratedContent(doc),
                                   number |-> 1, root |-> Root(r), parent |-> Root(r)]
          /\ \A a \in DOMAIN artifact : artifact'[a] = artifact[a]
      BY <3>1, Saved
    <3>3. QED
      BY <3>2 DEF ArtifactsOf, Root, Id
  <2>6. review'[r].status = "pending-review" /\ review'[r].active = Root(r)
        /\ review'[r].approvedOn = "nothing"
    BY <2>4
  <2>7. review[r].status = "absent"
    BY <1>1 DEF PrepareInitialReview
  <2>8. QED
    BY <2>4, <2>5, <2>6, <2>7 DEF ReviewMoves, Opened
<1>2. ASSUME NEW r \in Reviews, RequestRevision(r) PROVE ReviewMoves(r)
  <2>1. Accepts(r) /\ review' = [review EXCEPT ![r].status = "changes-requested"]
    BY <1>2 DEF RequestRevision
  <2>2. "changes-requested" \in Statuses
    BY DEF Statuses
  <2>3. QED
    BY <1>0, <2>1, <2>2, Restated DEF Accepts, ReviewMoves, Asked
<1>3. ASSUME NEW r \in Reviews, NEW u \in Callers, BeginRevision(u, r) PROVE ReviewMoves(r)
  <2>1. /\ review[r].status = "changes-requested"
        /\ review' = [review EXCEPT ![r].status = "revision-in-progress"]
    BY <1>3 DEF BeginRevision
  <2>2. "revision-in-progress" \in Statuses
    BY DEF Statuses
  <2>3. QED
    BY <1>0, <2>1, <2>2, Restated DEF ReviewMoves, Begun
<1>4. ASSUME NEW r \in Reviews, ReopenReviewAfterRevision(r) PROVE ReviewMoves(r)
  <2>1. PICK a \in ArtifactsOf(r) :
          review' = [review EXCEPT ![r] =
            [status |-> "pending-review", active |-> a,
             artifactStatus |-> review[r].artifactStatus,
             count |-> review[r].count + 1, approvedOn |-> "nothing"]]
    BY <1>4 DEF ReopenReviewAfterRevision
  <2>2. DEFINE new == [status |-> "pending-review", active |-> a,
                       artifactStatus |-> review[r].artifactStatus,
                       count |-> review[r].count + 1, approvedOn |-> "nothing"]
  <2>3. new \in ReviewRecord
    <3>1. a \in Ids
      BY DEF LoopInv, ArtifactsTyped, ArtifactsOf
    <3>2. review[r].count < MaxRounds
      BY <1>4 DEF ReopenReviewAfterRevision
    <3>3. /\ review[r].count \in 0..MaxRounds
          /\ review[r].artifactStatus \in
               {"none", "generated", "generated-with-warnings", "invalid"}
      BY <1>0 DEF ReviewRecord
    <3>4. review[r].count + 1 \in 0..MaxRounds
      BY <1>0, <3>2, <3>3
    <3>5. QED
      BY <3>1, <3>3, <3>4 DEF ReviewRecord, Statuses
  <2>4. /\ review' \in [Reviews -> ReviewRecord] /\ review'[r] = new
        /\ \A q \in Reviews \ {r} : review'[q] = review[q]
    BY <1>0, <2>1, <2>3, Rewritten
  <2>5. a \in ArtifactsOf(r)'
    BY OwnStay
  <2>6. Reopened(r)
    BY <1>4, <2>4, <2>5 DEF ReopenReviewAfterRevision, Reopened
  <2>7. QED
    BY <2>4, <2>6 DEF ReviewMoves
<1>5. ASSUME NEW r \in Reviews, ReopenAfterRevision(r) PROVE ReviewMoves(r)
  <2>1. /\ review[r].status = "changes-requested"
        /\ review' = [review EXCEPT ![r] = [@ EXCEPT !.status = "pending-review",
                                                     !.approvedOn = "nothing"]]
    BY <1>5 DEF ReopenAfterRevision
  <2>2. "pending-review" \in Statuses
    BY DEF Statuses
  <2>3. review[r].active \in ArtifactsOf(r)'
    BY <1>0, <2>1, OwnStay DEF JudgesItsOwn
  <2>4. QED
    BY <1>0, <2>1, <2>2, <2>3, Resolved DEF ReviewMoves, Reopened
<1>6. CASE review' = review
  BY <1>6
<1>7. QED
  BY <1>1, <1>2, <1>3, <1>4, <1>5, <1>6, Decision
  DEF Next, vars, PassesExpiry, FailRevision, FinishRevision

\* A review judges an artifact of its own from the time it is opened on.
LEMMA OwnNext ==
  ASSUME LoopInv, [Next]_vars
  PROVE  review' \in [Reviews -> ReviewRecord] /\ \A r \in Reviews : JudgesItsOwn(r)'
<1>0. review \in [Reviews -> ReviewRecord] /\ \A r \in Reviews : JudgesItsOwn(r)
  BY DEF LoopInv
<1>1. ASSUME NEW r \in Reviews, review'[r] = review[r] PROVE JudgesItsOwn(r)'
  BY <1>0, <1>1, OwnStay DEF JudgesItsOwn
<1>2. ASSUME NEW r \in Reviews, ReviewMoves(r) PROVE JudgesItsOwn(r)'
  <2>1. Opened(r) \/ Asked(r) \/ Begun(r) \/ Reopened(r) \/ Judged(r)
    BY <1>2 DEF ReviewMoves
  <2>2. review'[r].status # "absent"
    BY <2>1 DEF Opened, Asked, Begun, Reopened, Judged, Terminal
  <2>3. CASE Opened(r) \/ Reopened(r)
    BY <2>2, <2>3 DEF Opened, Reopened, JudgesItsOwn
  <2>4. CASE Asked(r) \/ Begun(r) \/ Judged(r)
    <3>1. review[r].status # "absent" /\ review'[r].active = review[r].active
      BY <2>4 DEF Asked, Begun, Judged
    <3>2. review[r].active \in ArtifactsOf(r)
      BY <1>0, <3>1 DEF JudgesItsOwn
    <3>3. review'[r].active \in ArtifactsOf(r)'
      BY <3>1, <3>2, OwnStay
    <3>4. QED
      BY <2>2, <3>3 DEF JudgesItsOwn
  <2>5. QED
    BY <2>1, <2>3, <2>4
<1>3. QED
  BY <1>0, <1>1, <1>2, ReviewSteps DEF ReviewMoves

-----------------------------------------------------------------------------
\* What a step does to the requests and the generations.

\* Requests are added one at a time, up to the bound, and none goes.
LEMMA RequestsNext ==
  ASSUME LoopInv, [Next]_vars
  PROVE  RequestsTyped' /\ late' \subseteq Reviews
<1>0. /\ RequestsTyped /\ MaxRounds \in Nat /\ late \subseteq Reviews
      /\ request \in [Reviews -> Seq([prior : Ids, selection : Selections])]
      /\ \A r \in Reviews : Len(request[r]) <= MaxRounds
  BY EditorialLoopConstants DEF LoopInv, RequestsTyped
<1>1. ASSUME NEW r \in Reviews, RequestRevision(r) PROVE RequestsTyped' /\ late' = late
  <2>1. PICK prior \in ArtifactsOf(r), selection \in Selections :
          request' = [request EXCEPT ![r] = Append(@, [prior |-> prior, selection |-> selection])]
    BY <1>1 DEF RequestRevision
  <2>2. prior \in Ids
    BY DEF ArtifactsOf, LoopInv, ArtifactsTyped
  <2>3. PICK asked \in [prior : Ids, selection : Selections] :
          asked = [prior |-> prior, selection |-> selection]
    BY <2>2
  <2>4. request' = [request EXCEPT ![r] = Append(request[r], asked)]
    BY <2>1, <2>3
  <2>5. Len(request[r]) < MaxRounds /\ late' = late
    BY <1>1 DEF RequestRevision
  <2>6. /\ Append(request[r], asked) \in Seq([prior : Ids, selection : Selections])
        /\ Len(Append(request[r], asked)) = Len(request[r]) + 1
        /\ Len(request[r]) \in Nat
    <3>1. request[r] \in Seq([prior : Ids, selection : Selections])
      BY <1>0
    <3>2. QED
      BY <3>1, AppendProperties, LenProperties
  <2>7. Len(Append(request[r], asked)) <= MaxRounds
    BY <1>0, <2>5, <2>6
  <2>8. QED
    BY <1>0, <2>4, <2>5, <2>6, <2>7 DEF RequestsTyped
<1>2. ASSUME request' = request PROVE RequestsTyped'
  BY <1>0, <1>2 DEF RequestsTyped
<1>3. late' \subseteq Reviews
  BY <1>0 DEF Next, vars, PrepareInitialReview, RequestRevision, ReopenReviewAfterRevision,
         ReopenAfterRevision, SubmitHumanDecision, PassesExpiry, BeginRevision, FailRevision,
         FinishRevision
<1>4. QED
  BY <1>1, <1>2, <1>3
  DEF Next, vars, PrepareInitialReview, ReopenReviewAfterRevision, ReopenAfterRevision,
      SubmitHumanDecision, PassesExpiry, BeginRevision, FailRevision, FinishRevision

Runs == {Idle} \cup [review : Reviews, request : 1..MaxRounds, prior : Ids]

\* A generation begins with a plan it fits and ends with none.
LEMMA RunsNext ==
  ASSUME LoopInv, [Next]_vars
  PROVE  run' \in [Callers -> Runs] /\ \A u \in Callers : FitsItsPlan(u)'
<1>0. /\ run \in [Callers -> Runs] /\ \A u \in Callers : FitsItsPlan(u)
      /\ DOMAIN artifact \subseteq Ids
      /\ DOMAIN artifact \subseteq DOMAIN artifact'
      /\ \A a \in DOMAIN artifact : artifact'[a] = artifact[a]
  BY ArtifactsStay DEF LoopInv, Runs, ArtifactsTyped
<1>1. ASSUME NEW u \in Callers, run'[u] = run[u] PROVE FitsItsPlan(u)'
  BY <1>0, <1>1 DEF FitsItsPlan, Idle, WithinLimit
<1>2. ASSUME NEW u \in Callers, run'[u] = Idle PROVE FitsItsPlan(u)'
  BY <1>2 DEF FitsItsPlan, Idle
<1>3. ASSUME NEW u \in Callers, NEW r \in Reviews, BeginRevision(u, r)
      PROVE  run' \in [Callers -> Runs] /\ \A t \in Callers : FitsItsPlan(t)'
  <2>1. PICK q \in DOMAIN request[r], prior \in ArtifactsOf(r), plan \in Plans :
          /\ WithinLimit(prior)
          /\ run' = [run EXCEPT ![u] = CreateRevisionGenerationJob(plan, r, q, prior)]
    BY <1>3 DEF BeginRevision
  <2>2. q \in 1..MaxRounds
    <3>1. /\ request[r] \in Seq([prior : Ids, selection : Selections])
          /\ Len(request[r]) <= MaxRounds /\ MaxRounds \in Nat
      BY EditorialLoopConstants DEF LoopInv, RequestsTyped
    <3>2. q \in 1..Len(request[r]) /\ Len(request[r]) \in Nat
      BY <3>1
    <3>3. QED
      BY <3>1, <3>2
  <2>3. prior \in DOMAIN artifact /\ prior \in Ids
    BY <1>0 DEF ArtifactsOf
  <2>4. PICK new \in Runs : /\ run' = [run EXCEPT ![u] = new]
                            /\ new = Idle \/ new = [review |-> r, request |-> q, prior |-> prior]
    BY <2>1, <2>2, <2>3 DEF CreateRevisionGenerationJob, Runs
  <2>5. /\ run' \in [Callers -> Runs] /\ run'[u] = new
        /\ \A t \in Callers \ {u} : run'[t] = run[t]
    BY <1>0, <2>4
  <2>6. FitsItsPlan(u)'
    <3>1. CASE new = Idle
      BY <1>2, <2>5, <3>1
    <3>2. CASE new = [review |-> r, request |-> q, prior |-> prior]
      <4>1. run'[u].review = r /\ run'[u].request = q /\ run'[u].prior = prior
        BY <2>5, <3>2
      <4>2. prior \in DOMAIN artifact' /\ artifact'[prior] = artifact[prior]
        BY <1>0, <2>3
      <4>3. QED
        BY <2>1, <2>2, <4>1, <4>2 DEF FitsItsPlan, WithinLimit
    <3>3. QED
      BY <2>4, <3>1, <3>2
  <2>7. QED
    BY <1>1, <2>5, <2>6
<1>4. ASSUME NEW u \in Callers, FailRevision(u) \/ FinishRevision(u)
      PROVE  run' \in [Callers -> Runs] /\ \A t \in Callers : FitsItsPlan(t)'
  <2>1. run' = [run EXCEPT ![u] = Idle]
    BY <1>4 DEF FailRevision, FinishRevision
  <2>2. /\ run' \in [Callers -> Runs] /\ run'[u] = Idle
        /\ \A t \in Callers \ {u} : run'[t] = run[t]
    BY <1>0, <2>1 DEF Runs
  <2>3. QED
    BY <1>1, <1>2, <2>2
<1>5. CASE run' = run
  BY <1>0, <1>1, <1>5
<1>6. QED
  BY <1>3, <1>4, <1>5
  DEF Next, vars, PrepareInitialReview, RequestRevision, ReopenReviewAfterRevision,
      ReopenAfterRevision, SubmitHumanDecision, PassesExpiry

\* The types and their strengthening hold throughout.
LEMMA LoopInvariant == Spec => []LoopInv
<1>1. LoopInv /\ [Next]_vars => LoopInv'
  BY ArtifactsStay, OwnNext, RequestsNext, RunsNext DEF LoopInv, Runs
<1>2. QED
  BY <1>1, LoopInit, PTL DEF Spec

\* What the strengthening says of the types.
LEMMA LoopTypes == LoopInv => TypeOK
<1>1. SUFFICES ASSUME LoopInv PROVE TypeOK
  OBVIOUS
<1>2. /\ ArtifactsTyped /\ RequestsTyped /\ review \in [Reviews -> ReviewRecord]
      /\ \A r \in Reviews : JudgesItsOwn(r)
  BY <1>1 DEF LoopInv
<1>3. ASSUME NEW r \in Reviews
      PROVE  /\ Len(request[r]) <= MaxRounds
             /\ \A q \in DOMAIN request[r] : request[r][q] \in [prior : Ids, selection : Selections]
  <2>1. /\ Len(request[r]) <= MaxRounds
        /\ request[r] \in Seq([prior : Ids, selection : Selections])
    BY <1>2 DEF RequestsTyped
  <2>2. DOMAIN request[r] = 1..Len(request[r])
    BY <2>1, LenProperties
  <2>3. QED
    BY <2>1, <2>2, ElementOfSeq
<1>4. ASSUME NEW r \in Reviews
      PROVE  review[r].active \in ArtifactsOf(r) <=> review[r].status # "absent"
  <2>1. << >> \notin ArtifactsOf(r)
    BY <1>2, RootIsId DEF ArtifactsOf, ArtifactsTyped
  <2>2. QED
    BY <1>2, <2>1 DEF JudgesItsOwn
<1>5. ASSUME NEW r \in Reviews
      PROVE  review[r].status \in Statuses /\ review[r].count \in 0..MaxRounds
  BY <1>2 DEF ReviewRecord
<1>6. \A u \in Callers : run[u] # Idle => run[u].prior \in DOMAIN artifact
  BY <1>1 DEF LoopInv, FitsItsPlan
<1>7. QED
  BY <1>1, <1>2, <1>3, <1>4, <1>5, <1>6
  DEF TypeOK, LoopInv, ArtifactsTyped, ArtifactRecord, Statuses

-----------------------------------------------------------------------------
\* The theorems.

\* The type invariant, whatever the profiles find: what the stores of the loop hold are records
\* of artifacts, requests and reviews, a review that was opened is of an artifact of its own, and
\* a generation that is awaited is of one that is saved.
THEOREM TypeCorrect == Spec => []TypeOK
  BY LoopInvariant, LoopTypes, PTL

\* No save replaces an artifact, whichever callers generate at once from whatever requests and
\* drafts they hold, and each revision has a parent, its root and the next number within
\* maxRevisionCount.
THEOREM LineageIsKept == Spec => LineageHolds
<1>1. LoopInv /\ [Next]_vars =>
        \A a \in DOMAIN artifact' :
          IF a \in DOMAIN artifact THEN artifact'[a] = artifact[a] ELSE Descends(a)
  BY ArtifactsStay
<1>2. QED
  BY <1>1, LoopInvariant, PTL DEF Spec, LineageHolds, Descends

\* An approval on the report of the draft under review found no high finding there.
FoundNothingHigh(r) ==
  review[r].status \in Approving /\ review[r].approvedOn = "its report" =>
    HighFindings(Reports[artifact[review[r].active].doc]) = {}

FoundInv == \A r \in Reviews : FoundNothingHigh(r)

\* It stays so: what is approved moves no more, and its draft does not change.
LEMMA FoundNext ==
  ASSUME LoopInv, [Next]_vars, NEW r \in Reviews, FoundNothingHigh(r)
  PROVE  FoundNothingHigh(r)'
<1>0. \A a \in ArtifactsOf(r) : artifact'[a] = artifact[a]
  BY OwnStay
<1>1. JudgesItsOwn(r)
  BY DEF LoopInv
<1>2. CASE review'[r] = review[r]
  <2>1. review[r].status \in Approving => review[r].active \in ArtifactsOf(r)
    BY <1>1 DEF JudgesItsOwn, Approving
  <2>2. QED
    BY <1>0, <1>2, <2>1 DEF FoundNothingHigh
<1>3. CASE ReviewMoves(r)
  <2>1. CASE Opened(r) \/ Asked(r) \/ Begun(r) \/ Reopened(r)
    <3>1. review'[r].status \notin Approving
      BY <2>1 DEF Opened, Asked, Begun, Reopened, Approving
    <3>2. QED
      BY <3>1 DEF FoundNothingHigh
  <2>2. CASE Judged(r)
    <3>1. review[r].active \in ArtifactsOf(r)
      BY <1>1, <2>2 DEF JudgesItsOwn, Judged
    <3>2. review'[r].active = review[r].active
          /\ artifact'[review[r].active] = artifact[review[r].active]
      BY <1>0, <2>2, <3>1 DEF Judged
    <3>3. QED
      BY <2>2, <3>2 DEF FoundNothingHigh, Judged, ReportOf
  <2>3. QED
    BY <1>3, <2>1, <2>2 DEF ReviewMoves
<1>4. QED
  BY <1>2, <1>3, ReviewSteps DEF ReviewMoves

\* A report without a high finding does not call its draft not ready.
LEMMA NothingHighIsReady ==
  ASSUME NEW report, HighFindings(report) = {}
  PROVE  PublicationReadiness(report) # "not-ready"
  BY DEF HighFindings, PublicationReadiness, IsBlocking

\* A reviewer who decides on the report of the draft under review approves none that the
\* report calls not ready, whatever the analyzers may report: what submitHumanDecision asks of
\* severity is more than what the readiness asks of severity and confidence.
THEOREM ApprovedOnReadiness == Spec => []ApprovedIsReady
<1>1. Init => FoundInv
  <2>1. SUFFICES ASSUME Init, NEW r \in Reviews PROVE FoundNothingHigh(r)
    BY DEF FoundInv
  <2>2. review[r].status = "absent"
    BY <2>1 DEF Init, NoReview
  <2>3. QED
    BY <2>2 DEF FoundNothingHigh, Approving
<1>2. LoopInv /\ FoundInv /\ [Next]_vars => FoundInv'
  BY FoundNext DEF FoundInv
<1>3. LoopInv /\ FoundInv => ApprovedIsReady
  BY LoopTypes, NothingHighIsReady
  DEF FoundInv, ApprovedIsReady, FoundNothingHigh, Approving, ReportOf
<1>4. QED
  BY <1>1, <1>2, <1>3, LoopInvariant, PTL DEF Spec

-----------------------------------------------------------------------------
\* The promise of a review.

\* The stage that each status of a review stands for.
LEMMA Stages ==
  /\ Stage("absent") = "none"
  /\ Stage("pending-review") = "open"
  /\ Stage("changes-requested") = "changes"
  /\ Stage("revision-in-progress") = "revising"
  /\ Stage("rejected") = "rejected"
  /\ Stage("approved") = "approved"
  /\ Stage("approved-with-notes") = "approved"
<1>1. Stage("absent") = "none"
  BY Zenon DEF Stage
<1>2. Stage("pending-review") = "open"
  BY Zenon DEF Stage
<1>3. Stage("changes-requested") = "changes"
  BY Zenon DEF Stage
<1>4. Stage("revision-in-progress") = "revising"
  BY Zenon DEF Stage
<1>5. Stage("rejected") = "rejected"
  BY Zenon DEF Stage
<1>6. Stage("approved") = "approved"
  BY Zenon DEF Stage
<1>7. Stage("approved-with-notes") = "approved"
  BY Zenon DEF Stage
<1>8. QED
  BY <1>1, <1>2, <1>3, <1>4, <1>5, <1>6, <1>7

\* The stages when one review moves.
LEMMA OneMoves ==
  ASSUME NEW r \in Reviews, NEW x, \A q \in Reviews \ {r} : review'[q] = review[q],
         Stage(review'[r].status) = x
  PROVE  [q \in Reviews |-> Stage(review'[q].status)] =
           [[q \in Reviews |-> Stage(review[q].status)] EXCEPT ![r] = x]
  OBVIOUS

\* The subjects when one review moves.
LEMMA OneJudges ==
  ASSUME NEW r \in Reviews, NEW x, \A q \in Reviews \ {r} : review'[q] = review[q],
         review'[r].active = x
  PROVE  [q \in Reviews |-> review'[q].active] =
           [[q \in Reviews |-> review[q].active] EXCEPT ![r] = x]
  OBVIOUS

\* A review that moves makes a step of the promise.
LEMMA PromiseMove ==
  ASSUME NEW r \in Reviews, ReviewMoves(r)
  PROVE  Promise!Next
<1>0. /\ \A q \in Reviews \ {r} : review'[q] = review[q]
      /\ review'[r].active \in Ids \cup {<< >>}
  BY DEF ReviewMoves, ReviewRecord
<1>1. CASE Opened(r)
  <2>1. Stage(review[r].status) = "none" /\ Stage(review'[r].status) = "open"
    BY <1>1, Stages DEF Opened
  <2>2. Promise!Open(r)
    BY <1>0, <2>1, OneMoves, OneJudges DEF Promise!Open, Promise!Move
  <2>3. QED
    BY <2>2 DEF Promise!Next
<1>2. CASE Asked(r)
  <2>1. /\ Stage(review[r].status) \in {"open", "changes"} /\ Stage(review'[r].status) = "changes"
        /\ [q \in Reviews |-> review'[q].active] = [q \in Reviews |-> review[q].active]
    BY <1>0, <1>2, Stages DEF Asked
  <2>2. Promise!RequestChanges(r)
    BY <1>0, <2>1, OneMoves DEF Promise!RequestChanges, Promise!Move
  <2>3. QED
    BY <2>2 DEF Promise!Next
<1>3. CASE Begun(r)
  <2>1. /\ Stage(review[r].status) = "changes" /\ Stage(review'[r].status) = "revising"
        /\ [q \in Reviews |-> review'[q].active] = [q \in Reviews |-> review[q].active]
    BY <1>0, <1>3, Stages DEF Begun
  <2>2. Promise!Revise(r)
    BY <1>0, <2>1, OneMoves DEF Promise!Revise, Promise!Move
  <2>3. QED
    BY <2>2 DEF Promise!Next
<1>4. CASE Reopened(r)
  <2>1. Stage(review[r].status) \in {"changes", "revising"} /\ Stage(review'[r].status) = "open"
    BY <1>4, Stages DEF Reopened
  <2>2. Promise!Reopen(r)
    BY <1>0, <2>1, OneMoves, OneJudges DEF Promise!Reopen, Promise!Move
  <2>3. QED
    BY <2>2 DEF Promise!Next
<1>5. CASE Judged(r)
  <2>1. /\ Stage(review[r].status) \in {"open", "changes"}
        /\ Stage(review'[r].status) \in Promise!Decided
        /\ [q \in Reviews |-> review'[q].active] = [q \in Reviews |-> review[q].active]
    BY <1>0, <1>5, Stages DEF Judged, Terminal, Promise!Decided
  <2>2. Promise!Decide(r)
    BY <1>0, <2>1, OneMoves DEF Promise!Decide, Promise!Move
  <2>3. QED
    BY <2>2 DEF Promise!Next
<1>6. QED
  BY <1>1, <1>2, <1>3, <1>4, <1>5 DEF ReviewMoves

\* The loop in memory keeps the promise of a review, whatever callers do while a generation is
\* awaited: decided once, and about another draft only when it is reopened.
THEOREM LoopKeepsThePromise == Spec => ImplementsReview
<1>1. Init => Promise!Init
  <2>1. SUFFICES ASSUME Init PROVE Promise!Init
    OBVIOUS
  <2>2. \A r \in Reviews : review[r].status = "absent" /\ review[r].active = << >>
    BY <2>1 DEF Init, NoReview
  <2>3. QED
    BY <2>2, Stages DEF Promise!Init
<1>2. LoopInv /\ [Next]_vars => [Promise!Next]_(Promise!vars)
  <2>1. SUFFICES ASSUME LoopInv, [Next]_vars PROVE Promise!Next \/ UNCHANGED Promise!vars
    OBVIOUS
  <2>2. CASE review' = review
    BY <2>2 DEF Promise!vars
  <2>3. CASE \E r \in Reviews : ReviewMoves(r)
    BY <2>3, PromiseMove
  <2>4. QED
    BY <2>1, <2>2, <2>3, ReviewSteps
<1>3. QED
  BY <1>1, <1>2, LoopInvariant, PTL DEF Spec, ImplementsReview, Promise!Spec

-----------------------------------------------------------------------------
\* The reports: what blocks publication is never hidden.

\* Codes that are in a semantic group, or that two analyzers report alike without blocking.
Quiet ==
  {"thin-content-section", "section-too-thin-to-stand-alone", "missing-verification-marker",
   "low-source-transparency", "promotional-tone", "overly-promotional-language",
   "invalid-heading-hierarchy", "indirect-faq-answer"}

\* Codes that two analyzers report alike, and that always block.
Loud == {"duplicate-h1", "missing-required-section"}

\* A finding says what the others of its code say about blocking, if others than its analyzer's may.
InKey(f) ==
  /\ f.code \in Quiet => f.severity # "high"
  /\ f.code \in Loud => IsBlocking(f)

\* The code and severity a rule gives its findings.
Is(f, code, severity) == f.code = code /\ f.severity = severity /\ f.confidence = "high"

\* What is said of a finding does not depend on what it is about.
LEMMA MakersAre ==
  /\ \A d, i, code, severity, matched : Is(OfSection(d, i, code, severity, matched), code, severity)
  /\ \A d, i, code, severity, matched : Is(OfLines(d, i, code, severity, matched), code, severity)
  /\ \A d, i, k, code, severity, matched :
       Is(OfEntry(d, i, k, code, severity, matched), code, severity)
  /\ \A i, code, severity, matched, nth :
       Is(OfHeading(i, code, severity, matched, nth), code, severity)
  /\ \A code, severity, matched : Is(OfDraft(code, severity, matched), code, severity)
  BY DEF Is, OfSection, OfLines, OfEntry, OfHeading, OfDraft, Finding

\* Nor does it change when a rule identifies it in a way of its own.
LEMMA IdentifiedIs ==
  ASSUME NEW finding, NEW id, NEW code, NEW severity, Is(finding, code, severity)
  PROVE  Is(Identified(finding, id), code, severity)
  BY DEF Is, Identified

\* The rules of several codes give their findings the code and severity they are called with.
LEMMA FamiliesAre ==
  ASSUME NEW d, NEW s, NEW patterns, NEW excuses, NEW code, NEW severity
  PROVE  /\ \A g \in IndirectAnswers(d, s, patterns) : Is(g, "indirect-faq-answer", "low")
         /\ \A g \in Unlinked(d, patterns, excuses, code, severity) : Is(g, code, severity)
         /\ \A g \in Unexcused(d, patterns, excuses, code, severity) : Is(g, code, severity)
<1>1. \A g \in IndirectAnswers(d, s, patterns) : Is(g, "indirect-faq-answer", "low")
  <2> DEFINE At(i) ==
               {OfEntry(d, i, at[1], "indirect-faq-answer", "low", at[2]) :
                  at \in {at \in Entries(d[i].body) \X patterns :
                            Says(<<Tail(d[i].body[at[1]])>>, {at[2]})}}
  <2>1. IndirectAnswers(d, s, patterns) = UNION {At(i) : i \in s}
    BY DEF IndirectAnswers
  <2>2. \A i : \A g \in At(i) :
          \E k, m : g = OfEntry(d, i, k, "indirect-faq-answer", "low", m)
    OBVIOUS
  <2> HIDE DEF At
  <2>3. QED
    BY <2>1, <2>2, MakersAre
<1>2. \A g \in Unlinked(d, patterns, excuses, code, severity) : Is(g, code, severity)
  <2>1. \A g \in Unlinked(d, patterns, excuses, code, severity) :
          \E i, m : g = OfLines(d, i, code, severity, m)
    BY Zenon DEF Unlinked
  <2>2. QED
    BY <2>1, MakersAre
<1>3. \A g \in Unexcused(d, patterns, excuses, code, severity) : Is(g, code, severity)
  <2>1. \A g \in Unexcused(d, patterns, excuses, code, severity) :
          \E i, m : g = OfSection(d, i, code, severity, m)
    BY Zenon DEF Unexcused
  <2>2. QED
    BY <2>1, MakersAre
<1>4. QED
  BY <1>1, <1>2, <1>3

EditorialOwn ==
  {"thin-section", "long-paragraph", "long-sentence", "formatting-corruption",
   "malformed-markdown-heading", "repeated-section-heading", "diagnostic-tone"}

\* What the editorial analyzer finds.
LEMMA EditorialKinds ==
  ASSUME NEW d, NEW f \in EditorialFindings(d)
  PROVE  /\ f.code \in EditorialOwn \cup Loud \cup Quiet
         /\ InKey(f)
<1>1. \A g \in MissingRequiredSection(d) : Is(g, "missing-required-section", "high")
  BY MakersAre DEF MissingRequiredSection
<1>2. \A g \in DuplicateH1(d) : Is(g, "duplicate-h1", "high")
  BY MakersAre DEF DuplicateH1
<1>3. \A g \in InvalidHeadingHierarchy(d) : Is(g, "invalid-heading-hierarchy", "medium")
  BY MakersAre DEF InvalidHeadingHierarchy
<1>4. \A g \in ThinSection(d) : Is(g, "thin-section", "medium")
  BY MakersAre DEF ThinSection
<1>5. \A g \in LongParagraph(d) : Is(g, "long-paragraph", "low")
  <2>1. \A g \in LongParagraph(d) :
          \E i, id : g = Identified(OfSection(d, i, "long-paragraph", "low", Blank), id)
    BY Zenon DEF LongParagraph
  <2>2. QED
    BY <2>1, MakersAre, IdentifiedIs
<1>6. \A g \in LongSentence(d) : Is(g, "long-sentence", "medium")
  <2>1. \A g \in LongSentence(d) :
          \E i, id : g = Identified(OfSection(d, i, "long-sentence", "medium", Blank), id)
    <3> DEFINE Here(i, k) ==
                 {Identified(OfSection(d, i, "long-sentence", "medium", Blank),
                             <<Blank, d[i].name, n>>) :
                    n \in {n \in DOMAIN d[i].body[k] : d[i].body[k][n] = "long sentence"}}
               Within(i) == UNION {Here(i, k) : k \in DOMAIN d[i].body}
    <3>1. LongSentence(d) = UNION {Within(i) : i \in Sections(d)}
      BY DEF LongSentence
    <3>2. \A i, k : \A g \in Here(i, k) :
            \E id : g = Identified(OfSection(d, i, "long-sentence", "medium", Blank), id)
      OBVIOUS
    <3> HIDE DEF Here
    <3>3. \A i : \A g \in Within(i) : \E k : g \in Here(i, k)
      OBVIOUS
    <3> HIDE DEF Within
    <3>4. QED
      BY <3>1, <3>2, <3>3
  <2>2. QED
    BY <2>1, MakersAre, IdentifiedIs
<1>7. \A g \in FormattingCorruption(d) : g.code = "formatting-corruption"
  <2>1. \A severity, matched :
          /\ OfDraft("formatting-corruption", severity, matched).code = "formatting-corruption"
          /\ Uncertain(OfDraft("formatting-corruption", severity, matched)).code
               = "formatting-corruption"
    BY DEF OfDraft, Finding, Uncertain
  <2>2. QED
    BY <2>1, Zenon DEF FormattingCorruption
<1>8. \A g \in MalformedMarkdownHeading(d) : Is(g, "malformed-markdown-heading", "high")
  BY MakersAre DEF MalformedMarkdownHeading
<1>9. \A g \in RepeatedSectionHeading(d) : Is(g, "repeated-section-heading", "medium")
  BY MakersAre DEF RepeatedSectionHeading
<1>10. \A g \in PromotionalTone(d) : Is(g, "promotional-tone", "medium")
  BY MakersAre DEF PromotionalTone, TonePatterns
<1>11. \A g \in DiagnosticTone(d) : Is(g, "diagnostic-tone", "medium")
  BY MakersAre DEF DiagnosticTone, TonePatterns
<1>12. \/ f.code \in EditorialOwn
       \/ \E code \in Loud : Is(f, code, "high")
       \/ \E code \in Quiet : Is(f, code, "medium")
  BY <1>1, <1>2, <1>3, <1>4, <1>5, <1>6, <1>7, <1>8, <1>9, <1>10, <1>11
     DEF EditorialFindings, Is, Loud, Quiet, EditorialOwn
<1>13. QED
  BY <1>12 DEF Is, InKey, Loud, Quiet, EditorialOwn, IsBlocking

EvidenceOwn ==
  {"unresolved-source-placeholder", "missing-required-source-placeholder",
   "missing-required-source-section", "missing-evidence-notes", "unsupported-factual-statement",
   "manufacturer-claim-indicator", "recommendation-without-evidence",
   "medical-statement-without-evidence", "duplicate-citation-placeholder",
   "orphan-source-reference"}

\* What the evidence analyzer finds.
LEMMA EvidenceKinds ==
  ASSUME NEW d, NEW f \in EvidenceFindings(d)
  PROVE  /\ f.code \in EvidenceOwn \cup Loud \cup Quiet
         /\ InKey(f)
<1>1. \A g \in UnresolvedSourcePlaceholder(d) : Is(g, "unresolved-source-placeholder", "high")
  BY MakersAre DEF UnresolvedSourcePlaceholder, When
<1>2. \A g \in MissingRequiredSourcePlaceholder(d) :
        Is(g, "missing-required-source-placeholder", "high")
  BY MakersAre DEF MissingRequiredSourcePlaceholder, When
<1>3. \A g \in MissingRequiredSourceSection(d) : Is(g, "missing-required-source-section", "high")
  BY MakersAre DEF MissingRequiredSourceSection
<1>4. \A g \in MissingEvidenceNotes(d) : Is(g, "missing-evidence-notes", "high")
  BY MakersAre DEF MissingEvidenceNotes
<1>5. \A g \in PatternMarkers(d, Evidence.factual, "unsupported-factual-statement") :
        Is(g, "unsupported-factual-statement", "medium")
  BY MakersAre DEF PatternMarkers
<1>6. \A g \in PatternMarkers(d, Evidence.manufacturer, "manufacturer-claim-indicator") :
        Is(g, "manufacturer-claim-indicator", "medium")
  BY MakersAre DEF PatternMarkers
<1>7. \A g \in RecommendationWithoutEvidence(d) : Is(g, "recommendation-without-evidence", "medium")
  BY MakersAre DEF RecommendationWithoutEvidence, Unsupported
<1>8. \A g \in MedicalStatementWithoutEvidence(d) :
        Is(g, "medical-statement-without-evidence", "high")
  BY MakersAre DEF MedicalStatementWithoutEvidence, Unsupported
<1>9. \A g \in MissingVerificationMarker(d) : Is(g, "missing-verification-marker", "medium")
  BY MakersAre DEF MissingVerificationMarker, When
<1>10. \A g \in DuplicateCitationPlaceholder(d) : Is(g, "duplicate-citation-placeholder", "medium")
  BY MakersAre DEF DuplicateCitationPlaceholder
<1>11. \A g \in OrphanSourceReference(d) : Is(g, "orphan-source-reference", "medium")
  <2>1. \A g \in OrphanSourceReference(d) :
          \E p : g = OfDraft("orphan-source-reference", "medium", p)
    BY Zenon DEF OrphanSourceReference
  <2>2. QED
    BY <2>1, MakersAre
<1>12. \/ f.code \in EvidenceOwn
       \/ \E code \in Quiet : Is(f, code, "medium")
  BY <1>1, <1>2, <1>3, <1>4, <1>5, <1>6, <1>7, <1>8, <1>9, <1>10, <1>11
     DEF EvidenceFindings, Is, Loud, Quiet, EvidenceOwn
<1>13. QED
  BY <1>12 DEF Is, InKey, Loud, Quiet, EvidenceOwn, IsBlocking

SeoOwn ==
  {"missing-h1", "weak-title-keyword-coverage", "title-too-short", "title-too-long",
   "missing-meta-description-candidate", "meta-description-too-short",
   "meta-description-too-long", "missing-required-topic-entity", "missing-faq-section",
   "insufficient-faq-question-count", "duplicate-faq-question",
   "missing-internal-link-opportunity", "missing-external-citation-opportunity",
   "search-intent-gap"}

\* What the SEO analyzer finds.
LEMMA SeoKinds ==
  ASSUME NEW d, NEW f \in SeoFindings(d)
  PROVE  /\ f.code \in SeoOwn \cup Loud \cup Quiet
         /\ InKey(f)
<1>1. \A g \in MissingH1(d) : Is(g, "missing-h1", "high")
  BY MakersAre DEF MissingH1, When
<1>2. \A g \in SeoDuplicateH1(d) : Is(g, "duplicate-h1", "high")
  BY MakersAre DEF SeoDuplicateH1
<1>3. \A g \in SeoHeadingHierarchy(d) : Is(g, "invalid-heading-hierarchy", "medium")
  BY MakersAre DEF SeoHeadingHierarchy
<1>4. \A g \in WeakTitleKeywordCoverage(d) : Is(g, "weak-title-keyword-coverage", "medium")
  BY MakersAre DEF WeakTitleKeywordCoverage, TitleIn, When
<1>5. \A g \in TitleTooShort(d) : Is(g, "title-too-short", "high")
  BY MakersAre DEF TitleTooShort, TitleIn, When
<1>6. \A g \in TitleTooLong(d) : Is(g, "title-too-long", "medium")
  BY MakersAre DEF TitleTooLong, TitleIn, When
<1>7. \A g \in MissingMetaDescriptionCandidate(d) :
        Is(g, "missing-meta-description-candidate", "medium")
  BY MakersAre DEF MissingMetaDescriptionCandidate, MetaRule, When
<1>8. \A g \in MetaDescriptionTooShort(d) : Is(g, "meta-description-too-short", "medium")
  BY MakersAre DEF MetaDescriptionTooShort, MetaRule, When
<1>9. \A g \in MetaDescriptionTooLong(d) : Is(g, "meta-description-too-long", "medium")
  BY MakersAre DEF MetaDescriptionTooLong, MetaRule, When
<1>10. \A g \in MissingRequiredTopicEntity(d) : Is(g, "missing-required-topic-entity", "medium")
  BY MakersAre DEF MissingRequiredTopicEntity
<1>11. \A g \in ThinContentSection(d) : Is(g, "thin-content-section", "medium")
  BY MakersAre DEF ThinContentSection
<1>12. \A g \in MissingFaqSection(d) : Is(g, "missing-faq-section", "medium")
  BY MakersAre DEF MissingFaqSection, When
<1>13. \A g \in InsufficientFaqQuestionCount(d) : Is(g, "insufficient-faq-question-count", "medium")
  BY MakersAre DEF InsufficientFaqQuestionCount
<1>14. \A g \in DuplicateFaqQuestion(d) : Is(g, "duplicate-faq-question", "medium")
  BY MakersAre DEF DuplicateFaqQuestion
<1>15. \A g \in SeoIndirectFaqAnswer(d) : Is(g, "indirect-faq-answer", "low")
  BY FamiliesAre DEF SeoIndirectFaqAnswer
<1>16. \A g \in MissingInternalLinkOpportunity(d) :
        Is(g, "missing-internal-link-opportunity", "low")
  BY FamiliesAre DEF MissingInternalLinkOpportunity
<1>17. \A g \in MissingExternalCitationOpportunity(d) :
        Is(g, "missing-external-citation-opportunity", "medium")
  BY FamiliesAre DEF MissingExternalCitationOpportunity
<1>18. \A g \in SearchIntentGap(d) : Is(g, "search-intent-gap", "medium")
  BY MakersAre DEF SearchIntentGap
<1>19. \A g \in SeoMissingRequiredSection(d) : Is(g, "missing-required-section", "high")
  BY MakersAre DEF SeoMissingRequiredSection
<1>20. \/ f.code \in SeoOwn
       \/ \E code \in Loud : Is(f, code, "high")
       \/ \E code \in Quiet : Is(f, code, "low")
       \/ \E code \in Quiet : Is(f, code, "medium")
  BY <1>1, <1>2, <1>3, <1>4, <1>5, <1>6, <1>7, <1>8, <1>9, <1>10, <1>11, <1>12, <1>13,
     <1>14, <1>15, <1>16, <1>17, <1>18, <1>19
     DEF SeoFindings, Is, Loud, Quiet, SeoOwn
<1>21. QED
  BY <1>20 DEF Is, InKey, Loud, Quiet, SeoOwn, IsBlocking

AiSeoOwn ==
  {"incomplete-canonical-entity-coverage", "ambiguous-entity-reference",
   "excessive-pronoun-without-antecedent", "missing-direct-answer-opening",
   "poor-section-chunkability", "section-too-long-for-retrieval", "missing-heading-led-context",
   "missing-manufacturer-versus-verified-labeling", "unsupported-authoritative-phrasing",
   "incomplete-audience-question-coverage", "duplicated-question-coverage",
   "contradictory-suitability-or-limitation", "vague-claim-without-named-subject",
   "low-factual-density", "excessive-filler-language", "citation-unfriendly-statement",
   "missing-explicit-uncertainty-language"}

\* What the AI-SEO analyzer finds.
LEMMA AiSeoKinds ==
  ASSUME NEW d, NEW f \in AiSeoFindings(d)
  PROVE  /\ f.code \in AiSeoOwn \cup Loud \cup Quiet
         /\ InKey(f)
<1>1. \A g \in IncompleteCanonicalEntityCoverage(d) :
        Is(g, "incomplete-canonical-entity-coverage", "medium")
  BY MakersAre DEF IncompleteCanonicalEntityCoverage
<1>2. \A g \in AmbiguousEntityReference(d) : Is(g, "ambiguous-entity-reference", "medium")
  BY MakersAre DEF AmbiguousEntityReference
<1>3. \A g \in ExcessivePronounWithoutAntecedent(d) :
        Is(g, "excessive-pronoun-without-antecedent", "medium")
  BY MakersAre DEF ExcessivePronounWithoutAntecedent, InSections
<1>4. \A g \in AiSeoIndirectFaqAnswer(d) : Is(g, "indirect-faq-answer", "low")
  BY FamiliesAre DEF AiSeoIndirectFaqAnswer
<1>5. \A g \in MissingDirectAnswerOpening(d) : Is(g, "missing-direct-answer-opening", "medium")
  BY MakersAre DEF MissingDirectAnswerOpening
<1>6. \A g \in PoorSectionChunkability(d) : Is(g, "poor-section-chunkability", "medium")
  BY MakersAre DEF PoorSectionChunkability, InSections
<1>7. \A g \in SectionTooLongForRetrieval(d) : Is(g, "section-too-long-for-retrieval", "medium")
  BY MakersAre DEF SectionTooLongForRetrieval, InSections
<1>8. \A g \in SectionTooThinToStandAlone(d) : Is(g, "section-too-thin-to-stand-alone", "medium")
  BY MakersAre DEF SectionTooThinToStandAlone, InSections
<1>9. \A g \in MissingHeadingLedContext(d) : Is(g, "missing-heading-led-context", "medium")
  BY MakersAre DEF MissingHeadingLedContext, InSections
<1>10. \A g \in LowSourceTransparency(d) : Is(g, "low-source-transparency", "medium")
  BY MakersAre DEF LowSourceTransparency, Unqualified
<1>11. \A g \in MissingManufacturerVersusVerifiedLabeling(d) :
        Is(g, "missing-manufacturer-versus-verified-labeling", "medium")
  BY MakersAre DEF MissingManufacturerVersusVerifiedLabeling, Unqualified
<1>12. \A g \in UnsupportedAuthoritativePhrasing(d) :
        Is(g, "unsupported-authoritative-phrasing", "high")
  BY MakersAre DEF UnsupportedAuthoritativePhrasing, Unqualified
<1>13. \A g \in IncompleteAudienceQuestionCoverage(d) :
        Is(g, "incomplete-audience-question-coverage", "medium")
  BY MakersAre DEF IncompleteAudienceQuestionCoverage
<1>14. \A g \in DuplicatedQuestionCoverage(d) : Is(g, "duplicated-question-coverage", "low")
  <2>1. \A g \in DuplicatedQuestionCoverage(d) :
          g = OfDraft("duplicated-question-coverage", "low", Blank)
    BY Zenon DEF DuplicatedQuestionCoverage
  <2>2. QED
    BY <2>1, MakersAre
<1>15. \A g \in ContradictorySuitabilityOrLimitation(d) :
        Is(g, "contradictory-suitability-or-limitation", "high")
  <2> DEFINE code == "contradictory-suitability-or-limitation"
             Claims(g) == \E i, m : g = OfSection(d, i, code, "high", m)
  <2>1. \A g \in ContradictorySuitabilityOrLimitation(d) :
          Claims(g) \/ \E h, id : Claims(h) /\ g = Identified(h, id)
    BY Zenon DEF ContradictorySuitabilityOrLimitation
  <2>2. QED
    BY <2>1, MakersAre, IdentifiedIs
<1>16. \A g \in VagueClaimWithoutNamedSubject(d) :
        Is(g, "vague-claim-without-named-subject", "medium")
  BY MakersAre DEF VagueClaimWithoutNamedSubject, InSections
<1>17. \A g \in LowFactualDensity(d) : Is(g, "low-factual-density", "medium")
  BY MakersAre DEF LowFactualDensity, InSections
<1>18. \A g \in ExcessiveFillerLanguage(d) : Is(g, "excessive-filler-language", "low")
  BY MakersAre DEF ExcessiveFillerLanguage, InSections
<1>19. \A g \in CitationUnfriendlyStatement(d) : Is(g, "citation-unfriendly-statement", "medium")
  BY MakersAre DEF CitationUnfriendlyStatement, Unqualified
<1>20. \A g \in MissingExplicitUncertaintyLanguage(d) :
        Is(g, "missing-explicit-uncertainty-language", "medium")
  BY MakersAre DEF MissingExplicitUncertaintyLanguage, InSections
<1>21. \/ f.code \in AiSeoOwn
       \/ \E code \in Quiet : Is(f, code, "low")
       \/ \E code \in Quiet : Is(f, code, "medium")
  BY <1>1, <1>2, <1>3, <1>4, <1>5, <1>6, <1>7, <1>8, <1>9, <1>10, <1>11, <1>12, <1>13,
     <1>14, <1>15, <1>16, <1>17, <1>18, <1>19, <1>20
     DEF AiSeoFindings, Is, Loud, Quiet, AiSeoOwn
<1>22. QED
  BY <1>21 DEF Is, InKey, Loud, Quiet, AiSeoOwn, IsBlocking

CommercialOwn ==
  {"affiliate-disclosure-missing", "affiliate-disclosure-misplaced",
   "affiliate-disclosure-duplicate", "commercial-relationship-not-disclosed",
   "single-product-bias", "missing-alternatives", "missing-disadvantages", "missing-advantages",
   "missing-comparison-opportunity", "unsupported-purchase-recommendation",
   "commercial-call-to-action-imbalance", "price-mention-without-context",
   "availability-claim-without-qualification", "sponsored-wording-indicator",
   "missing-neutrality-statement", "missing-product-suitability-section",
   "missing-who-should-avoid-guidance", "missing-decision-support-information",
   "imbalanced-pros-cons-ratio", "commercial-repetition"}

\* What the commercial analyzer finds.
LEMMA CommercialKinds ==
  ASSUME NEW d, NEW f \in CommercialFindings(d)
  PROVE  /\ f.code \in CommercialOwn \cup Loud \cup Quiet
         /\ InKey(f)
<1>1. \A g \in AffiliateDisclosureMissing(d) : Is(g, "affiliate-disclosure-missing", "high")
  BY MakersAre, IdentifiedIs DEF AffiliateDisclosureMissing
<1>2. \A g \in AffiliateDisclosureMisplaced(d) : Is(g, "affiliate-disclosure-misplaced", "medium")
  BY MakersAre DEF AffiliateDisclosureMisplaced
<1>3. \A g \in AffiliateDisclosureDuplicate(d) : Is(g, "affiliate-disclosure-duplicate", "medium")
  BY MakersAre DEF AffiliateDisclosureDuplicate, When
<1>4. \A g \in CommercialRelationshipNotDisclosed(d) :
        Is(g, "commercial-relationship-not-disclosed", "high")
  BY MakersAre DEF CommercialRelationshipNotDisclosed, When
<1>5. \A g \in SingleProductBias(d) : Is(g, "single-product-bias", "medium")
  BY MakersAre DEF SingleProductBias, When
<1>6. \A g \in MissingAlternatives(d) : Is(g, "missing-alternatives", "medium")
  BY MakersAre DEF MissingAlternatives, When
<1>7. \A g \in MissingDisadvantages(d) : Is(g, "missing-disadvantages", "medium")
  BY MakersAre DEF MissingDisadvantages, Wanting, When
<1>8. \A g \in MissingAdvantages(d) : Is(g, "missing-advantages", "low")
  BY MakersAre DEF MissingAdvantages, Wanting, When
<1>9. \A g \in MissingComparisonOpportunity(d) : Is(g, "missing-comparison-opportunity", "medium")
  BY MakersAre DEF MissingComparisonOpportunity, When
<1>10. \A g \in UnsupportedPurchaseRecommendation(d) :
        Is(g, "unsupported-purchase-recommendation", "medium")
  BY FamiliesAre DEF UnsupportedPurchaseRecommendation
<1>11. \A g \in OverlyPromotionalLanguage(d) : Is(g, "overly-promotional-language", "medium")
  BY MakersAre DEF OverlyPromotionalLanguage
<1>12. \A g \in CommercialCallToActionImbalance(d) :
        Is(g, "commercial-call-to-action-imbalance", "medium")
  BY MakersAre DEF CommercialCallToActionImbalance, When
<1>13. \A g \in PriceMentionWithoutContext(d) : Is(g, "price-mention-without-context", "low")
  BY FamiliesAre DEF PriceMentionWithoutContext
<1>14. \A g \in AvailabilityClaimWithoutQualification(d) :
        Is(g, "availability-claim-without-qualification", "low")
  BY FamiliesAre DEF AvailabilityClaimWithoutQualification
<1>15. \A g \in SponsoredWordingIndicator(d) : Is(g, "sponsored-wording-indicator", "medium")
  BY FamiliesAre DEF SponsoredWordingIndicator
<1>16. \A g \in MissingNeutralityStatement(d) : Is(g, "missing-neutrality-statement", "medium")
  BY MakersAre DEF MissingNeutralityStatement, When
<1>17. \A g \in MissingProductSuitabilitySection(d) :
        Is(g, "missing-product-suitability-section", "medium")
  BY MakersAre DEF MissingProductSuitabilitySection, Wanting, When
<1>18. \A g \in MissingWhoShouldAvoidGuidance(d) :
        Is(g, "missing-who-should-avoid-guidance", "medium")
  BY MakersAre DEF MissingWhoShouldAvoidGuidance, Wanting, When
<1>19. \A g \in MissingDecisionSupportInformation(d) :
        Is(g, "missing-decision-support-information", "medium")
  BY MakersAre DEF MissingDecisionSupportInformation, Wanting, When
<1>20. \A g \in ImbalancedProsConsRatio(d) : Is(g, "imbalanced-pros-cons-ratio", "medium")
  BY MakersAre DEF ImbalancedProsConsRatio, When
<1>21. \A g \in CommercialRepetition(d) : Is(g, "commercial-repetition", "low")
  BY MakersAre DEF CommercialRepetition
<1>22. \/ f.code \in CommercialOwn
       \/ \E code \in Quiet : Is(f, code, "medium")
  BY <1>1, <1>2, <1>3, <1>4, <1>5, <1>6, <1>7, <1>8, <1>9, <1>10, <1>11, <1>12, <1>13,
     <1>14, <1>15, <1>16, <1>17, <1>18, <1>19, <1>20, <1>21
     DEF CommercialFindings, Is, Loud, Quiet, CommercialOwn
<1>23. QED
  BY <1>22 DEF Is, InKey, Loud, Quiet, CommercialOwn, IsBlocking

-----------------------------------------------------------------------------
\* From the analyzers to the report.

OwnOf(module) ==
  CASE module = "editorial" -> EditorialOwn
    [] module = "evidence" -> EvidenceOwn
    [] module = "seo" -> SeoOwn
    [] module = "ai-seo" -> AiSeoOwn
    [] module = "commercial" -> CommercialOwn

\* No two analyzers have a code of their own in common.
LEMMA OwnIsOwn ==
  ASSUME NEW m \in Analyzers, NEW n \in Analyzers, m # n
  PROVE  OwnOf(m) \cap OwnOf(n) = {}
  BY DEF Analyzers, OwnOf, EditorialOwn, EvidenceOwn, SeoOwn, AiSeoOwn, CommercialOwn

\* An analyzer says of what it finds that it found it, and the rest as its rules did.
LEMMA DistinctIs ==
  ASSUME NEW module, NEW findings, NEW f \in Distinct(module, findings),
         \A g \in findings : g.code \in OwnOf(module) \cup Loud \cup Quiet /\ InKey(g)
  PROVE  f.module = module /\ f.code \in OwnOf(module) \cup Loud \cup Quiet /\ InKey(f)
<1>1. PICK g \in findings : f = [g EXCEPT !.module = module]
  BY DEF Distinct
<1>2. f.module = module
  BY <1>1
<1>3. f.code = g.code /\ f.severity = g.severity /\ f.confidence = g.confidence
  BY <1>1
<1>4. QED
  BY <1>2, <1>3 DEF InKey, IsBlocking

\* Every finding is of an enabled analyzer, under a code of its own or one that is in key.
LEMMA RawIs ==
  ASSUME NEW d, NEW f \in RawFindings(d)
  PROVE  /\ f.module \in ToSet(Enabled) /\ f.module \in Analyzers
         /\ f.code \in OwnOf(f.module) \cup Loud \cup Quiet
         /\ InKey(f)
<1>1. PICK module \in ToSet(Enabled) : f \in FindingsOfModule(module, d)
  BY DEF RawFindings, Analyze
<1>2. module \in Analyzers
  BY <1>1, EnabledAnalyzers DEF ToSet
<1>3. CASE module = "editorial"
  <2>1. f \in Distinct(module, EditorialFindings(d)) /\ OwnOf(module) = EditorialOwn
    BY <1>1, <1>3 DEF FindingsOfModule, AnalyzeEditorial, OwnOf
  <2>2. QED
    BY <1>1, <1>2, <2>1, EditorialKinds, DistinctIs
<1>4. CASE module = "evidence"
  <2>1. f \in Distinct(module, EvidenceFindings(d)) /\ OwnOf(module) = EvidenceOwn
    BY <1>1, <1>4 DEF FindingsOfModule, AnalyzeEvidence, OwnOf
  <2>2. QED
    BY <1>1, <1>2, <2>1, EvidenceKinds, DistinctIs
<1>5. CASE module = "seo"
  <2>1. f \in Distinct(module, SeoFindings(d)) /\ OwnOf(module) = SeoOwn
    BY <1>1, <1>5 DEF FindingsOfModule, AnalyzeSeo, OwnOf
  <2>2. QED
    BY <1>1, <1>2, <2>1, SeoKinds, DistinctIs
<1>6. CASE module = "ai-seo"
  <2>1. f \in Distinct(module, AiSeoFindings(d)) /\ OwnOf(module) = AiSeoOwn
    BY <1>1, <1>6 DEF FindingsOfModule, AnalyzeAiSeo, OwnOf
  <2>2. QED
    BY <1>1, <1>2, <2>1, AiSeoKinds, DistinctIs
<1>7. CASE module = "commercial"
  <2>1. f \in Distinct(module, CommercialFindings(d)) /\ OwnOf(module) = CommercialOwn
    BY <1>1, <1>7 DEF FindingsOfModule, AnalyzeCommercial, OwnOf
  <2>2. QED
    BY <1>1, <1>2, <2>1, CommercialKinds, DistinctIs
<1>8. QED
  BY <1>2, <1>3, <1>4, <1>5, <1>6, <1>7 DEF Analyzers

\* A finding that blocks is not in a semantic group, and under a code of its own or a loud one.
LEMMA BlockingIs ==
  ASSUME NEW d, NEW f \in RawFindings(d), IsBlocking(f)
  PROVE  f.code \notin Quiet /\ f.code \in OwnOf(f.module) \cup Loud
  BY RawIs DEF InKey, IsBlocking

\* When another analyzer finds the same and one of them blocks, every finding of the code does.
LEMMA SharedIsLoud ==
  ASSUME NEW d, NEW f \in RawFindings(d), NEW g \in RawFindings(d),
         f.code = g.code, f.module # g.module, IsBlocking(f)
  PROVE  f.code \in Loud
  BY RawIs, BlockingIs, OwnIsOwn

\* A group keeps one of its own: the owner's finding, or the first analyzer's.
LEMMA PrimaryIs ==
  ASSUME NEW group, group # {}, \A f \in group : f.module \in ToSet(Enabled), NEW owner
  PROVE  Primary(group, owner) \in group
<1> DEFINE owned == {f \in group : f.module = owner}
           Of(k) == Enabled[k] \in Modules(group)
           IsFirst(k) == Of(k) /\ \A j \in 1..(k - 1) : ~Of(j)
           first == CHOOSE k \in DOMAIN Enabled : IsFirst(k)
<1>1. DOMAIN Enabled = 1..Len(Enabled) /\ Len(Enabled) \in Nat
  BY EnabledAnalyzers
<1>2. \E k \in DOMAIN Enabled : IsFirst(k)
  <2> DEFINE S == {k \in DOMAIN Enabled : Of(k)}
  <2>1. S # {} /\ S \in SUBSET Nat
    BY <1>1 DEF ToSet, Modules
  <2>2. PICK k \in S : \A j \in S : ~(<<j, k>> \in OpToRel(<, Nat))
    BY <2>1, NatLessThanWellFounded, WFMin
  <2>3. \A j \in 1..(k - 1) : j \in DOMAIN Enabled /\ <<j, k>> \in OpToRel(<, Nat)
    BY <1>1, <2>1, <2>2 DEF OpToRel
  <2>4. QED
    BY <2>2, <2>3
<1>3. first \in DOMAIN Enabled /\ Of(first)
  BY <1>2
<1>4. \E f \in group : f.module = Enabled[first]
  BY <1>3 DEF Modules
<1>5. Primary(group, owner) =
        CHOOSE f \in group : IF owned # {} THEN f \in owned ELSE f.module = Enabled[first]
  BY DEF Primary
<1> HIDE DEF first
<1>6. \E f \in group : IF owned # {} THEN f \in owned ELSE f.module = Enabled[first]
  BY <1>4
<1>7. QED
  BY <1>5, <1>6

\* What blocks is found by another analyzer too, or stays, when duplicates by place are left out.
LEMMA LocationKeeps ==
  ASSUME NEW d, NEW f \in RawFindings(d), IsBlocking(f)
  PROVE  \E g \in DedupeByLocation(RawFindings(d)) :
           IsBlocking(g) /\ g.code = f.code /\ Place(g) = Place(f)
<1> DEFINE F == RawFindings(d)
           Same(a, b) == a.code = b.code /\ Place(a) = Place(b) /\ a.id = b.id
           ClassOf(a) == {b \in F : Same(a, b)}
           OwnerOf(group) == Owner((CHOOSE a \in group : TRUE).code)
           Main(group) == Primary(group, OwnerOf(group))
           Mixed == {g \in {ClassOf(a) : a \in F} : Cardinality(Modules(g)) > 1}
<1>1. DedupeByLocation(F) = F \ UNION {g \ {Main(g)} : g \in Mixed}
  BY DEF DedupeByLocation, Keep, Alike
<1>2. \A a \in F, b \in F : b \in ClassOf(a) => ClassOf(b) = ClassOf(a)
  OBVIOUS
<1>3. \A a \in F : a \in ClassOf(a) /\ ClassOf(a) \in SUBSET F
  OBVIOUS
<1>4. \A a \in F : Main(ClassOf(a)) \in ClassOf(a)
  <2>1. SUFFICES ASSUME NEW a \in F PROVE Main(ClassOf(a)) \in ClassOf(a)
    OBVIOUS
  <2> DEFINE group == ClassOf(a)
             owner == OwnerOf(group)
  <2>2. group # {} /\ \A b \in group : b.module \in ToSet(Enabled)
    BY <1>3, RawIs
  <2> HIDE DEF group, owner
  <2>3. Primary(group, owner) \in group
    BY <2>2, PrimaryIs
  <2>4. QED
    BY <2>3 DEF group, owner
<1> DEFINE m == IF ClassOf(f) \in Mixed THEN Main(ClassOf(f)) ELSE f
<1>5. m \in F /\ m \in ClassOf(f) /\ (ClassOf(f) \in Mixed => m = Main(ClassOf(f)))
  BY <1>3, <1>4
<1>6. m.code = f.code /\ Place(m) = Place(f)
  BY <1>5
<1>8. m \in DedupeByLocation(F)
  <2> HIDE DEF m, ClassOf, Main
  <2>1. ASSUME NEW g \in Mixed, m \in g \ {Main(g)} PROVE FALSE
    <3>1. PICK a \in F : g = ClassOf(a)
      BY <2>1
    <3>2. g = ClassOf(f)
      BY <1>2, <1>5, <2>1, <3>1
    <3>3. QED
      BY <1>5, <2>1, <3>2
  <2> HIDE DEF Mixed
  <2>2. QED
    BY <1>1, <1>5, <2>1
<1>9. IsBlocking(m)
  <2>1. CASE ClassOf(f) \notin Mixed
    BY <2>1
  <2>2. CASE ClassOf(f) \in Mixed
    <3>1. Modules(ClassOf(f)) # {f.module}
      <4> DEFINE modules == Modules(ClassOf(f))
                 n == Cardinality(modules)
      <4>1. \A x : Cardinality({x}) = 1
        BY FS_Singleton
      <4>2. n > 1
        BY <2>2
      <4> HIDE DEF modules
      <4>3. modules = {f.module} => n = 1
        BY <4>1, Zenon
      <4> HIDE DEF n
      <4>4. modules # {f.module}
        BY <4>2, <4>3
      <4>5. QED
        BY <4>4 DEF modules
    <3>2. PICK b \in ClassOf(f) : b.module # f.module
      BY <1>3, <3>1 DEF Modules
    <3>3. f.code \in Loud
      BY <1>3, <3>2, SharedIsLoud
    <3>4. QED
      BY <1>5, <1>6, <3>3, RawIs DEF InKey
  <2>3. QED
    BY <2>1, <2>2
<1>10. QED
  BY <1>6, <1>8, <1>9

\* Leaving out duplicates of a semantic group leaves every finding of another code.
LEMMA SemanticsKeep ==
  ASSUME NEW findings, NEW semantic, NEW f \in findings, f.code \notin semantic[2]
  PROVE  f \in DedupeBySemantics(findings, semantic)
  BY DEF DedupeBySemantics, Keep, Alike

\* The three groups, in whatever order they are taken, leave what is under no code of theirs.
LEMMA CrossModuleKeeps ==
  ASSUME NEW findings, NEW f \in DedupeByLocation(findings), f.code \notin Quiet
  PROVE  f \in DedupeCrossModuleFindings(findings)
<1> DEFINE S == SemanticGroups
           base == DedupeByLocation(findings)
           Pick(s) == CHOOSE x \in s : TRUE
           Rest(s) == s \ {Pick(s)}
           N(g, s) == IF s = {} THEN base ELSE DedupeBySemantics(g[Rest(s)], Pick(s))
           iter[s \in SUBSET S] ==
             IF s = {} THEN base ELSE DedupeBySemantics(iter[Rest(s)], Pick(s))
           One(s) == IF s = {} THEN base ELSE DedupeBySemantics(base, Pick(s))
           Two(s) == IF s = {} THEN base ELSE DedupeBySemantics(One(Rest(s)), Pick(s))
           Three(s) == IF s = {} THEN base ELSE DedupeBySemantics(Two(Rest(s)), Pick(s))
           g == [s \in SUBSET S |-> Three(s)]
<1>1. DedupeCrossModuleFindings(findings) = iter[S]
  BY DEF DedupeCrossModuleFindings, FoldSet, MapThenFoldSet
<1>2. \A s \in SUBSET S : Rest(s) \in SUBSET S /\ Rest(Rest(Rest(s))) = {}
  <2>1. SUFFICES ASSUME NEW s \in SUBSET S PROVE Rest(s) \in SUBSET S /\ Rest(Rest(Rest(s))) = {}
    OBVIOUS
  <2>2. \A u : u # {} => Pick(u) \in u
    OBVIOUS
  <2>3. PICK a, b, c : S = {a, b, c}
    BY DEF SemanticGroups
  <2>4. Rest(s) # {} => Pick(s) # Pick(Rest(s))
    BY <2>2
  <2> HIDE DEF Pick, S
  <2>5. QED
    BY <2>2, <2>3
<1>3. g = [s \in SUBSET S |-> N(g, s)]
  <2>1. \A s : Rest(s) = {} => One(s) = Two(s)
    OBVIOUS
  <2>2. \A s : Rest(Rest(s)) = {} => Two(s) = Three(s)
    <3> HIDE DEF One, Pick
    <3>1. One({}) = base /\ Two({}) = base
      BY DEF One
    <3>2. QED
      BY <2>1, <3>1
  <2> HIDE DEF Two, Rest, Pick
  <2>3. \A s \in SUBSET S :
          Three(s) = IF s = {} THEN base ELSE DedupeBySemantics(Three(Rest(s)), Pick(s))
    <3> HIDE DEF S, base
    <3>1. \A s \in SUBSET S : Two(Rest(s)) = Three(Rest(s))
      BY <1>2, <2>2
    <3>2. \A s : Three(s) = IF s = {} THEN base ELSE DedupeBySemantics(Two(Rest(s)), Pick(s))
      OBVIOUS
    <3> HIDE DEF Three
    <3>3. QED
      BY <3>1, <3>2
  <2>4. \A s \in SUBSET S : g[Rest(s)] = Three(Rest(s))
    BY <1>2
  <2> HIDE DEF Three, S, base
  <2>5. \A s \in SUBSET S : N(g, s) = Three(s)
    BY <2>3, <2>4
  <2> HIDE DEF N
  <2>6. QED
    BY <2>5
<1>4. iter = [s \in SUBSET S |-> IF s = {} THEN base ELSE DedupeBySemantics(iter[Rest(s)], Pick(s))]
  <2> HIDE DEF g, base, S, Pick, Rest
  <2>1. QED
    BY <1>3, Zenon
<1>5. \A s \in SUBSET S : iter[s] = N(iter, s)
  <2> DEFINE i == iter
  <2>1. i = [s \in SUBSET S |-> N(i, s)]
    BY <1>4
  <2> HIDE DEF i, N, S
  <2>2. \A s \in SUBSET S : i[s] = N(i, s)
    BY <2>1
  <2>3. QED
    BY <2>2 DEF i
<1> HIDE DEF iter, g
<1>6. f \in base
  OBVIOUS
<1>7. ASSUME NEW s \in SUBSET S, s # {}, f \in iter[Rest(s)] PROVE f \in iter[s]
  <2>1. Pick(s) \in S
    BY <1>7
  <2>2. f.code \notin Pick(s)[2]
    <3> HIDE DEF Pick
    <3>1. QED
      BY <2>1 DEF SemanticGroups, Quiet
  <2>3. f \in DedupeBySemantics(iter[Rest(s)], Pick(s))
    <3> HIDE DEF Pick, Rest
    <3>1. QED
      BY <1>7, <2>2, SemanticsKeep
  <2>4. QED
    BY <1>5, <1>7, <2>3
<1>8. \A s \in SUBSET S : s = {} => f \in iter[s]
  BY <1>5, <1>6
<1>9. \A s \in SUBSET S : f \in iter[s]
  <2> HIDE DEF S, Rest, base
  <2>1. \A s \in SUBSET S : f \in iter[Rest(Rest(Rest(s)))]
    BY <1>2, <1>8
  <2>2. \A s \in SUBSET S : f \in iter[Rest(Rest(s))]
    BY <1>2, <1>7, <1>8, <2>1
  <2>3. \A s \in SUBSET S : f \in iter[Rest(s)]
    BY <1>2, <1>7, <1>8, <2>2
  <2>4. QED
    BY <1>2, <1>7, <1>8, <2>3
<1>10. QED
  BY <1>1, <1>9

\* No draft has a blocking finding that its report does not tell.
LEMMA NoneUnheard == Unheard = {}
<1>1. SUFFICES ASSUME NEW d \in DOMAIN Reports, NEW f \in RawFindings(d), IsBlocking(f)
               PROVE  Covered(f, Reports[d])
  BY DEF Unheard
<1>2. PICK g \in DedupeByLocation(RawFindings(d)) :
        IsBlocking(g) /\ g.code = f.code /\ Place(g) = Place(f)
  BY <1>1, LocationKeeps
<1>3. g.code \notin Quiet
  BY <1>1, <1>2, BlockingIs
<1>4. g \in Report(d)
  BY <1>2, <1>3, CrossModuleKeeps DEF Report
<1>5. QED
  BY <1>2, <1>4 DEF Covered, Reports

\* Deduplication never hides that a draft cannot be published: whatever an analyzer finds that
\* blocks is in the report under its code and at its place, for every draft and every profile.
THEOREM BlockingIsHeard == Spec => []NothingBlockingIsLost
<1>1. NothingBlockingIsLost
  BY NoneUnheard DEF NothingBlockingIsLost
<1>2. QED
  BY <1>1, PTL

=============================================================================
