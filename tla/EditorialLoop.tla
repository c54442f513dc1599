---------------------------- MODULE EditorialLoop ----------------------------
(***************************************************************************)
(* The editorial loop: a generated draft is analyzed and put before a      *)
(* reviewer; the reviewer asks for a revision of some of the findings, a   *)
(* caller has it generated, analyzed again and the review reopened with    *)
(* it.  A generation is awaited, so other calls come between; callers pass *)
(* the artifacts, requests and reports they hold, old ones too.            *)
(***************************************************************************)
EXTENDS EditorialReport

CONSTANTS
  Reviews,
  Callers,
  FirstDrafts,      \* what the first generation may return
  RevisedDrafts,    \* what a revision may return
  Selections,       \* the severities a reviewer may select the findings by
  MaxRevisions,     \* maxRevisionCount: the highest revision number
  MaxRounds         \* bound on the requests and on the reopenings of a review

ASSUME EditorialLoopConstants == MaxRevisions \in Nat \ {0} /\ MaxRounds \in Nat

VARIABLES
  artifact,     \* identifier -> saved artifact
  request,      \* review -> its revision requests
  review,       \* review -> its record
  late,         \* the reviews past their expiry
  run           \* caller -> the generation it awaits

vars == <<artifact, request, review, late, run>>

-----------------------------------------------------------------------------

\* The reports, one for each draft: analysis is deterministic.
Reports == [d \in FirstDrafts \cup RevisedDrafts |-> Report(d)]

Terminal == {"approved", "approved-with-notes", "rejected"}

NoReview == [status |-> "absent", active |-> << >>, artifactStatus |-> "none", count |-> 0,
             approvedOn |-> "nothing"]

Idle == [review |-> "none", request |-> 0, prior |-> << >>]

\* Artifacts are identified by what they were generated for.
Id(r, q, number) == <<r, q, number>>

Root(r) == Id(r, 0, 1)

ArtifactsOf(r) == {a \in DOMAIN artifact : artifact[a].root = Root(r)}

ReportOf(a) == Reports[artifact[a].doc]

Init ==
  /\ artifact = << >>
  /\ request = [r \in Reviews |-> << >>]
  /\ review = [r \in Reviews |-> NoReview]
  /\ late = {}
  /\ run = [u \in Callers |-> Idle]

-----------------------------------------------------------------------------

CreateArtifact(id, doc, number, root, parent) ==
  artifact' =
    [a \in DOMAIN artifact \cup {id} |->
       IF a = id THEN [doc |-> doc, status |-> ValidateGeneratedContent(doc), number |-> number,
                       root |-> root, parent |-> parent]
       ELSE artifact[a]]

\* The store never replaces what it holds.
Fresh(id) == id \notin DOMAIN artifact

PrepareInitialReview(r) ==
  /\ review[r].status = "absent" /\ Fresh(Root(r))
  /\ \E doc \in FirstDrafts :
       /\ CreateArtifact(Root(r), doc, 1, Root(r), Root(r))
       /\ review' = [review EXCEPT ![r] =
            [status |-> "pending-review", active |-> Root(r),
             artifactStatus |-> ValidateGeneratedContent(doc), count |-> 0,
             approvedOn |-> "nothing"]]
  /\ UNCHANGED <<request, late, run>>

\* Faulty variant: a decided review is decided again.
AcceptsAgain(r) ==
  r \notin late /\ review[r].status \in Terminal \cup {"pending-review", "changes-requested"}

\* What a decision is refused for, whatever it says.
Accepts(r) == r \notin late /\ review[r].status \in {"pending-review", "changes-requested"}

\* One finding of every place and code of a module, whatever else identifies the others.
DedupeFindings(report) ==
  {CHOOSE f \in group : \A g \in group : f.severity = "high" \/ g.severity # "high" :
     group \in Alike(report, LAMBDA f, g :
                 f.module = g.module /\ f.code = g.code /\ Place(f) = Place(g))}

CalculateRevisionPriority(items) ==
  IF \E f \in items : f.severity = "high" THEN "must-fix"
  ELSE IF \E f \in items : f.severity = "medium" THEN "should-fix"
  ELSE "nice-to-have"

BuildRevisionRequest(prior, selection) ==
  LET items == {f \in DedupeFindings(ReportOf(prior)) : f.severity \in selection}
  IN  [prior |-> prior, items |-> items, priority |-> CalculateRevisionPriority(items)]

RequestRevision(r) ==
  /\ Len(request[r]) < MaxRounds
  /\ \E prior \in ArtifactsOf(r), selection \in Selections :
       LET asked == BuildRevisionRequest(prior, selection)
       IN  /\ asked.items # {}
           /\ Accepts(r)
           /\ request' = [request EXCEPT ![r] = Append(@, [prior |-> prior, selection |-> selection])]
           /\ review' = [review EXCEPT ![r].status = "changes-requested"]
  /\ UNCHANGED <<artifact, late, run>>

\* The limit is on the artifact the caller passes, not on the review.
WithinLimit(prior) == artifact[prior].number + 1 <= MaxRevisions

Plans == {"of the draft", "without a payload", "of another snapshot"}

\* The job asks for the request's findings to be met in the prior draft, under the prompt of the
\* plan: there is none for a plan that has no prompt, or that is of another snapshot.
CreateRevisionGenerationJob(plan, r, q, prior) ==
  IF plan = "of the draft" THEN [review |-> r, request |-> q, prior |-> prior] ELSE Idle

\* The review is in revision before the job is made: a plan that does not fit leaves it there.
BeginRevision(u, r) ==
  /\ run[u] = Idle
  /\ review[r].status = "changes-requested"
  /\ \E q \in DOMAIN request[r], prior \in ArtifactsOf(r), plan \in Plans :
       /\ WithinLimit(prior)
       /\ run' = [run EXCEPT ![u] = CreateRevisionGenerationJob(plan, r, q, prior)]
  /\ review' = [review EXCEPT ![r].status = "revision-in-progress"]
  /\ UNCHANGED <<artifact, request, late>>

\* The provider is not able to, throws or fails, or the saving does: the review is left as it is.
FailRevision(u) ==
  /\ run[u] # Idle
  /\ run' = [run EXCEPT ![u] = Idle]
  /\ UNCHANGED <<artifact, request, review, late>>

Lineage(u) ==
  LET number == artifact[run[u].prior].number + 1
  IN  [id |-> Id(run[u].review, run[u].request, number), number |-> number,
       root |-> artifact[run[u].prior].root, parent |-> run[u].prior]

CreateRevisionArtifact(u, doc) ==
  CreateArtifact(Lineage(u).id, doc, Lineage(u).number, Lineage(u).root, Lineage(u).parent)

\* Faulty variant: saving a second artifact of one request and number replaces the first.
FinishRevisionAgain(u) ==
  /\ run[u] # Idle
  /\ \E doc \in RevisedDrafts : CreateRevisionArtifact(u, doc)
  /\ run' = [run EXCEPT ![u] = Idle]
  /\ UNCHANGED <<request, review, late>>

\* A second artifact of one request and number is refused by the store.
FinishRevision(u) ==
  /\ run[u] # Idle
  /\ Fresh(Lineage(u).id)
  /\ \E doc \in RevisedDrafts : CreateRevisionArtifact(u, doc)
  /\ run' = [run EXCEPT ![u] = Idle]
  /\ UNCHANGED <<request, review, late>>

\* The status that decisions are validated on stays that of the first draft.
ReopenReviewAfterRevision(r) ==
  /\ review[r].status = "revision-in-progress" /\ review[r].count < MaxRounds
  /\ \E a \in ArtifactsOf(r) :
       review' = [review EXCEPT ![r] =
         [status |-> "pending-review", active |-> a, artifactStatus |-> @.artifactStatus,
          count |-> @.count + 1, approvedOn |-> "nothing"]]
  /\ UNCHANGED <<artifact, request, late, run>>

\* The reviewer's store also reopens a review without a new draft.
ReopenAfterRevision(r) ==
  /\ review[r].status = "changes-requested"
  /\ review' = [review EXCEPT ![r] = [@ EXCEPT !.status = "pending-review",
                                              !.approvedOn = "nothing"]]
  /\ UNCHANGED <<artifact, request, late, run>>

HighFindings(report) == {f \in report : f.severity = "high"}

\* Faulty variant: the findings of the draft that the review was opened with.
FindingsBefore(given) == IF given = << >> THEN {} ELSE ReportOf(artifact[given].root)

\* One finding of two reports: by what identifies it, or else by its code and place.
SameFinding(f, g) ==
  f.module = g.module /\ f.code = g.code /\ (f.id = g.id \/ Place(f) = Place(g))

\* What a caller is told of a revision when it has it analyzed again.
CompareRevisionReports(prior, next) ==
  LET matched(f, report) == \E g \in report : SameFinding(f, g)
  IN  [resolved |-> {f \in prior : ~matched(f, next)},
       persisting |-> {f \in prior : matched(f, next)},
       new |-> {f \in next : ~matched(f, prior)},
       blockingRemaining |-> Cardinality(HighFindings(next))]

\* The caller gives the findings of an artifact's report, or none.
FindingsOf(given) == IF given = << >> THEN {} ELSE ReportOf(given)

SubmitHumanDecision(r) ==
  /\ Accepts(r)
  /\ \E decision \in Terminal \cup {"changes-requested"}, given \in ArtifactsOf(r) \cup {<< >>} :
       /\ decision \in {"approved", "approved-with-notes"} =>
            /\ review[r].artifactStatus \notin {"invalid", "rejected"}
            /\ HighFindings(FindingsOf(given)) = {}
       /\ review' = [review EXCEPT ![r] = [@ EXCEPT !.status = decision,
            !.approvedOn = IF given = << >> THEN "nothing"
                           ELSE IF given = review[r].active THEN "its report"
                           ELSE "another report"]]
  /\ UNCHANGED <<artifact, request, late, run>>

PassesExpiry(r) ==
  /\ review[r].status # "absent" /\ r \notin late
  /\ late' = late \cup {r}
  /\ UNCHANGED <<artifact, request, review, run>>

Next ==
  \/ \E r \in Reviews :
       \/ PrepareInitialReview(r) \/ RequestRevision(r) \/ ReopenReviewAfterRevision(r)
       \/ ReopenAfterRevision(r)
       \/ SubmitHumanDecision(r) \/ PassesExpiry(r)
       \/ \E u \in Callers : BeginRevision(u, r)
  \/ \E u \in Callers : FailRevision(u) \/ FinishRevision(u)

Spec == Init /\ [][Next]_vars

-----------------------------------------------------------------------------
(* Properties. *)

Ids == {Id(r, q, number) : r \in Reviews, q \in 0..MaxRounds, number \in 1..MaxRevisions}

\* Type invariant: records of artifacts, requests, reviews and generations.
TypeOK ==
  /\ DOMAIN artifact \subseteq Ids
  /\ \A a \in DOMAIN artifact :
       artifact[a] \in [doc : DOMAIN Reports, number : 1..MaxRevisions, root : Ids, parent : Ids,
                        status : {"generated", "generated-with-warnings", "invalid"}]
  /\ \A r \in Reviews :
       /\ Len(request[r]) <= MaxRounds
       /\ \A q \in DOMAIN request[r] : request[r][q] \in [prior : Ids, selection : Selections]
       /\ review[r].active \in ArtifactsOf(r) <=> review[r].status # "absent"
       /\ review[r].status \in
            Terminal \cup {"absent", "pending-review", "changes-requested", "revision-in-progress"}
       /\ review[r].count \in 0..MaxRounds
  /\ late \subseteq Reviews
  /\ \A u \in Callers : run[u] # Idle => run[u].prior \in DOMAIN artifact

Covered(f, report) ==
  \E g \in report : IsBlocking(g) /\ g.code = f.code /\ Place(g) = Place(f)

Unheard == {d \in DOMAIN Reports :
              \E f \in RawFindings(d) : IsBlocking(f) /\ ~Covered(f, Reports[d])}

\* Whatever an analyzer finds that blocks publication is in the report, under its own code and
\* at its place, whichever of the analyzers that found it is left to say so: deduplication
\* (within a module, by owner, by semantic group) never hides it.
NothingBlockingIsLost == \A a \in DOMAIN artifact : artifact[a].doc \notin Unheard

\* What a publishable draft is, said of the draft alone.
Sound(d) ==
  LET text == Whole(d)
      paragraphs == UNION {ToSet(d[i].body) : i \in Sections(d)}
  IN  /\ Cardinality(Titles(d)) = 1
      /\ \A i \in Titles(d) : d[i].name \notin Seo.shortTitles
      /\ \A s \in Editorial.required \cup Seo.required : Matched(d, s)
      /\ \A s \in Evidence.required : \E i \in Headings(d) : d[i].name = s.name
      /\ ~Says(text, Malformed \cup Editorial.mergedTokens \cup Editorial.gluedNames
                     \cup Evidence.placeholders)
      /\ \A p \in Evidence.requiredPlaceholders : Says(text, {Evidence.resolved[p]})
      /\ \A p \in paragraphs : ToSet(p) \cap Evidence.medicalClaims # {} =>
                              ToSet(p) \cap Evidence.verification # {}
      /\ \A pair \in AiSeo.contradictions : ~Says(text, {pair[1]}) \/ ~Says(text, {pair[2]})
      /\ \A i \in Sections(d) : \A k \in First(d[i].body, AiSeo.authoritative) :
           \E j \in DOMAIN Phrases(d[i].body) : Phrases(d[i].body)[j] \in AiSeo.uncertainty
      /\ HasResolvedDisclosure(d)

Misjudged == {d \in DOMAIN Reports :
                (PublicationReadiness(Reports[d]) # "not-ready") # Sound(d)}

\* The readiness of a draft, which many rules of five analyzers and the deduplication between
\* them make up, is "not-ready" exactly when the draft is not sound.
ReadinessIsSound == \A a \in DOMAIN artifact : artifact[a].doc \notin Misjudged

\* An artifact once saved never changes, whoever generates again from the same request, and a
\* new one descends from one that is there, of the same root, within the limit.
LineageHolds ==
  [][\A a \in DOMAIN artifact' :
       IF a \in DOMAIN artifact THEN artifact'[a] = artifact[a]
       ELSE \/ a = artifact'[a].root /\ artifact'[a].number = 1
            \/ /\ artifact'[a].parent \in DOMAIN artifact
               /\ artifact'[a].root = artifact[artifact'[a].parent].root
               /\ artifact'[a].number = artifact[artifact'[a].parent].number + 1
               /\ artifact'[a].number <= MaxRevisions]_vars

\* A reviewer who decides on the report of the draft under review cannot approve one that the
\* report calls not ready: the two judge severity by rules of their own.
ApprovedIsReady ==
  /\ TypeOK
  /\ \A r \in Reviews :
       /\ review[r].status \in {"approved", "approved-with-notes"}
       /\ review[r].approvedOn = "its report"
       => PublicationReadiness(ReportOf(review[r].active)) # "not-ready"

Stage(status) ==
  CASE status = "absent" -> "none"
    [] status = "pending-review" -> "open"
    [] status = "changes-requested" -> "changes"
    [] status = "revision-in-progress" -> "revising"
    [] status = "rejected" -> "rejected"
    [] OTHER -> "approved"

Promise == INSTANCE Review WITH
  Subjects <- Ids \cup {<< >>},
  stage <- [r \in Reviews |-> Stage(review[r].status)],
  subject <- [r \in Reviews |-> review[r].active]

\* The loop, with generations awaited between its calls, keeps the promise of a review.
ImplementsReview == Promise!Spec

=============================================================================
