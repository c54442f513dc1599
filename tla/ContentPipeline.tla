-------------------------- MODULE ContentPipeline --------------------------
(***************************************************************************)
(* Runs of the content pipeline, side by side, from the request to the     *)
(* published post.  They ask one knowledge service, which loads            *)
(* collections on demand, and publish through one outbox when the caller   *)
(* injects the enqueue service and the worker, else each through its own.  *)
(*                                                                         *)
(* A step ends where the code awaits something another run can change: a   *)
(* collection being read, the provider, the outbox, the adapter.  What     *)
(* the caller passes in is chosen where it is first read.                  *)
(***************************************************************************)
EXTENDS ContentPlan, MemoryPublishing

CONSTANTS
  Runs,       \* the runs, each started once
  Requests,   \* what may be asked for: recipe, content, root, strict, format
  Contents,   \* what a provider may write: text, length, valid
  Deliveries  \* the rest of what is passed in: created, decision, target, link, scheduled

ASSUME ContentPipelineConstants ==
  /\ "shared" \notin Runs
  /\ Requests \subseteq [recipe : STRING, content : STRING, root : [type : STRING, id : Nat],
                        strict : BOOLEAN, format : STRING]
  /\ Contents \subseteq [text : STRING, length : Nat, valid : BOOLEAN]
  /\ Deliveries \subseteq [created : STRING, decision : STRING, target : STRING,
                          link : BOOLEAN, scheduled : BOOLEAN]

VARIABLES
  strictService,   \* the service was created with strict
  sharing,         \* the enqueue service and the worker were injected
  held,            \* type -> how often its collection was added
  covered,         \* the types the last index was built over
  outbox,          \* store -> its rows
  keys,            \* store -> its reservations
  posts,           \* store -> what the adapter has published
  run              \* run -> how far it is and what it has made

knowledge == <<repository, strictService, held, covered>>
storage == <<sharing, outbox, keys, posts>>
vars == <<knowledge, storage, run>>

Nothing == [text |-> "none", length |-> 0, valid |-> FALSE]

Nowhere == Ref("none", 0)

NoRequest ==
  [recipe |-> "none", content |-> "none", root |-> Nowhere, strict |-> FALSE, format |-> "none"]

NoPackage == [handoff |-> << >>, target |-> "none", slug |-> "none", content |-> Nothing]

NoDelivery ==
  [created |-> "none", decision |-> "none", target |-> "none", link |-> FALSE,
   scheduled |-> FALSE]

Result(status, code) == [status |-> status, code |-> code]

NewRun ==
  [stage |-> "idle", request |-> NoRequest, loading |-> "none", walk |-> StartWalk(Nowhere),
   plan |-> Refused("none yet"), content |-> Nothing, delivery |-> NoDelivery,
   package |-> NoPackage, claimed |-> Row(NoPackage, FALSE), result |-> Result("none", "none")]

Stores == Runs \cup {"shared"}

Store(r) == IF sharing THEN "shared" ELSE r

\* The service is handed out after its first load: the types of that load can be read and
\* indexed.
Init ==
  /\ repository \in Repositories
  /\ \A type \in EagerTypes : Readable(type)
  /\ held = [type \in EntityTypes |-> IF type \in EagerTypes THEN 1 ELSE 0]
  /\ Indexable(held)
  /\ covered = EagerTypes
  /\ strictService \in BOOLEAN
  /\ sharing \in BOOLEAN
  /\ outbox = [s \in Stores |-> << >>]
  /\ keys = [s \in Stores |-> << >>]
  /\ posts = [s \in Stores |-> {}]
  /\ run = [r \in Runs |-> NewRun]

Goes(r, after) == run' = [run EXCEPT ![r] = after]

\* Of a run that ends before its package is made nothing but the result is left.
Ends(r, status, code) ==
  Goes(r, [(IF run[r].package = NoPackage THEN NewRun ELSE run[r])
             EXCEPT !.stage = "done", !.result = Result(status, code)])

Fails(r, code) == Ends(r, "failed", code)

\* A plan that is refused blocks the run.
Planned(r, plan) ==
  IF plan.code = "none"
  THEN Goes(r, [run[r] EXCEPT !.stage = "planned", !.walk = StartWalk(Nowhere), !.plan = plan])
  ELSE Ends(r, "blocked", plan.code)

-----------------------------------------------------------------------------
\* Preparing a plan.

Ask(r) ==
  /\ run[r].stage = "idle"
  /\ \E request \in Requests :
       IF Refusal(request) # "none" THEN Ends(r, "blocked", Refusal(request))
       ELSE IF request.root.type \notin EntityTypes THEN Fails(r, "knowledge-load-failure")
       ELSE Goes(r, [run[r] EXCEPT !.stage = "root", !.request = request])
  /\ UNCHANGED <<knowledge, storage>>

\* What the run cannot go on without, and what of it has not been loaded.
Needs(r) ==
  CASE run[r].stage = "root" -> {run[r].request.root.type}
    [] run[r].stage = "walk" /\ run[r].walk.todo # << >> ->
         {Named(Head(run[r].walk.todo)).target}
    [] OTHER -> {}

Lacks(r) == {type \in Needs(r) : held[type] = 0}

StartLoad(r) ==
  /\ run[r].loading = "none"
  /\ \E type \in Lacks(r) : Goes(r, [run[r] EXCEPT !.loading = type])
  /\ UNCHANGED <<knowledge, storage>>

\* A collection read twice is added twice, and is added whether or not an index can be
\* built over it.
FinishLoad(r) ==
  /\ run[r].loading # "none"
  /\ LET type == run[r].loading
         added == [held EXCEPT ![type] = @ + 1]
     IN IF ~Readable(type)
        THEN Fails(r, "knowledge-load-failure") /\ UNCHANGED knowledge
        ELSE /\ held' = added
             /\ IF Indexable(added)
                THEN /\ covered' = {t \in EntityTypes : added[t] > 0}
                     /\ Goes(r, [run[r] EXCEPT !.loading = "none"])
                ELSE /\ Fails(r, "knowledge-load-failure")
                     /\ UNCHANGED covered
             /\ UNCHANGED <<repository, strictService>>
  /\ UNCHANGED storage

Ready(r) == run[r].loading = "none" /\ Lacks(r) = {}

\* A service that is strict throws before the plan can be refused.
LookUpRoot(r) ==
  /\ run[r].stage = "root"
  /\ Ready(r)
  /\ LET request == run[r].request
     IN IF Lookup(covered, request.root) = {}
        THEN IF strictService THEN Fails(r, "knowledge-load-failure")
             ELSE Planned(r, Refused("missing-root-entity"))
        ELSE IF request.root.type # ContextRecipes[request.recipe].root
        THEN Planned(r, Refused("incompatible-recipe-content"))
        ELSE Goes(r, [run[r] EXCEPT !.stage = "walk", !.walk = StartWalk(request.root)])
  /\ UNCHANGED <<knowledge, storage>>

\* The next relation of what is expanded, or else what stands next in the queue.  Before a
\* relation its collection is awaited, loaded or not, and other runs go on.
NextWalk(walk, request) ==
  IF walk.todo = << >> THEN Visit(walk, ContextRecipes[request.recipe]) ELSE Follow(walk, covered)

\* A strict request is refused at the first reference to nothing.
Walk(r) ==
  /\ run[r].stage = "walk"
  /\ Ready(r)
  /\ LET request == run[r].request
         walk == NextWalk(run[r].walk, request)
     IN IF request.strict /\ walk.missing # {} THEN Planned(r, Refused("missing-root-entity"))
        ELSE IF WalkIsOver(walk) THEN Planned(r, Plan(request, walk))
        ELSE Goes(r, [run[r] EXCEPT !.walk = walk])
  /\ UNCHANGED <<knowledge, storage>>

-----------------------------------------------------------------------------
\* Generation, review and handoff: nothing here is shared.

SupportedFormats == {"markdown", "plain-text"}

\* A job is refused an unknown format, and a prompt that gives a URL away.
JobAllowed(request, plan) == request.format \in SupportedFormats /\ ~plan.url

\* What of a text the validation tells apart: secrets, paths, metadata, unsafe HTML or
\* nothing at all are in it, or not.
Publishable(content) == content.valid

Generate(r) ==
  /\ run[r].stage = "planned"
  /\ IF ~JobAllowed(run[r].request, run[r].plan)
     THEN Fails(r, "generation-job-blocked")
     ELSE \/ Fails(r, "provider-failure")
          \/ Fails(r, "knowledge-load-failure")
          \/ \E content \in Contents :
               IF Publishable(content) THEN Goes(r, [run[r] EXCEPT !.stage = "written", !.content = content])
               ELSE Fails(r, "artifact-invalid")
  /\ UNCHANGED <<knowledge, storage>>

\* createdAt is the caller's or the clock's: only the latter differs between runs.
Stamp(r, delivery) == IF delivery.created = "clock" THEN r ELSE delivery.created

\* A review created more than a week ago is refused as expired.
Expired(delivery) == delivery.created = "old"

Package(r, delivery) ==
  [handoff |-> <<run[r].request, Stamp(r, delivery), delivery.target>>,
   target |-> delivery.target, slug |-> "pipeline-dry-run-draft", content |-> run[r].content]

ReadyWithLinks(delivery) == delivery.decision \in {"approve", "approve-with-notes"}

\* Metadata with a URL, the canonical one or that of an image, blocks the handoff.
HandoffReady(delivery) ==
  delivery.decision \in {"approve", "approve-with-notes"} /\ ~delivery.link

HandOff(r) ==
  /\ run[r].stage = "written"
  /\ \E delivery \in Deliveries :
       IF Expired(delivery) THEN Fails(r, "knowledge-load-failure")
       ELSE IF delivery.decision = "reject" THEN Ends(r, "blocked", "review-failure")
       ELSE IF ~HandoffReady(delivery) THEN Ends(r, "blocked", "handoff-blocked")
       ELSE Goes(r, [run[r] EXCEPT !.stage = "packed", !.delivery = delivery,
                                   !.package = Package(r, delivery)])
  /\ UNCHANGED <<knowledge, storage>>

-----------------------------------------------------------------------------
\* Enqueue, and one pass of the worker.

Stored(s, rows, reservations, published) ==
  /\ outbox' = [outbox EXCEPT ![s] = rows]
  /\ keys' = [keys EXCEPT ![s] = reservations]
  /\ posts' = [posts EXCEPT ![s] = published]
  /\ UNCHANGED sharing

Enqueue(r) ==
  /\ run[r].stage = "packed"
  /\ LET s == Store(r)
         package == run[r].package
     IN /\ IF EnqueueAnswer(outbox[s], package) = "conflict"
           THEN Fails(r, "knowledge-load-failure")
           ELSE Goes(r, [run[r] EXCEPT !.stage = "queued"])
        /\ Stored(s, Enqueued(outbox[s], package, run[r].delivery.scheduled), keys[s], posts[s])
  /\ UNCHANGED knowledge

\* The worker takes the row that has been available longest, whosever it is; finding none
\* is a success.
ClaimNext(r) ==
  /\ run[r].stage = "queued"
  /\ LET s == Store(r)
     IN IF ClaimedAt(outbox[s]) = {}
        THEN Ends(r, "succeeded", "idle") /\ UNCHANGED storage
        ELSE \E i \in ClaimedAt(outbox[s]) :
               /\ Stored(s, Claim(outbox[s], i, r), keys[s], posts[s])
               /\ Goes(r, [run[r] EXCEPT !.stage = "publishing",
                                         !.claimed = Claim(outbox[s], i, r)[i]])
  /\ UNCHANGED knowledge

Adapters == {"fake"}

\* A terminal failure without an adapter leaves the reservations alone.
NoAdapter(r) ==
  LET s == Store(r) IN
    /\ Stored(s, MarkFailed(outbox[s], run[r].claimed, FALSE), keys[s], posts[s])
    /\ Fails(r, "worker-failure")

Post(r) == [by |-> r, handoff |-> run[r].claimed.handoff,
            content |-> run[r].claimed.package.content]

\* What the adapter throws ends the run and leaves the row claimed and its key reserved.
PublishThrough(r) ==
  LET s == Store(r)
      claimed == run[r].claimed
      handoff == claimed.handoff
  IN \/ /\ Stored(s, MarkSucceeded(outbox[s], claimed), Completed(keys[s], handoff),
                  posts[s] \cup {Post(r)})
        /\ Ends(r, "succeeded", "succeeded")
     \/ \E retryable \in BOOLEAN :
          /\ Stored(s, MarkFailed(outbox[s], claimed, retryable),
                    Failed(keys[s], handoff, retryable), posts[s])
          /\ Fails(r, "worker-failure")
     \/ \E published \in {{}, {Post(r)}} :
          /\ Stored(s, outbox[s], Reserved(keys[s], handoff), posts[s] \cup published)
          /\ Fails(r, "knowledge-load-failure")

Publish(r) ==
  /\ run[r].stage = "publishing"
  /\ LET s == Store(r)
         claimed == run[r].claimed
         answer == Reserve(keys[s], claimed.handoff)
     IN IF ~MayMark(outbox[s], claimed) THEN Fails(r, "knowledge-load-failure") /\ UNCHANGED storage
        ELSE IF claimed.package.target \notin Adapters THEN NoAdapter(r)
        ELSE IF answer = "proceed" THEN PublishThrough(r)
        ELSE IF answer = "return-existing"
        THEN /\ Stored(s, MarkSucceeded(outbox[s], claimed), keys[s], posts[s])
             /\ Ends(r, "succeeded", "succeeded")
        ELSE /\ Stored(s, MarkFailed(outbox[s], claimed, TRUE), keys[s], posts[s])
             /\ Fails(r, "worker-failure")
  /\ UNCHANGED knowledge

\* Time passes for one waiting row.
BecomeAvailable(s) ==
  /\ \E i \in DOMAIN outbox[s] :
       outbox[s][i].waits /\ Stored(s, Available(outbox[s], i), keys[s], posts[s])
  /\ UNCHANGED <<knowledge, run>>

Next ==
  \/ \E r \in Runs :
       \/ Ask(r) \/ StartLoad(r) \/ FinishLoad(r) \/ LookUpRoot(r) \/ Walk(r)
       \/ Generate(r) \/ HandOff(r) \/ Enqueue(r) \/ ClaimNext(r) \/ Publish(r)
  \/ \E s \in Stores : BecomeAvailable(s)

Spec == Init /\ [][Next]_vars

-----------------------------------------------------------------------------
\* Properties.

\* A plan that is made says what the repository holds: a strict plan has all the recipe
\* reaches and no reference to nothing; another one lists as missing exactly the references
\* to nothing as long as the index is not spoiled; and what is left out is always warned of
\* (traverse.ts, prepare.ts, service.ts against loads of other runs).
ContextIsComplete ==
  \A r \in Runs :
    run[r].stage = "planned" =>
      LET request == run[r].request
          plan == run[r].plan
          recipe == ContextRecipes[request.recipe]
          all == Reached(recipe, request.root)
      IN /\ plan.nodes \subseteq all
         /\ request.strict => plan.nodes = all /\ Dangling(recipe, request.root) = {}
         /\ Indexable(held) /\ ~plan.truncated =>
              plan.nodes = all /\ plan.missing = Dangling(recipe, request.root)
         /\ plan.nodes # all =>
              plan.warnings \cap {"missing-reference", "context-truncated"} # {}
         /\ plan.complete => recipe.required \subseteq {ref.type : ref \in plan.nodes}

Earned(r) ==
  /\ run[r].plan.code = "none"
  /\ \A ref \in Shown(run[r].request, run[r].plan) : Entities(run[r].plan)[ref].marks = {}
  /\ run[r].delivery.decision \in {"approve", "approve-with-notes"}
  /\ run[r].content.valid
  /\ ~run[r].delivery.link

\* Every row, and every post, comes of a run of that store whose prompt gave no path and no
\* URL away, whose content passed validation, whose review approved it and whose metadata
\* is clean; and the adapter has published each handoff at most once.
PostsAreEarned ==
  \A s \in Stores :
    /\ \A row \in ToSet(outbox[s]) :
         \E r \in Runs : /\ Store(r) = s
                         /\ run[r].package = row.package
                         /\ Earned(r)
    /\ \A post \in posts[s] :
         /\ post.handoff \in Handoffs(outbox[s])
         /\ post.content = RowOf(outbox[s], post.handoff).package.content
         /\ \A other \in posts[s] : other.handoff = post.handoff => other = post

\* A run that reports success has its handoff in the outbox, and unless it is shared or
\* scheduled that handoff is published, by this run and with its content.
SuccessIsEnqueued ==
  \A r \in Runs :
    (run[r].stage = "done" /\ run[r].result.status = "succeeded") =>
      LET s == Store(r)
          row == RowOf(outbox[s], run[r].package.handoff)
      IN /\ run[r].package.handoff \in Handoffs(outbox[s])
         /\ Length(row.package.content) = Length(run[r].content)
         /\ ~sharing /\ ~run[r].delivery.scheduled =>
              row.status = "succeeded" /\ posts[s] = {Post(r)}

=============================================================================
