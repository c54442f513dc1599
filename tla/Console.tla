------------------------------- MODULE Console -------------------------------
(***************************************************************************)
(* The console: requests of operators to the API, made directly or through *)
(* the dashboard, while the queue's workers publish what was enqueued.     *)
(* The handlers of the API run in one process and interleave wherever they *)
(* await the database, the storage or the queue.                           *)
(***************************************************************************)
EXTENDS Composer, Trail, Dashboard

CONSTANTS
  Requests,       \* the requests that are made
  Calls,          \* what is asked of the API directly, but for the jobs named in it
  Callers,        \* credentials of those who ask
  Deployments,    \* the settings the processes may have been started with
  Stock,          \* the assets at the start
  Slots,          \* how many jobs the workers run at once
  MaxViews,       \* bound on the pages opened on the dashboard
  MaxFaults       \* bound on the restarts and the calls of database, storage, queue and sites
                  \* that fail

\* At any time the process has received finitely many requests.
ASSUME RequestsAreFinite == IsFiniteSet(Requests)

ASSUME ConsoleBounds == Slots \in Nat \ {0} /\ MaxViews \in Nat /\ MaxFaults \in Nat

VARIABLES
  setup,          \* the settings in effect
  overrides,      \* what operators saved over the environment
  assets,
  jobs,           \* the jobs of the publishing queue
  paused,
  published,      \* the slugs recorded as published, by publisher
  request,
  trail,
  page,           \* what the dashboard shows
  views, faults   \* spent of the bounds

vars == <<setup, overrides, assets, jobs, paused, published, request, trail, page, views,
          faults>>

Correlations == Requests \cup {"page", "system"}

\* What a request asks for; about: the provider, the job or the notice it names.
Call(op) ==
  [op |-> op, assets |-> << >>, publishers |-> << >>, when |-> "now", input |-> << >>,
   about |-> << >>]

Publishing(op, as, ps) == [Call(op) EXCEPT !.assets = as, !.publishers = ps]

\* A call is made of the fields of one.  Only a bulk publication names several assets, and a
\* form has the fields of its provider.
ASSUME CallsAreCalls ==
  \A call \in Calls :
    /\ DOMAIN call = DOMAIN Call("none")
    /\ call.assets \in Seq(ToSet(call.assets)) /\ call.publishers \in Seq(ToSet(call.publishers))
    /\ call.op # "bulk" => Len(call.assets) <= 1
    /\ call.op = "configure" /\ call.about[1] \in Providers =>
         call.input \in [FieldsOf(call.about[1]) -> Values]

\* A star in an answer stands for all there are.  The routes do not refuse one in a request, of
\* which the answer could not be read: no call names one.
ASSUME StarIsNoName ==
  /\ "*" \notin Assets
  /\ \A call \in Calls : "*" \notin ToSet(call.assets) \cup ToSet(call.publishers)

\* No process is started with the placeholder of a secret in the secret's place.
ASSUME EnvironmentsAreReal == \A d \in Deployments : d.base \in [Vars -> Values \ {"masked"}]

NoAnswer == [accepted |-> << >>, skipped |-> << >>, failed |-> << >>]

NoRequest ==
  [stage |-> "idle", call |-> Call("none"), by |-> "api", caller |-> Nobody, todo |-> << >>,
   left |-> << >>, answer |-> NoAnswer, code |-> 0, scanned |-> {}, entries |-> {},
   state |-> 0]

Env == Merged(setup.base, overrides)

Init ==
  /\ \E d \in Deployments :
       /\ d.production => AuthErrors(LoadedAuth(d.auth), d.production) = {}
       /\ setup = [auth |-> LoadedAuth(d.auth), desk |-> LoadedDesk(d.desk),
                   redis |-> d.redis, base |-> d.base]
  /\ overrides = NoOverrides
  /\ assets = Stock
  /\ jobs = << >>
  /\ paused = FALSE
  /\ published = {}
  /\ request = [r \in Requests |-> NoRequest]
  /\ trail = Recorded(NewTrail(Correlations), "system", Plain("system.startup"))
  /\ page = NoView
  /\ views = 0
  /\ faults = 0

-----------------------------------------------------------------------------
\* The routes: the permission each asks for.

\* As if whoever may use the composer might publish in bulk.
LooseComposerRoutes ==
  [validate |-> "composer:write", publish |-> "publishing:write", bulk |-> "composer:write",
   schedule |-> "scheduling:write"]

ComposerRoutes ==
  [validate |-> "composer:write", publish |-> "publishing:write", bulk |-> "publishing:write",
   schedule |-> "scheduling:write"]

QueueRoutes ==
  [op \in {"pause", "resume", "drain", "retry", "remove"} |-> "queue:write"]

ConfigRoutes == [op \in {"check", "configure"} |-> "providers:write"]

PublisherRoutes == [health |-> "publishers:read"]

CalendarRoutes == [op \in {"events", "timeline"} |-> "calendar:read"]

NotificationRoutes == [op \in {"read", "readAll"} |-> "notifications:read"]

PermissionOf(op) ==
  CASE op \in DOMAIN ComposerRoutes -> ComposerRoutes[op]
    [] op \in DOMAIN QueueRoutes -> QueueRoutes[op]
    [] op \in DOMAIN ConfigRoutes -> ConfigRoutes[op]
    [] op \in DOMAIN PublisherRoutes -> PublisherRoutes[op]
    [] op \in DOMAIN CalendarRoutes -> CalendarRoutes[op]
    [] op \in DOMAIN NotificationRoutes -> NotificationRoutes[op]

\* A sound credential is recorded by the hook of every request and again by the guard.
GuardEvents(credential, permission) ==
  LET verdict == Verdict(setup.auth, credential, permission)
      known == setup.auth.enabled /\ Authenticated(setup.auth, credential) # Nobody
      Times(n) == [i \in 1..n |-> Plain("auth.authenticated")]
  IN IF permission = "none" THEN Times(IF known THEN 1 ELSE 0)
     ELSE Times(IF known THEN 2 ELSE 0)
          \o CASE verdict = "401" -> <<Plain("auth.login_failure")>>
               [] verdict = "403" -> <<Plain("auth.rbac_denied")>>
               [] OTHER -> << >>

\* A request reaches its handler or is turned away by the guard, and nothing is left of it.
Received(r, call, by, credential) ==
  LET verdict == Verdict(setup.auth, credential, PermissionOf(call.op))
      caller == IF setup.auth.enabled THEN Authenticated(setup.auth, credential) ELSE Nobody
  IN /\ request[r].stage = "idle"
     /\ request' = [request EXCEPT ![r] =
          IF verdict = "pass"
          THEN [NoRequest EXCEPT !.stage = "admitted", !.call = call, !.by = by, !.caller = caller]
          ELSE [NoRequest EXCEPT !.stage = "done", !.code = IF verdict = "401" THEN 401 ELSE 403]]
     /\ trail' = RecordedAll(trail, r, GuardEvents(credential, PermissionOf(call.op)))

JobCalls ==
  {[Call(op) EXCEPT !.about = job] : op \in {"retry", "remove"}, job \in DOMAIN jobs}

Arrive(r) ==
  /\ request[r].stage = "idle"
  /\ \E call \in Calls \cup JobCalls, credential \in Callers :
       Received(r, call, "api", credential)
  /\ UNCHANGED <<setup, overrides, assets, jobs, paused, published, page, views, faults>>

At(r, ops, stage) == request[r].stage = stage /\ request[r].call.op \in ops

\* What is left of a request without an answer of its own: who asked for what.
Remains(req, stage, code) ==
  [NoRequest EXCEPT !.stage = stage, !.call = [req.call EXCEPT !.input = << >>],
                    !.by = req.by, !.caller = req.caller, !.code = code]

\* The handler answers and has recorded the events it records.
Ends(r, code, events) ==
  /\ request' = [request EXCEPT ![r] = Remains(request[r], "done", code)]
  /\ trail' = RecordedAll(trail, r, events)

Goes(r, req) == request' = [request EXCEPT ![r] = req] /\ UNCHANGED trail

OnlyRequest == UNCHANGED <<setup, overrides, assets, jobs, paused, published, page, views, faults>>

-----------------------------------------------------------------------------
\* Publishing through the composer.

Publications == {"publish", "bulk", "schedule"}

\* A time in the past is found by the service: the answer is the one of a request in which
\* everything failed.  So is the one publisher of a publication that was left blank.
RefusalCode(call) ==
  CASE ~setup.redis -> 503
    [] Unique(call.assets) = << >> \/ call.publishers = << >> -> 400
    [] call.op # "publish" /\ Unique(call.publishers) = << >> -> 400
    [] call.op = "schedule" /\ call.when = "now" -> 400
    [] OTHER -> 0

RefusedWhole(call) ==
  \/ call.op = "schedule" /\ call.when = "past"
  \/ call.op = "bulk" /\ BulkRefusal(Unique(call.assets), Unique(call.publishers)) # "none"

Record(req) ==
  CASE req.call.op = "publish" -> PublishEvents(req.answer)
    [] req.call.op = "bulk" -> BulkPublishEvents(req.answer)
    [] OTHER -> <<Plain("composer.schedule")>>

\* The audit is written and the answer sent right after the last pair is settled.
Continues(r, req) ==
  /\ request' = [request EXCEPT ![r] = req]
  /\ trail' = IF req.stage = "done" THEN RecordedAll(trail, r, Record(req)) ELSE trail

Answered(req) == [req EXCEPT !.stage = "done", !.code = 202, !.todo = << >>, !.left = << >>]

WholeFailed(req) ==
  Answered([req EXCEPT !.answer.failed =
    <<IF req.call.op = "bulk" THEN <<"*", "*">> ELSE <<Head(req.call.assets), "*">>>>])

BeginPublish(r) ==
  /\ At(r, Publications, "admitted")
  /\ LET req == request[r] IN
       IF RefusalCode(req.call) # 0 THEN Ends(r, RefusalCode(req.call), << >>)
       ELSE IF RefusedWhole(req.call) THEN Continues(r, WholeFailed(req))
       ELSE Goes(r, [req EXCEPT !.stage = "asset", !.todo = Unique(req.call.assets),
                                !.left = Unique(req.call.publishers)])
  /\ OnlyRequest

NextAsset(req) ==
  IF Len(req.todo) > 1
  THEN [req EXCEPT !.stage = "asset", !.todo = Tail(@), !.left = Unique(req.call.publishers)]
  ELSE Answered(req)

\* As if the first pair of an asset that is settled settled them all.
NextPairStops(req) == NextAsset(req)

NextPair(req) ==
  IF Len(req.left) > 1 THEN [req EXCEPT !.stage = "check", !.left = Tail(@)] ELSE NextAsset(req)

Pair(req) == <<Head(req.todo), Head(req.left)>>

Settled(req, list) == NextPair([req EXCEPT !.answer[list] = Append(@, Pair(req))])

\* The asset and its thumbnail are loaded once for all its publishers, of which there may be
\* none.
LoadAsset(r) ==
  /\ At(r, Publications, "asset")
  /\ LET req == request[r]
         a == Head(req.todo)
     IN IF assets[a] = NoAsset \/ req.left = << >> \/ ~HasMedia(assets[a])
        THEN Continues(r, NextAsset([req EXCEPT !.answer.failed = Append(@, <<a, "*">>)]))
        ELSE Continues(r, [req EXCEPT !.stage = "check"])
  /\ OnlyRequest

CheckPair(r) ==
  /\ At(r, Publications, "check")
  /\ LET req == request[r]
         a == Pair(req)[1]
     IN IF Validation(a, Pair(req)[2], assets[a], setup.base, Env).ready
        THEN Continues(r, [req EXCEPT !.stage = "look"])
        ELSE Continues(r, Settled(req, "failed"))
  /\ OnlyRequest

IsPublished(pair) == <<Slug[pair[1]], pair[2]>> \in published

LookUp(r) ==
  /\ At(r, Publications, "look")
  /\ IF IsPublished(Pair(request[r]))
     THEN Continues(r, Settled(request[r], "skipped"))
     ELSE Continues(r, [request[r] EXCEPT !.stage = "queue"])
  /\ OnlyRequest

\* A job of this request for this asset and publisher.
JobId(r, pair) == <<r, pair[1], pair[2]>>

PairOf(job) == <<job[2], job[3]>>

Entered(call) ==
  [state |-> IF call.op = "schedule" /\ call.when = "later" THEN "delayed" ELSE "waiting",
   timed |-> call.op = "schedule"]

Enqueue(r) ==
  /\ At(r, Publications, "queue")
  /\ LET job == JobId(r, Pair(request[r])) IN
       jobs' = [j \in DOMAIN jobs \cup {job} |->
                  IF j = job THEN Entered(request[r].call) ELSE jobs[j]]
  /\ Continues(r, Settled(request[r], "accepted"))
  /\ UNCHANGED <<setup, overrides, assets, paused, published, page, views, faults>>

\* A refusal of the queue concerns one pair only.
EnqueueFails(r) ==
  /\ At(r, Publications, "queue")
  /\ faults < MaxFaults
  /\ faults' = faults + 1
  /\ Continues(r, Settled(request[r], "failed"))
  /\ UNCHANGED <<setup, overrides, assets, jobs, paused, published, page, views>>

\* Any other read that fails ends the request: nothing is recorded of what it had enqueued.
Throws(r) ==
  /\ request[r].stage \in {"asset", "check", "look", "act", "scan", "history"}
  /\ faults < MaxFaults
  /\ faults' = faults + 1
  /\ Ends(r, 500, << >>)
  /\ UNCHANGED <<setup, overrides, assets, jobs, paused, published, page, views>>

-----------------------------------------------------------------------------
\* The other handlers.

Validate(r) ==
  /\ At(r, {"validate"}, "admitted")
  /\ LET call == request[r].call IN
       IF Unique(call.assets) = << >> \/ Unique(call.publishers) = << >>
       THEN Ends(r, 400, << >>)
       ELSE LET a == Head(call.assets)
                p == Head(call.publishers)
                ready == Validation(a, p, assets[a], setup.base, Env).ready
            IN Ends(r, 200, <<Event("composer.validation", <<a, p>>, ready)>>)
  /\ OnlyRequest

\* A job that was removed is kept to tell of it.
Present(job) == job \in DOMAIN jobs /\ jobs[job].state # "removed"

QueueEvents == [pause |-> "queue.pause", resume |-> "queue.resume", drain |-> "queue.drain"]

JobsAfterDrain ==
  [j \in DOMAIN jobs |->
     IF jobs[j].state = "waiting" THEN [jobs[j] EXCEPT !.state = "removed"] ELSE jobs[j]]

ManageQueue(r) ==
  /\ At(r, {"pause", "resume", "drain"}, "admitted")
  /\ LET op == request[r].call.op IN
       IF ~setup.redis
       THEN Ends(r, 503, << >>) /\ UNCHANGED <<jobs, paused>>
       ELSE /\ Ends(r, 200, <<Plain(QueueEvents[op])>>)
            /\ jobs' = IF op = "drain" THEN JobsAfterDrain ELSE jobs
            /\ paused' = CASE op = "pause" -> TRUE [] op = "resume" -> FALSE [] OTHER -> paused
  /\ UNCHANGED <<setup, overrides, assets, published, page, views, faults>>

\* The job is looked up first, and acted on in another call of the queue.
FindJob(r) ==
  /\ At(r, {"retry", "remove"}, "admitted")
  /\ LET call == request[r].call IN
       IF ~setup.redis THEN Ends(r, 503, << >>)
       ELSE IF ~Present(call.about) THEN Ends(r, 404, << >>)
       ELSE IF call.op = "retry" /\ jobs[call.about].state # "failed" THEN Ends(r, 409, << >>)
       ELSE Goes(r, [request[r] EXCEPT !.stage = "act"])
  /\ OnlyRequest

\* The queue refuses to retry what is no longer failed and to remove what is being run.
RetryFound(r) ==
  /\ At(r, {"retry"}, "act")
  /\ LET job == request[r].call.about IN
       IF jobs[job].state = "failed"
       THEN /\ jobs' = [jobs EXCEPT ![job].state = "waiting"]
            /\ Ends(r, 200, <<Event("queue.retry", job, TRUE)>>)
       ELSE UNCHANGED jobs /\ Ends(r, 500, << >>)
  /\ UNCHANGED <<setup, overrides, assets, paused, published, page, views, faults>>

RemoveFound(r) ==
  /\ At(r, {"remove"}, "act")
  /\ LET job == request[r].call.about IN
       IF jobs[job].state = "active"
       THEN UNCHANGED jobs /\ Ends(r, 500, << >>)
       ELSE /\ jobs' = [jobs EXCEPT ![job].state = "removed"]
            /\ Ends(r, 200, <<Event("queue.remove", job, TRUE)>>)
  /\ UNCHANGED <<setup, overrides, assets, paused, published, page, views, faults>>

\* What is saved is validated first, and takes effect at once.
Configure(r) ==
  /\ At(r, {"configure"}, "admitted")
  /\ LET p == request[r].call.about[1]
         input == request[r].call.input
         Saved(good) == <<Event("provider.config_updated", p, good)>>
     IN IF p \notin Providers THEN Ends(r, 404, << >>) /\ UNCHANGED overrides
        ELSE IF UpdateIsValid(p, Env, input)
        THEN /\ overrides' = MergeUpdate(p, overrides, Env, input)
             /\ Ends(r, 200, Saved(TRUE))
        ELSE UNCHANGED overrides /\ Ends(r, 400, Saved(FALSE))
  /\ UNCHANGED <<setup, assets, jobs, paused, published, page, views, faults>>

CheckConfig(r) ==
  /\ At(r, {"check"}, "admitted")
  /\ LET p == request[r].call.about[1] IN
       IF p \notin Providers THEN Ends(r, 404, << >>)
       ELSE Ends(r, 200, <<Event("provider.validation", p,
                                 UpdateIsValid(p, Env, request[r].call.input))>>)
  /\ OnlyRequest

CheckHealth(r) ==
  /\ At(r, {"health"}, "admitted")
  /\ LET p == request[r].call.about[1] IN
       IF p \notin Providers THEN Ends(r, 404, << >>)
       ELSE \E healthy \in Healths(p, Env) :
              Ends(r, 200, <<Event("provider.health_check", p, healthy)>>)
  /\ OnlyRequest

ReadNotices(r) ==
  /\ At(r, {"read", "readAll"}, "admitted")
  /\ LET call == request[r].call
         found == call.op = "readAll" \/ HasNotice(trail, call.about[1], call.about[2])
     IN /\ request' = [request EXCEPT ![r].stage = "done",
                                       ![r].code = IF found THEN 200 ELSE 404]
        /\ trail' = IF ~found THEN trail
                    ELSE IF call.op = "readAll" THEN AllMarkedRead(trail)
                    ELSE MarkedRead(trail, call.about[1], call.about[2])
  /\ OnlyRequest

-----------------------------------------------------------------------------
\* The calendar: the jobs, state after state, and then their payloads for the events, or what is
\* recorded as published for the timeline.

JobStatuses == <<"waiting", "active", "delayed", "failed", "completed">>

Status(state) == IF state \in {"recorded", "unrecorded", "skipped"} THEN "completed" ELSE state

BeginCalendar(r) ==
  /\ At(r, {"events", "timeline"}, "admitted")
  /\ IF setup.redis THEN Goes(r, [request[r] EXCEPT !.stage = "scan"])
     ELSE Ends(r, 503, << >>)
  /\ OnlyRequest

\* A job is taken in the state it was first met in.
ScanState(r) ==
  /\ At(r, {"events", "timeline"}, "scan")
  /\ LET req == request[r]
         met == {entry.job : entry \in req.scanned}
         found == {j \in DOMAIN jobs \ met :
                     Status(jobs[j].state) = JobStatuses[req.state + 1]}
     IN Goes(r, [req EXCEPT
                   !.state = @ + 1,
                   !.stage = IF req.state + 1 = Len(JobStatuses) THEN "history" ELSE "scan",
                   !.scanned = @ \cup {[job |-> j, status |-> Status(jobs[j].state),
                                        timed |-> jobs[j].timed] : j \in found}])
  /\ OnlyRequest

\* A job that waits for its next attempt is delayed like one that waits for its time.
IsScheduled(entry) == entry.status = "delayed" \/ entry.timed

\* A payload that is gone only costs its event the time it was scheduled for.
ListEvents(r) ==
  /\ At(r, {"events"}, "history")
  /\ Goes(r, [request[r] EXCEPT
                !.stage = "done", !.code = 200, !.scanned = {},
                !.entries = {<<entry.job, "event">> :
                               entry \in {e \in request[r].scanned : IsScheduled(e)}}])
  /\ OnlyRequest

\* As if only the state of a completed job decided.
EntryTypeOfState(entry) ==
  CASE entry.status = "completed" -> "published"
    [] IsScheduled(entry) -> "scheduled"
    [] entry.status \in {"waiting", "active"} -> "queued"
    [] OTHER -> "failed"

EntryType(entry) ==
  CASE entry.status = "completed" ->
         IF IsPublished(PairOf(entry.job)) THEN "published" ELSE "duplicate_skipped"
    [] IsScheduled(entry) -> "scheduled"
    [] entry.status \in {"waiting", "active"} -> "queued"
    [] OTHER -> "failed"

ReadHistory(r) ==
  /\ At(r, {"timeline"}, "history")
  /\ Goes(r, [request[r] EXCEPT
                !.stage = "done", !.code = 200, !.scanned = {},
                !.entries = {<<entry.job, EntryType(entry)>> : entry \in request[r].scanned}])
  /\ OnlyRequest

-----------------------------------------------------------------------------
\* What else goes on.

\* The worker makes the thumbnail of an asset that has none; no part of the system changes the
\* status of an asset.
Process(a) ==
  /\ assets[a].thumb = "none"
  /\ assets' = [assets EXCEPT ![a].thumb = "stored"]
  /\ UNCHANGED <<setup, overrides, jobs, paused, published, request, trail, page, views, faults>>

Moves(j, from, to) ==
  /\ jobs[j].state = from
  /\ jobs' = [jobs EXCEPT ![j].state = to]
  /\ UNCHANGED <<setup, overrides, assets, paused, published, request, trail, page, views,
                 faults>>

DelayEnds(j) == Moves(j, "delayed", "waiting")

Take(j) ==
  /\ ~paused
  /\ Cardinality({k \in DOMAIN jobs : jobs[k].state = "active"}) < Slots
  /\ Moves(j, "waiting", "active")

\* A slug that is recorded is not published again.
Skip(j) == IsPublished(PairOf(j)) /\ Moves(j, "active", "skipped")

Publish(j) ==
  /\ jobs[j].state = "active"
  /\ ~IsPublished(PairOf(j))
  /\ jobs' = [jobs EXCEPT ![j].state = "recorded"]
  /\ published' = published \cup {<<Slug[j[2]], j[3]>>}
  /\ UNCHANGED <<setup, overrides, assets, paused, request, trail, page, views, faults>>

\* A publication that could not be recorded counts as done; one that failed is tried again
\* after a delay, or has failed for good.
PublishFails(j) ==
  /\ jobs[j].state = "active"
  /\ ~IsPublished(PairOf(j))
  /\ faults < MaxFaults
  /\ faults' = faults + 1
  /\ \E state \in {"unrecorded", "delayed", "failed"} : jobs' = [jobs EXCEPT ![j].state = state]
  /\ UNCHANGED <<setup, overrides, assets, paused, published, request, trail, page, views>>

\* The failed logins of five minutes ago no longer count.
WindowPasses ==
  /\ trail.streak > 0
  /\ trail' = [trail EXCEPT !.streak = 0]
  /\ UNCHANGED <<setup, overrides, assets, jobs, paused, published, request, page, views, faults>>

Running(req) == req.stage \notin {"idle", "done", "lost", "past"}

\* The process of the API starts anew: requests under way are lost, and so is what it kept
\* in memory.
Restart ==
  /\ faults < MaxFaults
  /\ faults' = faults + 1
  /\ request' = [r \in Requests |->
        IF Running(request[r]) THEN Remains(request[r], "lost", 0)
        ELSE [request[r] EXCEPT !.stage = IF @ = "done" THEN "past" ELSE @]]
  /\ overrides' = NoOverrides
  /\ trail' = Recorded(NewTrail(Correlations), "system", Plain("system.startup"))
  /\ UNCHANGED <<setup, assets, jobs, paused, published, page, views>>

-----------------------------------------------------------------------------
\* The dashboard, one page at a time.

\* Is what a page is about still there?
There(at, about) ==
  /\ at = "job" => Present(about)
  /\ at = "composer" => assets[about] # NoAsset

LoadedReads(at, about) ==
  {read \in ToSet(PageReads[at]) :
     Loads(setup.auth, Services(setup.redis), setup.desk, read, There(at, about))}

\* What the controls of a page are about: jobs, pairs to publish, a form filled in, notices.
EnabledOnes == {p \in Providers : Enabled(p, Env)}

ItemsOf(at, about) ==
  CASE at = "job" -> {<<about, Status(jobs[about].state)>>}
    [] at = "composer" ->
         {<<about, p>> : p \in {q \in EnabledOnes : Compatible(q, assets[about], Env)}}
    [] at = "bulk" -> Eligible(assets) \X EnabledOnes
    [] at = "config" -> {<<about, FormInput(about, Env)>>}
    [] at = "notifications" -> Unread(trail)
    [] OTHER -> {}

Subjects(at) ==
  CASE at = "job" -> DOMAIN jobs
    [] at = "composer" -> Assets
    [] at = "config" -> Providers
    [] OTHER -> {"none"}

ReadEvents(at) ==
  FoldLeft(LAMBDA events, read :
             events \o GuardEvents(DeskCredential(setup.desk, read \in KeyedReads),
                                   Reading[read].permission),
           << >>, PageReads[at])

\* A page that offers nothing leaves nothing behind.
Open(at) ==
  /\ views < MaxViews
  /\ views' = views + 1
  /\ \E about \in Subjects(at) :
       LET loaded == LoadedReads(at, about)
           view == View(at, loaded,
                        IF loaded = ToSet(PageReads[at]) THEN ItemsOf(at, about) ELSE {})
       IN page' = IF Offers(setup.desk, view) = {} THEN NoView ELSE view
  /\ trail' = RecordedAll(trail, "page", ReadEvents(at))
  /\ UNCHANGED <<setup, overrides, assets, jobs, paused, published, request, faults>>

PublishOp(at) == IF at = "bulk" THEN "bulk" ELSE "publish"

\* The boxes an operator ticks; the handler sends the form back to be confirmed.
Lists(set) == {seq \in UNION {[1..n -> set] : n \in 1..2} : IsInjective(seq)}

Choose ==
  /\ page.at \in {"composer", "bulk"}
  /\ PublishOp(page.at) \in Offers(setup.desk, page)
  /\ Handles(setup.desk, PublishOp(page.at))
  /\ \E as \in Lists({item[1] : item \in page.items}), ps \in Lists({item[2] : item \in page.items}) :
       /\ page.at = "composer" => Len(as) = 1
       /\ page' = [page EXCEPT !.chosen = [assets |-> as, publishers |-> ps],
                               !.asks = ChoiceOf(as, ps)]
  /\ UNCHANGED <<setup, overrides, assets, jobs, paused, published, request, trail, views, faults>>

\* The call a handler makes, and the page it leaves the operator on.
Asks(r, call) ==
  /\ Handles(setup.desk, call.op)
  /\ Received(r, call, "desk", DeskCredential(setup.desk, KeyedCall(call.op)))
  /\ page' = NoView
  /\ UNCHANGED <<setup, overrides, assets, jobs, paused, published, views, faults>>

Confirm(r) ==
  /\ page.asks # NoChoice
  /\ Asks(r, Publishing(PublishOp(page.at), page.asks.assets, page.asks.publishers))

\* A form is sent as it was filled in, or with one field typed anew.
Typed(form) ==
  {form} \cup {[form EXCEPT ![v] = "good"] : v \in DOMAIN form}

Press(r) ==
  \E op \in Offers(setup.desk, page) :
    CASE op \in {"pause", "resume", "drain", "readAll"} -> Asks(r, Call(op))
      [] op \in {"retry", "remove"} ->
           \E job \in IF page.at = "job" THEN {item[1] : item \in page.items} ELSE DOMAIN jobs :
             Asks(r, [Call(op) EXCEPT !.about = job])
      [] op = "health" -> \E p \in Providers : Asks(r, [Call(op) EXCEPT !.about = <<p>>])
      [] op = "read" -> \E notice \in page.items : Asks(r, [Call(op) EXCEPT !.about = notice])
      [] op \in {"check", "configure"} ->
           \E item \in page.items : \E form \in Typed(item[2]) :
             Asks(r, [Call(op) EXCEPT !.about = <<item[1]>>, !.input = form])
      [] OTHER -> FALSE

-----------------------------------------------------------------------------

Handler(r) ==
  \/ BeginPublish(r) \/ LoadAsset(r) \/ CheckPair(r) \/ LookUp(r) \/ Enqueue(r)
  \/ EnqueueFails(r) \/ Throws(r)
  \/ Validate(r) \/ ManageQueue(r) \/ FindJob(r) \/ RetryFound(r) \/ RemoveFound(r)
  \/ Configure(r) \/ CheckConfig(r) \/ CheckHealth(r) \/ ReadNotices(r)
  \/ BeginCalendar(r) \/ ListEvents(r) \/ ScanState(r) \/ ReadHistory(r)

Worker(j) == DelayEnds(j) \/ Take(j) \/ Skip(j) \/ Publish(j) \/ PublishFails(j)

Next ==
  \/ \E r \in Requests : Arrive(r) \/ Handler(r) \/ Confirm(r) \/ Press(r)
  \/ \E at \in DOMAIN PageReads : Open(at)
  \/ Choose
  \/ \E j \in DOMAIN jobs : Worker(j)
  \/ \E a \in Assets : Process(a)
  \/ WindowPasses
  \/ Restart

Spec == Init /\ [][Next]_vars

-----------------------------------------------------------------------------
\* The properties.

JobStates ==
  {"waiting", "delayed", "active", "failed", "recorded", "unrecorded", "skipped", "removed"}

\* Type invariant.
TypeOK ==
  /\ setup.auth.jwtRole \in Roles /\ setup.auth.keyRole \in Roles /\ setup.desk.role \in Roles
  /\ overrides \in [Providers -> [Vars -> Values]]
  /\ \A j \in DOMAIN jobs : jobs[j].state \in JobStates /\ jobs[j].timed \in BOOLEAN
  /\ \A r \in Requests :
       /\ request[r].code \in {0, 200, 202, 400, 401, 403, 404, 409, 500, 503}
       /\ request[r].stage \in {"done", "past"} <=> request[r].code # 0
  /\ trail.streak \in 0..(AuthFailureThreshold - 1)

PairsAsked(req) == ToSet(Unique(req.call.assets)) \X ToSet(Unique(req.call.publishers))

JobsOf(r) == {PairOf(j) : j \in {k \in DOMAIN jobs : k[1] = r}}

\* A failure may be told of an asset or of the request as a whole.
Told(req, pair) ==
  {list \in DOMAIN NoAnswer :
     \/ pair \in ToSet(req.answer[list])
     \/ list = "failed" /\ ToSet(req.answer.failed) \cap {<<pair[1], "*">>, <<"*", "*">>} # {}}

\* What a publication answers is what happened: every pair that was asked for is told once,
\* as queued exactly when there is a job for it, which keeps the time of a schedule, and as a
\* duplicate only when its slug is recorded as published.
AnswersAreTrue ==
  \A r \in Requests :
    request[r].code = 202 =>
      /\ \A pair \in PairsAsked(request[r]) : Cardinality(Told(request[r], pair)) = 1
      /\ JobsOf(r) = ToSet(request[r].answer.accepted)
      /\ \A pair \in ToSet(request[r].answer.skipped) : IsPublished(pair)
      /\ \A j \in DOMAIN jobs : j[1] = r => (jobs[j].timed <=> request[r].call.op = "schedule")

EventsOf(r, type) ==
  {trail.events[r][i].about :
     i \in {k \in DOMAIN trail.events[r] : trail.events[r][k].type = type}}

NoticesAbout(r, type) ==
  {trail.notices[r][i].about :
     i \in {k \in DOMAIN trail.notices[r] : trail.notices[r][k].type = type}}

\* Outcomes of a publication are told alike in its answer, in the audit and in the notices.
OutcomesAreRecorded(r) ==
  LET answer == request[r].answer IN
  /\ EventsOf(r, "publishing.queued") = JobsOf(r)
  /\ NoticesAbout(r, "publish.completed") = JobsOf(r)
  /\ EventsOf(r, "publishing.duplicate_skipped") = ToSet(answer.skipped)
  /\ NoticesAbout(r, "publish.duplicate_skipped") = ToSet(answer.skipped)
  /\ EventsOf(r, "publishing.failed") = ToSet(answer.failed)
  /\ NoticesAbout(r, "publish.failed") = ToSet(answer.failed)

Count(lists, type) ==
  FoldSet(LAMBDA c, n : n + Cardinality({i \in DOMAIN lists[c] : lists[c][i].type = type}),
          0, Correlations)

\* The trail tells what happened since the process started: the outcomes of every answered
\* publication, and an alarm for repeated failures only after as many failed logins, none of
\* which counts for two alarms.
TrailTellsTrue ==
  /\ \A r \in Requests :
       request[r].stage = "done" /\ request[r].code = 202 /\ request[r].call.op # "schedule"
         => OutcomesAreRecorded(r)
  /\ AuthFailureThreshold * Count(trail.notices, "security.auth_failures")
       <= Count(trail.events, "auth.login_failure")

\* The timeline of the calendar shows as published only what is recorded as published, and
\* as a skipped duplicate never a job that published: jobs and history are read one after the
\* other while the workers go on.  Its events are of jobs that wait for a time, or again for an
\* attempt after one that failed.
TimelineIsTrue ==
  \A r \in Requests : \A entry \in request[r].entries :
    /\ entry[2] = "published" => IsPublished(PairOf(entry[1]))
    /\ entry[2] = "duplicate_skipped" => jobs[entry[1]].state # "recorded"
    /\ entry[2] = "event" => jobs[entry[1]].timed \/ faults > 0

\* A configuration that was saved is in effect until the process restarts, whatever is saved
\* next, and the placeholder of a secret never takes the secret's place.
SavedConfigHolds ==
  \A r \in Requests :
    request[r].stage = "done" /\ request[r].code = 200 /\ request[r].call.op = "configure" =>
      /\ Enabled(request[r].call.about[1], Env)
      /\ \A v \in Secrets : Env[v] # "masked"

\* Whatever is in the queue was asked for by someone who may: directly, by the role of the
\* credential; through the dashboard, by the role of the dashboard too.
OnlyWhatWasAsked ==
  /\ TypeOK
  /\ \A j \in DOMAIN jobs :
       LET req == request[j[1]] IN
       /\ PairOf(j) \in PairsAsked(req)
       /\ setup.auth.enabled =>
            Grants(req.caller.role,
                   IF req.call.op = "schedule" THEN "scheduling:write" ELSE "publishing:write")
       /\ req.by = "desk" => Can(setup.desk, "publishing:write")

\* The pairs an operator confirms are the pairs the operator chose.
SelectionIsAskedFor == PairsOf(page.asks) = PairsOf(page.chosen)
=============================================================================
