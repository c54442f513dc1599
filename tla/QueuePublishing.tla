-------------------------- MODULE QueuePublishing --------------------------
(***************************************************************************)
(* Publishing over the queue: who enqueues a job, what a slot of the       *)
(* publishing worker does with it (duplicate check, media, post, history), *)
(* how its failures become retries, and what the operator may do.          *)
(*                                                                         *)
(* One database or remote call per step; a slot may die between any two,   *)
(* and a job whose lock expired may be run by two slots at once.           *)
(***************************************************************************)
EXTENDS JobQueue

CONSTANTS
  NoJob,         \* the job of an idle slot
  Slugs,         \* a slug at one publisher in one project, what history is searched by
  Assets,
  SlugOf,        \* job -> the slug of its payload
  AssetOf,       \* job -> the asset it was built from
  Delayed,       \* jobs with a time in the future
  FromComposer,  \* jobs the composer enqueues; the others come from the thumbnail hook
  Invalid,       \* jobs with a payload the worker refuses
  Unconfigured,  \* jobs whose publisher the worker cannot build
  Unscoped,      \* jobs without a project: history is neither searched nor written
  Untracked,     \* jobs without an organization or an asset: history is not written
  Outcomes,      \* what the remote target may do with a request
  OperatorOps,   \* commands an operator uses
  MayThrow,      \* a call of the database may fail
  MayCrash,      \* a slot may die
  MayOutlive     \* a lock may expire while its slot still runs the job

\* "created": accepted and answered.  "rejected": refused.  "lost": accepted, and the
\* answer never arrives.  "unlinked": a post accepted and answered without its address.
AllOutcomes == {"created", "rejected", "lost", "unlinked"}

ASSUME QueuePublishingConstants ==
  /\ SlugOf \in [Jobs -> Slugs]
  /\ AssetOf \in [Jobs -> Assets]
  /\ Delayed \subseteq Jobs /\ FromComposer \subseteq Jobs
  /\ Invalid \subseteq Jobs /\ Unconfigured \subseteq Jobs
  /\ Unscoped \subseteq Jobs /\ Untracked \subseteq Jobs
  /\ FromComposer \cap Unscoped = {}
  /\ NoJob \notin Jobs
  /\ Outcomes \subseteq AllOutcomes
  /\ OperatorOps \subseteq {"pause", "drain", "retry", "remove"}
  /\ MayThrow \in BOOLEAN /\ MayCrash \in BOOLEAN /\ MayOutlive \in BOOLEAN

VARIABLES
  request,       \* job -> how far the composer's request for it has come
  run,           \* slot -> the job it runs and the step it is at
  media,         \* job -> media uploaded by its runs
  posts,         \* job -> posts created by its runs
  history,       \* job -> history rows written by its runs
  result         \* job -> what the queue was told

vars == <<jobs, paused, request, run, media, posts, history, result>>

remote == <<media, posts>>

-----------------------------------------------------------------------------

Requests == {"none", "checked", "skipped"}

\* The last three are the ways a run ends, to be reported to the queue.
Labels == {"idle", "checking", "uploading", "posting", "persisting",
           "published", "skipped", "failed"}

Run == [label : Labels, job : Jobs \cup {NoJob}]

Idle == [label |-> "idle", job |-> NoJob]

\* A run about to be reported.
Finished == {"published", "skipped", "failed"}

\* The past of a slug.
Recorded(slug) == \E j \in Jobs : SlugOf[j] = slug /\ history[j] > 0

\* Success is recorded only for a job that carries its whole scope.
HasScope(j) == j \notin Unscoped \cup Untracked

Init ==
  /\ JobQueueInit
  /\ request = [j \in Jobs |-> "none"]
  /\ run = [s \in Slots |-> Idle]
  /\ media = [j \in Jobs |-> 0]
  /\ posts = [j \in Jobs |-> 0]
  /\ history = [j \in Jobs |-> 0]
  /\ result = [j \in Jobs |-> "none"]

At(s, label) == run[s].label = label

Go(s, label) == run' = [run EXCEPT ![s].label = label]

Once(count, j) == [count EXCEPT ![j] = @ + 1]

-----------------------------------------------------------------------------
\* Who enqueues.

\* The composer looks at the history first, and enqueues in a later step.
ComposerChecks(j) ==
  /\ j \in FromComposer
  /\ request[j] = "none"
  /\ request' = [request EXCEPT ![j] =
       IF Recorded(SlugOf[j]) THEN "skipped" ELSE "checked"]
  /\ UNCHANGED <<queue, run, remote, history, result>>

Enqueue(j) ==
  /\ j \in FromComposer => request[j] = "checked"
  /\ Add(j, j \in Delayed)
  /\ UNCHANGED <<request, run, remote, history, result>>

\* Time passes: the delay of a schedule or of a backoff ends.
DelayEnds(j) ==
  /\ Promote(j)
  /\ UNCHANGED <<request, run, remote, history, result>>

-----------------------------------------------------------------------------
\* A run of a job.

\* A payload the worker refuses fails the run at once.
Start(s) ==
  /\ At(s, "idle")
  /\ \E j \in Jobs :
       /\ Take(s, j)
       /\ run' = [run EXCEPT ![s] =
            [label |-> IF j \in Invalid THEN "failed"
                       ELSE IF j \in Unscoped THEN "uploading" ELSE "checking", job |-> j]]
  /\ UNCHANGED <<request, remote, history, result>>

\* Faulty variant: the duplicate check is left out for retries.
CheckFirstAttempt(s) ==
  /\ At(s, "checking")
  /\ LET j == run[s].job
     IN Go(s, IF jobs[j].made = 0 /\ Recorded(SlugOf[j]) THEN "skipped" ELSE "uploading")
  /\ UNCHANGED <<queue, request, remote, history, result>>

\* Faulty variant: the history is searched by the job instead of the slug.
CheckByJob(s) ==
  /\ At(s, "checking")
  /\ LET j == run[s].job
     IN Go(s, IF history[j] > 0 THEN "skipped" ELSE "uploading")
  /\ UNCHANGED <<queue, request, remote, history, result>>

\* Faulty variant: the slug is left out of the search.
CheckAnySlug(s) ==
  /\ At(s, "checking")
  /\ Go(s, IF \E slug \in Slugs : Recorded(slug) THEN "skipped" ELSE "uploading")
  /\ UNCHANGED <<queue, request, remote, history, result>>

\* Duplicate detection; then the publisher is built, which may fail.
Check(s) ==
  /\ At(s, "checking")
  /\ LET j == run[s].job
     IN \/ Go(s, IF Recorded(SlugOf[j]) THEN "skipped" ELSE "uploading")
        \/ MayThrow /\ Go(s, "failed")
  /\ UNCHANGED <<queue, request, remote, history, result>>

\* Faulty variant: the result of the upload is not looked at.
UploadUnchecked(s) ==
  /\ At(s, "uploading")
  /\ \E o \in Outcomes \ {"unlinked"} :
       media' = IF o = "rejected" THEN media ELSE Once(media, run[s].job)
  /\ Go(s, "posting")
  /\ UNCHANGED <<queue, request, posts, history, result>>

\* Media first; if that fails no post is made.
Upload(s) ==
  /\ At(s, "uploading")
  /\ LET j == run[s].job
     IN IF j \in Unconfigured
        THEN Go(s, "failed") /\ UNCHANGED media
        ELSE \E o \in Outcomes \ {"unlinked"} :
               /\ media' = IF o = "rejected" THEN media ELSE Once(media, j)
               /\ Go(s, IF o = "created" THEN "posting" ELSE "failed")
  /\ UNCHANGED <<queue, request, posts, history, result>>

Post(s) ==
  /\ At(s, "posting")
  /\ LET j == run[s].job
     IN \E o \in Outcomes :
          /\ posts' = IF o = "rejected" THEN posts ELSE Once(posts, j)
          /\ Go(s, IF o = "created" /\ HasScope(j) THEN "persisting"
                   ELSE IF o \in {"created", "unlinked"} THEN "published" ELSE "failed")
  /\ UNCHANGED <<queue, request, media, history, result>>

\* The history row; a call that throws may have written it all the same.
Persist(s) ==
  /\ At(s, "persisting")
  /\ \/ history' = Once(history, run[s].job) /\ Go(s, "published")
     \/ MayThrow /\ history' \in {history, Once(history, run[s].job)} /\ Go(s, "failed")
  /\ UNCHANGED <<queue, request, remote, result>>

\* Faulty variant: a failure is returned instead of thrown.
ReportReturned(s) ==
  /\ run[s].label \in Finished
  /\ Complete(s, run[s].job)
  /\ result' = result
  /\ run' = [run EXCEPT ![s] = Idle]
  /\ UNCHANGED <<request, remote, history>>

\* Faulty variant: only a skipped job returns.
ReportThrown(s) ==
  /\ run[s].label \in Finished
  /\ IF At(s, "skipped") THEN Complete(s, run[s].job) ELSE FailAttempt(s, run[s].job)
  /\ result' = result
  /\ run' = [run EXCEPT ![s] = Idle]
  /\ UNCHANGED <<request, remote, history>>

\* A published or skipped job completes; any other throws, for the queue to retry.
Report(s) ==
  /\ run[s].label \in Finished
  /\ LET j == run[s].job
     IN /\ IF At(s, "failed") THEN FailAttempt(s, j) ELSE Complete(s, j)
        /\ result' = IF Holds(s, j) THEN [result EXCEPT ![j] = run[s].label] ELSE result
  /\ run' = [run EXCEPT ![s] = Idle]
  /\ UNCHANGED <<request, remote, history>>

Crash(s) ==
  /\ MayCrash
  /\ ~At(s, "idle")
  /\ run' = [run EXCEPT ![s] = Idle]
  /\ UNCHANGED <<queue, request, remote, history, result>>

\* A slot still runs the job it holds the lock of.
Alive(j) == \E s \in Slots : Holds(s, j) /\ run[s].job = j /\ ~At(s, "idle")

\* Faulty variant: a job whose lock expired is looked after only once.
LockExpiresOnce(j) ==
  /\ Alive(j) => MayOutlive
  /\ jobs[j].stalls < MaxStalls
  /\ Stall(j)
  /\ UNCHANGED <<request, run, remote, history, result>>

LockExpires(j) ==
  /\ Alive(j) => MayOutlive
  /\ Stall(j)
  /\ UNCHANGED <<request, run, remote, history, result>>

-----------------------------------------------------------------------------

Operator ==
  /\ \/ "pause" \in OperatorOps /\ (Pause \/ Resume)
     \/ "drain" \in OperatorOps /\ Drain
     \/ "retry" \in OperatorOps /\ \E j \in Jobs : RetryJob(j)
     \/ "remove" \in OperatorOps /\ \E j \in Jobs : RemoveJob(j)
  /\ UNCHANGED <<request, run, remote, history, result>>

SlotStep(s) ==
  Start(s) \/ Check(s) \/ Upload(s) \/ Post(s) \/ Persist(s) \/ Report(s)

Next ==
  \/ \E j \in Jobs : ComposerChecks(j) \/ Enqueue(j) \/ DelayEnds(j) \/ LockExpires(j)
  \/ \E s \in Slots : SlotStep(s) \/ Crash(s)
  \/ Operator

Spec == Init /\ [][Next]_vars

\* The worker goes on, delays end, and the queue looks for expired locks.  Nobody has to
\* enqueue, to resume or to retry.
Fairness ==
  /\ \A s \in Slots : WF_vars(SlotStep(s))
  /\ \A j \in Jobs : WF_vars(DelayEnds(j)) /\ WF_vars(LockExpires(j) /\ ~Alive(j))

FairSpec == Spec /\ Fairness

-----------------------------------------------------------------------------
\* Properties.

\* Type invariant.
TypeOK ==
  /\ JobQueueTypeOK
  /\ request \in [Jobs -> Requests]
  /\ run \in [Slots -> Run]
  /\ media \in [Jobs -> Nat]
  /\ posts \in [Jobs -> Nat]
  /\ history \in [Jobs -> Nat]
  /\ result \in [Jobs -> {"none"} \cup Finished]

\* Each post of a job comes after a media upload of its own, and each history row after a
\* post of its own: whatever is retried, redelivered or lost, the orchestrator leaves no
\* post without its media, and the history tells of no post that was not made.
EvidenceChain ==
  \A j \in Jobs : history[j] <= posts[j] /\ posts[j] <= media[j]

\* A completed job has been published, by itself or by an earlier job of its slug.
CompletedIsPublished ==
  \A j \in Jobs :
    jobs[j].state = "completed" =>
      \E i \in Jobs : SlugOf[i] = SlugOf[j] /\ posts[i] >= 1 /\ (i = j \/ history[i] >= 1)

\* Retries and redeliveries are bounded, and with them what a job does to the target,
\* even when two slots run it at once.
EffortIsBounded ==
  \A j \in Jobs : media[j] <= Attempts + MaxStalls + jobs[j].manual

\* A slug is posted at most once.
PublishedOnce ==
  \A i, j \in Jobs :
    SlugOf[i] = SlugOf[j] /\ posts[i] > 0 =>
      posts[i] = 1 /\ (i # j => posts[j] = 0)

\* A job that failed, for good or to be retried, has posted nothing: what is retried is a
\* genuine failure.
FailureIsGenuine ==
  \A j \in Jobs :
    jobs[j].state = "failed" \/ (jobs[j].state = "delayed" /\ jobs[j].made > 0) =>
      posts[j] = 0

\* A job skipped as a duplicate had its own content published before.
SkipIsIdempotent ==
  \A j \in Jobs :
    result[j] = "skipped" => \E i \in Jobs : AssetOf[i] = AssetOf[j] /\ posts[i] > 0

\* The slug is in the history, and no run that searches it is beyond that search.
Guarded(slug) ==
  /\ Recorded(slug)
  /\ \A s \in Slots :
       run[s].label \in {"uploading", "posting", "persisting"} =>
         run[s].job \in Unscoped \/ SlugOf[run[s].job] # slug

\* Once a slug is in the history and the runs that passed the check before are over, no
\* job with a project uploads or posts anything of it ever again: by a retry, a redelivery,
\* a schedule made long ago or a retry of the operator's.
HistoryStopsPublishing ==
  [][\A slug \in Slugs :
       Guarded(slug) =>
         /\ Guarded(slug)'
         /\ \A j \in Jobs \ Unscoped :
              SlugOf[j] = slug => media'[j] = media[j] /\ posts'[j] = posts[j]]_vars

\* A job that was added comes to an end, unless the operator pauses the queue.
JobsEnd ==
  \A j \in Jobs : jobs[j].state # "absent" ~> jobs[j].state \in Ended \/ paused

=============================================================================
