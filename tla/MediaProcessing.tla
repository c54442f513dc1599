-------------------------- MODULE MediaProcessing --------------------------
(***************************************************************************)
(* From an upload to a thumbnail: the upload request stores the file,      *)
(* creates the asset and its processing job and puts the job on the        *)
(* processing queue; a slot of the processing worker makes the thumbnail,  *)
(* keeps a record of each attempt and hands the asset over to publishing.  *)
(*                                                                         *)
(* An upload gives its asset a fresh id and schedules one job, so an asset *)
(* stands for its upload, its row, its processing job and the queue's job. *)
(* One call of storage, database or queue per step.  Any of them may fail, *)
(* a slot may die between two, and a job whose lock expired is delivered   *)
(* again, perhaps while its first run goes on.                             *)
(***************************************************************************)
EXTENDS JobQueue

CONSTANTS
  NoAsset,       \* the job of an idle slot
  Unsupported,   \* uploads the route refuses: no file, no name, another type, empty
  Unreadable,    \* files that are not the image they claim to be
  AutoEnqueue,   \* the route puts jobs on the queue
  AutoPublish,   \* a finished thumbnail enqueues a publishing job
  MayThrow,      \* a call may fail, before or after its effect
  MayCrash,      \* a slot may die
  MayOutlive     \* a lock may expire while its slot still runs the job

Assets == Jobs

ASSUME MediaProcessingConstants ==
  /\ NoAsset \notin Assets
  /\ Unsupported \subseteq Assets
  /\ Unreadable \subseteq Assets
  /\ MaxRetries = 0
  /\ {AutoEnqueue, AutoPublish, MayThrow, MayCrash, MayOutlive} \subseteq BOOLEAN

VARIABLES
  upload,        \* asset -> how far its request has come
  files,         \* what is stored, <<asset, "source">> and <<asset, "thumbnail">>
  asset,         \* asset -> status of its row
  job,           \* asset -> status of its processing job's row
  attempts,      \* asset -> the attempt rows of its job
  artifacts,     \* the assets with an artifact row
  handed,        \* asset -> publishing jobs enqueued for it
  run            \* slot -> the asset it processes, the step and its attempt's number

vars == <<jobs, paused, upload, files, asset, job, attempts, artifacts, handed, run>>

request == <<upload, asset>>

rows == <<asset, job, attempts, artifacts>>

-----------------------------------------------------------------------------

Uploads == {"none", "stored", "created", "scheduled", "answered", "failed"}

ProcessingStatuses == {"absent", "pending", "running", "completed", "failed"}

AssetStatuses == {"absent", "pending", "processing", "ready", "failed"}

Attempt == [number : Nat \ {0}, status : ProcessingStatuses \ {"absent", "pending"}]

\* "done" and "thrown" are the ways a run ends, to be reported to the queue.
Labels == {"idle", "loading", "numbering", "attempting", "converting", "recording", "handing",
           "closing", "completing", "failing", "marking", "done", "thrown"}

Run == [label : Labels, asset : Assets \cup {NoAsset}, number : Nat]

Idle == [label |-> "idle", asset |-> NoAsset, number |-> 0]

Stored(a, kind) == <<a, kind>> \in files

Init ==
  /\ JobQueueInit
  /\ upload = [a \in Assets |-> "none"]
  /\ files = {}
  /\ asset = [a \in Assets |-> "absent"]
  /\ job = [a \in Assets |-> "absent"]
  /\ attempts = [a \in Assets |-> {}]
  /\ artifacts = {}
  /\ handed = [a \in Assets |-> 0]
  /\ run = [s \in Slots |-> Idle]

-----------------------------------------------------------------------------
\* The upload request.  What it did is not taken back when a later step fails.

Answer(a, how) == upload' = [upload EXCEPT ![a] = how]

\* Set the status of a row.
Mark(table, a, status) == [table EXCEPT ![a] = status]

\* A request that is refused leaves nothing behind.
StoreFile(a) ==
  /\ upload[a] = "none"
  /\ a \notin Unsupported
  /\ \/ files' = files \cup {<<a, "source">>} /\ Answer(a, "stored")
     \/ MayThrow /\ files' \in {files, files \cup {<<a, "source">>}} /\ Answer(a, "failed")
  /\ UNCHANGED <<queue, rows, handed, run>>

\* Faulty variant: the row is written whether or not the file was.
CreateAssetFirst(a) ==
  /\ upload[a] \in {"stored", "none"}
  /\ asset' = Mark(asset, a, "pending") /\ Answer(a, "created")
  /\ UNCHANGED <<queue, files, job, attempts, artifacts, handed, run>>

CreateAsset(a) ==
  /\ upload[a] = "stored"
  /\ \/ asset' = Mark(asset, a, "pending") /\ Answer(a, "created")
     \/ MayThrow /\ asset' \in {asset, Mark(asset, a, "pending")} /\ Answer(a, "failed")
  /\ UNCHANGED <<queue, files, job, attempts, artifacts, handed, run>>

\* The asset is new, so no job is found and one is created.
ScheduleJob(a) ==
  /\ upload[a] = "created"
  /\ \/ job' = Mark(job, a, "pending")
        /\ Answer(a, IF AutoEnqueue THEN "scheduled" ELSE "answered")
     \/ MayThrow /\ job' \in {job, Mark(job, a, "pending")} /\ Answer(a, "failed")
  /\ UNCHANGED <<queue, files, asset, attempts, artifacts, handed, run>>

EnqueueJob(a) ==
  /\ upload[a] = "scheduled"
  /\ \/ Add(a, FALSE) /\ upload' \in {Mark(upload, a, "answered")} \cup
                           (IF MayThrow THEN {Mark(upload, a, "failed")} ELSE {})
     \/ MayThrow /\ Answer(a, "failed") /\ UNCHANGED queue
  /\ UNCHANGED <<files, rows, handed, run>>

-----------------------------------------------------------------------------
\* A run of a job.

At(s, label) == run[s].label = label

Go(s, label) == run' = [run EXCEPT ![s].label = label]

Start(s) ==
  /\ At(s, "idle")
  /\ \E a \in Assets :
       Take(s, a) /\ run' = [run EXCEPT ![s] = [label |-> "loading", asset |-> a, number |-> 0]]
  /\ UNCHANGED <<upload, files, rows, handed>>

\* The row is set running whatever it was.
MarkRunning(s) ==
  /\ At(s, "loading")
  /\ LET running == Mark(job, run[s].asset, "running")
     IN \/ job' = running /\ Go(s, "numbering")
        \/ MayThrow /\ job' \in {job, running} /\ Go(s, "thrown")
  /\ UNCHANGED <<queue, upload, files, asset, attempts, artifacts, handed>>

Numbers(a) == {t.number : t \in attempts[a]}

\* Faulty variant: the attempt about to be made is counted already.
NextAttemptNumberSkips(a) ==
  IF attempts[a] = {} THEN 1
  ELSE 2 + CHOOSE n \in Numbers(a) : \A m \in Numbers(a) : m <= n

NextAttemptNumber(a) ==
  IF attempts[a] = {} THEN 1
  ELSE 1 + CHOOSE n \in Numbers(a) : \A m \in Numbers(a) : m <= n

NumberAttempt(s) ==
  /\ At(s, "numbering")
  /\ \/ run' = [run EXCEPT ![s] = [label |-> "attempting", asset |-> run[s].asset,
                                   number |-> NextAttemptNumber(run[s].asset)]]
     \/ MayThrow /\ Go(s, "thrown")
  /\ UNCHANGED <<queue, upload, files, rows, handed>>

\* Of an asset's attempts, the one with this number gets a status.
Closed(a, n, status) ==
  [attempts EXCEPT ![a] = {t \in @ : t.number # n} \cup {[number |-> n, status |-> status]}]

\* Faulty variant: no unique index on the number.
CreateAttemptAnyway(s) ==
  /\ At(s, "attempting")
  /\ attempts' = Closed(run[s].asset, run[s].number, "running") /\ Go(s, "converting")
  /\ UNCHANGED <<queue, upload, files, asset, job, artifacts, handed>>

\* The insert is refused when another run took the number in between, and that is thrown
\* before the run is one that can fail.
CreateAttempt(s) ==
  /\ At(s, "attempting")
  /\ LET a == run[s].asset
         with == Closed(a, run[s].number, "running")
     IN IF run[s].number \in Numbers(a)
        THEN Go(s, "thrown") /\ UNCHANGED attempts
        ELSE \/ attempts' = with /\ Go(s, "converting")
             \/ MayThrow /\ attempts' \in {attempts, with} /\ Go(s, "thrown")
  /\ UNCHANGED <<queue, upload, files, asset, job, artifacts, handed>>

\* Load the asset, read the file, make the thumbnail and store it.
Convert(s) ==
  /\ At(s, "converting")
  /\ LET a == run[s].asset
         thumbnail == files \cup {<<a, "thumbnail">>}
     IN IF asset[a] = "absent" \/ ~Stored(a, "source") \/ a \in Unreadable
        THEN Go(s, "failing") /\ UNCHANGED files
        ELSE \/ files' = thumbnail /\ Go(s, "recording")
             \/ MayThrow /\ files' \in {files, thumbnail} /\ Go(s, "failing")
  /\ UNCHANGED <<queue, upload, rows, handed>>

\* Create or overwrite the artifact's row.
RecordArtifact(s) ==
  /\ At(s, "recording")
  /\ LET with == artifacts \cup {run[s].asset}
     IN \/ artifacts' = with /\ Go(s, IF AutoPublish THEN "handing" ELSE "closing")
        \/ MayThrow /\ artifacts' \in {artifacts, with} /\ Go(s, "failing")
  /\ UNCHANGED <<queue, upload, files, asset, job, attempts, handed>>

\* Read the thumbnail, enrich the metadata and enqueue the publishing job.
HandOver(s) ==
  /\ At(s, "handing")
  /\ LET more == [handed EXCEPT ![run[s].asset] = @ + 1]
     IN \/ handed' = more /\ Go(s, "closing")
        \/ MayThrow /\ handed' \in {handed, more} /\ Go(s, "failing")
  /\ UNCHANGED <<queue, upload, files, rows>>

CloseAttempt(s) ==
  /\ At(s, "closing")
  /\ LET completed == Closed(run[s].asset, run[s].number, "completed")
     IN \/ attempts' = completed /\ Go(s, "completing")
        \/ MayThrow /\ attempts' \in {attempts, completed} /\ Go(s, "failing")
  /\ UNCHANGED <<queue, upload, files, asset, job, artifacts, handed>>

CompleteJob(s) ==
  /\ At(s, "completing")
  /\ LET completed == Mark(job, run[s].asset, "completed")
     IN \/ job' = completed /\ Go(s, "done")
        \/ MayThrow /\ job' \in {job, completed} /\ Go(s, "failing")
  /\ UNCHANGED <<queue, upload, files, asset, attempts, artifacts, handed>>

\* What was thrown inside the attempt is recorded, first on the attempt and then on the
\* job, unless recording it throws as well.
FailTheAttempt(s) ==
  /\ At(s, "failing")
  /\ LET failed == Closed(run[s].asset, run[s].number, "failed")
     IN \/ attempts' = failed /\ Go(s, "marking")
        \/ MayThrow /\ attempts' \in {attempts, failed} /\ Go(s, "thrown")
  /\ UNCHANGED <<queue, upload, files, asset, job, artifacts, handed>>

FailTheJob(s) ==
  /\ At(s, "marking")
  /\ job' \in {Mark(job, run[s].asset, "failed")} \cup (IF MayThrow THEN {job} ELSE {})
  /\ Go(s, "thrown")
  /\ UNCHANGED <<queue, upload, files, asset, attempts, artifacts, handed>>

Report(s) ==
  /\ run[s].label \in {"done", "thrown"}
  /\ IF At(s, "done") THEN Complete(s, run[s].asset) ELSE FailAttempt(s, run[s].asset)
  /\ run' = [run EXCEPT ![s] = Idle]
  /\ UNCHANGED <<upload, files, rows, handed>>

Crash(s) ==
  /\ MayCrash
  /\ ~At(s, "idle")
  /\ run' = [run EXCEPT ![s] = Idle]
  /\ UNCHANGED <<queue, upload, files, rows, handed>>

\* A slot still runs the job it holds the lock of.
Alive(a) == \E s \in Slots : Holds(s, a) /\ run[s].asset = a

\* Faulty variant: nobody looks for the locks of the dead.
LockExpiresAlive(a) ==
  /\ Alive(a) /\ MayOutlive
  /\ Stall(a)
  /\ UNCHANGED <<upload, files, rows, handed, run>>

LockExpires(a) ==
  /\ Alive(a) => MayOutlive
  /\ Stall(a)
  /\ UNCHANGED <<upload, files, rows, handed, run>>

-----------------------------------------------------------------------------

UploadStep(a) == StoreFile(a) \/ CreateAsset(a) \/ ScheduleJob(a) \/ EnqueueJob(a)

SlotStep(s) ==
  \/ Start(s) \/ MarkRunning(s) \/ NumberAttempt(s) \/ CreateAttempt(s) \/ Convert(s)
  \/ RecordArtifact(s) \/ HandOver(s) \/ CloseAttempt(s) \/ CompleteJob(s)
  \/ FailTheAttempt(s) \/ FailTheJob(s) \/ Report(s)

Next ==
  \/ \E a \in Assets : UploadStep(a) \/ LockExpires(a)
  \/ \E s \in Slots : SlotStep(s) \/ Crash(s)

Spec == Init /\ [][Next]_vars

\* The worker goes on and the queue looks for expired locks.  Nobody has to upload.
Fairness ==
  /\ \A s \in Slots : WF_vars(SlotStep(s))
  /\ \A a \in Assets : WF_vars(LockExpires(a) /\ ~Alive(a))

FairSpec == Spec /\ Fairness

-----------------------------------------------------------------------------
\* Properties.

\* Type invariant.
TypeOK ==
  /\ JobQueueTypeOK
  /\ upload \in [Assets -> Uploads]
  /\ files \subseteq Assets \X {"source", "thumbnail"}
  /\ asset \in [Assets -> AssetStatuses]
  /\ job \in [Assets -> ProcessingStatuses]
  /\ \A a \in Assets : attempts[a] \subseteq Attempt
  /\ DOMAIN attempts = Assets
  /\ artifacts \subseteq Assets
  /\ handed \in [Assets -> Nat]
  /\ run \in [Slots -> Run]

\* Whatever fails, dies or is delivered twice, what a row says exists does: an asset has its
\* file, a job its asset, an artifact its thumbnail, and a job that is completed or whose
\* asset was handed to publishing has its artifact.  Nothing is taken back, so this rests on
\* the order in which the request and the run write.
RecordsAreBacked ==
  /\ TypeOK
  /\ \A a \in Assets :
       /\ asset[a] # "absent" => Stored(a, "source")
       /\ job[a] # "absent" => asset[a] # "absent"
       /\ a \in artifacts => Stored(a, "thumbnail")
       /\ job[a] = "completed" \/ handed[a] > 0 => a \in artifacts

\* The runs that are at work on an attempt's row.
Attempting == {s \in Slots : run[s].label \in {"converting", "recording", "handing",
                                               "closing", "completing", "failing", "marking"}}

\* Two runs of one job never write the same attempt row, though both may have been told the
\* same number, and each finds its own row there.
AttemptsAreOwned ==
  /\ \A s \in Attempting : run[s].number \in Numbers(run[s].asset)
  /\ \A s, t \in Attempting :
       s # t /\ run[s].asset = run[t].asset => run[s].number # run[t].number

\* The attempts of a job are numbered without a gap, none is lost, and every publishing job
\* enqueued for the asset has an attempt of its own to show for it.
AttemptsAccount ==
  \A a \in Assets :
    /\ Numbers(a) = 1..Cardinality(attempts[a])
    /\ handed[a] <= Cardinality(attempts[a])
    /\ Cardinality(attempts[a]) <= 1 + jobs[a].stalls

\* A job that is enqueued gets its thumbnail recorded, or the queue gives it up: whatever
\* throws or dies.  Its row need not tell: a second run may set it running again and die.
ProcessingEnds ==
  \A a \in Assets : jobs[a].state # "absent" ~> a \in artifacts \/ jobs[a].state = "failed"

=============================================================================
