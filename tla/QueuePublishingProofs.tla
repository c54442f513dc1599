----------------------- MODULE QueuePublishingProofs -----------------------
(***************************************************************************)
(* Safety of QueuePublishing for every value of its constants: types, a    *)
(* completed job has been published, a recorded slug stays published as it *)
(* is, and every post has its media, every history row its post.           *)
(***************************************************************************)
EXTENDS QueuePublishing, JobQueueProofs

-----------------------------------------------------------------------------
\* Types.

\* A busy slot runs a job.
Busy == \A s \in Slots : ~At(s, "idle") => run[s].job \in Jobs

TypeInv == TypeOK /\ Busy

\* The initial state has its types.
LEMMA TypeInit == Init => TypeInv
<1>1. SUFFICES ASSUME Init PROVE TypeInv
  OBVIOUS
<1>2. JobQueueTypeOK
  <2>1. 0 \in 0..MaxStalls /\ 0 \in 0..MaxManual
    BY JobQueueConstants
  <2>2. [state |-> "absent", made |-> 0, stalls |-> 0, manual |-> 0, lock |-> NoSlot]
          \in JobRecord
    BY <2>1 DEF JobRecord, JobStates
  <2>3. QED
    BY <1>1, <2>2 DEF Init, JobQueueInit, JobQueueTypeOK
<1>3. run \in [Slots -> Run]
  BY <1>1 DEF Init, Run, Idle, Labels
<1>4. Busy
  BY <1>1 DEF Init, Idle, Busy, At
<1>5. QED
  BY <1>1, <1>2, <1>3, <1>4 DEF Init, TypeInv, TypeOK, Requests

\* What a slot's step leaves behind has its types when the slot goes on with its job to
\* another label or becomes idle.
LEMMA RunTypes ==
  ASSUME TypeInv, NEW s \in Slots,
         \/ \E label \in Labels : ~At(s, "idle") /\ Go(s, label)
         \/ run' = [run EXCEPT ![s] = Idle]
         \/ \E label \in Labels, j \in Jobs :
              run' = [run EXCEPT ![s] = [label |-> label, job |-> j]]
  PROVE  run' \in [Slots -> Run] /\ Busy'
<1>1. run \in [Slots -> Run] /\ Busy
  BY DEF TypeInv, TypeOK
<1>2. ASSUME NEW label \in Labels, ~At(s, "idle"), Go(s, label)
      PROVE  run' \in [Slots -> Run] /\ Busy'
  <2>1. run'[s].label = label /\ run'[s].job = run[s].job
    BY <1>1, <1>2 DEF Go, Run
  <2>2. run' \in [Slots -> Run]
    BY <1>1, <1>2 DEF Go, Run
  <2>3. \A r \in Slots : r # s => run'[r] = run[r]
    BY <1>1, <1>2 DEF Go
  <2>4. QED
    BY <1>1, <1>2, <2>1, <2>2, <2>3 DEF Busy, At
<1>3. CASE run' = [run EXCEPT ![s] = Idle]
  <2>1. run' \in [Slots -> Run]
    BY <1>1, <1>3 DEF Idle, Run, Labels
  <2>2. QED
    BY <1>1, <1>3, <2>1 DEF Idle, Busy, At
<1>4. ASSUME NEW label \in Labels, NEW j \in Jobs,
             run' = [run EXCEPT ![s] = [label |-> label, job |-> j]]
      PROVE  run' \in [Slots -> Run] /\ Busy'
  <2>1. run' \in [Slots -> Run]
    BY <1>1, <1>4 DEF Run
  <2>2. QED
    BY <1>1, <1>4, <2>1 DEF Busy, At
<1>5. QED
  BY <1>2, <1>3, <1>4

\* Counting once more keeps a counter a counter.
LEMMA OnceTypes ==
  ASSUME NEW count \in [Jobs -> Nat], NEW j \in Jobs
  PROVE  /\ Once(count, j) \in [Jobs -> Nat]
         /\ \A i \in Jobs : Once(count, j)[i] >= count[i]
         /\ Once(count, j)[j] >= 1
         /\ \A i \in Jobs : i # j => Once(count, j)[i] = count[i]
  BY DEF Once

\* Every step keeps the types.
LEMMA TypeNext ==
  ASSUME TypeInv, [Next]_vars
  PROVE  TypeInv'
<1>0. /\ JobQueueTypeOK /\ TypeOK /\ Busy
      /\ run \in [Slots -> Run]
      /\ media \in [Jobs -> Nat] /\ posts \in [Jobs -> Nat] /\ history \in [Jobs -> Nat]
  BY DEF TypeInv, TypeOK
<1>1. ASSUME NEW j \in Jobs, ComposerChecks(j) \/ Enqueue(j) \/ DelayEnds(j) \/ LockExpires(j)
      PROVE  TypeInv'
  <2>1. run' = run /\ media' = media /\ posts' = posts /\ history' = history /\ result' = result
    BY <1>1 DEF ComposerChecks, Enqueue, DelayEnds, LockExpires, remote
  <2>2. request' \in [Jobs -> Requests]
    BY <1>0, <1>1 DEF ComposerChecks, Enqueue, DelayEnds, LockExpires, TypeOK, Requests
  <2>3. JobQueueTypeOK'
    <3>1. CASE ComposerChecks(j)
      BY <1>0, <3>1 DEF ComposerChecks, queue, JobQueueTypeOK
    <3>2. CASE Enqueue(j)
      <4>1. Add(j, j \in Delayed) /\ (j \in Delayed) \in BOOLEAN
        BY <3>2 DEF Enqueue
      <4>2. QED
        BY <1>0, <4>1, QueueTypes
    <3>3. CASE DelayEnds(j)
      BY <1>0, <3>3, QueueTypes DEF DelayEnds
    <3>4. CASE LockExpires(j)
      BY <1>0, <3>4, QueueTypes DEF LockExpires
    <3>5. QED
      BY <1>1, <3>1, <3>2, <3>3, <3>4
  <2>4. QED
    BY <1>0, <2>1, <2>2, <2>3 DEF TypeInv, TypeOK, Busy, At
<1>2. ASSUME NEW s \in Slots, Start(s) PROVE TypeInv'
  <2>1. PICK j \in Jobs, label \in Labels :
          Take(s, j) /\ run' = [run EXCEPT ![s] = [label |-> label, job |-> j]]
    BY <1>2 DEF Start, Labels
  <2>2. run' \in [Slots -> Run] /\ Busy'
    BY <2>1, RunTypes
  <2>3. JobQueueTypeOK'
    BY <1>0, <2>1, QueueTypes
  <2>4. QED
    BY <1>0, <1>2, <2>2, <2>3 DEF Start, remote, TypeInv, TypeOK
<1>3. ASSUME NEW s \in Slots, Check(s) \/ Upload(s) \/ Post(s) \/ Persist(s) PROVE TypeInv'
  <2>1. ~At(s, "idle") /\ run[s].job \in Jobs
    BY <1>0, <1>3 DEF Check, Upload, Post, Persist, At, Busy
  <2>2. PICK label \in Labels : Go(s, label)
    BY <1>3 DEF Check, Upload, Post, Persist, Labels
  <2>3. run' \in [Slots -> Run] /\ Busy'
    BY <2>1, <2>2, RunTypes
  <2>4. JobQueueTypeOK' /\ request' = request /\ result' = result
    BY <1>0, <1>3 DEF Check, Upload, Post, Persist, queue, JobQueueTypeOK
  <2>5. /\ media' \in {media, Once(media, run[s].job)}
        /\ posts' \in {posts, Once(posts, run[s].job)}
        /\ history' \in {history, Once(history, run[s].job)}
    BY <1>3 DEF Check, Upload, Post, Persist, remote
  <2>6. /\ media' \in [Jobs -> Nat] /\ posts' \in [Jobs -> Nat] /\ history' \in [Jobs -> Nat]
    BY <1>0, <2>1, <2>5, OnceTypes
  <2>7. QED
    BY <1>0, <2>3, <2>4, <2>6 DEF TypeInv, TypeOK
<1>4. ASSUME NEW s \in Slots, Report(s) PROVE TypeInv'
  <2>1. run[s].job \in Jobs
    BY <1>0, <1>4 DEF Report, Finished, At, Busy
  <2>2. FailAttempt(s, run[s].job) \/ Complete(s, run[s].job)
    BY <1>4 DEF Report
  <2>3. JobQueueTypeOK'
    BY <1>0, <2>1, <2>2, QueueTypes
  <2>4. run' \in [Slots -> Run] /\ Busy'
    BY <1>4, RunTypes DEF Report
  <2>5. result' \in [Jobs -> {"none"} \cup Finished]
    BY <1>0, <1>4, <2>1 DEF Report, TypeOK
  <2>6. QED
    BY <1>0, <1>4, <2>3, <2>4, <2>5 DEF Report, remote, TypeInv, TypeOK
<1>5. ASSUME NEW s \in Slots, Crash(s) PROVE TypeInv'
  <2>1. run' \in [Slots -> Run] /\ Busy'
    BY <1>5, RunTypes DEF Crash
  <2>2. QED
    BY <1>0, <1>5, <2>1 DEF Crash, queue, remote, TypeInv, TypeOK, JobQueueTypeOK
<1>6. CASE Operator
  <2>1. JobQueueTypeOK'
    <3>1. CASE Drain \/ Pause \/ Resume
      <4>1. CASE Jobs # {}
        BY <1>0, <3>1, <4>1, QueueTypes
      <4>2. CASE Jobs = {}
        BY <1>0, <3>1, <4>2 DEF Drain, Pause, Resume, JobQueueTypeOK
      <4>3. QED
        BY <4>1, <4>2
    <3>2. ASSUME NEW j \in Jobs, RetryJob(j) \/ RemoveJob(j) PROVE JobQueueTypeOK'
      BY <1>0, <3>2, QueueTypes
    <3>3. QED
      BY <1>6, <3>1, <3>2 DEF Operator
  <2>2. QED
    BY <1>0, <1>6, <2>1 DEF Operator, remote, TypeInv, TypeOK, Busy, At
<1>7. CASE UNCHANGED vars
  BY <1>0, <1>7 DEF vars, TypeInv, TypeOK, JobQueueTypeOK, Busy, At
<1>8. QED
  BY <1>1, <1>2, <1>3, <1>4, <1>5, <1>6, <1>7 DEF Next, SlotStep

\* TypeInv holds in every reachable state.
LEMMA TypeInvariant == Spec => []TypeInv
<1>1. TypeInv /\ [Next]_vars => TypeInv'
  BY TypeNext
<1>2. QED
  BY TypeInit, <1>1, PTL DEF Spec

\* Every variable keeps its type, whoever runs and whatever fails: in particular no job
\* loses its lock more often than allowed before it is failed.
THEOREM TypeCorrect == Spec => []TypeOK
<1>1. TypeInv => TypeOK
  BY DEF TypeInv
<1>2. QED
  BY <1>1, TypeInvariant, PTL

-----------------------------------------------------------------------------
\* What a step does to a slot and to the counters.

\* A slot that moves with Go keeps its job.
LEMMA GoKeepsJob ==
  ASSUME TypeInv, NEW s \in Slots, NEW label, Go(s, label)
  PROVE  /\ run'[s].label = label /\ run'[s].job = run[s].job
         /\ \A r \in Slots : r # s => run'[r] = run[r]
  BY DEF Go, TypeInv, TypeOK, Run

\* A slot stays, becomes idle, or takes one of its own steps.
LEMMA SlotMoves ==
  ASSUME TypeInv, [Next]_vars, NEW r \in Slots
  PROVE  \/ run'[r] = run[r]
         \/ run'[r] = Idle
         \/ Start(r) \/ Check(r) \/ Upload(r) \/ Post(r) \/ Persist(r)
<1>1. run \in [Slots -> Run]
  BY DEF TypeInv, TypeOK
<1>2. CASE run' = run
  BY <1>2
<1>3. ASSUME NEW s \in Slots, SlotStep(s) \/ Crash(s)
      PROVE  \/ run'[r] = run[r]
             \/ run'[r] = Idle
             \/ Start(r) \/ Check(r) \/ Upload(r) \/ Post(r) \/ Persist(r)
  <2>1. CASE Report(s) \/ Crash(s)
    BY <1>1, <2>1 DEF Report, Crash
  <2>2. CASE Start(s)
    <3>1. PICK entry \in Run : run' = [run EXCEPT ![s] = entry]
      BY <2>2 DEF Start, Run, Labels
    <3>2. QED
      BY <1>1, <2>2, <3>1
  <2>3. CASE Check(s) \/ Upload(s) \/ Post(s) \/ Persist(s)
    <3>1. PICK label \in Labels : Go(s, label)
      BY <2>3 DEF Check, Upload, Post, Persist, Labels
    <3>2. QED
      BY <2>3, <3>1, GoKeepsJob
  <2>4. QED
    BY <1>3, <2>1, <2>2, <2>3 DEF SlotStep
<1>4. ASSUME NEW j \in Jobs, ComposerChecks(j) \/ Enqueue(j) \/ DelayEnds(j) \/ LockExpires(j)
      PROVE  run' = run
  BY <1>4 DEF ComposerChecks, Enqueue, DelayEnds, LockExpires
<1>5. CASE Operator
  BY <1>2, <1>5 DEF Operator
<1>6. CASE UNCHANGED vars
  BY <1>2, <1>6 DEF vars
<1>7. QED
  BY <1>2, <1>3, <1>4, <1>5, <1>6 DEF Next

\* The counters move only in the slots' steps, each for the job the slot runs.
LEMMA CountersMove ==
  ASSUME TypeInv, [Next]_vars
  PROVE  \/ media' = media /\ posts' = posts /\ history' = history
         \/ \E s \in Slots :
              /\ run[s].job \in Jobs
              /\ \/ /\ Upload(s) /\ media' = Once(media, run[s].job)
                    /\ posts' = posts /\ history' = history
                 \/ /\ Post(s) /\ posts' = Once(posts, run[s].job)
                    /\ media' = media /\ history' = history
                 \/ /\ Persist(s) /\ history' = Once(history, run[s].job)
                    /\ media' = media /\ posts' = posts
<1>1. ASSUME NEW s \in Slots, Upload(s) \/ Post(s) \/ Persist(s) PROVE run[s].job \in Jobs
  BY <1>1 DEF Upload, Post, Persist, At, TypeInv, Busy
<1>2. ASSUME NEW s \in Slots, Upload(s)
      PROVE  media' \in {media, Once(media, run[s].job)} /\ posts' = posts /\ history' = history
  BY <1>2 DEF Upload
<1>3. ASSUME NEW s \in Slots, Post(s)
      PROVE  posts' \in {posts, Once(posts, run[s].job)} /\ media' = media /\ history' = history
  BY <1>3 DEF Post
<1>4. ASSUME NEW s \in Slots, Persist(s)
      PROVE  history' \in {history, Once(history, run[s].job)} /\ media' = media /\ posts' = posts
  BY <1>4 DEF Persist, remote
<1>5. ASSUME NEW s \in Slots, Start(s) \/ Check(s) \/ Report(s) \/ Crash(s)
      PROVE  media' = media /\ posts' = posts /\ history' = history
  BY <1>5 DEF Start, Check, Report, Crash, remote
<1>6. ASSUME NEW j \in Jobs, ComposerChecks(j) \/ Enqueue(j) \/ DelayEnds(j) \/ LockExpires(j)
      PROVE  media' = media /\ posts' = posts /\ history' = history
  BY <1>6 DEF ComposerChecks, Enqueue, DelayEnds, LockExpires, remote
<1>7. CASE Operator \/ UNCHANGED vars
  BY <1>7 DEF Operator, vars, remote
<1>8. QED
  BY <1>1, <1>2, <1>3, <1>4, <1>5, <1>6, <1>7 DEF Next, SlotStep

\* Media, posts and history rows are never taken back.
LEMMA CountersGrow ==
  ASSUME TypeInv, [Next]_vars, NEW j \in Jobs
  PROVE  /\ posts[j] \in Nat /\ posts'[j] \in Nat /\ posts'[j] >= posts[j]
         /\ history[j] \in Nat /\ history'[j] \in Nat /\ history'[j] >= history[j]
<1>1. /\ media \in [Jobs -> Nat] /\ posts \in [Jobs -> Nat] /\ history \in [Jobs -> Nat]
  BY DEF TypeInv, TypeOK
<1>2. /\ posts' \in [Jobs -> Nat] /\ history' \in [Jobs -> Nat]
  BY TypeNext DEF TypeInv, TypeOK
<1>3. QED
  BY <1>1, <1>2, CountersMove, OnceTypes

-----------------------------------------------------------------------------
\* A completed job has been published.

\* The job was posted, or an earlier job of its slug was, which the history tells.
Published(j) ==
  \E i \in Jobs : SlugOf[i] = SlugOf[j] /\ posts[i] >= 1 /\ (i = j \/ history[i] >= 1)

\* What the history and the runs know of the target.
HistoryIsPosted == \A j \in Jobs : history[j] >= 1 => posts[j] >= 1

PersistsPosted == \A s \in Slots : At(s, "persisting") => posts[run[s].job] >= 1

ReportsPublished == \A s \in Slots : run[s].label \in {"published", "skipped"} =>
                                       Published(run[s].job)

CompletedInv ==
  /\ TypeInv
  /\ HistoryIsPosted
  /\ PersistsPosted
  /\ ReportsPublished
  /\ CompletedIsPublished

\* What is published stays published.
LEMMA PublishedStays ==
  ASSUME TypeInv, [Next]_vars, NEW j \in Jobs, Published(j)
  PROVE  Published(j)'
<1>1. PICK i \in Jobs : SlugOf[i] = SlugOf[j] /\ posts[i] >= 1 /\ (i = j \/ history[i] >= 1)
  BY DEF Published
<1>2. posts'[i] >= 1 /\ (i = j \/ history'[i] >= 1)
  BY <1>1, CountersGrow
<1>3. QED
  BY <1>1, <1>2 DEF Published

\* Only a report of a run that did not fail completes a job.
LEMMA OnlyReportsComplete ==
  ASSUME TypeInv, [Next]_vars, NEW j \in Jobs,
         jobs[j].state # "completed", jobs'[j].state = "completed"
  PROVE  \E s \in Slots : run[s].job = j /\ run[s].label \in {"published", "skipped"}
<1>1. jobs \in [Jobs -> JobRecord]
  BY DEF TypeInv, TypeOK, JobQueueTypeOK
<1>2. ASSUME NEW i \in Jobs, NEW state \in JobStates \ {"completed"}, NEW made, NEW stalls,
             Put(i, state, made, stalls)
      PROVE  FALSE
  BY <1>1, <1>2 DEF Put
<1>3. ASSUME NEW i \in Jobs, ComposerChecks(i) \/ Enqueue(i) \/ DelayEnds(i) \/ LockExpires(i)
      PROVE  FALSE
  <2>1. CASE ComposerChecks(i)
    BY <2>1 DEF ComposerChecks, queue
  <2>2. CASE Enqueue(i)
    <3>1. PICK state \in {"delayed", "waiting"} : Put(i, state, 0, 0)
      BY <2>2 DEF Enqueue, Add
    <3>2. QED
      BY <1>2, <3>1 DEF JobStates
  <2>3. CASE DelayEnds(i)
    BY <1>2, <2>3 DEF DelayEnds, Promote, JobStates
  <2>4. CASE LockExpires(i)
    BY <1>2, <2>4 DEF LockExpires, Stall, JobStates
  <2>5. QED
    BY <1>3, <2>1, <2>2, <2>3, <2>4
<1>4. CASE Operator
  <2>1. CASE Pause \/ Resume
    BY <2>1 DEF Pause, Resume
  <2>2. CASE Drain
    BY <1>1, <2>2 DEF Drain, JobRecord
  <2>3. ASSUME NEW i \in Jobs, RetryJob(i) PROVE FALSE
    BY <1>1, <2>3 DEF RetryJob
  <2>4. ASSUME NEW i \in Jobs, RemoveJob(i) PROVE FALSE
    BY <1>2, <2>4 DEF RemoveJob, JobStates
  <2>5. QED
    BY <1>4, <2>1, <2>2, <2>3, <2>4 DEF Operator
<1>5. ASSUME NEW s \in Slots, SlotStep(s) \/ Crash(s)
      PROVE  run[s].job = j /\ run[s].label \in {"published", "skipped"}
  <2>1. CASE Start(s)
    <3>1. PICK i \in Jobs : Take(s, i)
      BY <2>1 DEF Start
    <3>2. QED
      BY <1>1, <3>1 DEF Take
  <2>2. CASE Check(s) \/ Upload(s) \/ Post(s) \/ Persist(s) \/ Crash(s)
    BY <2>2 DEF Check, Upload, Post, Persist, Crash, queue
  <2>3. CASE Report(s)
    <3>1. run[s].job \in Jobs /\ run[s].label \in Finished
      BY <2>3 DEF Report, Finished, At, TypeInv, Busy
    <3>2. CASE At(s, "failed")
      <4>1. FailAttempt(s, run[s].job)
        BY <2>3, <3>2 DEF Report
      <4>2. QED
        BY <1>2, <3>1, <4>1 DEF FailAttempt, JobStates
    <3>3. CASE ~At(s, "failed")
      <4>1. Complete(s, run[s].job)
        BY <2>3, <3>3 DEF Report
      <4>2. Put(run[s].job, "completed", jobs[run[s].job].made, jobs[run[s].job].stalls)
        BY <4>1 DEF Complete
      <4>3. run[s].job = j
        BY <1>1, <3>1, <4>2 DEF Put
      <4>4. QED
        BY <3>1, <3>3, <4>3 DEF At, Finished
    <3>4. QED
      BY <3>2, <3>3
  <2>4. QED
    BY <1>5, <2>1, <2>2, <2>3 DEF SlotStep
<1>6. CASE UNCHANGED vars
  BY <1>6 DEF vars
<1>7. QED
  BY <1>3, <1>4, <1>5, <1>6 DEF Next

\* CompletedInv is inductive.
LEMMA CompletedNext ==
  ASSUME CompletedInv, [Next]_vars
  PROVE  CompletedInv'
<1>0. /\ TypeInv /\ HistoryIsPosted /\ PersistsPosted /\ ReportsPublished
      /\ CompletedIsPublished
      /\ run \in [Slots -> Run] /\ jobs \in [Jobs -> JobRecord]
      /\ posts \in [Jobs -> Nat] /\ history \in [Jobs -> Nat]
  BY DEF CompletedInv, TypeInv, TypeOK, JobQueueTypeOK
<1>1. TypeInv'
  BY <1>0, TypeNext
<1>2. HistoryIsPosted'
  <2>1. SUFFICES ASSUME NEW j \in Jobs, history'[j] >= 1 PROVE posts'[j] >= 1
    BY DEF HistoryIsPosted
  <2>2. CASE history[j] >= 1
    BY <1>0, <2>2, CountersGrow DEF HistoryIsPosted
  <2>3. CASE ~(history[j] >= 1)
    <3>1. history'[j] # history[j]
      BY <2>1, <2>3
    <3>2. PICK s \in Slots : Persist(s) /\ run[s].job \in Jobs
                             /\ history' = Once(history, run[s].job)
      BY <1>0, <3>1, CountersMove
    <3>3. run[s].job = j
      BY <1>0, <3>1, <3>2, OnceTypes
    <3>4. posts[j] >= 1
      BY <1>0, <3>2, <3>3 DEF Persist, PersistsPosted
    <3>5. QED
      BY <1>0, <3>4, CountersGrow
  <2>4. QED
    BY <2>2, <2>3
<1>3. PersistsPosted'
  <2>1. SUFFICES ASSUME NEW r \in Slots, run'[r].label = "persisting"
                 PROVE  posts'[run'[r].job] >= 1
    BY DEF PersistsPosted, At
  <2>2. CASE run'[r] = run[r]
    <3>1. run[r].job \in Jobs /\ posts[run[r].job] >= 1
      BY <1>0, <2>1, <2>2 DEF PersistsPosted, At, TypeInv, Busy
    <3>2. QED
      BY <1>0, <2>2, <3>1, CountersGrow
  <2>3. CASE Post(r)
    <3>1. run[r].job \in Jobs
      BY <1>0, <2>3 DEF Post, At, TypeInv, Busy
    <3>2. PICK o \in Outcomes :
            /\ posts' = IF o = "rejected" THEN posts ELSE Once(posts, run[r].job)
            /\ Go(r, IF o = "created" /\ HasScope(run[r].job) THEN "persisting"
                     ELSE IF o \in {"created", "unlinked"} THEN "published" ELSE "failed")
      BY <2>3 DEF Post
    <3>3. o = "created" /\ run'[r].job = run[r].job
      BY <1>0, <2>1, <3>2, GoKeepsJob
    <3>4. QED
      BY <1>0, <3>1, <3>2, <3>3, OnceTypes
  <2>4. CASE Start(r) \/ Check(r) \/ Upload(r) \/ Persist(r)
    <3>1. PICK label \in Labels \ {"persisting"}, job \in Jobs \cup {NoJob} :
            run' = [run EXCEPT ![r] = [label |-> label, job |-> job]] \/ Go(r, label)
      BY <2>4 DEF Start, Check, Upload, Persist, Labels
    <3>2. run'[r].label = label
      BY <1>0, <3>1, GoKeepsJob
    <3>3. QED
      BY <2>1, <3>1, <3>2
  <2>5. run'[r] # Idle
    BY <2>1 DEF Idle
  <2>6. QED
    BY <1>0, <2>2, <2>3, <2>4, <2>5, SlotMoves
<1>4. ReportsPublished'
  <2>1. SUFFICES ASSUME NEW r \in Slots, run'[r].label \in {"published", "skipped"},
                        NEW job, job = run'[r].job
                 PROVE  Published(job)'
    BY DEF ReportsPublished
  <2>2. job \in Jobs
    BY <1>1, <2>1 DEF TypeInv, Busy, At
  <2>3. CASE run'[r] = run[r]
    <3>1. Published(job)
      BY <1>0, <2>1, <2>3 DEF ReportsPublished
    <3>2. QED
      BY <1>0, <2>2, <3>1, PublishedStays
  <2>4. CASE Check(r)
    <3>1. run'[r].label = "skipped" /\ run'[r].job = run[r].job /\ Recorded(SlugOf[run[r].job])
      BY <1>0, <2>1, <2>4, GoKeepsJob DEF Check
    <3>2. Published(job)
      BY <1>0, <2>1, <3>1 DEF Recorded, Published, HistoryIsPosted
    <3>3. QED
      BY <1>0, <2>2, <3>2, PublishedStays
  <2>5. CASE Post(r)
    <3>1. PICK o \in Outcomes :
            /\ posts' = IF o = "rejected" THEN posts ELSE Once(posts, run[r].job)
            /\ Go(r, IF o = "created" /\ HasScope(run[r].job) THEN "persisting"
                     ELSE IF o \in {"created", "unlinked"} THEN "published" ELSE "failed")
      BY <2>5 DEF Post
    <3>2. o # "rejected" /\ run'[r].job = run[r].job
      BY <1>0, <2>1, <3>1, GoKeepsJob
    <3>3. posts'[job] >= 1
      BY <1>0, <2>1, <2>2, <3>1, <3>2, OnceTypes
    <3>4. QED
      BY <2>2, <3>3 DEF Published
  <2>6. CASE Persist(r)
    <3>1. run'[r].job = run[r].job
      BY <1>0, <2>6, GoKeepsJob DEF Persist
    <3>2. posts[job] >= 1
      BY <1>0, <2>1, <2>6, <3>1 DEF Persist, PersistsPosted
    <3>3. Published(job)
      BY <2>2, <3>2 DEF Published
    <3>4. QED
      BY <1>0, <2>2, <3>3, PublishedStays
  <2>7. CASE Start(r) \/ Upload(r)
    <3>1. PICK label \in Labels \ {"published", "skipped"}, other \in Jobs \cup {NoJob} :
            run' = [run EXCEPT ![r] = [label |-> label, job |-> other]] \/ Go(r, label)
      BY <2>7 DEF Start, Upload, Labels
    <3>2. run'[r].label = label
      BY <1>0, <3>1, GoKeepsJob
    <3>3. QED
      BY <2>1, <3>1, <3>2
  <2>8. run'[r] # Idle
    BY <2>1 DEF Idle
  <2>9. QED
    BY <1>0, <2>3, <2>4, <2>5, <2>6, <2>7, <2>8, SlotMoves
<1>5. CompletedIsPublished'
  <2>1. SUFFICES ASSUME NEW j \in Jobs, jobs'[j].state = "completed"
                 PROVE  Published(j)'
    BY DEF CompletedIsPublished, Published
  <2>2. Published(j)
    <3>1. CASE jobs[j].state = "completed"
      BY <1>0, <3>1 DEF CompletedIsPublished, Published
    <3>2. CASE jobs[j].state # "completed"
      BY <1>0, <2>1, <3>2, OnlyReportsComplete DEF ReportsPublished
    <3>3. QED
      BY <3>1, <3>2
  <2>3. QED
    BY <1>0, <2>2, PublishedStays
<1>6. QED
  BY <1>1, <1>2, <1>3, <1>4, <1>5 DEF CompletedInv

\* CompletedInv holds initially.
LEMMA CompletedInit == Init => CompletedInv
<1>1. SUFFICES ASSUME Init PROVE CompletedInv
  OBVIOUS
<1>2. /\ \A j \in Jobs : history[j] = 0 /\ jobs[j].state = "absent"
      /\ \A s \in Slots : run[s].label = "idle"
  BY <1>1 DEF Init, JobQueueInit, Idle
<1>3. QED
  BY <1>1, <1>2, TypeInit
     DEF CompletedInv, HistoryIsPosted, PersistsPosted, ReportsPublished,
         CompletedIsPublished, At

\* The queue calls a job completed only when its post was made, by one of its own runs or
\* by a job of the same slug whose history row was found: whatever is retried, redelivered,
\* removed or reported by a slot that has lost its lock.
THEOREM CompletedJobsArePublished == Spec => []CompletedIsPublished
<1>1. CompletedInv /\ [Next]_vars => CompletedInv'
  BY CompletedNext
<1>2. CompletedInv => CompletedIsPublished
  BY DEF CompletedInv
<1>3. QED
  BY CompletedInit, <1>1, <1>2, PTL DEF Spec

-----------------------------------------------------------------------------
\* The history guards its slugs.

\* A run is beyond the search of the history.
Beyond == {"uploading", "posting", "persisting"}

\* A recorded slug stays recorded.
LEMMA RecordedStays ==
  ASSUME TypeInv, [Next]_vars, NEW slug \in Slugs, Recorded(slug)
  PROVE  Recorded(slug)'
<1>1. PICK j \in Jobs : SlugOf[j] = slug /\ history[j] > 0
  BY DEF Recorded
<1>2. history'[j] > 0
  BY <1>1, CountersGrow
<1>3. QED
  BY <1>1, <1>2 DEF Recorded

\* No run that searches the history gets beyond the search for a recorded slug.
LEMMA GuardHolds ==
  ASSUME TypeInv, [Next]_vars, NEW slug \in Slugs, Guarded(slug),
         NEW r \in Slots, run'[r].label \in Beyond
  PROVE  run'[r].job \in Unscoped \/ SlugOf[run'[r].job] # slug
<1>0. /\ run \in [Slots -> Run]
      /\ Recorded(slug)
      /\ \A s \in Slots : run[s].label \in Beyond =>
                            run[s].job \in Unscoped \/ SlugOf[run[s].job] # slug
  BY DEF TypeInv, TypeOK, Guarded, Beyond
<1>1. CASE run'[r] = run[r]
  BY <1>0, <1>1
<1>2. CASE Start(r)
  <2>1. PICK j \in Jobs :
          run' = [run EXCEPT ![r] =
            [label |-> IF j \in Invalid THEN "failed"
                       ELSE IF j \in Unscoped THEN "uploading" ELSE "checking", job |-> j]]
    BY <1>2 DEF Start
  <2>2. run'[r].job = j /\ (j \notin Unscoped => run'[r].label \in {"failed", "checking"})
    BY <1>0, <2>1
  <2>3. QED
    BY <2>2 DEF Beyond
<1>3. CASE Check(r)
  <2>1. CASE Go(r, IF Recorded(SlugOf[run[r].job]) THEN "skipped" ELSE "uploading")
    <3>1. run'[r].job = run[r].job /\ ~Recorded(SlugOf[run[r].job])
      BY <2>1, GoKeepsJob DEF Beyond
    <3>2. QED
      BY <1>0, <3>1
  <2>2. CASE Go(r, "failed")
    BY <2>2, GoKeepsJob DEF Beyond
  <2>3. QED
    BY <1>3, <2>1, <2>2 DEF Check
<1>4. CASE Upload(r) \/ Post(r) \/ Persist(r)
  <2>1. run[r].label \in Beyond
    BY <1>4 DEF Upload, Post, Persist, At, Beyond
  <2>2. PICK label \in Labels : Go(r, label)
    BY <1>4 DEF Upload, Post, Persist, Labels
  <2>3. run'[r].job = run[r].job
    BY <2>2, GoKeepsJob
  <2>4. QED
    BY <1>0, <2>1, <2>3
<1>5. run'[r] # Idle
  BY DEF Idle, Beyond
<1>6. QED
  BY <1>1, <1>2, <1>3, <1>4, <1>5, SlotMoves

\* A guarded slug stays guarded, and nothing of it is uploaded or posted.
LEMMA GuardedStep ==
  ASSUME TypeInv, [Next]_vars, NEW slug \in Slugs, Guarded(slug)
  PROVE  /\ Guarded(slug)'
         /\ \A j \in Jobs \ Unscoped :
              SlugOf[j] = slug => media'[j] = media[j] /\ posts'[j] = posts[j]
<1>1. Guarded(slug)'
  BY RecordedStays, GuardHolds DEF Guarded, Beyond
<1>2. ASSUME NEW j \in Jobs \ Unscoped, SlugOf[j] = slug
      PROVE  media'[j] = media[j] /\ posts'[j] = posts[j]
  <2>1. ASSUME NEW s \in Slots, Upload(s) \/ Post(s), run[s].job \in Jobs
        PROVE  run[s].job # j
    BY <1>2, <2>1 DEF Upload, Post, At, Guarded
  <2>2. media \in [Jobs -> Nat] /\ posts \in [Jobs -> Nat]
    BY DEF TypeInv, TypeOK
  <2>3. CASE media' = media /\ posts' = posts
    BY <2>3
  <2>4. ASSUME NEW s \in Slots, run[s].job \in Jobs, Upload(s),
               media' = Once(media, run[s].job), posts' = posts
        PROVE  media'[j] = media[j] /\ posts'[j] = posts[j]
    BY <2>1, <2>2, <2>4, OnceTypes
  <2>5. ASSUME NEW s \in Slots, run[s].job \in Jobs, Post(s),
               posts' = Once(posts, run[s].job), media' = media
        PROVE  media'[j] = media[j] /\ posts'[j] = posts[j]
    BY <2>1, <2>2, <2>5, OnceTypes
  <2>6. QED
    BY <2>3, <2>4, <2>5, CountersMove
<1>3. QED
  BY <1>1, <1>2

\* Once a slug is in the history and the runs that passed the duplicate check before are
\* over, no run of a job with a project uploads or posts for it again.
THEOREM HistoryGuardsSlugs == Spec => HistoryStopsPublishing
<1>1. TypeInv /\ [Next]_vars =>
        [\A slug \in Slugs :
           Guarded(slug) =>
             /\ Guarded(slug)'
             /\ \A j \in Jobs \ Unscoped :
                  SlugOf[j] = slug => media'[j] = media[j] /\ posts'[j] = posts[j]]_vars
  BY GuardedStep
<1>2. QED
  BY TypeInvariant, <1>1, PTL DEF Spec, HistoryStopsPublishing

-----------------------------------------------------------------------------
\* A post has its media, a history row its post.

\* The slots at a label with a job: each has media it has not posted with, or a post it has
\* not recorded.
Holding(j, label) == {s \in Slots : run[s].label = label /\ run[s].job = j}

EvidenceInv ==
  /\ TypeInv
  /\ \A j \in Jobs :
       /\ history[j] + Cardinality(Holding(j, "persisting")) <= posts[j]
       /\ posts[j] + Cardinality(Holding(j, "posting")) <= media[j]

\* How the slots at a label with a job are counted when one slot moves.
LEMMA HoldingCounts ==
  ASSUME NEW s \in Slots, \A r \in Slots : r # s => run'[r] = run[r],
         NEW j \in Jobs, NEW label
  PROVE  /\ Cardinality(Holding(j, label)) \in Nat
         /\ Cardinality(Holding(j, label)') \in Nat
         /\ Cardinality(Holding(j, label)') <= Cardinality(Holding(j, label)) + 1
         /\ s \notin Holding(j, label)' =>
              /\ Cardinality(Holding(j, label)') <= Cardinality(Holding(j, label))
              /\ s \in Holding(j, label) =>
                   Cardinality(Holding(j, label)') + 1 = Cardinality(Holding(j, label))
<1> DEFINE old == Holding(j, label)
           new == Holding(j, label)'
<1>1. IsFiniteSet(old) /\ IsFiniteSet(new)
  <2>1. old \subseteq Slots /\ new \subseteq Slots
    BY DEF Holding
  <2>2. QED
    BY <2>1, FS_Subset, JobQueueConstants
<1>2. Cardinality(old) \in Nat /\ Cardinality(new) \in Nat
  BY <1>1, FS_CardinalityType
<1>3. new \subseteq old \cup {s}
  BY DEF Holding
<1>4. old \subseteq new \cup {s}
  BY DEF Holding
<1>5. CASE s \in new
  <2>1. Cardinality(new) <= Cardinality(old \cup {s}) /\ IsFiniteSet(old \cup {s})
    BY <1>1, <1>3, FS_AddElement, FS_Subset
  <2>2. Cardinality(old \cup {s}) \in {Cardinality(old), Cardinality(old) + 1}
    BY <1>1, FS_AddElement
  <2>3. QED
    BY <1>2, <1>5, <2>1, <2>2, FS_CardinalityType
<1>6. CASE s \notin new
  <2>1. new = old \ {s}
    BY <1>3, <1>4, <1>6
  <2>2. Cardinality(new) = IF s \in old THEN Cardinality(old) - 1 ELSE Cardinality(old)
    BY <1>1, <2>1, FS_RemoveElement
  <2>3. QED
    BY <1>2, <1>6, <2>2
<1>7. QED
  BY <1>5, <1>6

\* A step that moves no slot counts them as before.
LEMMA HoldingStays ==
  ASSUME run' = run, NEW j \in Jobs, NEW label
  PROVE  Holding(j, label)' = Holding(j, label)
  BY DEF Holding

\* EvidenceInv is inductive.
LEMMA EvidenceNext ==
  ASSUME EvidenceInv, [Next]_vars
  PROVE  EvidenceInv'
<1>0. /\ TypeInv
      /\ run \in [Slots -> Run]
      /\ media \in [Jobs -> Nat] /\ posts \in [Jobs -> Nat] /\ history \in [Jobs -> Nat]
  BY DEF EvidenceInv, TypeInv, TypeOK
<1>1. TypeInv'
  BY <1>0, TypeNext
<1>2. SUFFICES ASSUME NEW j \in Jobs
               PROVE  /\ history'[j] + Cardinality(Holding(j, "persisting")') <= posts'[j]
                      /\ posts'[j] + Cardinality(Holding(j, "posting")') <= media'[j]
  BY <1>1 DEF EvidenceInv
<1> DEFINE Persisting == Cardinality(Holding(j, "persisting"))
           Posting == Cardinality(Holding(j, "posting"))
           PersistingNext == Cardinality(Holding(j, "persisting")')
           PostingNext == Cardinality(Holding(j, "posting")')
           Goal == /\ history'[j] + PersistingNext <= posts'[j]
                   /\ posts'[j] + PostingNext <= media'[j]
<1>3. history[j] + Persisting <= posts[j] /\ posts[j] + Posting <= media[j]
  BY DEF EvidenceInv
<1>4. history[j] \in Nat /\ posts[j] \in Nat /\ media[j] \in Nat
  BY <1>0
<1>5. ASSUME run' = run, media' = media, posts' = posts, history' = history
      PROVE  Goal
  BY <1>3, <1>5, HoldingStays
<1>6. ASSUME NEW s \in Slots, SlotStep(s) \/ Crash(s)
      PROVE  Goal
  <2>1. \A r \in Slots : r # s => run'[r] = run[r]
    <3>1. CASE Report(s) \/ Crash(s) \/ Start(s)
      BY <1>0, <3>1 DEF Report, Crash, Start
    <3>2. CASE Check(s) \/ Upload(s) \/ Post(s) \/ Persist(s)
      <4>1. PICK label \in Labels : Go(s, label)
        BY <3>2 DEF Check, Upload, Post, Persist, Labels
      <4>2. QED
        BY <1>0, <4>1, GoKeepsJob
    <3>3. QED
      BY <1>6, <3>1, <3>2 DEF SlotStep
  <2>2. /\ Persisting \in Nat /\ PersistingNext \in Nat
        /\ Posting \in Nat /\ PostingNext \in Nat
        /\ PersistingNext <= Persisting + 1
        /\ PostingNext <= Posting + 1
    BY <2>1, HoldingCounts
  <2>3. s \notin Holding(j, "persisting")' =>
          /\ PersistingNext <= Persisting
          /\ s \in Holding(j, "persisting") => PersistingNext + 1 = Persisting
    BY <2>1, HoldingCounts
  <2>4. s \notin Holding(j, "posting")' =>
          /\ PostingNext <= Posting
          /\ s \in Holding(j, "posting") => PostingNext + 1 = Posting
    BY <2>1, HoldingCounts
  <2>5. ASSUME run'[s].label \notin {"posting", "persisting"},
               media' = media, posts' = posts, history' = history
        PROVE  Goal
    <3>1. s \notin Holding(j, "persisting")' /\ s \notin Holding(j, "posting")'
      BY <2>5 DEF Holding
    <3>2. QED
      BY <1>3, <1>4, <2>2, <2>3, <2>4, <2>5, <3>1
  <2>6. CASE Start(s) \/ Report(s) \/ Crash(s)
    <3>1. run'[s].label \notin {"posting", "persisting"}
      BY <1>0, <2>6 DEF Start, Report, Crash, Idle
    <3>2. QED
      BY <2>5, <2>6, <3>1 DEF Start, Report, Crash, remote
  <2>7. CASE Check(s)
    <3>1. PICK label \in {"skipped", "uploading", "failed"} : Go(s, label)
      BY <2>7 DEF Check
    <3>2. QED
      BY <1>0, <2>5, <2>7, <3>1, GoKeepsJob DEF Check, remote
  <2>8. CASE Upload(s)
    <3>1. PICK label \in {"posting", "failed"} : Go(s, label)
      BY <2>8 DEF Upload
    <3>2. run[s].job \in Jobs /\ run'[s].label = label /\ run'[s].job = run[s].job
      BY <1>0, <2>8, <3>1, GoKeepsJob DEF Upload, At, TypeInv, Busy
    <3>3. posts' = posts /\ history' = history
      BY <2>8 DEF Upload
    <3>4. /\ media' \in {media, Once(media, run[s].job)}
          /\ label = "posting" => media' = Once(media, run[s].job)
      BY <1>0, <2>8, <3>2, GoKeepsJob DEF Upload
    <3>5. s \notin Holding(j, "persisting")'
      BY <3>2 DEF Holding
    <3>6. media'[j] \in Nat /\ media'[j] >= media[j]
          /\ (j = run[s].job /\ label = "posting" => media'[j] = media[j] + 1)
      BY <1>0, <3>2, <3>4 DEF Once
    <3>7. CASE j = run[s].job /\ label = "posting"
      BY <1>3, <1>4, <2>2, <2>3, <3>3, <3>5, <3>6, <3>7
    <3>8. CASE ~(j = run[s].job /\ label = "posting")
      <4>1. s \notin Holding(j, "posting")'
        BY <3>2, <3>8 DEF Holding
      <4>2. QED
        BY <1>3, <1>4, <2>2, <2>3, <2>4, <3>3, <3>5, <3>6, <4>1
    <3>9. QED
      BY <3>7, <3>8
  <2>9. CASE Post(s)
    <3>1. PICK label \in {"persisting", "published", "failed"} : Go(s, label)
      BY <2>9 DEF Post
    <3>2. run[s].job \in Jobs /\ run'[s].label = label /\ run'[s].job = run[s].job
      BY <1>0, <2>9, <3>1, GoKeepsJob DEF Post, At, TypeInv, Busy
    <3>3. media' = media /\ history' = history
      BY <2>9 DEF Post
    <3>4. /\ posts' \in {posts, Once(posts, run[s].job)}
          /\ label = "persisting" => posts' = Once(posts, run[s].job)
      <4>1. PICK o \in Outcomes :
              /\ posts' = IF o = "rejected" THEN posts ELSE Once(posts, run[s].job)
              /\ Go(s, IF o = "created" /\ HasScope(run[s].job) THEN "persisting"
                       ELSE IF o \in {"created", "unlinked"} THEN "published" ELSE "failed")
        BY <2>9 DEF Post
      <4>2. label = "persisting" => o = "created"
        BY <1>0, <3>2, <4>1, GoKeepsJob
      <4>3. QED
        BY <4>1, <4>2
    <3>5. s \notin Holding(j, "posting")'
      BY <3>2 DEF Holding
    <3>6. j = run[s].job => s \in Holding(j, "posting")
      BY <2>9 DEF Post, At, Holding
    <3>7. /\ posts'[j] \in Nat /\ posts'[j] >= posts[j] /\ posts'[j] <= posts[j] + 1
          /\ j # run[s].job => posts'[j] = posts[j]
          /\ j = run[s].job /\ label = "persisting" => posts'[j] = posts[j] + 1
      BY <1>0, <3>2, <3>4 DEF Once
    <3>8. ~(j = run[s].job /\ label = "persisting") => s \notin Holding(j, "persisting")'
      BY <3>2 DEF Holding
    <3>9. QED
      BY <1>3, <1>4, <2>2, <2>3, <2>4, <3>3, <3>5, <3>6, <3>7, <3>8
  <2>10. CASE Persist(s)
    <3>1. PICK label \in {"published", "failed"} : Go(s, label)
      BY <2>10 DEF Persist
    <3>2. run[s].job \in Jobs /\ run'[s].label = label
      BY <1>0, <2>10, <3>1, GoKeepsJob DEF Persist, At, TypeInv, Busy
    <3>3. media' = media /\ posts' = posts
          /\ history' \in {history, Once(history, run[s].job)}
      BY <2>10 DEF Persist, remote
    <3>4. s \notin Holding(j, "posting")' /\ s \notin Holding(j, "persisting")'
      BY <3>2 DEF Holding
    <3>5. j = run[s].job => s \in Holding(j, "persisting")
      BY <2>10 DEF Persist, At, Holding
    <3>6. /\ history'[j] \in Nat /\ history'[j] <= history[j] + 1
          /\ j # run[s].job => history'[j] = history[j]
      BY <1>0, <3>2, <3>3 DEF Once
    <3>7. QED
      BY <1>3, <1>4, <2>2, <2>3, <2>4, <3>3, <3>4, <3>5, <3>6
  <2>11. QED
    BY <1>6, <2>6, <2>7, <2>8, <2>9, <2>10 DEF SlotStep
<1>7. ASSUME NEW i \in Jobs, ComposerChecks(i) \/ Enqueue(i) \/ DelayEnds(i) \/ LockExpires(i)
      PROVE  Goal
  BY <1>5, <1>7 DEF ComposerChecks, Enqueue, DelayEnds, LockExpires, remote
<1>8. CASE Operator \/ UNCHANGED vars
  BY <1>5, <1>8 DEF Operator, vars, remote
<1>9. QED
  BY <1>6, <1>7, <1>8 DEF Next

\* EvidenceInv holds initially: no slot is at a post.
LEMMA EvidenceInit == Init => EvidenceInv
<1>1. SUFFICES ASSUME Init PROVE EvidenceInv
  OBVIOUS
<1>2. ASSUME NEW j \in Jobs
      PROVE  /\ history[j] = 0 /\ posts[j] = 0 /\ media[j] = 0
             /\ Cardinality(Holding(j, "persisting")) = 0
             /\ Cardinality(Holding(j, "posting")) = 0
  <2>1. Holding(j, "persisting") = {} /\ Holding(j, "posting") = {}
    BY <1>1 DEF Init, Idle, Holding
  <2>2. QED
    BY <1>1, <2>1, FS_EmptySet DEF Init
<1>3. QED
  BY <1>1, <1>2, TypeInit DEF EvidenceInv

\* Whatever is retried, redelivered or lost, and however many slots run one job: no job has
\* more posts than media uploads, nor more history rows than posts.
THEOREM EvidenceIsComplete == Spec => []EvidenceChain
<1>1. EvidenceInv => EvidenceChain
  <2>1. SUFFICES ASSUME EvidenceInv, NEW j \in Jobs
                 PROVE  history[j] <= posts[j] /\ posts[j] <= media[j]
    BY DEF EvidenceChain
  <2>2. history[j] \in Nat /\ posts[j] \in Nat /\ media[j] \in Nat
    BY <2>1 DEF EvidenceInv, TypeInv, TypeOK
  <2>3. ASSUME NEW label PROVE Cardinality(Holding(j, label)) \in Nat
    <3>1. Holding(j, label) \subseteq Slots
      BY DEF Holding
    <3>2. QED
      BY <3>1, FS_Subset, FS_CardinalityType, JobQueueConstants
  <2>4. QED
    BY <2>1, <2>2, <2>3 DEF EvidenceInv
<1>2. EvidenceInv /\ [Next]_vars => EvidenceInv'
  BY EvidenceNext
<1>3. QED
  BY EvidenceInit, <1>1, <1>2, PTL DEF Spec

-----------------------------------------------------------------------------
\* What a job does to the target is bounded.

\* The slots that run a job and may still upload for it.
Early(j) == {s \in Slots : run[s].job = j /\ run[s].label \in {"checking", "uploading"}}

\* Every upload was made by a run, and every run takes the job.
EffortInv ==
  /\ TypeInv
  /\ AbsentIsFresh
  /\ \A j \in Jobs : Effort(j, media[j] + Cardinality(Early(j)))

\* The slots at work are counted by numbers.
LEMMA EarlyCounts == \A j \in Jobs : Cardinality(Early(j)) \in Nat
<1>1. SUFFICES ASSUME NEW j \in Jobs PROVE Cardinality(Early(j)) \in Nat
  OBVIOUS
<1>2. Early(j) \in SUBSET Slots
  BY DEF Early
<1>3. QED
  BY <1>2, FS_Subset, FS_CardinalityType, JobQueueConstants

\* A step of a slot that does not take a job uploads only where the slot leaves the upload.
LEMMA WorkShrinks ==
  ASSUME TypeInv, TypeInv', NEW s \in Slots, NEW j \in Jobs,
         Check(s) \/ Upload(s) \/ Post(s) \/ Persist(s) \/ Report(s) \/ Crash(s)
  PROVE  media'[j] + Cardinality(Early(j)') <= media[j] + Cardinality(Early(j))
<1>0. /\ run \in [Slots -> Run] /\ media \in [Jobs -> Nat] /\ media' \in [Jobs -> Nat]
  BY DEF TypeInv, TypeOK
<1>1. \A r \in Slots : r # s => run'[r] = run[r]
  <2>1. CASE Report(s) \/ Crash(s)
    BY <1>0, <2>1 DEF Report, Crash
  <2>2. CASE Check(s) \/ Upload(s) \/ Post(s) \/ Persist(s)
    <3>1. PICK label \in Labels : Go(s, label)
      BY <2>2 DEF Check, Upload, Post, Persist, Labels
    <3>2. QED
      BY <3>1, GoKeepsJob
  <2>3. QED
    BY <2>1, <2>2
<1>2. /\ Early(j) \in SUBSET Slots /\ Early(j)' \in SUBSET Slots
      /\ \A r \in Slots : r # s => (r \in Early(j)' <=> r \in Early(j))
  BY <1>1 DEF Early
<1>3. /\ Cardinality(Early(j)) \in Nat /\ Cardinality(Early(j)') \in Nat
      /\ s \in Early(j) /\ s \notin Early(j)' =>
           Cardinality(Early(j)') + 1 = Cardinality(Early(j))
      /\ s \notin Early(j) /\ s \in Early(j)' =>
           Cardinality(Early(j)') = Cardinality(Early(j)) + 1
      /\ (s \in Early(j) <=> s \in Early(j)') => Cardinality(Early(j)') = Cardinality(Early(j))
  BY <1>2, SlotCount
<1>4. CASE Check(s)
  <2>1. PICK label \in Labels : Go(s, label)
    BY <1>4 DEF Check, Labels
  <2>2. run'[s].job = run[s].job /\ run[s].label = "checking" /\ media' = media
    BY <1>4, <2>1, GoKeepsJob DEF Check, At, remote
  <2>3. s \in Early(j)' => s \in Early(j)
    BY <2>2 DEF Early
  <2>4. QED
    BY <1>0, <1>3, <2>2, <2>3
<1>5. CASE Upload(s)
  <2>1. PICK label \in {"posting", "failed"} : Go(s, label)
    BY <1>5 DEF Upload
  <2>2. run'[s].label \notin {"checking", "uploading"}
    BY <2>1, GoKeepsJob
  <2>3. s \notin Early(j)' /\ (s \in Early(j) <=> run[s].job = j)
    BY <1>5, <2>2 DEF Early, Upload, At
  <2>4. media' \in {media, Once(media, run[s].job)} /\ run[s].job \in Jobs
    BY <1>5 DEF Upload, TypeInv, Busy, At
  <2>5. media'[j] = media[j] \/ (run[s].job = j /\ media'[j] = media[j] + 1)
    BY <1>0, <2>4 DEF Once
  <2>6. QED
    BY <1>0, <1>3, <2>3, <2>5
<1>6. CASE Post(s) \/ Persist(s) \/ Report(s) \/ Crash(s)
  <2>1. run'[s].label \notin {"checking", "uploading"} /\ media' = media
    <3>1. CASE Post(s) \/ Persist(s)
      <4>1. PICK label \in {"persisting", "published", "failed"} : Go(s, label)
        BY <3>1 DEF Post, Persist
      <4>2. QED
        BY <3>1, <4>1, GoKeepsJob DEF Post, Persist, remote
    <3>2. CASE Report(s) \/ Crash(s)
      BY <1>0, <3>2 DEF Report, Crash, Idle, remote
    <3>3. QED
      BY <1>6, <3>1, <3>2
  <2>2. s \notin Early(j)'
    BY <2>1 DEF Early
  <2>3. QED
    BY <1>0, <1>3, <2>1, <2>2
<1>7. QED
  BY <1>4, <1>5, <1>6

\* The effort is kept by every step.
LEMMA EffortNext ==
  ASSUME EffortInv, [Next]_vars
  PROVE  AbsentIsFresh' /\ \A j \in Jobs : Effort(j, media[j] + Cardinality(Early(j)))'
<1>0. /\ TypeInv /\ TypeInv' /\ AbsentIsFresh /\ JobQueueTypeOK /\ JobQueueTypeOK'
      /\ run \in [Slots -> Run] /\ media \in [Jobs -> Nat] /\ media' \in [Jobs -> Nat]
  BY TypeNext DEF EffortInv, TypeInv, TypeOK
<1>1. SUFFICES ASSUME NEW i \in Jobs
               PROVE  AbsentIsFresh' /\ Effort(i, media[i] + Cardinality(Early(i)))'
  <2>1. CASE Jobs = {}
    BY <2>1 DEF AbsentIsFresh
  <2>2. CASE Jobs # {}
    BY <1>1, <2>2
  <2>3. QED
    BY <2>1, <2>2
<1>2. PICK n \in Nat : n = media[i] + Cardinality(Early(i))
  BY <1>0, EarlyCounts
<1>3. Effort(i, n)
  BY <1>2 DEF EffortInv
<1>4. PICK m \in Nat : m = media'[i] + Cardinality(Early(i)')
  <2>1. Early(i)' \in SUBSET Slots
    BY DEF Early
  <2>2. Cardinality(Early(i)') \in Nat
    BY <2>1, FS_Subset, FS_CardinalityType, JobQueueConstants
  <2>3. QED
    BY <1>0, <2>2
<1>5. SUFFICES AbsentIsFresh' /\ Effort(i, m)'
  BY <1>4 DEF Effort, LastRun
<1>6. ASSUME NEW j \in Jobs, media' = media, run' = run,
             \/ \E d \in BOOLEAN : Add(j, d)
             \/ Promote(j) \/ Stall(j) \/ RetryJob(j) \/ RemoveJob(j)
             \/ Pause \/ Resume \/ Drain
      PROVE  AbsentIsFresh' /\ Effort(i, m)'
  <2>1. AbsentIsFresh'
    BY <1>0, <1>6, FreshStays
  <2>2. m = n
    BY <1>2, <1>4, <1>6 DEF Early
  <2>3. Effort(i, n)'
    BY <1>0, <1>3, <1>6, EffortStays
  <2>4. QED
    BY <2>1, <2>2, <2>3
<1>7. ASSUME UNCHANGED jobs PROVE AbsentIsFresh' /\ Effort(i, n)'
  BY <1>0, <1>3, <1>7 DEF AbsentIsFresh, Effort, LastRun
<1>8. ASSUME NEW j \in Jobs, ComposerChecks(j) \/ Enqueue(j) \/ DelayEnds(j) \/ LockExpires(j)
      PROVE  AbsentIsFresh' /\ Effort(i, m)'
  <2>1. media' = media /\ run' = run
    BY <1>8 DEF ComposerChecks, Enqueue, DelayEnds, LockExpires, remote
  <2>2. CASE ComposerChecks(j)
    <3>1. UNCHANGED jobs /\ m = n
      BY <1>2, <1>4, <2>1, <2>2 DEF ComposerChecks, queue, Early
    <3>2. QED
      BY <1>7, <3>1
  <2>3. CASE Enqueue(j)
    <3>1. Add(j, j \in Delayed) /\ (j \in Delayed) \in BOOLEAN
      BY <2>3 DEF Enqueue
    <3>2. QED
      BY <1>6, <2>1, <3>1
  <2>4. CASE DelayEnds(j) \/ LockExpires(j)
    BY <1>6, <2>1, <2>4 DEF DelayEnds, LockExpires
  <2>5. QED
    BY <1>8, <2>2, <2>3, <2>4
<1>9. ASSUME NEW s \in Slots, Start(s) PROVE AbsentIsFresh' /\ Effort(i, m)'
  <2>1. PICK j \in Jobs : /\ Take(s, j)
                          /\ run' = [run EXCEPT ![s] =
                               [label |-> IF j \in Invalid THEN "failed"
                                          ELSE IF j \in Unscoped THEN "uploading"
                                          ELSE "checking", job |-> j]]
    BY <1>9 DEF Start
  <2>2. AbsentIsFresh'
    BY <1>0, <2>1, FreshStays
  <2>3. /\ media' = media /\ run'[s].job = j /\ s \notin Early(i)
        /\ \A r \in Slots : r # s => run'[r] = run[r]
    BY <1>0, <1>9, <2>1 DEF Start, remote, At, Early
  <2>4. Effort(i, n)' /\ (i = j => Effort(i, n + 1)')
    BY <1>0, <1>3, <2>1, EffortTaken
  <2>5. /\ Early(i) \in SUBSET Slots /\ Early(i)' \in SUBSET Slots
        /\ \A r \in Slots : r # s => (r \in Early(i)' <=> r \in Early(i))
    BY <2>3 DEF Early
  <2>6. CASE s \in Early(i)'
    <3>1. i = j
      BY <2>3, <2>6 DEF Early
    <3>2. Cardinality(Early(i)') = Cardinality(Early(i)) + 1 /\ Cardinality(Early(i)) \in Nat
      BY <2>3, <2>5, <2>6, SlotCount
    <3>3. m = n + 1
      BY <1>0, <1>2, <1>4, <2>3, <3>2
    <3>4. QED
      BY <2>2, <2>4, <3>1, <3>3
  <2>7. CASE s \notin Early(i)'
    <3>1. Cardinality(Early(i)') = Cardinality(Early(i))
      BY <2>3, <2>5, <2>7, SlotCount
    <3>2. m = n
      BY <1>2, <1>4, <2>3, <3>1
    <3>3. QED
      BY <2>2, <2>4, <3>2
  <2>8. QED
    BY <2>6, <2>7
<1>10. ASSUME NEW s \in Slots,
              Check(s) \/ Upload(s) \/ Post(s) \/ Persist(s) \/ Report(s) \/ Crash(s)
       PROVE  AbsentIsFresh' /\ Effort(i, m)'
  <2>1. m <= n
    BY <1>0, <1>2, <1>4, <1>10, WorkShrinks
  <2>2. AbsentIsFresh' /\ Effort(i, n)'
    <3>1. CASE Report(s)
      <4>1. run[s].job \in Jobs
        BY <1>0, <3>1 DEF Report, Finished, At, TypeInv, Busy
      <4>2. Complete(s, run[s].job) \/ FailAttempt(s, run[s].job)
        BY <3>1 DEF Report
      <4>3. QED
        BY <1>0, <1>3, <4>1, <4>2, FreshStays, EffortStays
    <3>2. CASE ~Report(s)
      <4>1. UNCHANGED jobs
        BY <1>10, <3>2 DEF Check, Upload, Post, Persist, Crash, queue
      <4>2. QED
        BY <1>7, <4>1
    <3>3. QED
      BY <3>1, <3>2
  <2>3. QED
    BY <1>0, <2>1, <2>2, EffortLess
<1>11. CASE Operator
  <2>1. media' = media /\ run' = run
    BY <1>11 DEF Operator, remote
  <2>2. QED
    BY <1>6, <1>11, <2>1 DEF Operator
<1>12. CASE UNCHANGED vars
  <2>1. UNCHANGED jobs /\ m = n
    BY <1>2, <1>4, <1>12 DEF vars, Early
  <2>2. QED
    BY <1>7, <2>1
<1>13. QED
  BY <1>8, <1>9, <1>10, <1>11, <1>12 DEF Next, SlotStep

\* However often a job is retried, redelivered under a live run or retried by the operator, its
\* runs upload for it at most once per attempt, lost lock and command.
THEOREM EffortHasAnEnd == Spec => []EffortIsBounded
<1>1. Init => AbsentIsFresh /\ \A j \in Jobs : Effort(j, media[j] + Cardinality(Early(j)))
  <2>1. SUFFICES ASSUME Init, NEW j \in Jobs
                 PROVE  /\ jobs[j].made = 0 /\ jobs[j].stalls = 0
                        /\ Effort(j, media[j] + Cardinality(Early(j)))
    BY DEF AbsentIsFresh
  <2>2. /\ jobs[j].state = "absent" /\ jobs[j].made = 0 /\ jobs[j].stalls = 0
        /\ jobs[j].manual = 0 /\ media[j] = 0
    BY <2>1 DEF Init, JobQueueInit
  <2>3. Cardinality(Early(j)) = 0
    <3>1. Early(j) = {}
      BY <2>1 DEF Init, Early, Idle
    <3>2. QED
      BY <3>1, FS_EmptySet
  <2>4. QED
    BY <2>2, <2>3, JobQueueConstants DEF Effort, LastRun
<1>2. TypeInv' /\ EffortInv /\ [Next]_vars => EffortInv'
  BY EffortNext DEF EffortInv
<1>3. EffortInv => EffortIsBounded
  <2>1. SUFFICES ASSUME EffortInv, NEW j \in Jobs
                 PROVE  media[j] <= Attempts + MaxStalls + jobs[j].manual
    BY DEF EffortIsBounded
  <2>2. /\ JobQueueTypeOK /\ media[j] \in Nat /\ jobs[j].manual \in Nat
        /\ Attempts \in Nat /\ MaxStalls \in Nat
    BY <2>1, JobFields, JobQueueConstants DEF EffortInv, TypeInv, TypeOK, Attempts
  <2>3. PICK k \in Nat : k = Cardinality(Early(j))
    BY EarlyCounts
  <2>4. media[j] + k <= Attempts + MaxStalls + jobs[j].manual
    BY <2>1, <2>2, <2>3, EffortBound DEF EffortInv
  <2>5. QED
    BY <2>2, <2>4
<1>4. QED
  BY <1>1, <1>2, <1>3, TypeInvariant, PTL DEF Spec, EffortInv

-----------------------------------------------------------------------------
\* A skipped job had its content published.

SkippedInv ==
  /\ CompletedInv
  /\ \A j \in Jobs : result[j] = "skipped" => Published(j)

\* What the queue is told of a job is what a run of it ended with.
LEMMA ResultMoves ==
  ASSUME TypeInv, [Next]_vars, NEW j \in Jobs, result'[j] # result[j]
  PROVE  \E s \in Slots : run[s].job = j /\ result'[j] = run[s].label
<1>0. result \in [Jobs -> {"none"} \cup Finished]
  BY DEF TypeInv, TypeOK
<1>1. ASSUME NEW s \in Slots, Report(s)
      PROVE  run[s].job = j /\ result'[j] = run[s].label
  BY <1>0, <1>1 DEF Report
<1>2. (\E s \in Slots : Report(s)) \/ result' = result
  BY DEF Next, SlotStep, ComposerChecks, Enqueue, DelayEnds, LockExpires, Start, Check, Upload,
         Post, Persist, Crash, Operator, vars
<1>3. QED
  BY <1>1, <1>2

\* SkippedInv is inductive.
LEMMA SkippedNext ==
  ASSUME SkippedInv, [Next]_vars
  PROVE  SkippedInv'
<1>0. TypeInv /\ ReportsPublished /\ CompletedInv /\ CompletedInv'
  BY CompletedNext DEF SkippedInv, CompletedInv
<1>1. ASSUME NEW j \in Jobs, result'[j] = "skipped" PROVE Published(j)'
  <2>1. Published(j)
    <3>1. CASE result'[j] = result[j]
      BY <1>1, <3>1 DEF SkippedInv
    <3>2. CASE result'[j] # result[j]
      BY <1>0, <1>1, <3>2, ResultMoves DEF ReportsPublished
    <3>3. QED
      BY <3>1, <3>2
  <2>2. QED
    BY <1>0, <2>1, PublishedStays
<1>2. QED
  BY <1>0, <1>1 DEF SkippedInv

\* A job reported as a duplicate had its own content published before, under every fault of
\* the target, the database and the slots, provided that a slug names the posts of one asset:
\* the history is searched by the slug.
THEOREM SkipsAreDuplicates ==
  ASSUME \A i, j \in Jobs : SlugOf[i] = SlugOf[j] => AssetOf[i] = AssetOf[j]
  PROVE  Spec => []SkipIsIdempotent
<1>1. Init => SkippedInv
  <2>1. Init => \A j \in Jobs : result[j] = "none"
    BY DEF Init
  <2>2. QED
    BY <2>1, CompletedInit DEF SkippedInv
<1>2. SkippedInv /\ [Next]_vars => SkippedInv'
  BY SkippedNext
<1>3. SkippedInv => SkipIsIdempotent
  <2>1. SUFFICES ASSUME SkippedInv, NEW j \in Jobs, result[j] = "skipped"
                 PROVE  \E i \in Jobs : AssetOf[i] = AssetOf[j] /\ posts[i] > 0
    BY DEF SkipIsIdempotent
  <2>2. PICK i \in Jobs : SlugOf[i] = SlugOf[j] /\ posts[i] >= 1
    BY <2>1 DEF SkippedInv, Published
  <2>3. posts[i] \in Nat
    BY <2>1 DEF SkippedInv, CompletedInv, TypeInv, TypeOK
  <2>4. QED
    BY <2>2, <2>3
<1>4. QED
  BY <1>1, <1>2, <1>3, PTL DEF Spec

-----------------------------------------------------------------------------
\* Where nothing is lost, a failure is genuine.

\* A slot that runs a job holds its lock.
RunsWhatItHolds == \A s \in Slots : ~At(s, "idle") => Holds(s, run[s].job)

\* A job with a post is done, or its run is about to be.
Posted(j) ==
  \/ jobs[j].state \in {"completed", "removed"}
  \/ \E s \in Slots :
       Holds(s, j) /\ run[s].job = j /\ run[s].label \in {"persisting", "published"}

HeldInv ==
  /\ TypeInv
  /\ RunsWhatItHolds
  /\ \A j \in Jobs : posts[j] > 0 => Posted(j)

\* Calls of the database return, slots live on and renew the locks of what they run, and no
\* answer of the target is lost.
Reliable == ~MayThrow /\ ~MayCrash /\ ~MayOutlive /\ "lost" \notin Outcomes

\* What happens to a job around the slots' own steps.
Around(j) ==
  \/ \E d \in BOOLEAN : Add(j, d)
  \/ Promote(j) \/ RetryJob(j) \/ RemoveJob(j)
  \/ Pause \/ Resume \/ Drain

\* Where a slot that holds its job is alive, its lock does not expire: what remains are the
\* operations around it, steps of slots, and steps that leave the queue alone.
LEMMA ReliableSteps ==
  ASSUME Reliable, HeldInv, [Next]_vars
  PROVE  \/ \E j \in Jobs : Around(j) /\ run' = run /\ posts' = posts
         \/ \E j \in Jobs : Stall(j) /\ ~Alive(j) /\ run' = run /\ posts' = posts
         \/ \E s \in Slots : SlotStep(s)
         \/ jobs' = jobs /\ run' = run /\ posts' = posts
<1>1. ASSUME NEW j \in Jobs, ComposerChecks(j)
      PROVE  jobs' = jobs /\ run' = run /\ posts' = posts
  BY <1>1 DEF ComposerChecks, queue, remote
<1>2. ASSUME NEW j \in Jobs, Enqueue(j) PROVE Around(j) /\ run' = run /\ posts' = posts
  <2>1. Add(j, j \in Delayed) /\ (j \in Delayed) \in BOOLEAN
    BY <1>2 DEF Enqueue
  <2>2. QED
    BY <1>2, <2>1 DEF Around, Enqueue, remote
<1>3. ASSUME NEW j \in Jobs, DelayEnds(j) PROVE Around(j) /\ run' = run /\ posts' = posts
  BY <1>3 DEF DelayEnds, Around, remote
<1>4. ASSUME NEW j \in Jobs, LockExpires(j)
      PROVE  Stall(j) /\ ~Alive(j) /\ run' = run /\ posts' = posts
  BY <1>4 DEF LockExpires, remote, Reliable
<1>5. CASE Operator
  <2>1. run' = run /\ posts' = posts
    BY <1>5 DEF Operator, remote
  <2>2. CASE Jobs # {}
    BY <1>5, <2>1, <2>2 DEF Operator, Around
  <2>3. CASE Jobs = {}
    <3>1. jobs' = jobs
      BY <1>5, <2>3 DEF Operator, Pause, Resume, Drain, HeldInv, TypeInv, TypeOK, JobQueueTypeOK
    <3>2. QED
      BY <2>1, <3>1
  <2>4. QED
    BY <2>2, <2>3
<1>6. ASSUME NEW s \in Slots PROVE ~Crash(s)
  BY DEF Crash, Reliable
<1>7. CASE UNCHANGED vars
  BY <1>7 DEF vars
<1>8. QED
  BY <1>1, <1>2, <1>3, <1>4, <1>5, <1>6, <1>7 DEF Next

\* A slot's step leaves the other slots, and the jobs they hold, as they were.
LEMMA OthersHold ==
  ASSUME TypeInv, NEW s \in Slots, SlotStep(s), NEW r \in Slots, r # s,
         NEW j \in Jobs, Holds(r, j)
  PROVE  Holds(r, j)' /\ run'[r] = run[r]
<1>0. run \in [Slots -> Run] /\ JobQueueTypeOK
  BY DEF TypeInv, TypeOK
<1>1. CASE Start(s)
  <2>1. PICK i \in Jobs, entry \in Run : Take(s, i) /\ run' = [run EXCEPT ![s] = entry]
    BY <1>1 DEF Start, Run, Labels
  <2>2. QED
    BY <1>0, <2>1, HeldStays
<1>2. CASE Check(s) \/ Upload(s) \/ Post(s) \/ Persist(s)
  <2>1. PICK label \in Labels : Go(s, label)
    BY <1>2 DEF Check, Upload, Post, Persist, Labels
  <2>2. jobs' = jobs
    BY <1>2 DEF Check, Upload, Post, Persist, queue
  <2>3. QED
    BY <2>1, <2>2, GoKeepsJob DEF Holds
<1>3. CASE Report(s)
  <2>1. run[s].job \in Jobs
    BY <1>3 DEF Report, Finished, At, TypeInv, Busy
  <2>2. Complete(s, run[s].job) \/ FailAttempt(s, run[s].job)
    BY <1>3 DEF Report
  <2>3. Holds(r, j)'
    BY <1>0, <2>1, <2>2, HeldStays
  <2>4. QED
    BY <1>0, <1>3, <2>3 DEF Report
<1>4. QED
  BY <1>1, <1>2, <1>3 DEF SlotStep

\* HeldInv is inductive where nothing is lost.
LEMMA HeldNext ==
  ASSUME Reliable, HeldInv, [Next]_vars
  PROVE  HeldInv'
<1>0. /\ TypeInv /\ TypeInv' /\ JobQueueTypeOK /\ RunsWhatItHolds
      /\ run \in [Slots -> Run] /\ jobs \in [Jobs -> JobRecord] /\ posts \in [Jobs -> Nat]
  BY TypeNext DEF HeldInv, TypeInv, TypeOK, JobQueueTypeOK
<1>1. ASSUME run' = run, posts' = posts,
             \A r \in Slots, j \in Jobs : Holds(r, j) /\ run[r].job = j /\ ~At(r, "idle")
                                            => Holds(r, j)',
             \A j \in Jobs : jobs[j].state \in {"completed", "removed"} =>
                               jobs'[j].state \in {"completed", "removed"}
      PROVE  HeldInv'
  <2>1. RunsWhatItHolds'
    BY <1>0, <1>1 DEF RunsWhatItHolds, At, TypeInv, Busy
  <2>2. ASSUME NEW j \in Jobs, posts'[j] > 0 PROVE Posted(j)'
    <3>1. Posted(j)
      BY <1>1, <2>2 DEF HeldInv
    <3>2. QED
      BY <1>1, <3>1 DEF Posted, At
  <2>3. QED
    BY <1>0, <2>1, <2>2 DEF HeldInv
<1>2. ASSUME NEW i \in Jobs, Around(i), run' = run, posts' = posts PROVE HeldInv'
  <2>1. \A r \in Slots, j \in Jobs : Holds(r, j) => Holds(r, j)'
    BY <1>0, <1>2, HeldStays DEF Around
  <2>2. \A j \in Jobs : jobs[j].state \in {"completed", "removed"} =>
                          jobs'[j].state \in {"completed", "removed"}
    BY <1>0, <1>2, DoneStays DEF Around
  <2>3. QED
    BY <1>1, <1>2, <2>1, <2>2
<1>3. ASSUME NEW i \in Jobs, Stall(i), ~Alive(i), run' = run, posts' = posts PROVE HeldInv'
  <2>1. ASSUME NEW r \in Slots, NEW j \in Jobs, Holds(r, j), run[r].job = j, ~At(r, "idle")
        PROVE  Holds(r, j)'
    <3>1. i # j
      BY <1>3, <2>1 DEF Alive
    <3>2. QED
      BY <1>0, <1>3, <2>1, <3>1, HeldStays
  <2>2. \A j \in Jobs : jobs[j].state \in {"completed", "removed"} =>
                          jobs'[j].state \in {"completed", "removed"}
    BY <1>0, <1>3, DoneStays
  <2>3. QED
    BY <1>1, <1>3, <2>1, <2>2
<1>4. ASSUME NEW s \in Slots, SlotStep(s) PROVE HeldInv'
  <2>1. \A r \in Slots \ {s}, j \in Jobs : Holds(r, j) => Holds(r, j)' /\ run'[r] = run[r]
    BY <1>0, <1>4, OthersHold
  <2>2. \A r \in Slots \ {s} : run'[r] = run[r]
    <3>1. CASE Start(s) \/ Report(s)
      BY <1>0, <3>1 DEF Start, Report
    <3>2. CASE Check(s) \/ Upload(s) \/ Post(s) \/ Persist(s)
      <4>1. PICK label \in Labels : Go(s, label)
        BY <3>2 DEF Check, Upload, Post, Persist, Labels
      <4>2. QED
        BY <1>0, <4>1, GoKeepsJob
    <3>3. QED
      BY <1>4, <3>1, <3>2 DEF SlotStep
  <2>3. ASSUME ~At(s, "idle")' =>
                 \/ Holds(s, run[s].job)' /\ run'[s].job = run[s].job
                 \/ \E j \in Jobs : run'[s].job = j /\ Holds(s, j)'
        PROVE  RunsWhatItHolds'
    <3>1. ASSUME NEW r \in Slots, ~At(r, "idle")' PROVE Holds(r, run[r].job)'
      <4>1. CASE r = s
        BY <2>3, <3>1, <4>1 DEF Holds
      <4>2. CASE r # s
        BY <1>0, <2>1, <2>2, <3>1, <4>2 DEF RunsWhatItHolds, At, TypeInv, Busy, Holds
      <4>3. QED
        BY <4>1, <4>2
    <3>2. QED
      BY <3>1 DEF RunsWhatItHolds
  <2>4. CASE Start(s)
    <3>1. PICK i \in Jobs, label \in Labels :
            Take(s, i) /\ run' = [run EXCEPT ![s] = [label |-> label, job |-> i]]
      BY <2>4 DEF Start, Labels
    <3>2. run'[s].job = i /\ Holds(s, i)'
      BY <1>0, <3>1 DEF Take, Holds
    <3>3. RunsWhatItHolds'
      BY <2>3, <3>2
    <3>4. ASSUME NEW j \in Jobs, posts'[j] > 0 PROVE Posted(j)'
      <4>1. Posted(j) /\ At(s, "idle")
        BY <2>4, <3>4 DEF HeldInv, Start, remote
      <4>2. CASE jobs[j].state \in {"completed", "removed"}
        BY <1>0, <3>1, <4>2, DoneStays DEF Posted
      <4>3. ASSUME NEW r \in Slots, Holds(r, j), run[r].job = j,
                   run[r].label \in {"persisting", "published"}
            PROVE  Posted(j)'
        <5>1. r # s
          BY <4>1, <4>3 DEF At
        <5>2. QED
          BY <2>1, <4>3, <5>1 DEF Posted
      <4>4. QED
        BY <4>1, <4>2, <4>3 DEF Posted
    <3>5. QED
      BY <1>0, <3>3, <3>4 DEF HeldInv
  <2>5. CASE Check(s) \/ Upload(s) \/ Post(s) \/ Persist(s)
    <3>1. PICK label \in Labels : Go(s, label)
      BY <2>5 DEF Check, Upload, Post, Persist, Labels
    <3>2. run'[s].label = label /\ run'[s].job = run[s].job /\ jobs' = jobs
      BY <1>0, <2>5, <3>1, GoKeepsJob DEF Check, Upload, Post, Persist, queue
    <3>3. run[s].job \in Jobs /\ Holds(s, run[s].job)
      BY <1>0, <2>5 DEF Check, Upload, Post, Persist, At, RunsWhatItHolds, TypeInv, Busy
    <3>4. RunsWhatItHolds'
      BY <2>3, <3>2, <3>3 DEF Holds
    <3>5. ASSUME NEW j \in Jobs, posts'[j] > 0 PROVE Posted(j)'
      <4>1. CASE posts[j] > 0 /\ jobs[j].state \in {"completed", "removed"}
        BY <3>2, <4>1 DEF Posted
      <4>2. ASSUME NEW r \in Slots \ {s}, Holds(r, j), run[r].job = j,
                   run[r].label \in {"persisting", "published"}
            PROVE  Posted(j)'
        BY <2>1, <4>2 DEF Posted
      <4>3. CASE /\ Holds(s, j) /\ run[s].job = j
                 /\ run[s].label \in {"persisting", "published"}
        <5>1. Persist(s)
          BY <2>5, <4>3 DEF Check, Upload, Post, At
        <5>2. Go(s, "published")
          BY <5>1 DEF Persist, Reliable
        <5>3. run'[s].label = "published"
          BY <1>0, <5>2, GoKeepsJob
        <5>4. QED
          BY <3>2, <4>3, <5>3 DEF Posted, Holds
      <4>4. CASE ~(posts[j] > 0)
        <5>1. posts'[j] # posts[j]
          BY <3>5, <4>4
        <5>2. Post(s)
          BY <2>5, <5>1 DEF Check, Upload, Persist, remote
        <5>3. PICK o \in Outcomes :
                /\ posts' = IF o = "rejected" THEN posts ELSE Once(posts, run[s].job)
                /\ Go(s, IF o = "created" /\ HasScope(run[s].job) THEN "persisting"
                         ELSE IF o \in {"created", "unlinked"} THEN "published" ELSE "failed")
          BY <5>2 DEF Post
        <5>4. o \in {"created", "unlinked"} /\ run[s].job = j
          <6>1. o # "rejected" /\ o # "lost"
            BY <5>1, <5>3 DEF Reliable
          <6>2. o \in {"created", "unlinked"}
            BY <6>1, QueuePublishingConstants DEF AllOutcomes
          <6>3. QED
            BY <1>0, <3>3, <5>1, <5>3, <6>1, <6>2, OnceTypes
        <5>5. run'[s].label \in {"persisting", "published"}
          <6>1. PICK l \in {"persisting", "published"} : Go(s, l)
            BY <5>3, <5>4
          <6>2. QED
            BY <1>0, <6>1, GoKeepsJob
        <5>6. QED
          BY <3>2, <3>3, <5>4, <5>5 DEF Posted, Holds
      <4>5. QED
        BY <4>1, <4>2, <4>3, <4>4 DEF HeldInv, Posted
    <3>6. QED
      BY <1>0, <3>4, <3>5 DEF HeldInv
  <2>6. CASE Report(s)
    <3>1. /\ run[s].job \in Jobs /\ Holds(s, run[s].job)
          /\ run'[s] = Idle /\ posts' = posts
      BY <1>0, <2>6 DEF Report, Finished, At, RunsWhatItHolds, TypeInv, Busy, remote
    <3>2. RunsWhatItHolds'
      BY <2>3, <3>1 DEF At, Idle
    <3>3. Complete(s, run[s].job) \/ FailAttempt(s, run[s].job)
      BY <2>6 DEF Report
    <3>4. ASSUME NEW j \in Jobs, posts'[j] > 0 PROVE Posted(j)'
      <4>1. Posted(j)
        BY <3>1, <3>4 DEF HeldInv
      <4>2. CASE jobs[j].state \in {"completed", "removed"}
        BY <1>0, <3>1, <3>3, <4>2, DoneStays DEF Posted
      <4>3. ASSUME NEW r \in Slots \ {s}, Holds(r, j), run[r].job = j,
                   run[r].label \in {"persisting", "published"}
            PROVE  Posted(j)'
        BY <2>1, <4>3 DEF Posted
      <4>4. CASE run[s].job = j /\ run[s].label \in {"persisting", "published"}
        <5>1. Complete(s, j)
          BY <2>6, <4>4 DEF Report, At
        <5>2. Put(j, "completed", jobs[j].made, jobs[j].stalls)
          BY <3>1, <4>4, <5>1 DEF Complete
        <5>3. jobs'[j].state = "completed"
          BY <1>0, <5>2, PutOne
        <5>4. QED
          BY <5>3 DEF Posted
      <4>5. QED
        BY <4>1, <4>2, <4>3, <4>4 DEF Posted
    <3>5. QED
      BY <1>0, <3>2, <3>4 DEF HeldInv
  <2>7. QED
    BY <1>4, <2>4, <2>5, <2>6 DEF SlotStep
<1>5. CASE jobs' = jobs /\ run' = run /\ posts' = posts
  BY <1>1, <1>5 DEF Holds
<1>6. QED
  BY <1>2, <1>3, <1>4, <1>5, ReliableSteps

\* Where calls return, slots live and answers arrive, a job that failed has posted nothing,
\* for any number of slots and jobs, whatever the target refuses and the operator does.
THEOREM FailuresAreGenuine ==
  ASSUME Reliable
  PROVE  Spec => []FailureIsGenuine
<1>1. Init => HeldInv
  <2>1. SUFFICES ASSUME Init PROVE HeldInv
    OBVIOUS
  <2>2. \A s \in Slots : At(s, "idle")
    BY <2>1 DEF Init, At, Idle
  <2>3. \A j \in Jobs : posts[j] = 0
    BY <2>1 DEF Init
  <2>4. QED
    BY <2>1, <2>2, <2>3, TypeInit DEF HeldInv, RunsWhatItHolds
<1>2. HeldInv /\ [Next]_vars => HeldInv'
  BY HeldNext
<1>3. HeldInv => FailureIsGenuine
  <2>1. SUFFICES ASSUME HeldInv, NEW j \in Jobs, jobs[j].state \in {"failed", "delayed"}
                 PROVE  posts[j] = 0
    BY DEF FailureIsGenuine
  <2>2. ~Posted(j)
    BY <2>1 DEF Posted, Holds
  <2>3. posts[j] \in Nat
    BY <2>1 DEF HeldInv, TypeInv, TypeOK
  <2>4. QED
    BY <2>1, <2>2, <2>3 DEF HeldInv
<1>4. QED
  BY <1>1, <1>2, <1>3, PTL DEF Spec

-----------------------------------------------------------------------------
\* Where one slot works and every success is recorded, a slug is posted once.

\* One slot that neither dies nor loses an answer, of the database or of the target, and
\* jobs that carry the scope the history needs.
Alone ==
  /\ \A r, s \in Slots : r = s
  /\ ~MayThrow /\ ~MayCrash
  /\ Outcomes \subseteq {"created", "rejected"}
  /\ Unscoped = {} /\ Untracked = {}

Persisting(j) == \E s \in Slots : At(s, "persisting") /\ run[s].job = j

\* A post is the only one of its job, and in the history or about to be.
PostsAreKnown ==
  \A j \in Jobs : posts[j] > 0 => posts[j] = 1 /\ (history[j] > 0 \/ Persisting(j))

OnePerSlug ==
  \A i, j \in Jobs : SlugOf[i] = SlugOf[j] /\ posts[i] > 0 /\ posts[j] > 0 => i = j

\* A run that passed the check finds the slug without a post.
WayIsClear ==
  \A s \in Slots, j \in Jobs :
    run[s].label \in {"uploading", "posting"} /\ SlugOf[j] = SlugOf[run[s].job] => posts[j] = 0

OnceInv == TypeInv /\ PostsAreKnown /\ OnePerSlug /\ WayIsClear

\* While nothing is posted, OnceInv holds on if no run is newly on its way to a post, and
\* none leaves "persisting" without its history row.
LEMMA NothingPosted ==
  ASSUME OnceInv, TypeInv', posts' = posts,
         \A j \in Jobs : history[j] > 0 => history'[j] > 0,
         \A j \in Jobs : Persisting(j) => history'[j] > 0 \/ Persisting(j)',
         \A s \in Slots : run'[s].label \in {"uploading", "posting"} =>
            \A j \in Jobs : SlugOf[j] = SlugOf[run'[s].job] => posts[j] = 0
  PROVE  OnceInv'
<1>1. PostsAreKnown'
  <2>1. SUFFICES ASSUME NEW j \in Jobs, posts'[j] > 0
                 PROVE  posts'[j] = 1 /\ (history'[j] > 0 \/ Persisting(j)')
    BY DEF PostsAreKnown
  <2>2. posts[j] = 1 /\ (history[j] > 0 \/ Persisting(j))
    BY <2>1 DEF OnceInv, PostsAreKnown
  <2>3. QED
    BY <2>2
<1>2. OnePerSlug'
  BY DEF OnceInv, OnePerSlug
<1>3. WayIsClear'
  BY DEF WayIsClear
<1>4. QED
  BY <1>1, <1>2, <1>3 DEF OnceInv

\* The post itself: of a slug that had none, by a run that goes on to record it.
LEMMA TheOnePost ==
  ASSUME Alone, OnceInv, TypeInv', NEW s \in Slots, Post(s)
  PROVE  OnceInv'
<1>0. /\ TypeInv /\ posts \in [Jobs -> Nat] /\ history' = history
      /\ At(s, "posting") /\ run[s].job \in Jobs
  BY DEF OnceInv, TypeInv, TypeOK, Post, At, Busy
<1>1. \A j \in Jobs : SlugOf[j] = SlugOf[run[s].job] => posts[j] = 0
  BY <1>0 DEF OnceInv, WayIsClear, At
<1>2. \A j \in Jobs : ~Persisting(j)
  BY <1>0 DEF Alone, Persisting, At
<1>3. CASE posts' = posts /\ Go(s, "failed")
  <2>1. run'[s].label = "failed"
    BY <1>0, <1>3, GoKeepsJob
  <2>2. \A r \in Slots : run'[r].label = "failed"
    BY <2>1 DEF Alone
  <2>3. QED
    BY <1>0, <1>2, <1>3, <2>2, NothingPosted
<1>4. CASE posts' = Once(posts, run[s].job) /\ Go(s, "persisting")
  <2>1. run'[s].label = "persisting" /\ run'[s].job = run[s].job
    BY <1>0, <1>4, GoKeepsJob
  <2>2. posts'[run[s].job] = 1 /\ \A j \in Jobs : j # run[s].job => posts'[j] = posts[j]
    BY <1>0, <1>1, <1>4 DEF Once
  <2>3. PostsAreKnown'
    <3>1. ASSUME NEW j \in Jobs, posts'[j] > 0
          PROVE  posts'[j] = 1 /\ (history'[j] > 0 \/ Persisting(j)')
      <4>1. CASE j = run[s].job
        BY <2>1, <2>2, <4>1 DEF Persisting, At
      <4>2. CASE j # run[s].job
        BY <1>0, <1>2, <2>2, <3>1, <4>2 DEF OnceInv, PostsAreKnown
      <4>3. QED
        BY <4>1, <4>2
    <3>2. QED
      BY <3>1 DEF PostsAreKnown
  <2>4. OnePerSlug'
    BY <1>0, <1>1, <2>2 DEF OnceInv, OnePerSlug
  <2>5. WayIsClear'
    <3>1. \A r \in Slots : run'[r].label = "persisting"
      BY <2>1 DEF Alone
    <3>2. QED
      BY <3>1 DEF WayIsClear
  <2>6. QED
    BY <2>3, <2>4, <2>5 DEF OnceInv
<1>5. QED
  <2>1. PICK o \in Outcomes :
          /\ posts' = IF o = "rejected" THEN posts ELSE Once(posts, run[s].job)
          /\ Go(s, IF o = "created" /\ HasScope(run[s].job) THEN "persisting"
                   ELSE IF o \in {"created", "unlinked"} THEN "published" ELSE "failed")
    BY DEF Post
  <2>2. HasScope(run[s].job) /\ o \in {"created", "rejected"}
    BY <2>1 DEF Alone, HasScope
  <2>3. CASE o = "created"
    BY <1>4, <2>1, <2>2, <2>3
  <2>4. CASE o = "rejected"
    BY <1>3, <2>1, <2>4
  <2>5. QED
    BY <2>2, <2>3, <2>4

\* OnceInv is inductive for a slot alone.
LEMMA OnceNext ==
  ASSUME Alone, OnceInv, [Next]_vars
  PROVE  OnceInv'
<1>0. /\ TypeInv /\ TypeInv' /\ run \in [Slots -> Run]
      /\ posts \in [Jobs -> Nat] /\ history \in [Jobs -> Nat]
  BY TypeNext DEF OnceInv, TypeInv, TypeOK
<1>1. ASSUME run' = run, posts' = posts, history' = history PROVE OnceInv'
  BY <1>0, <1>1, NothingPosted DEF OnceInv, WayIsClear, Persisting, At
<1>2. ASSUME NEW j \in Jobs, ComposerChecks(j) \/ Enqueue(j) \/ DelayEnds(j) \/ LockExpires(j)
      PROVE  OnceInv'
  BY <1>1, <1>2 DEF ComposerChecks, Enqueue, DelayEnds, LockExpires, remote
<1>3. CASE Operator \/ UNCHANGED vars
  BY <1>1, <1>3 DEF Operator, vars, remote
<1>4. ASSUME NEW s \in Slots, posts' = posts, history' = history, ~At(s, "persisting"),
             run'[s].label \notin {"uploading", "posting"}
      PROVE  OnceInv'
  <2>1. \A j \in Jobs : ~Persisting(j)
    BY <1>4 DEF Alone, Persisting
  <2>2. \A r \in Slots : run'[r].label \notin {"uploading", "posting"}
    BY <1>4 DEF Alone
  <2>3. QED
    BY <1>0, <1>4, <2>1, <2>2, NothingPosted
<1>5. ASSUME NEW s \in Slots, Start(s) PROVE OnceInv'
  <2>1. PICK j \in Jobs :
          run' = [run EXCEPT ![s] = [label |-> IF j \in Invalid THEN "failed"
                       ELSE IF j \in Unscoped THEN "uploading" ELSE "checking", job |-> j]]
    BY <1>5 DEF Start
  <2>2. run'[s].label \in {"failed", "checking"}
    BY <1>0, <2>1 DEF Alone
  <2>3. QED
    BY <1>4, <1>5, <2>2 DEF Start, At, remote
<1>6. ASSUME NEW s \in Slots, Check(s) PROVE OnceInv'
  <2>1. /\ run[s].job \in Jobs /\ ~At(s, "persisting")
        /\ posts' = posts /\ history' = history
    BY <1>0, <1>6 DEF Check, At, TypeInv, Busy, remote
  <2>2. CASE Go(s, "skipped")
    BY <1>0, <1>4, <2>1, <2>2, GoKeepsJob
  <2>3. CASE ~Recorded(SlugOf[run[s].job]) /\ Go(s, "uploading")
    <3>1. \A r \in Slots : run'[r].job = run[s].job
      BY <1>0, <2>3, GoKeepsJob DEF Alone
    <3>2. \A j \in Jobs : ~Persisting(j)
      BY <2>1 DEF Alone, Persisting
    <3>3. \A j \in Jobs : SlugOf[j] = SlugOf[run[s].job] => posts[j] = 0
      <4>1. SUFFICES ASSUME NEW j \in Jobs, SlugOf[j] = SlugOf[run[s].job], posts[j] > 0
                     PROVE  FALSE
        BY <1>0
      <4>2. history[j] > 0
        BY <3>2, <4>1 DEF OnceInv, PostsAreKnown
      <4>3. QED
        BY <2>3, <4>1, <4>2 DEF Recorded
    <3>4. QED
      BY <1>0, <2>1, <3>1, <3>2, <3>3, NothingPosted
  <2>4. QED
    BY <1>6, <2>2, <2>3 DEF Check, Alone
<1>7. ASSUME NEW s \in Slots, Upload(s) PROVE OnceInv'
  <2>1. /\ run[s].job \in Jobs /\ At(s, "uploading")
        /\ posts' = posts /\ history' = history
    BY <1>0, <1>7 DEF Upload, At, TypeInv, Busy
  <2>2. PICK label \in {"posting", "failed"} : Go(s, label)
    BY <1>7 DEF Upload
  <2>3. \A r \in Slots : run'[r].job = run[s].job
    BY <1>0, <2>2, GoKeepsJob DEF Alone
  <2>4. \A j \in Jobs : SlugOf[j] = SlugOf[run[s].job] => posts[j] = 0
    BY <2>1 DEF OnceInv, WayIsClear, At
  <2>5. \A j \in Jobs : ~Persisting(j)
    BY <2>1 DEF Alone, Persisting, At
  <2>6. QED
    BY <1>0, <2>1, <2>3, <2>4, <2>5, NothingPosted
<1>8. ASSUME NEW s \in Slots, Persist(s) PROVE OnceInv'
  <2>1. run[s].job \in Jobs /\ At(s, "persisting") /\ posts' = posts
    BY <1>0, <1>8 DEF Persist, At, TypeInv, Busy, remote
  <2>2. history' = Once(history, run[s].job) /\ Go(s, "published")
    BY <1>8 DEF Persist, Alone
  <2>3. history'[run[s].job] > 0 /\ \A j \in Jobs : history[j] > 0 => history'[j] > 0
    BY <1>0, <2>1, <2>2 DEF Once
  <2>4. run'[s].label = "published"
    BY <1>0, <2>2, GoKeepsJob
  <2>5. \A r \in Slots : run'[r].label = "published"
    BY <2>4 DEF Alone
  <2>6. \A j \in Jobs : Persisting(j) => history'[j] > 0
    BY <2>3 DEF Persisting, Alone
  <2>7. QED
    BY <1>0, <2>1, <2>3, <2>5, <2>6, NothingPosted
<1>9. ASSUME NEW s \in Slots, Report(s) PROVE OnceInv'
  <2>1. run'[s] = Idle
    BY <1>0, <1>9 DEF Report
  <2>2. QED
    BY <1>4, <1>9, <2>1 DEF Report, Finished, At, Idle, remote
<1>10. \A s \in Slots : ~Crash(s)
  BY DEF Crash, Alone
<1>11. QED
  BY <1>0, <1>2, <1>3, <1>5, <1>6, <1>7, <1>8, <1>9, <1>10, TheOnePost DEF Next, SlotStep

\* A slug is posted at most once, however often its jobs are retried, redelivered after an
\* expired lock, or enqueued anew, where one slot works alone and what it did is recorded:
\* each hypothesis names a way in which the search of the history before the post misses one.
THEOREM SlugsArePostedOnce ==
  ASSUME Alone
  PROVE  Spec => []PublishedOnce
<1>1. Init => OnceInv
  <2>1. SUFFICES ASSUME Init PROVE OnceInv
    OBVIOUS
  <2>2. \A j \in Jobs : posts[j] = 0
    BY <2>1 DEF Init
  <2>3. QED
    BY <2>1, <2>2, TypeInit DEF OnceInv, PostsAreKnown, OnePerSlug, WayIsClear
<1>2. OnceInv /\ [Next]_vars => OnceInv'
  BY OnceNext
<1>3. OnceInv => PublishedOnce
  <2>1. OnceInv => posts \in [Jobs -> Nat]
    BY DEF OnceInv, TypeInv, TypeOK
  <2>2. QED
    BY <2>1 DEF OnceInv, PostsAreKnown, OnePerSlug, PublishedOnce
<1>4. QED
  BY <1>1, <1>2, <1>3, PTL DEF Spec

=============================================================================
