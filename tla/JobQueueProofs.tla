-------------------------- MODULE JobQueueProofs --------------------------
(***************************************************************************)
(* Facts about the operations of a queue and about counting its slots, for *)
(* the components that work on one.                                        *)
(***************************************************************************)
EXTENDS JobQueue, FiniteSetTheorems, TLAPS

-----------------------------------------------------------------------------
\* Types.

\* Whatever the queue does with one job, its record stays a record.
LEMMA PutTypes ==
  ASSUME JobQueueTypeOK, NEW j \in Jobs, NEW state \in JobStates, NEW made \in Nat,
         NEW stalls \in 0..MaxStalls, Put(j, state, made, stalls)
  PROVE  jobs' \in [Jobs -> JobRecord]
<1>1. jobs[j].manual \in 0..MaxManual
  BY DEF JobQueueTypeOK, JobRecord
<1>2. [state |-> state, made |-> made, stalls |-> stalls, manual |-> jobs[j].manual,
       lock |-> NoSlot] \in JobRecord
  BY <1>1 DEF JobRecord
<1>3. QED
  BY <1>2 DEF JobQueueTypeOK, Put

\* The fields of a job that has its type.
LEMMA JobFields ==
  ASSUME JobQueueTypeOK, NEW j \in Jobs
  PROVE  /\ jobs[j].made \in Nat /\ jobs[j].made + 1 \in Nat
         /\ jobs[j].stalls \in 0..MaxStalls
         /\ jobs[j].manual \in 0..MaxManual
         /\ jobs[j].state \in JobStates
  BY DEF JobQueueTypeOK, JobRecord

\* The operations of the queue keep its types.
LEMMA QueueTypes ==
  ASSUME JobQueueTypeOK, NEW j \in Jobs,
         \/ \E d \in BOOLEAN : Add(j, d)
         \/ Promote(j) \/ Stall(j) \/ RetryJob(j) \/ RemoveJob(j)
         \/ Pause \/ Resume \/ Drain
         \/ \E s \in Slots : Take(s, j) \/ Complete(s, j) \/ FailAttempt(s, j)
  PROVE  JobQueueTypeOK'
<1>0. /\ MaxStalls \in Nat /\ MaxManual \in Nat
      /\ jobs \in [Jobs -> JobRecord] /\ paused \in BOOLEAN
  BY JobQueueConstants DEF JobQueueTypeOK
<1>1. ASSUME NEW d \in BOOLEAN, Add(j, d) PROVE JobQueueTypeOK'
  <2>1. PICK state \in {"delayed", "waiting"} : Put(j, state, 0, 0)
    BY <1>1 DEF Add
  <2>2. QED
    BY <1>0, <1>1, <2>1, PutTypes DEF Add, JobStates, JobQueueTypeOK
<1>2. CASE Promote(j)
  BY <1>0, <1>2, PutTypes, JobFields DEF Promote, JobStates, JobQueueTypeOK
<1>3. CASE Stall(j)
  <2>1. CASE jobs[j].stalls < MaxStalls
    <3>1. Put(j, "waiting", jobs[j].made, jobs[j].stalls + 1) /\ paused' = paused
      BY <1>3, <2>1 DEF Stall
    <3>2. jobs[j].stalls + 1 \in 0..MaxStalls
      BY <1>0, <2>1, JobFields
    <3>3. QED
      BY <1>0, <3>1, <3>2, PutTypes, JobFields DEF JobStates, JobQueueTypeOK
  <2>2. CASE ~(jobs[j].stalls < MaxStalls)
    <3>1. Put(j, "failed", jobs[j].made, jobs[j].stalls) /\ paused' = paused
      BY <1>3, <2>2 DEF Stall
    <3>2. QED
      BY <1>0, <3>1, PutTypes, JobFields DEF JobStates, JobQueueTypeOK
  <2>3. QED
    BY <2>1, <2>2
<1>4. CASE RetryJob(j)
  <2>1. jobs[j].manual + 1 \in 0..MaxManual
    BY <1>0, <1>4, JobFields DEF RetryJob
  <2>2. [state |-> "waiting", made |-> jobs[j].made, stalls |-> jobs[j].stalls,
         manual |-> jobs[j].manual + 1, lock |-> NoSlot] \in JobRecord
    BY <2>1, JobFields DEF JobRecord, JobStates
  <2>3. QED
    BY <1>0, <1>4, <2>2 DEF RetryJob, JobQueueTypeOK
<1>5. CASE RemoveJob(j)
  BY <1>0, <1>5, PutTypes, JobFields DEF RemoveJob, JobStates, JobQueueTypeOK
<1>6. CASE Pause \/ Resume
  BY <1>0, <1>6 DEF Pause, Resume, JobQueueTypeOK
<1>7. CASE Drain
  <2>1. ASSUME NEW i \in Jobs PROVE jobs'[i] \in JobRecord
    <3>1. [jobs[i] EXCEPT !.state = "removed"] \in JobRecord
      BY <1>0 DEF JobRecord, JobStates
    <3>2. QED
      BY <1>0, <1>7, <3>1 DEF Drain
  <2>2. QED
    BY <1>0, <1>7, <2>1 DEF Drain, JobQueueTypeOK
<1>8. ASSUME NEW s \in Slots, Take(s, j) PROVE JobQueueTypeOK'
  <2>1. [state |-> "active", made |-> jobs[j].made, stalls |-> jobs[j].stalls,
         manual |-> jobs[j].manual, lock |-> s] \in JobRecord
    BY JobFields DEF JobRecord, JobStates
  <2>2. QED
    BY <1>0, <1>8, <2>1 DEF Take, JobQueueTypeOK
<1>9. ASSUME NEW s \in Slots, Complete(s, j) PROVE JobQueueTypeOK'
  <2>1. CASE Holds(s, j)
    <3>1. Put(j, "completed", jobs[j].made, jobs[j].stalls)
      BY <1>9, <2>1 DEF Complete
    <3>2. QED
      BY <1>0, <1>9, <3>1, PutTypes, JobFields DEF Complete, JobStates, JobQueueTypeOK
  <2>2. CASE ~Holds(s, j)
    BY <1>0, <1>9, <2>2 DEF Complete, JobQueueTypeOK
  <2>3. QED
    BY <2>1, <2>2
<1>10. ASSUME NEW s \in Slots, FailAttempt(s, j) PROVE JobQueueTypeOK'
  <2>1. CASE Holds(s, j)
    <3>1. PICK state \in {"delayed", "failed"} : Put(j, state, jobs[j].made + 1, jobs[j].stalls)
      BY <1>10, <2>1 DEF FailAttempt
    <3>2. QED
      BY <1>0, <1>10, <3>1, PutTypes, JobFields DEF FailAttempt, JobStates, JobQueueTypeOK
  <2>2. CASE ~Holds(s, j)
    BY <1>0, <1>10, <2>2 DEF FailAttempt, JobQueueTypeOK
  <2>3. QED
    BY <2>1, <2>2
<1>11. QED
  BY <1>1, <1>2, <1>3, <1>4, <1>5, <1>6, <1>7, <1>8, <1>9, <1>10

-----------------------------------------------------------------------------
\* Slots.

\* How a set of slots is counted when one slot enters it, leaves it or does neither.
LEMMA SlotCount ==
  ASSUME NEW old \in SUBSET Slots, NEW new \in SUBSET Slots, NEW s \in Slots,
         \A r \in Slots : r # s => (r \in new <=> r \in old)
  PROVE  /\ Cardinality(old) \in Nat /\ Cardinality(new) \in Nat
         /\ s \in old /\ s \notin new => Cardinality(new) + 1 = Cardinality(old)
         /\ s \notin old /\ s \in new => Cardinality(new) = Cardinality(old) + 1
         /\ (s \in old <=> s \in new) => Cardinality(new) = Cardinality(old)
<1>1. IsFiniteSet(old) /\ IsFiniteSet(new)
  BY FS_Subset, JobQueueConstants
<1>2. Cardinality(old) \in Nat /\ Cardinality(new) \in Nat
  BY <1>1, FS_CardinalityType
<1>3. CASE s \in old /\ s \notin new
  <2>1. old = new \cup {s}
    BY <1>3
  <2>2. QED
    BY <1>1, <1>2, <1>3, <2>1, FS_AddElement
<1>4. CASE s \notin old /\ s \in new
  <2>1. new = old \cup {s}
    BY <1>4
  <2>2. QED
    BY <1>1, <1>2, <1>4, <2>1, FS_AddElement
<1>5. CASE s \in old <=> s \in new
  <2>1. new = old
    BY <1>5
  <2>2. QED
    BY <1>2, <1>5, <2>1
<1>6. QED
  BY <1>3, <1>4, <1>5

-----------------------------------------------------------------------------
\* How often a job may be taken.

\* A job that was not added has failed nothing and lost no lock.
AbsentIsFresh == \A j \in Jobs : jobs[j].state = "absent" => jobs[j].made = 0 /\ jobs[j].stalls = 0

\* The job is in its last run, or past it.
LastRun(j) == IF jobs[j].state \in {"absent", "waiting", "delayed"} THEN 0 ELSE 1

\* The job may have been taken n times: a run ends in a failed attempt, in a lost lock, or for
\* good, unless the operator retries the job; and attempts are made until they are used up.
Effort(j, n) ==
  /\ n <= jobs[j].made + jobs[j].stalls + jobs[j].manual + LastRun(j)
  /\ n <= MaxRetries + jobs[j].stalls + jobs[j].manual + LastRun(j)

\* A job that keeps its record, or only ends, may have been taken as often.
LEMMA EffortPut ==
  ASSUME JobQueueTypeOK, NEW j \in Jobs, NEW i \in Jobs, NEW n \in Nat, Effort(i, n),
         NEW state \in JobStates, NEW made \in Nat, NEW stalls \in Nat,
         Put(j, state, made, stalls),
         made >= jobs[j].made /\ stalls >= jobs[j].stalls,
         \/ LastRun(j) = 0
         \/ state \notin {"absent", "waiting", "delayed"}
         \/ stalls = jobs[j].stalls + 1
         \/ made = jobs[j].made + 1 /\ made < Attempts
  PROVE  Effort(i, n)'
<1>0. /\ jobs[j].made \in Nat /\ jobs[j].stalls \in Nat /\ jobs[j].manual \in Nat
      /\ MaxRetries \in Nat
      /\ LastRun(j) \in {0, 1}
  BY JobFields, JobQueueConstants DEF LastRun
<1>1. CASE i # j
  <2>1. jobs'[i] = jobs[i]
    BY <1>1 DEF Put, JobQueueTypeOK
  <2>2. QED
    BY <2>1 DEF Effort, LastRun
<1>2. CASE i = j
  <2>1. /\ jobs'[j].state = state /\ jobs'[j].made = made /\ jobs'[j].stalls = stalls
        /\ jobs'[j].manual = jobs[j].manual
    BY DEF Put, JobQueueTypeOK
  <2>2. /\ n <= jobs[j].made + jobs[j].stalls + jobs[j].manual + LastRun(j)
        /\ n <= MaxRetries + jobs[j].stalls + jobs[j].manual + LastRun(j)
    BY <1>2 DEF Effort
  <2>3. /\ LastRun(j)' \in {0, 1}
        /\ LastRun(j)' = 1 <=> state \notin {"absent", "waiting", "delayed"}
    BY <2>1 DEF LastRun
  <2>4. /\ n <= made + stalls + jobs[j].manual + LastRun(j)'
        /\ n <= MaxRetries + stalls + jobs[j].manual + LastRun(j)'
    <3>1. CASE LastRun(j) = 0 \/ LastRun(j)' = 1
      BY <1>0, <2>2, <2>3, <3>1
    <3>2. CASE stalls = jobs[j].stalls + 1
      BY <1>0, <2>2, <2>3, <3>2
    <3>3. CASE made = jobs[j].made + 1 /\ made < Attempts
      <4>1. made <= MaxRetries
        BY <1>0, <3>3 DEF Attempts
      <4>2. n <= made + stalls + jobs[j].manual
        BY <1>0, <2>2, <3>3
      <4>3. QED
        BY <1>0, <2>3, <4>1, <4>2
    <3>4. QED
      BY <2>3, <3>1, <3>2, <3>3
  <2>5. QED
    BY <1>2, <2>1, <2>4 DEF Effort
<1>3. QED
  BY <1>1, <1>2

\* No operation but Take lets a job be taken less or more often than it was.
LEMMA EffortStays ==
  ASSUME JobQueueTypeOK, AbsentIsFresh, NEW j \in Jobs, NEW i \in Jobs, NEW n \in Nat,
         Effort(i, n),
         \/ \E d \in BOOLEAN : Add(j, d)
         \/ Promote(j) \/ Stall(j) \/ RetryJob(j) \/ RemoveJob(j)
         \/ Pause \/ Resume \/ Drain
         \/ \E s \in Slots : Complete(s, j) \/ FailAttempt(s, j)
  PROVE  Effort(i, n)'
<1>0. /\ jobs[j].made \in Nat /\ jobs[j].stalls \in Nat /\ jobs[j].manual \in Nat
      /\ MaxRetries \in Nat /\ jobs \in [Jobs -> JobRecord]
  BY JobFields, JobQueueConstants DEF JobQueueTypeOK
<1>1. ASSUME NEW d \in BOOLEAN, Add(j, d) PROVE Effort(i, n)'
  <2>1. PICK state \in {"delayed", "waiting"} : Put(j, state, 0, 0)
    BY <1>1 DEF Add
  <2>2. jobs[j].made = 0 /\ jobs[j].stalls = 0 /\ LastRun(j) = 0
    BY <1>1 DEF Add, AbsentIsFresh, LastRun
  <2>3. QED
    BY <2>1, <2>2, EffortPut DEF JobStates
<1>2. CASE Promote(j)
  BY <1>0, <1>2, EffortPut DEF Promote, LastRun, JobStates
<1>3. CASE Stall(j)
  <2>1. CASE jobs[j].stalls < MaxStalls
    BY <1>0, <1>3, <2>1, EffortPut DEF Stall, JobStates
  <2>2. CASE ~(jobs[j].stalls < MaxStalls)
    BY <1>0, <1>3, <2>2, EffortPut DEF Stall, JobStates
  <2>3. QED
    BY <2>1, <2>2
<1>4. CASE RetryJob(j)
  <2>1. CASE i # j
    <3>1. jobs'[i] = jobs[i]
      BY <1>0, <1>4, <2>1 DEF RetryJob
    <3>2. QED
      BY <3>1 DEF Effort, LastRun
  <2>2. CASE i = j
    <3>1. /\ jobs'[j].state = "waiting" /\ jobs'[j].made = jobs[j].made
          /\ jobs'[j].stalls = jobs[j].stalls /\ jobs'[j].manual = jobs[j].manual + 1
      BY <1>0, <1>4 DEF RetryJob
    <3>2. LastRun(j) = 1 /\ LastRun(j)' = 0
      BY <1>4, <3>1 DEF LastRun, RetryJob
    <3>3. QED
      BY <1>0, <2>2, <3>1, <3>2 DEF Effort
  <2>3. QED
    BY <2>1, <2>2
<1>5. CASE RemoveJob(j)
  BY <1>0, <1>5, EffortPut DEF RemoveJob, JobStates
<1>6. CASE Pause \/ Resume
  BY <1>6 DEF Pause, Resume, Effort, LastRun
<1>7. CASE Drain
  <2>1. CASE jobs[i].state = "waiting"
    <3>1. jobs'[i] = [jobs[i] EXCEPT !.state = "removed"]
      BY <1>7, <2>1 DEF Drain
    <3>2. jobs[i] \in JobRecord
      BY <1>0
    <3>3. /\ jobs'[i].state = "removed" /\ jobs'[i].made = jobs[i].made
          /\ jobs'[i].stalls = jobs[i].stalls /\ jobs'[i].manual = jobs[i].manual
      BY <3>1, <3>2 DEF JobRecord
    <3>4. LastRun(i) = 0 /\ LastRun(i)' = 1
      BY <2>1, <3>3 DEF LastRun
    <3>5. jobs[i].made \in Nat /\ jobs[i].stalls \in Nat /\ jobs[i].manual \in Nat
      BY JobFields
    <3>6. QED
      BY <1>0, <3>3, <3>4, <3>5 DEF Effort
  <2>2. CASE jobs[i].state # "waiting"
    BY <1>7, <2>2 DEF Drain, Effort, LastRun
  <2>3. QED
    BY <2>1, <2>2
<1>8. ASSUME NEW s \in Slots, Complete(s, j) PROVE Effort(i, n)'
  <2>1. CASE Holds(s, j)
    <3>1. Put(j, "completed", jobs[j].made, jobs[j].stalls)
      BY <1>8, <2>1 DEF Complete
    <3>2. QED
      BY <1>0, <3>1, EffortPut DEF JobStates
  <2>2. CASE ~Holds(s, j)
    BY <1>8, <2>2 DEF Complete, Effort, LastRun
  <2>3. QED
    BY <2>1, <2>2
<1>9. ASSUME NEW s \in Slots, FailAttempt(s, j) PROVE Effort(i, n)'
  <2>1. CASE Holds(s, j) /\ jobs[j].made + 1 < Attempts
    <3>1. Put(j, "delayed", jobs[j].made + 1, jobs[j].stalls)
      BY <1>9, <2>1 DEF FailAttempt
    <3>2. QED
      BY <1>0, <2>1, <3>1, EffortPut DEF JobStates
  <2>2. CASE Holds(s, j) /\ ~(jobs[j].made + 1 < Attempts)
    <3>1. Put(j, "failed", jobs[j].made + 1, jobs[j].stalls)
      BY <1>9, <2>2 DEF FailAttempt
    <3>2. QED
      BY <1>0, <3>1, EffortPut DEF JobStates
  <2>3. CASE ~Holds(s, j)
    BY <1>9, <2>3 DEF FailAttempt, Effort, LastRun
  <2>4. QED
    BY <2>1, <2>2, <2>3
<1>10. QED
  BY <1>1, <1>2, <1>3, <1>4, <1>5, <1>6, <1>7, <1>8, <1>9

\* A job that is taken may have been taken once more.
LEMMA EffortTaken ==
  ASSUME JobQueueTypeOK, NEW s \in Slots, NEW j \in Jobs, NEW i \in Jobs, NEW n \in Nat,
         Effort(i, n), Take(s, j)
  PROVE  Effort(i, n)' /\ (i = j => Effort(i, n + 1)')
<1>0. /\ jobs[j].made \in Nat /\ jobs[j].stalls \in Nat /\ jobs[j].manual \in Nat
      /\ MaxRetries \in Nat /\ jobs \in [Jobs -> JobRecord]
  BY JobFields, JobQueueConstants DEF JobQueueTypeOK
<1>1. CASE i # j
  <2>1. jobs'[i] = jobs[i]
    BY <1>0, <1>1 DEF Take
  <2>2. QED
    BY <1>1, <2>1 DEF Effort, LastRun
<1>2. CASE i = j
  <2>1. /\ jobs'[j].state = "active" /\ jobs'[j].made = jobs[j].made
        /\ jobs'[j].stalls = jobs[j].stalls /\ jobs'[j].manual = jobs[j].manual
    BY <1>0 DEF Take
  <2>2. LastRun(j) = 0 /\ LastRun(j)' = 1
    BY <2>1 DEF LastRun, Take
  <2>3. QED
    BY <1>0, <1>2, <2>1, <2>2 DEF Effort
<1>3. QED
  BY <1>1, <1>2

\* What is less after a step is within the effort too.
LEMMA EffortLess ==
  ASSUME JobQueueTypeOK', NEW i \in Jobs, NEW n \in Nat, NEW m \in Nat, m <= n, Effort(i, n)'
  PROVE  Effort(i, m)'
<1>1. /\ jobs'[i].made \in Nat /\ jobs'[i].stalls \in Nat /\ jobs'[i].manual \in Nat
      /\ MaxRetries \in Nat /\ LastRun(i)' \in {0, 1}
  <2>1. jobs'[i] \in JobRecord
    BY DEF JobQueueTypeOK
  <2>2. MaxStalls \in Nat /\ MaxManual \in Nat /\ MaxRetries \in Nat
    BY JobQueueConstants
  <2>3. QED
    BY <2>1, <2>2 DEF JobRecord, LastRun
<1>2. QED
  BY <1>1 DEF Effort

\* A job is taken for its attempts, for the locks it may lose, and for the operator.
LEMMA EffortBound ==
  ASSUME JobQueueTypeOK, NEW i \in Jobs, NEW n \in Nat, Effort(i, n)
  PROVE  n <= Attempts + MaxStalls + jobs[i].manual
<1>1. /\ jobs[i].stalls \in Nat /\ jobs[i].stalls <= MaxStalls /\ jobs[i].manual \in Nat
      /\ MaxRetries \in Nat /\ MaxStalls \in Nat /\ LastRun(i) \in {0, 1}
  BY JobFields, JobQueueConstants DEF LastRun
<1>2. QED
  BY <1>1 DEF Effort, Attempts

\* A job that was not added stays fresh.
LEMMA FreshStays ==
  ASSUME JobQueueTypeOK, AbsentIsFresh, NEW j \in Jobs,
         \/ \E d \in BOOLEAN : Add(j, d)
         \/ Promote(j) \/ Stall(j) \/ RetryJob(j) \/ RemoveJob(j)
         \/ Pause \/ Resume \/ Drain
         \/ \E s \in Slots : Take(s, j) \/ Complete(s, j) \/ FailAttempt(s, j)
  PROVE  AbsentIsFresh'
<1>0. jobs \in [Jobs -> JobRecord]
  BY DEF JobQueueTypeOK
<1>1. ASSUME NEW state, NEW made, NEW stalls, Put(j, state, made, stalls), state # "absent"
      PROVE AbsentIsFresh'
  BY <1>0, <1>1 DEF Put, AbsentIsFresh
<1>2. CASE \E d \in BOOLEAN : Add(j, d)
  <2>1. PICK state \in {"delayed", "waiting"} : Put(j, state, 0, 0)
    BY <1>2 DEF Add
  <2>2. QED
    BY <1>1, <2>1
<1>3. CASE Promote(j) \/ Stall(j) \/ RemoveJob(j)
  BY <1>1, <1>3 DEF Promote, Stall, RemoveJob
<1>4. CASE Drain
  BY <1>0, <1>4 DEF Drain, AbsentIsFresh
<1>5. CASE Pause \/ Resume
  BY <1>5 DEF Pause, Resume, AbsentIsFresh
<1>6. CASE RetryJob(j) \/ \E s \in Slots : Take(s, j)
  BY <1>0, <1>6 DEF RetryJob, Take, AbsentIsFresh
<1>7. ASSUME NEW s \in Slots, Complete(s, j) \/ FailAttempt(s, j) PROVE AbsentIsFresh'
  <2>1. CASE Holds(s, j)
    BY <1>1, <1>7, <2>1 DEF Complete, FailAttempt
  <2>2. CASE ~Holds(s, j)
    BY <1>7, <2>2 DEF Complete, FailAttempt, AbsentIsFresh
  <2>3. QED
    BY <2>1, <2>2
<1>8. QED
  BY <1>2, <1>3, <1>4, <1>5, <1>6, <1>7

\* Nobody but the operator retries a job by hand.
LEMMA ManualStays ==
  ASSUME JobQueueTypeOK, NEW j \in Jobs, NEW i \in Jobs,
         \/ \E d \in BOOLEAN : Add(j, d)
         \/ Stall(j)
         \/ \E s \in Slots : Take(s, j) \/ Complete(s, j) \/ FailAttempt(s, j)
  PROVE  jobs'[i].manual = jobs[i].manual
<1>0. jobs \in [Jobs -> JobRecord]
  BY DEF JobQueueTypeOK
<1>1. ASSUME NEW state, NEW made, NEW stalls, Put(j, state, made, stalls)
      PROVE jobs'[i].manual = jobs[i].manual
  BY <1>0, <1>1 DEF Put
<1>2. CASE (\E d \in BOOLEAN : Add(j, d)) \/ Stall(j)
  BY <1>1, <1>2 DEF Add, Stall
<1>3. ASSUME NEW s \in Slots, Take(s, j) PROVE jobs'[i].manual = jobs[i].manual
  BY <1>0, <1>3 DEF Take
<1>4. ASSUME NEW s \in Slots, Complete(s, j) \/ FailAttempt(s, j)
      PROVE jobs'[i].manual = jobs[i].manual
  <2>1. CASE Holds(s, j)
    BY <1>1, <1>4, <2>1 DEF Complete, FailAttempt
  <2>2. CASE ~Holds(s, j)
    BY <1>4, <2>2 DEF Complete, FailAttempt
  <2>3. QED
    BY <2>1, <2>2
<1>5. QED
  BY <1>2, <1>3, <1>4

-----------------------------------------------------------------------------
\* Locks.

\* A job that is put somewhere is not locked by anyone, and the others are as they were.
LEMMA PutOne ==
  ASSUME JobQueueTypeOK, NEW i \in Jobs, NEW state, NEW made, NEW stalls,
         Put(i, state, made, stalls), NEW j \in Jobs
  PROVE  /\ j # i => jobs'[j] = jobs[j]
         /\ jobs'[i].state = state
BY DEF Put, JobQueueTypeOK

\* A slot holds its job until it reports it itself or the lock expires.
LEMMA HeldStays ==
  ASSUME JobQueueTypeOK, NEW s \in Slots, NEW j \in Jobs, Holds(s, j), NEW i \in Jobs,
         \/ \E d \in BOOLEAN : Add(i, d)
         \/ Promote(i) \/ RetryJob(i) \/ RemoveJob(i)
         \/ Pause \/ Resume \/ Drain
         \/ Stall(i) /\ i # j
         \/ \E r \in Slots : \/ Take(r, i)
                             \/ r # s /\ (Complete(r, i) \/ FailAttempt(r, i))
  PROVE  Holds(s, j)'
<1>0. jobs \in [Jobs -> JobRecord] /\ jobs[j].state = "active" /\ jobs[j].lock = s
  BY DEF JobQueueTypeOK, Holds
<1>1. CASE jobs'[j] = jobs[j]
  BY <1>0, <1>1 DEF Holds
<1>2. ASSUME NEW state, NEW made, NEW stalls, Put(i, state, made, stalls), i # j
      PROVE  Holds(s, j)'
  BY <1>1, <1>2, PutOne
<1>3. CASE \E d \in BOOLEAN : Add(i, d)
  <2>1. PICK state \in {"delayed", "waiting"} : Put(i, state, 0, 0)
    BY <1>3 DEF Add
  <2>2. i # j
    BY <1>0, <1>3 DEF Add
  <2>3. QED
    BY <1>2, <2>1, <2>2
<1>4. CASE Promote(i) \/ RemoveJob(i)
  BY <1>0, <1>2, <1>4 DEF Promote, RemoveJob
<1>5. CASE RetryJob(i) \/ \E r \in Slots : Take(r, i)
  BY <1>0, <1>1, <1>5 DEF RetryJob, Take
<1>6. CASE Pause \/ Resume \/ Drain
  BY <1>0, <1>1, <1>6 DEF Pause, Resume, Drain
<1>7. CASE Stall(i) /\ i # j
  BY <1>2, <1>7 DEF Stall
<1>8. ASSUME NEW r \in Slots, r # s, Complete(r, i) \/ FailAttempt(r, i)
      PROVE  Holds(s, j)'
  <2>1. CASE Holds(r, i)
    <3>1. i # j
      BY <1>0, <1>8, <2>1 DEF Holds
    <3>2. QED
      BY <1>2, <1>8, <2>1, <3>1 DEF Complete, FailAttempt
  <2>2. CASE ~Holds(r, i)
    BY <1>1, <1>8, <2>2 DEF Complete, FailAttempt
  <2>3. QED
    BY <2>1, <2>2
<1>9. QED
  BY <1>3, <1>4, <1>5, <1>6, <1>7, <1>8

\* A completed job stays completed until it is removed, and a removed one removed.
LEMMA DoneStays ==
  ASSUME JobQueueTypeOK, NEW j \in Jobs, jobs[j].state \in {"completed", "removed"},
         NEW i \in Jobs,
         \/ \E d \in BOOLEAN : Add(i, d)
         \/ Promote(i) \/ Stall(i) \/ RetryJob(i) \/ RemoveJob(i)
         \/ Pause \/ Resume \/ Drain
         \/ \E s \in Slots : Take(s, i) \/ Complete(s, i) \/ FailAttempt(s, i)
  PROVE  jobs'[j].state \in {"completed", "removed"}
<1>0. jobs \in [Jobs -> JobRecord]
  BY DEF JobQueueTypeOK
<1>1. CASE jobs'[j] = jobs[j]
  BY <1>1
<1>2. ASSUME NEW state, NEW made, NEW stalls, Put(i, state, made, stalls),
             i # j \/ state \in {"completed", "removed"}
      PROVE  jobs'[j].state \in {"completed", "removed"}
  BY <1>2, PutOne
<1>3. CASE \E d \in BOOLEAN : Add(i, d)
  <2>1. PICK state \in {"delayed", "waiting"} : Put(i, state, 0, 0)
    BY <1>3 DEF Add
  <2>2. i # j
    BY <1>3 DEF Add
  <2>3. QED
    BY <1>2, <2>1, <2>2
<1>4. CASE Promote(i) \/ RemoveJob(i) \/ Stall(i)
  BY <1>2, <1>4 DEF Promote, RemoveJob, Stall
<1>5. CASE RetryJob(i) \/ \E s \in Slots : Take(s, i)
  BY <1>0, <1>1, <1>5 DEF RetryJob, Take
<1>6. CASE Pause \/ Resume \/ Drain
  BY <1>0, <1>1, <1>6 DEF Pause, Resume, Drain
<1>7. ASSUME NEW s \in Slots, Complete(s, i) \/ FailAttempt(s, i)
      PROVE  jobs'[j].state \in {"completed", "removed"}
  <2>1. CASE Holds(s, i)
    <3>1. i # j
      BY <2>1 DEF Holds
    <3>2. QED
      BY <1>2, <1>7, <2>1, <3>1 DEF Complete, FailAttempt
  <2>2. CASE ~Holds(s, i)
    BY <1>1, <1>7, <2>2 DEF Complete, FailAttempt
  <2>3. QED
    BY <2>1, <2>2
<1>8. QED
  BY <1>3, <1>4, <1>5, <1>6, <1>7

=============================================================================
