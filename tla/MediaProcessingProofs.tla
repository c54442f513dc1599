----------------------- MODULE MediaProcessingProofs -----------------------
(***************************************************************************)
(* Safety of MediaProcessing for every value of its constants: types, what *)
(* each row says exists does, the runs of one job own their attempts, and  *)
(* the attempts are numbered without a gap and account for every publishing*)
(* job and every delivery.                                                 *)
(***************************************************************************)
EXTENDS MediaProcessing, JobQueueProofs

-----------------------------------------------------------------------------
\* Types, and the numbers that the types of the attempts rest on.

Working == {"converting", "recording", "handing", "closing", "completing", "failing", "marking"}

\* A busy slot works for an asset.
Busy == \A s \in Slots : ~At(s, "idle") => run[s].asset \in Assets

\* The attempts of an asset are numbered from one, each number given once.
Numbered(a) ==
  /\ \E k \in Nat : Numbers(a) = 1..k
  /\ \A t, u \in attempts[a] : t.number = u.number => t = u

\* A run that was told a number was told one that is taken or the next, and a run that is at
\* work on its attempt has taken it.
KnowsItsNumber(s) ==
  /\ run[s].label \in Working \cup {"attempting"} => run[s].number # 0
  /\ At(s, "attempting") => 1..(run[s].number - 1) \subseteq Numbers(run[s].asset)
  /\ run[s].label \in Working => run[s].number \in Numbers(run[s].asset)

TypeInv ==
  /\ TypeOK
  /\ Busy
  /\ \A a \in Assets : Numbered(a)
  /\ \A s \in Slots : KnowsItsNumber(s)

\* The number told to a run is the next one.
LEMMA NextNumber ==
  ASSUME NEW a, NEW k \in Nat, Numbers(a) = 1..k
  PROVE  NextAttemptNumber(a) = k + 1
<1>1. CASE k = 0
  <2>1. Numbers(a) = {}
    BY <1>1
  <2>2. attempts[a] = {}
    BY <2>1 DEF Numbers
  <2>3. QED
    BY <1>1, <2>2 DEF NextAttemptNumber
<1>2. CASE k # 0
  <2>1. attempts[a] # {}
    BY <1>2 DEF Numbers
  <2>2. k \in Numbers(a) /\ \A m \in Numbers(a) : m <= k
    BY <1>2
  <2>3. DEFINE top == CHOOSE n \in Numbers(a) : \A m \in Numbers(a) : m <= n
  <2>4. top \in Numbers(a) /\ \A m \in Numbers(a) : m <= top
    BY <2>2
  <2>5. top = k
    BY <2>2, <2>4
  <2>6. NextAttemptNumber(a) = 1 + top
    BY <2>1, Zenon DEF NextAttemptNumber
  <2>7. NextAttemptNumber(a) = 1 + k
    BY <2>5, <2>6, Zenon
  <2>8. QED
    BY <2>7
<1>3. QED
  BY <1>1, <1>2

\* The initial state has its types.
LEMMA TypeInit == Init => TypeInv
<1>1. SUFFICES ASSUME Init PROVE TypeInv
  OBVIOUS
<1>2. JobQueueTypeOK
  <2>1. 0 \in 0..MaxStalls /\ 0 \in 0..MaxManual
    BY JobQueueConstants
  <2>2. [state |-> "absent", made |-> 0, stalls |-> 0, manual |-> 0, lock |-> NoSlot]
          \in JobRecord
    BY <2>1 DEF JobRecord, JobStates
  <2>3. QED
    BY <1>1, <2>2 DEF Init, JobQueueInit, JobQueueTypeOK
<1>3. TypeOK
  <2>1. Idle \in Run
    BY DEF Idle, Run, Labels
  <2>2. QED
    BY <1>1, <1>2, <2>1 DEF Init, TypeOK, Uploads, AssetStatuses, ProcessingStatuses
<1>4. Busy
  BY <1>1 DEF Init, Busy, Idle, At
<1>5. ASSUME NEW a \in Assets PROVE Numbered(a)
  <2>1. attempts[a] = {}
    BY <1>1 DEF Init
  <2>2. Numbers(a) = 1..0
    BY <2>1 DEF Numbers
  <2>3. QED
    BY <2>1, <2>2 DEF Numbered
<1>6. ASSUME NEW s \in Slots PROVE KnowsItsNumber(s)
  BY <1>1 DEF Init, KnowsItsNumber, Idle, At, Working
<1>7. QED
  BY <1>3, <1>4, <1>5, <1>6 DEF TypeInv

\* A run that writes its attempt adds the attempt's number, if it was not there, and nothing
\* else; the number is the next one then.
LEMMA ClosedNumbers ==
  ASSUME TypeInv, NEW a \in Assets, NEW n \in Nat \ {0},
         NEW status \in ProcessingStatuses \ {"absent", "pending"},
         n \in Numbers(a) \/ 1..(n - 1) \subseteq Numbers(a),
         attempts' = Closed(a, n, status)
  PROVE  /\ DOMAIN attempts' = Assets
         /\ \A b \in Assets : /\ attempts'[b] \subseteq Attempt
                              /\ Numbers(b)' = IF b = a THEN Numbers(b) \cup {n} ELSE Numbers(b)
                              /\ b # a => attempts'[b] = attempts[b]
         /\ \A b \in Assets : Numbered(b)'
<1>0. /\ DOMAIN attempts = Assets /\ \A b \in Assets : attempts[b] \subseteq Attempt
      /\ \A b \in Assets : Numbered(b)
  BY DEF TypeInv, TypeOK
<1>1. DEFINE new == [number |-> n, status |-> status]
<1>2. /\ DOMAIN attempts' = Assets
      /\ attempts'[a] = {t \in attempts[a] : t.number # n} \cup {new}
      /\ \A b \in Assets \ {a} : attempts'[b] = attempts[b]
  BY <1>0 DEF Closed
<1>3. new \in Attempt /\ new.number = n
  BY DEF Attempt
<1>4. \A b \in Assets : attempts'[b] \subseteq Attempt
  BY <1>0, <1>2, <1>3
<1>5. Numbers(a)' = Numbers(a) \cup {n}
  BY <1>2, <1>3 DEF Numbers
<1>6. \A b \in Assets \ {a} : Numbers(b)' = Numbers(b)
  BY <1>2 DEF Numbers
<1>7. ASSUME NEW b \in Assets \ {a} PROVE Numbered(b)'
  BY <1>0, <1>2, <1>6 DEF Numbered
<1>8. Numbered(a)'
  <2>1. PICK k \in Nat : Numbers(a) = 1..k
    BY <1>0 DEF Numbered
  <2>2. Numbers(a)' = 1..k \/ Numbers(a)' = 1..(k + 1)
    <3>1. CASE n \in Numbers(a)
      BY <1>5, <2>1, <3>1
    <3>2. CASE n \notin Numbers(a)
      <4>1. n > k
        BY <2>1, <3>2
      <4>2. n = 1 \/ n - 1 \in 1..k
        BY <2>1, <3>2
      <4>3. n = k + 1
        BY <4>1, <4>2
      <4>4. QED
        BY <1>5, <2>1, <4>3
    <3>3. QED
      BY <3>1, <3>2
  <2>3. \E m \in Nat : Numbers(a)' = 1..m
    BY <2>2
  <2>4. \A t, u \in attempts'[a] : t.number = u.number => t = u
    BY <1>0, <1>2, <1>3 DEF Numbered
  <2>5. QED
    BY <2>3, <2>4 DEF Numbered
<1>9. QED
  BY <1>2, <1>4, <1>5, <1>6, <1>7, <1>8

-----------------------------------------------------------------------------
\* What a step does to a slot and to the attempts.

\* A slot that moves with Go keeps its asset and its number.
LEMMA GoKeeps ==
  ASSUME TypeOK, NEW s \in Slots, NEW label \in Labels, Go(s, label)
  PROVE  /\ run' \in [Slots -> Run]
         /\ run'[s].label = label /\ run'[s].asset = run[s].asset
         /\ run'[s].number = run[s].number
         /\ \A r \in Slots : r # s => run'[r] = run[r]
  BY DEF Go, TypeOK, Run

\* The steps of a run that has started and not ended.
RunStep(s) ==
  \/ MarkRunning(s) \/ NumberAttempt(s) \/ CreateAttempt(s) \/ Convert(s)
  \/ RecordArtifact(s) \/ HandOver(s) \/ CloseAttempt(s) \/ CompleteJob(s)
  \/ FailTheAttempt(s) \/ FailTheJob(s)

\* A step of a run leaves the queue, the other slots and its asset alone.
LEMMA RunMoves ==
  ASSUME TypeInv, NEW s \in Slots, RunStep(s)
  PROVE  /\ run[s].asset \in Assets /\ ~At(s, "idle")
         /\ run' \in [Slots -> Run]
         /\ run'[s].asset = run[s].asset /\ run'[s].label # "idle"
         /\ run'[s].number = run[s].number \/ NumberAttempt(s)
         /\ \A r \in Slots : r # s => run'[r] = run[r]
         /\ UNCHANGED <<queue, upload, asset>>
<1>0. TypeOK /\ Busy /\ run \in [Slots -> Run]
  BY DEF TypeInv, TypeOK
<1>1. run[s].asset \in Assets /\ ~At(s, "idle")
  BY <1>0 DEF RunStep, MarkRunning, NumberAttempt, CreateAttempt, Convert, RecordArtifact,
         HandOver, CloseAttempt, CompleteJob, FailTheAttempt, FailTheJob, At, Busy
<1>2. CASE NumberAttempt(s)
  <2>1. CASE Go(s, "thrown")
    BY <1>0, <1>1, <1>2, <2>1, GoKeeps DEF NumberAttempt, rows, Labels
  <2>2. CASE run' = [run EXCEPT ![s] = [label |-> "attempting", asset |-> run[s].asset,
                                        number |-> NextAttemptNumber(run[s].asset)]]
    <3>1. PICK k \in Nat : Numbers(run[s].asset) = 1..k
      BY <1>1 DEF TypeInv, Numbered
    <3>2. PICK n \in Nat : n = NextAttemptNumber(run[s].asset)
      BY <3>1, NextNumber
    <3>3. run' = [run EXCEPT ![s] = [label |-> "attempting", asset |-> run[s].asset,
                                     number |-> n]]
      BY <2>2, <3>2
    <3>4. [label |-> "attempting", asset |-> run[s].asset, number |-> n] \in Run
      BY <1>1 DEF Run, Labels
    <3>5. QED
      BY <1>0, <1>1, <1>2, <3>3, <3>4 DEF NumberAttempt, rows
  <2>3. QED
    BY <1>2, <2>1, <2>2 DEF NumberAttempt
<1>3. CASE ~NumberAttempt(s)
  <2>1. PICK label \in Labels \ {"idle"} : Go(s, label)
    BY <1>3 DEF RunStep, MarkRunning, CreateAttempt, Convert, RecordArtifact,
         HandOver, CloseAttempt, CompleteJob, FailTheAttempt, FailTheJob, Labels
  <2>2. UNCHANGED <<queue, upload, asset>>
    BY <1>3 DEF RunStep, MarkRunning, CreateAttempt, Convert, RecordArtifact,
         HandOver, CloseAttempt, CompleteJob, FailTheAttempt, FailTheJob, rows
  <2>3. QED
    BY <1>0, <1>1, <2>1, <2>2, GoKeeps
<1>4. QED
  BY <1>2, <1>3

\* A run writes the attempts of its asset, at its number.
LEMMA AttemptsMove ==
  ASSUME TypeInv, NEW s \in Slots, RunStep(s)
  PROVE  \/ attempts' = attempts
         \/ /\ run[s].asset \in Assets /\ run[s].number \in Nat \ {0}
            /\ \E status \in ProcessingStatuses \ {"absent", "pending"} :
                 attempts' = Closed(run[s].asset, run[s].number, status)
            /\ \/ run[s].number \in Numbers(run[s].asset) /\ run[s].label \in Working
               \/ /\ 1..(run[s].number - 1) \subseteq Numbers(run[s].asset)
                  /\ run[s].number \notin Numbers(run[s].asset)
                  /\ At(s, "attempting") /\ run'[s].label \in {"converting", "thrown"}
<1>0. TypeOK /\ KnowsItsNumber(s) /\ run[s] \in Run
  BY DEF TypeInv, TypeOK
<1>1. run[s].asset \in Assets
  BY RunMoves
<1>2. CASE CreateAttempt(s)
  <2>1. At(s, "attempting") /\ run[s].number \in Nat \ {0}
    BY <1>0, <1>2 DEF CreateAttempt, KnowsItsNumber, At, Run
  <2>2. CASE attempts' # attempts
    <3>1. /\ attempts' = Closed(run[s].asset, run[s].number, "running")
          /\ run[s].number \notin Numbers(run[s].asset)
          /\ Go(s, "converting") \/ Go(s, "thrown")
      BY <1>2, <2>2 DEF CreateAttempt
    <3>2. run'[s].label \in {"converting", "thrown"}
      BY <1>0, <3>1, GoKeeps DEF Labels
    <3>3. QED
      BY <1>0, <1>1, <2>1, <3>1, <3>2 DEF KnowsItsNumber, ProcessingStatuses
  <2>3. QED
    BY <2>2
<1>3. CASE CloseAttempt(s) \/ FailTheAttempt(s)
  <2>1. run[s].label \in Working
    BY <1>3 DEF CloseAttempt, FailTheAttempt, At, Working
  <2>2. run[s].number \in Nat \ {0} /\ run[s].number \in Numbers(run[s].asset)
    BY <1>0, <2>1 DEF KnowsItsNumber, Run
  <2>3. \/ attempts' = attempts
        \/ attempts' = Closed(run[s].asset, run[s].number, "completed")
        \/ attempts' = Closed(run[s].asset, run[s].number, "failed")
    BY <1>3 DEF CloseAttempt, FailTheAttempt
  <2>4. QED
    BY <1>1, <2>1, <2>2, <2>3 DEF ProcessingStatuses
<1>4. CASE ~CreateAttempt(s) /\ ~CloseAttempt(s) /\ ~FailTheAttempt(s)
  BY <1>4 DEF RunStep, MarkRunning, NumberAttempt, Convert, RecordArtifact, HandOver,
       CompleteJob, FailTheJob, rows
<1>5. QED
  BY <1>2, <1>3, <1>4

\* No number is taken back, and every asset stays numbered.
LEMMA NumbersGrow ==
  ASSUME TypeInv, NEW s \in Slots, RunStep(s)
  PROVE  /\ DOMAIN attempts' = Assets
         /\ \A a \in Assets : /\ attempts'[a] \subseteq Attempt
                              /\ Numbers(a) \subseteq Numbers(a)'
                              /\ Numbered(a)'
<1>1. CASE attempts' = attempts
  BY <1>1 DEF TypeInv, TypeOK, Numbers, Numbered
<1>2. CASE attempts' # attempts
  <2>1. PICK status \in ProcessingStatuses \ {"absent", "pending"} :
          /\ run[s].asset \in Assets /\ run[s].number \in Nat \ {0}
          /\ attempts' = Closed(run[s].asset, run[s].number, status)
          /\ \/ run[s].number \in Numbers(run[s].asset)
             \/ 1..(run[s].number - 1) \subseteq Numbers(run[s].asset)
    BY <1>2, AttemptsMove
  <2>2. /\ DOMAIN attempts' = Assets
        /\ \A b \in Assets :
             /\ attempts'[b] \subseteq Attempt
             /\ Numbers(b)' = IF b = run[s].asset THEN Numbers(b) \cup {run[s].number}
                              ELSE Numbers(b)
        /\ \A b \in Assets : Numbered(b)'
    BY <2>1, ClosedNumbers
  <2>3. QED
    BY <2>2
<1>3. QED
  BY <1>1, <1>2

\* A run that gets to its attempt's work has taken its number.
LEMMA NumberIsTaken ==
  ASSUME TypeInv, NEW s \in Slots, RunStep(s)
  PROVE  KnowsItsNumber(s)'
<1>0. /\ TypeOK /\ run[s].asset \in Assets /\ run'[s].asset = run[s].asset
      /\ KnowsItsNumber(s)
      /\ Numbers(run[s].asset) \subseteq Numbers(run[s].asset)'
  BY RunMoves, NumbersGrow DEF TypeInv
<1>1. CASE run'[s].label \notin Working \cup {"attempting"}
  BY <1>1 DEF KnowsItsNumber, At
<1>2. CASE NumberAttempt(s)
  <2>1. CASE Go(s, "thrown")
    <3>1. run'[s].label = "thrown"
      BY <1>0, <2>1, GoKeeps DEF Labels
    <3>2. QED
      BY <1>1, <3>1 DEF Working
  <2>2. CASE run' = [run EXCEPT ![s] = [label |-> "attempting", asset |-> run[s].asset,
                                        number |-> NextAttemptNumber(run[s].asset)]]
    <3>1. PICK k \in Nat : Numbers(run[s].asset) = 1..k
      BY <1>0 DEF TypeInv, Numbered
    <3>2. NextAttemptNumber(run[s].asset) = k + 1
      BY <3>1, NextNumber
    <3>3. run'[s].label = "attempting" /\ run'[s].number = k + 1
      BY <1>0, <2>2, <3>2 DEF TypeOK
    <3>4. UNCHANGED attempts
      BY <1>2 DEF NumberAttempt, rows
    <3>5. Numbers(run[s].asset)' = 1..k /\ 1..((k + 1) - 1) = 1..k /\ k + 1 # 0
      BY <1>0, <3>1, <3>4 DEF Numbers
    <3>6. QED
      BY <1>0, <3>3, <3>5 DEF KnowsItsNumber, At, Working, Numbers
  <2>3. QED
    BY <1>2, <2>1, <2>2 DEF NumberAttempt
<1>3. CASE CreateAttempt(s)
  <2>1. CASE Go(s, "thrown")
    <3>1. run'[s].label = "thrown"
      BY <1>0, <2>1, GoKeeps DEF Labels
    <3>2. QED
      BY <1>1, <3>1 DEF Working
  <2>2. CASE Go(s, "converting") /\ ~Go(s, "thrown")
    <3>1. run'[s].label = "converting" /\ run'[s].number = run[s].number
      BY <1>0, <2>2, GoKeeps DEF Labels
    <3>2. attempts' = Closed(run[s].asset, run[s].number, "running")
      BY <1>3, <2>2 DEF CreateAttempt
    <3>3. /\ run[s].number \in Nat \ {0}
          /\ 1..(run[s].number - 1) \subseteq Numbers(run[s].asset)
      BY <1>0, <1>3 DEF CreateAttempt, KnowsItsNumber, At, TypeOK, Run
    <3>4. Numbers(run[s].asset)' = Numbers(run[s].asset) \cup {run[s].number}
      BY <1>0, <3>2, <3>3, ClosedNumbers DEF ProcessingStatuses
    <3>5. QED
      BY <1>0, <3>1, <3>3, <3>4 DEF KnowsItsNumber, At, Working, Numbers
  <2>3. QED
    BY <1>3, <2>1, <2>2 DEF CreateAttempt
<1>4. CASE MarkRunning(s)
  <2>1. PICK label \in {"numbering", "thrown"} : Go(s, label)
    BY <1>4 DEF MarkRunning
  <2>2. run'[s].label = label
    BY <1>0, <2>1, GoKeeps DEF Labels
  <2>3. QED
    BY <1>1, <2>1, <2>2 DEF Working
<1>5. CASE /\ run[s].label \in Working /\ run'[s].label # "attempting"
           /\ run'[s].number = run[s].number
  BY <1>0, <1>5 DEF KnowsItsNumber, At, Numbers
<1>6. CASE \/ Convert(s) \/ RecordArtifact(s) \/ HandOver(s) \/ CloseAttempt(s)
           \/ CompleteJob(s) \/ FailTheAttempt(s) \/ FailTheJob(s)
  <2>1. run[s].label \in Working
    BY <1>6 DEF Convert, RecordArtifact, HandOver, CloseAttempt, CompleteJob, FailTheAttempt,
         FailTheJob, At, Working
  <2>2. PICK label \in Labels \ {"attempting"} : Go(s, label)
    BY <1>6 DEF Convert, RecordArtifact, HandOver, CloseAttempt, CompleteJob, FailTheAttempt,
         FailTheJob, Labels
  <2>3. run'[s].label = label /\ run'[s].number = run[s].number
    BY <1>0, <2>2, GoKeeps
  <2>4. QED
    BY <1>5, <2>1, <2>2, <2>3
<1>7. QED
  BY <1>2, <1>3, <1>4, <1>6 DEF RunStep

\* The tables keep their types.
LEMMA TablesTypes ==
  ASSUME TypeInv, [Next]_vars
  PROVE  /\ upload' \in [Assets -> Uploads]
         /\ files' \subseteq Assets \X {"source", "thumbnail"}
         /\ asset' \in [Assets -> AssetStatuses]
         /\ job' \in [Assets -> ProcessingStatuses]
         /\ artifacts' \subseteq Assets
         /\ handed' \in [Assets -> Nat]
<1>0. /\ upload \in [Assets -> Uploads]
      /\ files \subseteq Assets \X {"source", "thumbnail"}
      /\ asset \in [Assets -> AssetStatuses]
      /\ job \in [Assets -> ProcessingStatuses]
      /\ artifacts \subseteq Assets
      /\ handed \in [Assets -> Nat]
  BY DEF TypeInv, TypeOK
<1>1. ASSUME NEW a \in Assets, StoreFile(a)
      PROVE upload' \in [Assets -> Uploads] /\ files' \subseteq Assets \X {"source", "thumbnail"}
  BY <1>0, <1>1 DEF StoreFile, Answer, Uploads
<1>2. ASSUME NEW a \in Assets, CreateAsset(a)
      PROVE upload' \in [Assets -> Uploads] /\ asset' \in [Assets -> AssetStatuses]
  BY <1>0, <1>2 DEF CreateAsset, Answer, Mark, Uploads, AssetStatuses
<1>3. ASSUME NEW a \in Assets, ScheduleJob(a)
      PROVE upload' \in [Assets -> Uploads] /\ job' \in [Assets -> ProcessingStatuses]
  <2>1. upload' \in [Assets -> Uploads]
    BY <1>0, <1>3 DEF ScheduleJob, Answer, Uploads
  <2>2. job' \in [Assets -> ProcessingStatuses]
    BY <1>0, <1>3 DEF ScheduleJob, Mark, ProcessingStatuses
  <2>3. QED
    BY <2>1, <2>2
<1>4. ASSUME NEW a \in Assets, EnqueueJob(a) PROVE upload' \in [Assets -> Uploads]
  BY <1>0, <1>4 DEF EnqueueJob, Answer, Mark, Uploads
<1>5. ASSUME NEW s \in Slots, MarkRunning(s) \/ CompleteJob(s) \/ FailTheJob(s)
      PROVE job' \in [Assets -> ProcessingStatuses]
  BY <1>0, <1>5 DEF MarkRunning, CompleteJob, FailTheJob, Mark, ProcessingStatuses
<1>6. ASSUME NEW s \in Slots, Convert(s)
      PROVE files' \subseteq Assets \X {"source", "thumbnail"}
  <2>1. RunStep(s)
    BY <1>6 DEF RunStep
  <2>2. run[s].asset \in Assets
    BY <2>1, RunMoves
  <2>3. QED
    BY <1>0, <1>6, <2>2 DEF Convert
<1>7. ASSUME NEW s \in Slots, RecordArtifact(s) PROVE artifacts' \subseteq Assets
  <2>1. RunStep(s)
    BY <1>7 DEF RunStep
  <2>2. run[s].asset \in Assets
    BY <2>1, RunMoves
  <2>3. QED
    BY <1>0, <1>7, <2>2 DEF RecordArtifact
<1>8. ASSUME NEW s \in Slots, HandOver(s) PROVE handed' \in [Assets -> Nat]
  BY <1>0, <1>8 DEF HandOver
<1>9. QED
  BY <1>0, <1>1, <1>2, <1>3, <1>4, <1>5, <1>6, <1>7, <1>8
  DEF Next, vars, UploadStep, SlotStep, StoreFile, CreateAsset, ScheduleJob, EnqueueJob, Start,
      MarkRunning, NumberAttempt, CreateAttempt, Convert, RecordArtifact, HandOver, CloseAttempt,
      CompleteJob, FailTheAttempt, FailTheJob, Report, Crash, LockExpires, rows

\* A step gives a slot a job, ends a run, goes on with one, or touches no slot.
LEMMA StepKinds ==
  ASSUME [Next]_vars
  PROVE  \/ \E s \in Slots : RunStep(s)
         \/ \E s \in Slots : Start(s) \/ Report(s) \/ Crash(s)
         \/ UNCHANGED <<run, attempts>>
  BY DEF Next, vars, UploadStep, SlotStep, RunStep, StoreFile, CreateAsset, ScheduleJob,
         EnqueueJob, LockExpires, rows

\* A run starts with no number, and what ends a run leaves its slot idle; neither touches the
\* attempts or another slot.
LEMMA RunBounds ==
  ASSUME TypeOK, Busy, NEW s \in Slots, Start(s) \/ Report(s) \/ Crash(s)
  PROVE  /\ run' \in [Slots -> Run]
         /\ \A r \in Slots : r # s => run'[r] = run[r]
         /\ \/ Start(s) /\ run'[s].label = "loading" /\ run'[s].asset \in Assets
            \/ ~Start(s) /\ run'[s] = Idle /\ run[s].asset \in Assets
         /\ attempts' = attempts
<1>1. CASE Start(s)
  <2>1. PICK a \in Assets :
          run' = [run EXCEPT ![s] = [label |-> "loading", asset |-> a, number |-> 0]]
    BY <1>1 DEF Start
  <2>2. [label |-> "loading", asset |-> a, number |-> 0] \in Run
    BY DEF Run, Labels
  <2>3. QED
    BY <1>1, <2>1, <2>2 DEF TypeOK, Start, rows
<1>2. CASE Report(s) \/ Crash(s)
  <2>1. run' = [run EXCEPT ![s] = Idle] /\ attempts' = attempts /\ ~At(s, "idle")
    BY <1>2 DEF Report, Crash, rows, At
  <2>2. Idle \in Run
    BY DEF Idle, Run, Labels
  <2>3. ~Start(s)
    BY <2>1 DEF Start
  <2>4. QED
    BY <2>1, <2>2, <2>3 DEF TypeOK, Busy
<1>3. QED
  BY <1>1, <1>2

\* The queue keeps its types.
LEMMA QueueStays ==
  ASSUME TypeInv, [Next]_vars
  PROVE  JobQueueTypeOK'
<1>0. JobQueueTypeOK /\ TypeOK /\ Busy
  BY DEF TypeInv, TypeOK
<1>1. ASSUME NEW a \in Assets, EnqueueJob(a) PROVE JobQueueTypeOK'
  <2>1. CASE Add(a, FALSE)
    BY <1>0, <2>1, QueueTypes DEF Assets
  <2>2. CASE UNCHANGED queue
    BY <1>0, <2>2 DEF queue, JobQueueTypeOK
  <2>3. QED
    BY <1>1, <2>1, <2>2 DEF EnqueueJob
<1>2. ASSUME NEW a \in Assets, LockExpires(a) PROVE JobQueueTypeOK'
  BY <1>0, <1>2, QueueTypes DEF LockExpires, Assets
<1>3. ASSUME NEW s \in Slots, Start(s) PROVE JobQueueTypeOK'
  BY <1>0, <1>3, QueueTypes DEF Start, Assets
<1>4. ASSUME NEW s \in Slots, Report(s) PROVE JobQueueTypeOK'
  <2>1. run[s].asset \in Assets
    BY <1>0, <1>4 DEF Report, Busy, At
  <2>2. Complete(s, run[s].asset) \/ FailAttempt(s, run[s].asset)
    BY <1>4 DEF Report
  <2>3. QED
    BY <1>0, <2>1, <2>2, QueueTypes DEF Assets
<1>5. CASE UNCHANGED queue
  BY <1>0, <1>5 DEF queue, JobQueueTypeOK
<1>6. ASSUME NEW s \in Slots, RunStep(s) PROVE JobQueueTypeOK'
  BY <1>5, <1>6, RunMoves
<1>7. QED
  BY <1>1, <1>2, <1>3, <1>4, <1>5, <1>6
  DEF Next, vars, queue, UploadStep, SlotStep, RunStep, StoreFile, CreateAsset, ScheduleJob, Crash

\* Every step keeps the types and the numbers.
LEMMA TypeNext == TypeInv /\ [Next]_vars => TypeInv'
<1>1. SUFFICES ASSUME TypeInv, [Next]_vars PROVE TypeInv'
  OBVIOUS
<1>0. /\ TypeOK /\ Busy
      /\ \A a \in Assets : Numbered(a)
      /\ \A s \in Slots : KnowsItsNumber(s)
      /\ run \in [Slots -> Run] /\ DOMAIN attempts = Assets
      /\ \A a \in Assets : attempts[a] \subseteq Attempt
  BY <1>1 DEF TypeInv, TypeOK
<1>2. JobQueueTypeOK'
  BY <1>1, QueueStays
<1>3. /\ upload' \in [Assets -> Uploads]
      /\ files' \subseteq Assets \X {"source", "thumbnail"}
      /\ asset' \in [Assets -> AssetStatuses]
      /\ job' \in [Assets -> ProcessingStatuses]
      /\ artifacts' \subseteq Assets
      /\ handed' \in [Assets -> Nat]
  BY <1>1, TablesTypes
<1>4. ASSUME NEW r \in Slots, run'[r] = run[r],
             \A a \in Assets : Numbers(a) \subseteq Numbers(a)'
      PROVE  KnowsItsNumber(r)' /\ (~At(r, "idle")' => run'[r].asset \in Assets)
  <2>1. KnowsItsNumber(r) /\ (~At(r, "idle") => run[r].asset \in Assets)
    BY <1>0 DEF Busy
  <2>2. ~At(r, "idle") => Numbers(run[r].asset) \subseteq Numbers(run[r].asset)'
    BY <1>4, <2>1
  <2>3. QED
    BY <1>4, <2>1, <2>2 DEF KnowsItsNumber, At, Working, Numbers
<1>5. ASSUME run' \in [Slots -> Run], DOMAIN attempts' = Assets,
             \A a \in Assets : attempts'[a] \subseteq Attempt /\ Numbered(a)',
             \A r \in Slots : KnowsItsNumber(r)' /\ (~At(r, "idle")' => run'[r].asset \in Assets)
      PROVE  TypeInv'
  <2>1. TypeOK'
    BY <1>2, <1>3, <1>5 DEF TypeOK
  <2>2. Busy'
    BY <1>5 DEF Busy
  <2>3. QED
    BY <1>5, <2>1, <2>2 DEF TypeInv
<1>6. ASSUME NEW s \in Slots, RunStep(s) PROVE TypeInv'
  <2>1. /\ run' \in [Slots -> Run] /\ run'[s].asset \in Assets
        /\ \A r \in Slots : r # s => run'[r] = run[r]
    BY <1>1, <1>6, RunMoves
  <2>2. /\ DOMAIN attempts' = Assets
        /\ \A a \in Assets : /\ attempts'[a] \subseteq Attempt
                             /\ Numbers(a) \subseteq Numbers(a)'
                             /\ Numbered(a)'
    BY <1>1, <1>6, NumbersGrow
  <2>3. KnowsItsNumber(s)'
    BY <1>1, <1>6, NumberIsTaken
  <2>4. \A r \in Slots : KnowsItsNumber(r)' /\ (~At(r, "idle")' => run'[r].asset \in Assets)
    BY <1>4, <2>1, <2>2, <2>3
  <2>5. QED
    BY <1>5, <2>1, <2>2, <2>4
<1>7. ASSUME NEW s \in Slots, Start(s) \/ Report(s) \/ Crash(s) PROVE TypeInv'
  <2>1. /\ run' \in [Slots -> Run] /\ attempts' = attempts
        /\ \A r \in Slots : r # s => run'[r] = run[r]
        /\ \/ run'[s].label = "loading" /\ run'[s].asset \in Assets
           \/ run'[s] = Idle
    BY <1>0, <1>7, RunBounds
  <2>2. \A a \in Assets : Numbers(a) \subseteq Numbers(a)' /\ Numbered(a)'
    BY <1>0, <2>1 DEF Numbers, Numbered
  <2>3. KnowsItsNumber(s)' /\ (~At(s, "idle")' => run'[s].asset \in Assets)
    BY <2>1 DEF KnowsItsNumber, At, Working, Idle
  <2>4. \A r \in Slots : KnowsItsNumber(r)' /\ (~At(r, "idle")' => run'[r].asset \in Assets)
    BY <1>4, <2>1, <2>2, <2>3
  <2>5. QED
    BY <1>0, <1>5, <2>1, <2>2, <2>4
<1>8. CASE UNCHANGED <<run, attempts>>
  <2>1. \A a \in Assets : Numbers(a) \subseteq Numbers(a)' /\ Numbered(a)'
    BY <1>0, <1>8 DEF Numbers, Numbered
  <2>2. QED
    BY <1>0, <1>4, <1>5, <1>8, <2>1
<1>9. QED
  BY <1>1, <1>6, <1>7, <1>8, StepKinds

\* The types and the numbers hold throughout.
LEMMA TypeInvariant == Spec => []TypeInv
  BY TypeInit, TypeNext, PTL DEF Spec

\* The type invariant, of every number of assets, slots and stalls: the upload request
\* (routes/media.ts) and the worker's dispatchJob keep every row to the statuses its table
\* knows.
THEOREM TypeCorrect == Spec => []TypeOK
<1>1. TypeInv => TypeOK
  BY DEF TypeInv
<1>2. QED
  BY <1>1, TypeInvariant, PTL

-----------------------------------------------------------------------------
\* What a row says exists does.

\* How far a request has come, what the rows of its asset say, and what there is to back them.
AssetBacked(a) ==
  /\ upload[a] \in {"stored", "created", "scheduled", "answered"} => Stored(a, "source")
  /\ upload[a] \in {"created", "scheduled", "answered"} => asset[a] # "absent"
  /\ asset[a] # "absent" => Stored(a, "source")
  /\ job[a] # "absent" \/ jobs[a].state # "absent" => asset[a] # "absent"
  /\ a \in artifacts => Stored(a, "thumbnail")
  /\ job[a] = "completed" \/ handed[a] > 0 => a \in artifacts

\* A run works for an asset that exists, and has come past what it has made.
RunBacked(s) ==
  /\ ~At(s, "idle") => asset[run[s].asset] # "absent"
  /\ At(s, "recording") => Stored(run[s].asset, "thumbnail")
  /\ run[s].label \in {"handing", "closing", "completing"} => run[s].asset \in artifacts

BackedInv ==
  /\ TypeInv
  /\ \A a \in Assets : AssetBacked(a)
  /\ \A s \in Slots : RunBacked(s)

\* No file, no artifact and no asset goes.
LEMMA NothingIsTakenBack ==
  ASSUME TypeInv, [Next]_vars
  PROVE  /\ files \subseteq files' /\ artifacts \subseteq artifacts'
         /\ \A a \in Assets : asset[a] # "absent" => asset'[a] # "absent"
<1>1. files \subseteq files'
  BY DEF Next, vars, UploadStep, SlotStep, StoreFile, CreateAsset, ScheduleJob, EnqueueJob, Start,
      MarkRunning, NumberAttempt, CreateAttempt, Convert, RecordArtifact, HandOver, CloseAttempt,
      CompleteJob, FailTheAttempt, FailTheJob, Report, Crash, LockExpires
<1>2. artifacts \subseteq artifacts'
  BY DEF Next, vars, UploadStep, SlotStep, StoreFile, CreateAsset, ScheduleJob, EnqueueJob, Start,
      MarkRunning, NumberAttempt, CreateAttempt, Convert, RecordArtifact, HandOver, CloseAttempt,
      CompleteJob, FailTheAttempt, FailTheJob, Report, Crash, LockExpires, rows
<1>3. asset' = asset \/ \E a \in Assets : asset' = Mark(asset, a, "pending")
  BY DEF Next, vars, UploadStep, SlotStep, StoreFile, CreateAsset, ScheduleJob, EnqueueJob, Start,
      MarkRunning, NumberAttempt, CreateAttempt, Convert, RecordArtifact, HandOver, CloseAttempt,
      CompleteJob, FailTheAttempt, FailTheJob, Report, Crash, LockExpires, rows
<1>4. \A a \in Assets : asset[a] # "absent" => asset'[a] # "absent"
  BY <1>3 DEF Mark, TypeInv, TypeOK
<1>5. QED
  BY <1>1, <1>2, <1>4

\* The queue knows a job once its request puts it there.
LEMMA JobsAppear ==
  ASSUME TypeInv, [Next]_vars, NEW b \in Assets, jobs'[b].state # "absent"
  PROVE  jobs[b].state # "absent" \/ upload[b] = "scheduled"
<1>0. jobs \in [Assets -> JobRecord] /\ Busy
  BY DEF TypeInv, TypeOK, JobQueueTypeOK, Assets
<1>1. ASSUME NEW a \in Assets, NEW state, NEW made, NEW stalls, Put(a, state, made, stalls),
             jobs[a].state # "absent"
      PROVE  jobs[b].state # "absent"
  BY <1>0, <1>1 DEF Put
<1>2. ASSUME NEW a \in Assets, EnqueueJob(a)
      PROVE jobs[b].state # "absent" \/ upload[b] = "scheduled"
  <2>1. b # a => jobs'[b] = jobs[b]
    BY <1>0, <1>2 DEF EnqueueJob, Add, Put, queue
  <2>2. QED
    BY <1>2, <2>1 DEF EnqueueJob
<1>3. ASSUME NEW a \in Assets, LockExpires(a) PROVE jobs[b].state # "absent"
  <2>1. Stall(a)
    BY <1>3 DEF LockExpires
  <2>2. QED
    BY <1>1, <2>1 DEF Stall
<1>4. ASSUME NEW s \in Slots, Start(s) PROVE jobs[b].state # "absent"
  <2>1. PICK a \in Assets : Take(s, a)
    BY <1>4 DEF Start
  <2>2. QED
    BY <1>0, <2>1 DEF Take
<1>5. ASSUME NEW s \in Slots, Report(s) PROVE jobs[b].state # "absent"
  <2>1. run[s].asset \in Assets
    BY <1>0, <1>5 DEF Report, Busy, At
  <2>2. CASE jobs' = jobs
    BY <2>2
  <2>3. CASE jobs' # jobs
    <3>1. Holds(s, run[s].asset)
      BY <1>5, <2>3 DEF Report, Complete, FailAttempt
    <3>2. \E state, made, stalls : Put(run[s].asset, state, made, stalls)
      BY <1>5, <3>1 DEF Report, Complete, FailAttempt
    <3>3. QED
      BY <1>1, <2>1, <3>1, <3>2 DEF Holds
  <2>4. QED
    BY <2>2, <2>3
<1>6. CASE jobs' = jobs
  BY <1>6
<1>7. ASSUME NEW s \in Slots, RunStep(s) PROVE jobs[b].state # "absent"
  BY <1>7, RunMoves DEF queue
<1>8. QED
  BY <1>2, <1>3, <1>4, <1>5, <1>6, <1>7
  DEF Next, vars, queue, UploadStep, SlotStep, RunStep, StoreFile, CreateAsset, ScheduleJob, Crash

\* The rows of an asset stay backed.
LEMMA AssetsStayBacked ==
  ASSUME BackedInv, [Next]_vars, NEW b \in Assets
  PROVE  AssetBacked(b)'
<1>0. /\ TypeInv /\ TypeOK /\ AssetBacked(b)
      /\ files \subseteq files' /\ artifacts \subseteq artifacts'
      /\ asset[b] # "absent" => asset'[b] # "absent"
      /\ jobs'[b].state # "absent" => jobs[b].state # "absent" \/ upload[b] = "scheduled"
  BY NothingIsTakenBack, JobsAppear DEF BackedInv, TypeInv
<1>1. ASSUME upload'[b] = upload[b], asset'[b] = asset[b], job'[b] = job[b],
             b \in artifacts' => b \in artifacts, handed'[b] = handed[b]
      PROVE  AssetBacked(b)'
  BY <1>0, <1>1 DEF AssetBacked, Stored
<1>2. ASSUME NEW a \in Assets, StoreFile(a) PROVE AssetBacked(b)'
  <2>1. CASE a = b
    BY <1>0, <1>2, <2>1 DEF StoreFile, Answer, rows, TypeOK, AssetBacked, Stored
  <2>2. CASE a # b
    BY <1>0, <1>1, <1>2, <2>2 DEF StoreFile, Answer, rows, TypeOK
  <2>3. QED
    BY <2>1, <2>2
<1>3. ASSUME NEW a \in Assets, CreateAsset(a) PROVE AssetBacked(b)'
  <2>1. CASE a = b
    BY <1>0, <1>3, <2>1 DEF CreateAsset, Answer, Mark, TypeOK, AssetBacked, Stored
  <2>2. CASE a # b
    BY <1>0, <1>1, <1>3, <2>2 DEF CreateAsset, Answer, Mark, TypeOK
  <2>3. QED
    BY <2>1, <2>2
<1>4. ASSUME NEW a \in Assets, ScheduleJob(a) PROVE AssetBacked(b)'
  <2>1. CASE a = b
    BY <1>0, <1>4, <2>1 DEF ScheduleJob, Answer, Mark, TypeOK, AssetBacked, Stored
  <2>2. CASE a # b
    BY <1>0, <1>1, <1>4, <2>2 DEF ScheduleJob, Answer, Mark, TypeOK
  <2>3. QED
    BY <2>1, <2>2
<1>5. ASSUME NEW a \in Assets, EnqueueJob(a) PROVE AssetBacked(b)'
  <2>1. CASE a = b
    BY <1>0, <1>5, <2>1 DEF EnqueueJob, Answer, Mark, rows, TypeOK, AssetBacked, Stored
  <2>2. CASE a # b
    BY <1>0, <1>1, <1>5, <2>2 DEF EnqueueJob, Answer, Mark, rows, TypeOK
  <2>3. QED
    BY <2>1, <2>2
<1>6. ASSUME NEW s \in Slots, RunStep(s) PROVE AssetBacked(b)'
  <2>0. /\ upload' = upload /\ asset' = asset /\ jobs' = jobs
        /\ run[s].asset \in Assets /\ ~At(s, "idle") /\ RunBacked(s)
    BY <1>0, <1>6, RunMoves DEF queue, BackedInv
  <2>1. CASE MarkRunning(s)
    BY <1>0, <2>0, <2>1 DEF MarkRunning, Mark, TypeOK, AssetBacked, RunBacked, Stored
  <2>2. CASE RecordArtifact(s)
    BY <1>0, <2>0, <2>2 DEF RecordArtifact, AssetBacked, RunBacked, Stored
  <2>3. CASE HandOver(s)
    BY <1>0, <2>0, <2>3 DEF HandOver, rows, At, TypeOK, AssetBacked, RunBacked, Stored
  <2>4. CASE CompleteJob(s)
    BY <1>0, <2>0, <2>4 DEF CompleteJob, Mark, At, TypeOK, AssetBacked, RunBacked, Stored
  <2>5. CASE FailTheJob(s)
    BY <1>0, <2>0, <2>5 DEF FailTheJob, Mark, TypeOK, AssetBacked, RunBacked, Stored
  <2>6. CASE \/ NumberAttempt(s) \/ CreateAttempt(s) \/ Convert(s) \/ CloseAttempt(s)
             \/ FailTheAttempt(s)
    BY <1>1, <2>0, <2>6
    DEF NumberAttempt, CreateAttempt, Convert, CloseAttempt, FailTheAttempt, rows
  <2>7. QED
    BY <1>6, <2>1, <2>2, <2>3, <2>4, <2>5, <2>6 DEF RunStep
<1>7. CASE UNCHANGED <<upload, files, rows, handed>>
  BY <1>1, <1>7 DEF rows
<1>8. QED
  BY <1>2, <1>3, <1>4, <1>5, <1>6, <1>7
  DEF Next, vars, UploadStep, SlotStep, RunStep, Start, Report, Crash, LockExpires, rows

\* A run has always made what it has come past.
LEMMA RunsStayBacked ==
  ASSUME BackedInv, [Next]_vars, NEW r \in Slots
  PROVE  RunBacked(r)'
<1>0. /\ TypeInv /\ TypeOK /\ Busy /\ RunBacked(r)
      /\ files \subseteq files' /\ artifacts \subseteq artifacts'
      /\ \A a \in Assets : asset[a] # "absent" => asset'[a] # "absent"
      /\ \A a \in Assets : AssetBacked(a)
  BY NothingIsTakenBack DEF BackedInv, TypeInv
<1>1. CASE run'[r] = run[r]
  BY <1>0, <1>1 DEF RunBacked, Busy, At, Stored
<1>2. CASE Start(r)
  <2>1. PICK a \in Assets :
          /\ Take(r, a)
          /\ run' = [run EXCEPT ![r] = [label |-> "loading", asset |-> a, number |-> 0]]
    BY <1>2 DEF Start
  <2>2. asset[a] # "absent"
    BY <1>0, <2>1 DEF Take, AssetBacked
  <2>3. run'[r].label = "loading" /\ run'[r].asset = a
    BY <1>0, <2>1 DEF TypeOK
  <2>4. QED
    BY <1>0, <2>2, <2>3 DEF RunBacked, At
<1>3. CASE Report(r) \/ Crash(r)
  <2>1. run'[r] = Idle
    BY <1>0, <1>3 DEF Report, Crash, TypeOK
  <2>2. QED
    BY <2>1 DEF RunBacked, At, Idle
<1>4. CASE RunStep(r)
  <2>0. /\ run[r].asset \in Assets /\ ~At(r, "idle") /\ asset[run[r].asset] # "absent"
        /\ run'[r].asset = run[r].asset
    BY <1>0, <1>4, RunMoves DEF RunBacked
  <2>1. CASE run'[r].label \notin {"recording", "handing", "closing", "completing"}
    BY <1>0, <2>0, <2>1 DEF RunBacked, At
  <2>2. CASE Convert(r)
    <3>1. \/ Go(r, "failing")
          \/ Go(r, "recording") /\ files' = files \cup {<<run[r].asset, "thumbnail">>}
      BY <2>2 DEF Convert
    <3>2. \/ run'[r].label = "failing"
          \/ run'[r].label = "recording" /\ Stored(run[r].asset, "thumbnail")'
      BY <1>0, <2>0, <3>1, GoKeeps DEF Labels, Stored
    <3>3. QED
      BY <1>0, <2>0, <3>2 DEF RunBacked, At, Stored
  <2>3. CASE RecordArtifact(r)
    <3>1. \/ Go(r, "failing")
          \/ /\ Go(r, "handing") \/ Go(r, "closing")
             /\ run[r].asset \in artifacts'
      BY <2>3 DEF RecordArtifact
    <3>2. \/ run'[r].label = "failing"
          \/ run'[r].label \in {"handing", "closing"} /\ run'[r].asset \in artifacts'
      BY <1>0, <2>0, <3>1, GoKeeps DEF Labels
    <3>3. QED
      BY <1>0, <2>0, <3>2 DEF RunBacked, At
  <2>4. CASE HandOver(r) \/ CloseAttempt(r)
    <3>1. run[r].asset \in artifacts'
      BY <1>0, <2>4 DEF HandOver, CloseAttempt, RunBacked, At
    <3>2. \E label \in {"closing", "completing", "failing"} : Go(r, label)
      BY <2>4 DEF HandOver, CloseAttempt
    <3>3. run'[r].label # "recording" /\ run'[r].asset \in artifacts'
      BY <1>0, <2>0, <3>1, <3>2, GoKeeps DEF Labels
    <3>4. QED
      BY <1>0, <2>0, <3>3 DEF RunBacked, At
  <2>5. CASE \/ MarkRunning(r) \/ CreateAttempt(r) \/ CompleteJob(r) \/ FailTheAttempt(r)
             \/ FailTheJob(r)
    <3>1. \E label \in {"numbering", "converting", "done", "failing", "marking", "thrown"} :
            Go(r, label)
      BY <2>5 DEF MarkRunning, CreateAttempt, CompleteJob, FailTheAttempt, FailTheJob
    <3>2. run'[r].label \in {"numbering", "converting", "done", "failing", "marking", "thrown"}
      BY <1>0, <3>1, GoKeeps DEF Labels
    <3>3. QED
      BY <2>1, <3>2
  <2>6. CASE NumberAttempt(r)
    <3>1. run'[r].label \in {"attempting", "thrown"}
      BY <1>0, <2>6 DEF NumberAttempt, Go, TypeOK, Run
    <3>2. QED
      BY <2>1, <3>1
  <2>7. QED
    BY <1>4, <2>2, <2>3, <2>4, <2>5, <2>6 DEF RunStep
<1>5. ASSUME NEW s \in Slots, s # r, RunStep(s) \/ Start(s) \/ Report(s) \/ Crash(s)
      PROVE  RunBacked(r)'
  BY <1>0, <1>1, <1>5, RunMoves, RunBounds
<1>6. QED
  BY <1>1, <1>2, <1>3, <1>4, <1>5, StepKinds

\* Nothing is backed by what is not there, throughout.
LEMMA BackedInvariant == Spec => []BackedInv
<1>1. Init => BackedInv
  BY TypeInit DEF Init, JobQueueInit, Assets, BackedInv, AssetBacked, RunBacked, Idle, At
<1>2. BackedInv /\ [Next]_vars => BackedInv'
  BY TypeNext, AssetsStayBacked, RunsStayBacked DEF BackedInv
<1>3. QED
  BY <1>1, <1>2, PTL DEF Spec

\* An asset has its file, a job its asset, an artifact its thumbnail, and what is completed or
\* handed to publishing its artifact: whatever of the calls of the upload route and of
\* dispatchJob fails, and wherever a worker dies or is overtaken.
THEOREM NothingIsPretended == Spec => []RecordsAreBacked
<1>1. BackedInv => RecordsAreBacked
  BY DEF BackedInv, TypeInv, AssetBacked, RecordsAreBacked
<1>2. QED
  BY <1>1, BackedInvariant, PTL

-----------------------------------------------------------------------------
\* Who writes an attempt.

\* A run at work on an attempt works on the one it was at work on, or on one that was not there.
LEMMA EntersWork ==
  ASSUME TypeInv, NEW s \in Slots, RunStep(s), run'[s].label \in Working
  PROVE  /\ run'[s].number = run[s].number /\ run'[s].asset = run[s].asset
         /\ \/ run[s].label \in Working
            \/ At(s, "attempting") /\ run[s].number \notin Numbers(run[s].asset)
<1>0. TypeOK /\ run'[s].asset = run[s].asset
  BY RunMoves DEF TypeInv
<1>1. ~NumberAttempt(s)
  <2>1. NumberAttempt(s) => Go(s, "thrown") \/ run'[s].label = "attempting"
    BY <1>0 DEF NumberAttempt, TypeOK
  <2>2. Go(s, "thrown") => run'[s].label = "thrown"
    BY <1>0, GoKeeps DEF Labels
  <2>3. QED
    BY <2>1, <2>2 DEF Working
<1>2. run'[s].number = run[s].number
  BY <1>1, RunMoves
<1>3. CASE MarkRunning(s)
  <2>1. \E label \in {"numbering", "thrown"} : Go(s, label)
    BY <1>3 DEF MarkRunning
  <2>2. run'[s].label \in {"numbering", "thrown"}
    BY <1>0, <2>1, GoKeeps DEF Labels
  <2>3. QED
    BY <2>2 DEF Working
<1>4. CASE CreateAttempt(s)
  <2>1. CASE run[s].number \in Numbers(run[s].asset)
    <3>1. Go(s, "thrown")
      BY <1>4, <2>1 DEF CreateAttempt
    <3>2. run'[s].label = "thrown"
      BY <1>0, <3>1, GoKeeps DEF Labels
    <3>3. QED
      BY <3>2 DEF Working
  <2>2. CASE run[s].number \notin Numbers(run[s].asset)
    BY <1>0, <1>2, <1>4, <2>2 DEF CreateAttempt
  <2>3. QED
    BY <2>1, <2>2
<1>5. CASE \/ Convert(s) \/ RecordArtifact(s) \/ HandOver(s) \/ CloseAttempt(s)
           \/ CompleteJob(s) \/ FailTheAttempt(s) \/ FailTheJob(s)
  BY <1>0, <1>2, <1>5 DEF Convert, RecordArtifact, HandOver, CloseAttempt, CompleteJob,
       FailTheAttempt, FailTheJob, At, Working
<1>6. QED
  BY <1>1, <1>3, <1>4, <1>5 DEF RunStep

\* Two runs of one asset at work are at work on different attempts.
Distinct == \A s, t \in Slots :
  /\ s # t /\ run[s].label \in Working /\ run[t].label \in Working
  /\ run[s].asset = run[t].asset
  => run[s].number # run[t].number

\* That stays so: a run that begins work takes a number that nobody at work has.
LEMMA DistinctNext == TypeInv /\ Distinct /\ [Next]_vars => Distinct'
<1>1. SUFFICES ASSUME TypeInv, Distinct, [Next]_vars PROVE Distinct'
  OBVIOUS
<1>0. TypeOK /\ Busy /\ \A s \in Slots : KnowsItsNumber(s)
  BY <1>1 DEF TypeInv
<1>2. ASSUME NEW s \in Slots, RunStep(s) PROVE Distinct'
  <2>1. \A r \in Slots : r # s => run'[r] = run[r]
    BY <1>1, <1>2, RunMoves
  <2>2. CASE run'[s].label \notin Working
    BY <1>1, <2>1, <2>2 DEF Distinct
  <2>3. CASE run'[s].label \in Working
    <3>1. /\ run'[s].number = run[s].number /\ run'[s].asset = run[s].asset
          /\ run[s].label \in Working \/ run[s].number \notin Numbers(run[s].asset)
      BY <1>1, <1>2, <2>3, EntersWork
    <3>2. ASSUME NEW r \in Slots, r # s, run[r].label \in Working,
                 run[r].asset = run[s].asset
          PROVE  run[r].number # run[s].number
      <4>1. CASE run[s].label \in Working
        BY <1>1, <3>2, <4>1 DEF Distinct
      <4>2. CASE run[s].number \notin Numbers(run[s].asset)
        <5>1. run[r].number \in Numbers(run[r].asset)
          BY <1>0, <3>2 DEF KnowsItsNumber
        <5>2. QED
          BY <3>2, <4>2, <5>1
      <4>3. QED
        BY <3>1, <4>1, <4>2
    <3>3. QED
      BY <1>1, <2>1, <3>1, <3>2 DEF Distinct
  <2>4. QED
    BY <2>2, <2>3
<1>3. ASSUME NEW s \in Slots, Start(s) \/ Report(s) \/ Crash(s) PROVE Distinct'
  <2>1. /\ \A r \in Slots : r # s => run'[r] = run[r]
        /\ run'[s].label = "loading" \/ run'[s] = Idle
    BY <1>0, <1>3, RunBounds
  <2>2. run'[s].label \notin Working
    BY <2>1 DEF Working, Idle
  <2>3. QED
    BY <1>1, <2>1, <2>2 DEF Distinct
<1>4. CASE UNCHANGED <<run, attempts>>
  BY <1>1, <1>4 DEF Distinct
<1>5. QED
  BY <1>1, <1>2, <1>3, <1>4, StepKinds

\* Two runs of one job, of which one lost its lock to the other, never write the same attempt:
\* both may be told one number, and the insert that comes second is refused.
THEOREM EachRunHasItsAttempt == Spec => []AttemptsAreOwned
<1>1. Init => Distinct
  BY DEF Init, Distinct, Idle, Working
<1>2. TypeInv /\ Distinct => AttemptsAreOwned
  <2>1. SUFFICES ASSUME TypeInv, Distinct PROVE AttemptsAreOwned
    OBVIOUS
  <2>2. \A s \in Attempting : s \in Slots /\ run[s].label \in Working
    BY DEF Attempting, Working
  <2>3. \A s \in Attempting : run[s].number \in Numbers(run[s].asset)
    BY <2>1, <2>2 DEF TypeInv, KnowsItsNumber
  <2>4. QED
    BY <2>1, <2>2, <2>3 DEF AttemptsAreOwned, Distinct
<1>3. QED
  BY <1>1, <1>2, DistinctNext, TypeInit, TypeNext, PTL DEF Spec

-----------------------------------------------------------------------------
\* How many attempts there are.

Early == {"loading", "numbering", "attempting"}

\* The runs that have an attempt to make.
EarlyRuns(a) == {s \in Slots : run[s].asset = a /\ run[s].label \in Early}

\* The runs that have a publishing job to enqueue.
HandingRuns(a) ==
  {s \in Slots : run[s].asset = a /\ run[s].label \in {"converting", "recording", "handing"}}

\* Every publishing job that was or will be enqueued has its attempt, and every attempt that
\* was or will be made its delivery of the job, which the operator does not retry.
Accounted(a) ==
  /\ handed[a] + Cardinality(HandingRuns(a)) <= Cardinality(attempts[a])
  /\ Effort(a, Cardinality(attempts[a]) + Cardinality(EarlyRuns(a)))
  /\ jobs[a].manual = 0

AccountInv ==
  /\ TypeInv
  /\ AbsentIsFresh
  /\ \A a \in Assets : Accounted(a)

\* Attempts that are numbered from one on, each number given once, are as many as the last.
LEMMA AttemptsCounted ==
  ASSUME NEW given, NEW k \in Nat, {t.number : t \in given} = 1..k,
         \A t, u \in given : t.number = u.number => t = u
  PROVE  Cardinality(given) = k
<1>1. DEFINE f == [n \in 1..k |-> CHOOSE t \in given : t.number = n]
<1>2. ASSUME NEW n \in 1..k PROVE f[n] \in given /\ f[n].number = n
  <2>1. \E t \in given : t.number = n
    OBVIOUS
  <2>2. f[n] = CHOOSE t \in given : t.number = n
    OBVIOUS
  <2>3. QED
    BY <2>1, <2>2, Zenon
<1>3. f \in [1..k -> given]
  BY <1>2
<1>4. ASSUME NEW t \in given PROVE \E n \in 1..k : f[n] = t
  <2>1. t.number \in 1..k
    OBVIOUS
  <2>2. f[t.number] = t
    BY <1>2, <2>1
  <2>3. QED
    BY <2>1, <2>2
<1>5. f \in Injection(1..k, given)
  BY <1>2, <1>3, Zenon DEF Injection, IsInjective
<1>6. f \in Surjection(1..k, given)
  BY <1>3, <1>4, Zenon DEF Surjection
<1>7. ExistsBijection(1..k, given)
  BY <1>5, <1>6, Zenon DEF ExistsBijection, Bijection
<1>8. QED
  BY <1>7, FS_CountingElements

\* The numbers from one on, and one more, end one later.
LEMMA OneMore ==
  ASSUME NEW c \in Nat, NEW d \in Nat, NEW n \in Nat \ {0}, n \notin 1..c,
         1..d = (1..c) \cup {n}
  PROVE  d = c + 1
<1>1. n > c /\ n \in 1..d
  OBVIOUS
<1>2. d >= c + 1
  BY <1>1
<1>3. c + 1 \in 1..d
  BY <1>2
<1>4. c + 1 = n
  BY <1>3
<1>5. d \in 1..d
  BY <1>2
<1>6. QED
  BY <1>4, <1>5

\* Numbers that are the same end at the same.
LEMMA NoMore ==
  ASSUME NEW c \in Nat, NEW d \in Nat, 1..d = 1..c
  PROVE  d = c
<1>1. CASE d > c
  BY <1>1, d \in 1..d
<1>2. CASE c > d
  BY <1>2, c \in 1..c
<1>3. QED
  BY <1>1, <1>2

\* A run adds an attempt to its asset when it creates one, and then it is past that; when it
\* goes from there to work, it has added one.
LEMMA AttemptsGrow ==
  ASSUME TypeInv, NEW s \in Slots, RunStep(s), NEW b \in Assets
  PROVE  /\ Cardinality(attempts[b]) \in Nat /\ Cardinality(attempts'[b]) \in Nat
         /\ \/ /\ Cardinality(attempts'[b]) = Cardinality(attempts[b])
               /\ b = run[s].asset /\ At(s, "attempting") => run'[s].label \notin Working
            \/ /\ Cardinality(attempts'[b]) = Cardinality(attempts[b]) + 1
               /\ b = run[s].asset /\ At(s, "attempting")
               /\ run'[s].label \in {"converting", "thrown"}
<1>0. /\ Numbered(b) /\ Numbered(b)' /\ run[s].asset \in Assets
      /\ Numbers(b) \subseteq Numbers(b)'
  BY NumbersGrow, RunMoves DEF TypeInv
<1>1. PICK c \in Nat : Numbers(b) = 1..c /\ Cardinality(attempts[b]) = c
  BY <1>0, AttemptsCounted DEF Numbered, Numbers
<1>2. PICK d \in Nat : Numbers(b)' = 1..d /\ Cardinality(attempts'[b]) = d
  BY <1>0, AttemptsCounted DEF Numbered, Numbers
<1>3. CASE attempts' = attempts
  <2>1. c = d
    BY <1>1, <1>2, <1>3
  <2>2. ~(b = run[s].asset /\ At(s, "attempting") /\ run'[s].label \in Working)
    <3>1. SUFFICES ASSUME b = run[s].asset, At(s, "attempting"), run'[s].label \in Working
                   PROVE  FALSE
      OBVIOUS
    <3>2. run'[s].number = run[s].number /\ run'[s].asset = b
          /\ run[s].number \notin Numbers(b)
      BY <3>1, EntersWork DEF At, Working
    <3>3. run'[s].number \in {t.number : t \in attempts'[run'[s].asset]}
      BY <3>1, NumberIsTaken DEF KnowsItsNumber, Numbers
    <3>4. QED
      BY <1>3, <3>2, <3>3 DEF Numbers
  <2>3. QED
    BY <1>1, <1>2, <2>1, <2>2
<1>4. ASSUME NEW status \in ProcessingStatuses \ {"absent", "pending"},
             run[s].number \in Nat \ {0},
             attempts' = Closed(run[s].asset, run[s].number, status),
             \/ run[s].number \in Numbers(run[s].asset) /\ run[s].label \in Working
             \/ /\ 1..(run[s].number - 1) \subseteq Numbers(run[s].asset)
                /\ run[s].number \notin Numbers(run[s].asset)
                /\ At(s, "attempting") /\ run'[s].label \in {"converting", "thrown"}
      PROVE  \/ c = d /\ ~(b = run[s].asset /\ At(s, "attempting"))
             \/ /\ d = c + 1 /\ b = run[s].asset
                /\ At(s, "attempting") /\ run'[s].label \in {"converting", "thrown"}
  <2>1. Numbers(b)' = IF b = run[s].asset THEN Numbers(b) \cup {run[s].number} ELSE Numbers(b)
    BY <1>0, <1>4, ClosedNumbers
  <2>2. CASE b # run[s].asset
    BY <1>1, <1>2, <2>1, <2>2, NoMore
  <2>3. CASE b = run[s].asset /\ run[s].number \in Numbers(b)
    <3>1. 1..d = 1..c
      BY <1>1, <1>2, <2>1, <2>3
    <3>2. c = d
      BY <3>1, NoMore
    <3>3. ~At(s, "attempting")
      BY <1>4, <2>3 DEF At, Working
    <3>4. QED
      BY <3>2, <3>3
  <2>4. CASE b = run[s].asset /\ run[s].number \notin Numbers(b)
    <3>1. 1..d = (1..c) \cup {run[s].number} /\ run[s].number \notin 1..c
      BY <1>1, <1>2, <2>1, <2>4
    <3>2. d = c + 1
      BY <1>4, <3>1, OneMore
    <3>3. QED
      BY <1>4, <2>4, <3>2
  <2>5. QED
    BY <2>2, <2>3, <2>4
<1>5. QED
  BY <1>1, <1>2, <1>3, <1>4, AttemptsMove

\* How far a run goes in one step, and when it hands its asset over.
LEMMA RunPhases ==
  ASSUME TypeInv, NEW s \in Slots, RunStep(s)
  PROVE  /\ run[s].label \notin Early => run'[s].label \notin Early
         /\ ~At(s, "attempting") /\ run[s].label \notin {"converting", "recording", "handing"}
            => run'[s].label \notin {"converting", "recording", "handing"}
         /\ \/ handed' = handed
            \/ /\ At(s, "handing") /\ run'[s].label \notin {"converting", "recording", "handing"}
               /\ handed' = [handed EXCEPT ![run[s].asset] = @ + 1]
<1>0. TypeOK
  BY DEF TypeInv
<1>1. CASE MarkRunning(s)
  <2>1. \E label \in {"numbering", "thrown"} : Go(s, label)
    BY <1>1 DEF MarkRunning
  <2>2. run'[s].label \in {"numbering", "thrown"}
    BY <1>0, <2>1, GoKeeps DEF Labels
  <2>3. QED
    BY <1>1, <2>2 DEF MarkRunning, At, Early
<1>2. CASE NumberAttempt(s)
  <2>1. Go(s, "thrown") => run'[s].label = "thrown"
    BY <1>0, GoKeeps DEF Labels
  <2>2. run'[s].label \in {"attempting", "thrown"}
    BY <1>0, <1>2, <2>1 DEF NumberAttempt, TypeOK
  <2>3. QED
    BY <1>2, <2>2 DEF NumberAttempt, At, Early
<1>3. CASE CreateAttempt(s)
  <2>1. \E label \in {"converting", "thrown"} : Go(s, label)
    BY <1>3 DEF CreateAttempt
  <2>2. run'[s].label \in {"converting", "thrown"}
    BY <1>0, <2>1, GoKeeps DEF Labels
  <2>3. QED
    BY <1>3, <2>2 DEF CreateAttempt, At, Early
<1>4. CASE Convert(s) \/ RecordArtifact(s)
  <2>1. \E label \in {"failing", "recording", "handing", "closing"} : Go(s, label)
    BY <1>4 DEF Convert, RecordArtifact
  <2>2. run'[s].label \in {"failing", "recording", "handing", "closing"}
    BY <1>0, <2>1, GoKeeps DEF Labels
  <2>3. QED
    BY <1>4, <2>2 DEF Convert, RecordArtifact, At, Early
<1>5. CASE HandOver(s)
  <2>1. \E label \in {"closing", "failing"} : Go(s, label)
    BY <1>5 DEF HandOver
  <2>2. run'[s].label \in {"closing", "failing"}
    BY <1>0, <2>1, GoKeeps DEF Labels
  <2>3. QED
    BY <1>5, <2>2 DEF HandOver, At, Early
<1>6. CASE CloseAttempt(s) \/ CompleteJob(s) \/ FailTheAttempt(s) \/ FailTheJob(s)
  <2>1. \E label \in {"completing", "done", "failing", "marking", "thrown"} : Go(s, label)
    BY <1>6 DEF CloseAttempt, CompleteJob, FailTheAttempt, FailTheJob
  <2>2. run'[s].label \in {"completing", "done", "failing", "marking", "thrown"}
    BY <1>0, <2>1, GoKeeps DEF Labels
  <2>3. QED
    BY <1>6, <2>2 DEF CloseAttempt, CompleteJob, FailTheAttempt, FailTheJob, At, Early
<1>7. QED
  BY <1>1, <1>2, <1>3, <1>4, <1>5, <1>6 DEF RunStep

\* How the runs of an asset are counted when one slot moves.
LEMMA RunCounts ==
  ASSUME NEW s \in Slots, NEW b, \A r \in Slots : r # s => run'[r] = run[r]
  PROVE  /\ Cardinality(EarlyRuns(b)) \in Nat /\ Cardinality(EarlyRuns(b)') \in Nat
         /\ Cardinality(HandingRuns(b)) \in Nat /\ Cardinality(HandingRuns(b)') \in Nat
         /\ s \in EarlyRuns(b) /\ s \notin EarlyRuns(b)'
            => Cardinality(EarlyRuns(b)') + 1 = Cardinality(EarlyRuns(b))
         /\ s \notin EarlyRuns(b) /\ s \in EarlyRuns(b)'
            => Cardinality(EarlyRuns(b)') = Cardinality(EarlyRuns(b)) + 1
         /\ (s \in EarlyRuns(b) <=> s \in EarlyRuns(b)')
            => Cardinality(EarlyRuns(b)') = Cardinality(EarlyRuns(b))
         /\ s \in HandingRuns(b) /\ s \notin HandingRuns(b)'
            => Cardinality(HandingRuns(b)') + 1 = Cardinality(HandingRuns(b))
         /\ s \notin HandingRuns(b) /\ s \in HandingRuns(b)'
            => Cardinality(HandingRuns(b)') = Cardinality(HandingRuns(b)) + 1
         /\ (s \in HandingRuns(b) <=> s \in HandingRuns(b)')
            => Cardinality(HandingRuns(b)') = Cardinality(HandingRuns(b))
<1>1. /\ EarlyRuns(b) \in SUBSET Slots /\ EarlyRuns(b)' \in SUBSET Slots
      /\ HandingRuns(b) \in SUBSET Slots /\ HandingRuns(b)' \in SUBSET Slots
      /\ \A r \in Slots : r # s => /\ r \in EarlyRuns(b)' <=> r \in EarlyRuns(b)
                                   /\ r \in HandingRuns(b)' <=> r \in HandingRuns(b)
  BY DEF EarlyRuns, HandingRuns
<1>2. QED
  BY <1>1, SlotCount

\* A run spends its delivery on one attempt, and hands over on that.
LEMMA RunAccounts ==
  ASSUME AccountInv, NEW s \in Slots, RunStep(s), NEW b \in Assets
  PROVE  Accounted(b)'
<1>0. /\ TypeInv /\ Accounted(b) /\ jobs' = jobs /\ run'[s].asset = run[s].asset
      /\ \A r \in Slots : r # s => run'[r] = run[r]
      /\ handed \in [Assets -> Nat] /\ run[s].asset \in Assets /\ paused' = paused
  BY RunMoves DEF AccountInv, queue, TypeInv, TypeOK
<1>1. JobQueueTypeOK'
  BY <1>0 DEF TypeInv, TypeOK, JobQueueTypeOK
<1>2. /\ Cardinality(EarlyRuns(b)) \in Nat /\ Cardinality(EarlyRuns(b)') \in Nat
      /\ Cardinality(HandingRuns(b)) \in Nat /\ Cardinality(HandingRuns(b)') \in Nat
      /\ Cardinality(attempts[b]) \in Nat /\ Cardinality(attempts'[b]) \in Nat
  BY <1>0, RunCounts, AttemptsGrow
<1>3. Cardinality(attempts'[b]) + Cardinality(EarlyRuns(b)')
        <= Cardinality(attempts[b]) + Cardinality(EarlyRuns(b))
  <2>1. CASE s \in EarlyRuns(b) /\ s \notin EarlyRuns(b)'
    <3>1. Cardinality(EarlyRuns(b)') + 1 = Cardinality(EarlyRuns(b))
      BY <1>0, <2>1, RunCounts
    <3>2. Cardinality(attempts'[b]) <= Cardinality(attempts[b]) + 1
      BY <1>0, <1>2, AttemptsGrow
    <3>3. QED
      BY <1>2, <3>1, <3>2
  <2>2. CASE ~(s \in EarlyRuns(b) /\ s \notin EarlyRuns(b)')
    <3>1. s \in EarlyRuns(b)' => s \in EarlyRuns(b)
      BY <1>0, RunPhases DEF EarlyRuns
    <3>2. Cardinality(EarlyRuns(b)') = Cardinality(EarlyRuns(b))
      BY <1>0, <2>2, <3>1, RunCounts
    <3>3. ~(/\ b = run[s].asset /\ At(s, "attempting")
            /\ run'[s].label \in {"converting", "thrown"})
      BY <1>0, <2>2 DEF EarlyRuns, At, Early
    <3>4. Cardinality(attempts'[b]) = Cardinality(attempts[b])
      BY <1>0, <3>3, AttemptsGrow
    <3>5. QED
      BY <1>2, <3>2, <3>4
  <2>3. QED
    BY <2>1, <2>2
<1>4. handed'[b] + Cardinality(HandingRuns(b)') <= Cardinality(attempts'[b])
  <2>0. /\ handed[b] \in Nat /\ handed[b] + Cardinality(HandingRuns(b)) <= Cardinality(attempts[b])
        /\ Cardinality(attempts'[b]) >= Cardinality(attempts[b])
    BY <1>0, <1>2, AttemptsGrow DEF Accounted
  <2>1. CASE s \in HandingRuns(b) /\ s \notin HandingRuns(b)'
    <3>1. Cardinality(HandingRuns(b)') + 1 = Cardinality(HandingRuns(b))
      BY <1>0, <2>1, RunCounts
    <3>2. handed'[b] = handed[b] \/ handed'[b] = handed[b] + 1
      BY <1>0, RunPhases
    <3>3. QED
      BY <1>2, <2>0, <3>1, <3>2
  <2>2. CASE s \notin HandingRuns(b) /\ s \in HandingRuns(b)'
    <3>1. Cardinality(HandingRuns(b)') = Cardinality(HandingRuns(b)) + 1
      BY <1>0, <2>2, RunCounts
    <3>2. At(s, "attempting") /\ b = run[s].asset /\ run'[s].label \in Working
      BY <1>0, <2>2, RunPhases DEF HandingRuns, Working
    <3>3. handed' = handed
      BY <1>0, <3>2, RunPhases DEF At
    <3>4. Cardinality(attempts'[b]) = Cardinality(attempts[b]) + 1
      BY <1>0, <3>2, AttemptsGrow
    <3>5. QED
      BY <1>2, <2>0, <3>1, <3>3, <3>4
  <2>3. CASE s \in HandingRuns(b) <=> s \in HandingRuns(b)'
    <3>1. Cardinality(HandingRuns(b)') = Cardinality(HandingRuns(b))
      BY <1>0, <2>3, RunCounts
    <3>2. handed'[b] = handed[b]
      BY <1>0, <2>3, RunPhases DEF HandingRuns, At
    <3>3. QED
      BY <1>2, <2>0, <3>1, <3>2
  <2>4. QED
    BY <2>1, <2>2, <2>3
<1>5. Effort(b, Cardinality(attempts[b]) + Cardinality(EarlyRuns(b)))'
  <2>1. PICK n \in Nat : n = Cardinality(attempts[b]) + Cardinality(EarlyRuns(b))
    BY <1>2
  <2>2. PICK m \in Nat : m = Cardinality(attempts'[b]) + Cardinality(EarlyRuns(b)')
    BY <1>2
  <2>3. Effort(b, n)'
    BY <1>0, <2>1 DEF Accounted, Effort, LastRun
  <2>4. m <= n
    BY <1>3, <2>1, <2>2
  <2>5. Effort(b, m)'
    BY <1>1, <2>3, <2>4, EffortLess DEF Assets
  <2>6. QED
    BY <2>2, <2>5 DEF Effort, LastRun
<1>6. jobs'[b].manual = 0
  BY <1>0 DEF Accounted
<1>7. QED
  BY <1>4, <1>5, <1>6 DEF Accounted

\* What starts, ends or does not touch a run keeps the accounts too.
LEMMA OthersAccount ==
  ASSUME AccountInv, [Next]_vars, NEW b \in Assets,
         \A s \in Slots : ~RunStep(s)
  PROVE  Accounted(b)'
<1>0. /\ TypeInv /\ TypeOK /\ Busy /\ JobQueueTypeOK /\ JobQueueTypeOK' /\ AbsentIsFresh
      /\ Accounted(b) /\ attempts' = attempts /\ handed[b] \in Nat /\ handed' = handed
  <2>1. attempts' = attempts
    BY StepKinds, RunBounds DEF AccountInv, TypeInv
  <2>2. handed' = handed
    BY DEF Next, vars, UploadStep, SlotStep, RunStep, StoreFile, CreateAsset, ScheduleJob,
           EnqueueJob, Start, Report, Crash, LockExpires
  <2>3. QED
    BY <2>1, <2>2, QueueStays DEF AccountInv, TypeInv, TypeOK
<1>1. Cardinality(attempts[b]) \in Nat
  <2>1. Numbered(b)
    BY <1>0 DEF TypeInv
  <2>2. QED
    BY <2>1, AttemptsCounted DEF Numbered, Numbers
<1>2. PICK n \in Nat : n = Cardinality(attempts[b])
  BY <1>1
<1>3. ASSUME Cardinality(HandingRuns(b)) \in Nat, Cardinality(HandingRuns(b)') \in Nat,
             Cardinality(HandingRuns(b)') <= Cardinality(HandingRuns(b)),
             jobs'[b].manual = jobs[b].manual,
             NEW f \in Nat, f = Cardinality(EarlyRuns(b)'), Effort(b, n + f)'
      PROVE  Accounted(b)'
  <2>1. handed'[b] + Cardinality(HandingRuns(b)') <= Cardinality(attempts'[b])
    BY <1>0, <1>1, <1>3 DEF Accounted
  <2>2. Effort(b, Cardinality(attempts[b]) + Cardinality(EarlyRuns(b)))'
    BY <1>0, <1>2, <1>3 DEF Effort, LastRun
  <2>3. QED
    BY <1>0, <1>3, <2>1, <2>2 DEF Accounted
<1>4. ASSUME NEW s \in Slots, \A r \in Slots : r # s => run'[r] = run[r],
             run'[s] = Idle \/ run'[s] = run[s]
      PROVE  /\ Cardinality(EarlyRuns(b)) \in Nat /\ Cardinality(EarlyRuns(b)') \in Nat
             /\ Cardinality(HandingRuns(b)) \in Nat /\ Cardinality(HandingRuns(b)') \in Nat
             /\ Cardinality(HandingRuns(b)') <= Cardinality(HandingRuns(b))
             /\ Cardinality(EarlyRuns(b)') <= Cardinality(EarlyRuns(b))
  <2>1. /\ s \in EarlyRuns(b)' => s \in EarlyRuns(b)
        /\ s \in HandingRuns(b)' => s \in HandingRuns(b)
    BY <1>4 DEF EarlyRuns, HandingRuns, Early, Idle
  <2>2. QED
    BY <1>4, <2>1, RunCounts
<1>5. ASSUME NEW s \in Slots, \A r \in Slots : r # s => run'[r] = run[r],
             run'[s] = Idle \/ run'[s] = run[s],
             jobs'[b].manual = jobs[b].manual,
             \A m \in Nat : Effort(b, m) => Effort(b, m)'
      PROVE  Accounted(b)'
  <2>1. PICK e \in Nat : e = Cardinality(EarlyRuns(b))
    BY <1>4, <1>5
  <2>2. PICK f \in Nat : f = Cardinality(EarlyRuns(b)') /\ f <= e
    BY <1>4, <1>5, <2>1
  <2>3. Effort(b, n + e)'
    BY <1>0, <1>2, <1>5, <2>1 DEF Accounted
  <2>4. Effort(b, n + f)'
    BY <1>0, <2>2, <2>3, EffortLess DEF Assets
  <2>5. QED
    BY <1>3, <1>4, <1>5, <2>2, <2>4
<1>6. ASSUME NEW s \in Slots, Start(s) PROVE Accounted(b)'
  <2>1. PICK a \in Assets :
          /\ Take(s, a)
          /\ run' = [run EXCEPT ![s] = [label |-> "loading", asset |-> a, number |-> 0]]
    BY <1>6 DEF Start
  <2>2. /\ run[s].label = "idle" /\ run'[s].label = "loading" /\ run'[s].asset = a
        /\ \A r \in Slots : r # s => run'[r] = run[r]
    BY <1>0, <1>6, <2>1 DEF TypeOK, Start, At
  <2>3. /\ s \notin EarlyRuns(b) /\ (s \in EarlyRuns(b)' <=> a = b)
        /\ s \notin HandingRuns(b) /\ s \notin HandingRuns(b)'
    BY <2>2 DEF EarlyRuns, HandingRuns, Early
  <2>4. jobs'[b].manual = jobs[b].manual
    BY <1>0, <2>1, ManualStays DEF Assets
  <2>5. PICK e \in Nat : e = Cardinality(EarlyRuns(b))
    BY <2>2, RunCounts
  <2>6. Effort(b, n + e)' /\ (a = b => Effort(b, (n + e) + 1)')
    BY <1>0, <1>2, <2>1, <2>5, EffortTaken DEF Accounted, Assets
  <2>7. Cardinality(EarlyRuns(b)') = IF a = b THEN e + 1 ELSE e
    BY <2>2, <2>3, <2>5, RunCounts
  <2>8. PICK f \in Nat : f = Cardinality(EarlyRuns(b)')
    BY <2>7
  <2>9. Effort(b, n + f)'
    <3>1. CASE a = b
      <4>1. n + f = (n + e) + 1
        BY <2>7, <2>8, <3>1
      <4>2. QED
        BY <2>6, <3>1, <4>1
    <3>2. CASE a # b
      BY <2>6, <2>7, <2>8, <3>2
    <3>3. QED
      BY <3>1, <3>2
  <2>10. /\ Cardinality(EarlyRuns(b)) \in Nat /\ Cardinality(EarlyRuns(b)') \in Nat
         /\ Cardinality(HandingRuns(b)) \in Nat
         /\ Cardinality(HandingRuns(b)') = Cardinality(HandingRuns(b))
    BY <2>2, <2>3, RunCounts
  <2>11. QED
    BY <1>3, <2>4, <2>8, <2>9, <2>10
<1>7. ASSUME NEW s \in Slots, Report(s) PROVE Accounted(b)'
  <2>1. /\ \A r \in Slots : r # s => run'[r] = run[r]
        /\ run'[s] = Idle /\ run[s].asset \in Assets
    BY <1>0, <1>7, RunBounds DEF Start, Report, At
  <2>2. Complete(s, run[s].asset) \/ FailAttempt(s, run[s].asset)
    BY <1>7 DEF Report
  <2>3. jobs'[b].manual = jobs[b].manual
    BY <1>0, <2>1, <2>2, ManualStays DEF Assets
  <2>4. \A m \in Nat : Effort(b, m) => Effort(b, m)'
    BY <1>0, <2>1, <2>2, EffortStays DEF Assets
  <2>5. QED
    BY <1>5, <2>1, <2>3, <2>4
<1>8. ASSUME NEW s \in Slots, Crash(s) PROVE Accounted(b)'
  <2>1. /\ \A r \in Slots : r # s => run'[r] = run[r]
        /\ run'[s] = Idle /\ jobs' = jobs
    BY <1>0, <1>8 DEF Crash, TypeOK, queue
  <2>2. \A m \in Nat : Effort(b, m) => Effort(b, m)'
    BY <2>1 DEF Effort, LastRun
  <2>3. QED
    BY <1>5, <2>1, <2>2
<1>9. ASSUME run' = run, jobs'[b].manual = jobs[b].manual,
             \A m \in Nat : Effort(b, m) => Effort(b, m)'
      PROVE  Accounted(b)'
  <2>1. EarlyRuns(b)' = EarlyRuns(b) /\ HandingRuns(b)' = HandingRuns(b)
    BY <1>9 DEF EarlyRuns, HandingRuns
  <2>2. Cardinality(EarlyRuns(b)) \in Nat /\ Cardinality(HandingRuns(b)) \in Nat
    <3>1. EarlyRuns(b) \in SUBSET Slots /\ HandingRuns(b) \in SUBSET Slots
      BY DEF EarlyRuns, HandingRuns
    <3>2. QED
      BY <3>1, FS_Subset, FS_CardinalityType, JobQueueConstants
  <2>3. PICK e \in Nat : e = Cardinality(EarlyRuns(b))
    BY <2>2
  <2>4. Effort(b, n + e)'
    BY <1>2, <1>0, <1>9, <2>3 DEF Accounted
  <2>5. Cardinality(EarlyRuns(b)') = e /\ Cardinality(HandingRuns(b)') = Cardinality(HandingRuns(b))
    BY <2>1, <2>3
  <2>6. QED
    BY <1>3, <1>9, <2>2, <2>4, <2>5
<1>10. ASSUME NEW a \in Assets, EnqueueJob(a) PROVE Accounted(b)'
  <2>1. CASE Add(a, FALSE)
    <3>1. jobs'[b].manual = jobs[b].manual
      BY <1>0, <2>1, ManualStays DEF Assets
    <3>2. \A m \in Nat : Effort(b, m) => Effort(b, m)'
      BY <1>0, <2>1, EffortStays DEF Assets
    <3>3. QED
      BY <1>9, <1>10, <3>1, <3>2 DEF EnqueueJob
  <2>2. CASE UNCHANGED queue
    BY <1>9, <1>10, <2>2 DEF EnqueueJob, queue, Effort, LastRun
  <2>3. QED
    BY <1>10, <2>1, <2>2 DEF EnqueueJob
<1>11. ASSUME NEW a \in Assets, LockExpires(a) PROVE Accounted(b)'
  <2>1. jobs'[b].manual = jobs[b].manual
    BY <1>0, <1>11, ManualStays DEF LockExpires, Assets
  <2>2. \A m \in Nat : Effort(b, m) => Effort(b, m)'
    BY <1>0, <1>11, EffortStays DEF LockExpires, Assets
  <2>3. QED
    BY <1>9, <1>11, <2>1, <2>2 DEF LockExpires
<1>12. CASE UNCHANGED <<queue, run>>
  BY <1>9, <1>12 DEF queue, Effort, LastRun
<1>13. QED
  BY <1>6, <1>7, <1>8, <1>10, <1>11, <1>12
  DEF Next, vars, queue, UploadStep, SlotStep, RunStep, StoreFile, CreateAsset, ScheduleJob

\* A job the queue does not know keeps having failed nothing.
LEMMA FreshNext ==
  ASSUME AccountInv, [Next]_vars
  PROVE  AbsentIsFresh'
<1>0. JobQueueTypeOK /\ AbsentIsFresh /\ TypeInv /\ Busy
  BY DEF AccountInv, TypeInv, TypeOK
<1>1. CASE UNCHANGED queue
  BY <1>0, <1>1 DEF queue, AbsentIsFresh
<1>2. ASSUME NEW a \in Assets, EnqueueJob(a) PROVE AbsentIsFresh'
  BY <1>0, <1>1, <1>2, FreshStays DEF EnqueueJob, Assets
<1>3. ASSUME NEW a \in Assets, LockExpires(a) PROVE AbsentIsFresh'
  BY <1>0, <1>3, FreshStays DEF LockExpires, Assets
<1>4. ASSUME NEW s \in Slots, Start(s) PROVE AbsentIsFresh'
  BY <1>0, <1>4, FreshStays DEF Start, Assets
<1>5. ASSUME NEW s \in Slots, Report(s) PROVE AbsentIsFresh'
  <2>1. run[s].asset \in Assets
    BY <1>0, <1>5 DEF Report, Busy, At
  <2>2. Complete(s, run[s].asset) \/ FailAttempt(s, run[s].asset)
    BY <1>5 DEF Report
  <2>3. QED
    BY <1>0, <2>1, <2>2, FreshStays DEF Assets
<1>6. ASSUME NEW s \in Slots, RunStep(s) PROVE AbsentIsFresh'
  BY <1>0, <1>1, <1>6, RunMoves
<1>7. QED
  BY <1>1, <1>2, <1>3, <1>4, <1>5, <1>6
  DEF Next, vars, queue, UploadStep, SlotStep, RunStep, StoreFile, CreateAsset, ScheduleJob, Crash

\* At first nothing was attempted.
LEMMA AccountInit == Init => AccountInv
<1>1. SUFFICES ASSUME Init PROVE AccountInv
  OBVIOUS
<1>2. AbsentIsFresh
  BY <1>1 DEF Init, JobQueueInit, AbsentIsFresh
<1>3. ASSUME NEW a \in Assets PROVE Accounted(a)
  <2>1. EarlyRuns(a) = {} /\ HandingRuns(a) = {} /\ attempts[a] = {} /\ handed[a] = 0
    BY <1>1 DEF Init, EarlyRuns, HandingRuns, Idle, Early
  <2>2. jobs[a].made = 0 /\ jobs[a].stalls = 0 /\ jobs[a].manual = 0 /\ jobs[a].state = "absent"
    BY <1>1 DEF Init, JobQueueInit, Assets
  <2>3. Cardinality({}) = 0
    BY FS_EmptySet
  <2>4. MaxRetries = 0
    BY MediaProcessingConstants
  <2>5. QED
    BY <2>1, <2>2, <2>3, <2>4 DEF Accounted, Effort, LastRun
<1>4. QED
  BY <1>1, <1>2, <1>3, TypeInit DEF AccountInv

\* The accounts hold throughout.
LEMMA AccountInvariant == Spec => []AccountInv
<1>1. ASSUME AccountInv, [Next]_vars PROVE AccountInv'
  <2>1. TypeInv'
    BY <1>1, TypeNext DEF AccountInv
  <2>2. AbsentIsFresh'
    BY <1>1, FreshNext
  <2>3. \A a \in Assets : Accounted(a)'
    BY <1>1, RunAccounts, OthersAccount
  <2>4. QED
    BY <2>1, <2>2, <2>3 DEF AccountInv
<1>2. QED
  BY <1>1, AccountInit, PTL DEF Spec

\* The attempts of a job are numbered without a gap, at most one for each delivery of the job,
\* and each publishing job that enqueuePublishingAfterThumbnail put on the queue has one of
\* them for itself.
THEOREM EveryAttemptIsAccountedFor == Spec => []AttemptsAccount
<1>1. AccountInv => AttemptsAccount
  <2>1. SUFFICES ASSUME AccountInv, NEW a \in Assets
                 PROVE  /\ Numbers(a) = 1..Cardinality(attempts[a])
                        /\ handed[a] <= Cardinality(attempts[a])
                        /\ Cardinality(attempts[a]) <= 1 + jobs[a].stalls
    BY DEF AttemptsAccount
  <2>2. /\ Numbered(a) /\ Accounted(a) /\ handed[a] \in Nat /\ JobQueueTypeOK
        /\ MaxRetries = 0
    BY <2>1, MediaProcessingConstants DEF AccountInv, TypeInv, TypeOK
  <2>3. PICK k \in Nat : Numbers(a) = 1..k /\ Cardinality(attempts[a]) = k
    BY <2>2, AttemptsCounted DEF Numbered, Numbers
  <2>4. Cardinality(EarlyRuns(a)) \in Nat /\ Cardinality(HandingRuns(a)) \in Nat
    <3>1. EarlyRuns(a) \in SUBSET Slots /\ HandingRuns(a) \in SUBSET Slots
      BY DEF EarlyRuns, HandingRuns
    <3>2. QED
      BY <3>1, FS_Subset, FS_CardinalityType, JobQueueConstants
  <2>5. handed[a] <= k
    BY <2>2, <2>3, <2>4 DEF Accounted
  <2>6. jobs[a].stalls \in Nat /\ LastRun(a) \in {0, 1}
    BY <2>2, JobFields, JobQueueConstants DEF Assets, LastRun
  <2>7. k <= 1 + jobs[a].stalls
    BY <2>2, <2>3, <2>4, <2>6 DEF Accounted, Effort
  <2>8. QED
    BY <2>3, <2>5, <2>7
<1>2. QED
  BY <1>1, AccountInvariant, PTL

=============================================================================
