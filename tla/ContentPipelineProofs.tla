----------------------- MODULE ContentPipelineProofs ------------------------
(***************************************************************************)
(* Safety of ContentPipeline for every value of its constants: whatever is *)
(* posted was asked for, checked, approved and clean, and is posted once;  *)
(* a reported success has its handoff in the outbox, and published where   *)
(* the run is alone; and a plan says what the repository holds.            *)
(***************************************************************************)
EXTENDS ContentPipeline, TLAPS, WellFoundedInduction, FiniteSetTheorems

-----------------------------------------------------------------------------
\* Types.

Stages ==
  {"idle", "root", "walk", "planned", "written", "packed", "queued", "publishing", "done"}

Handles == Requests \X (Runs \cup STRING) \X STRING

Packages == [handoff : Handles, target : STRING, slug : {"pipeline-dry-run-draft"}, content : Contents]

Rows ==
  [handoff : Handles, package : Packages, waits : BOOLEAN, attempts : Nat,
   status : {"pending", "scheduled", "processing", "failed", "succeeded", "dead-letter"},
   by : Runs \cup {"nobody"}, version : Nat]

RunFields ==
  {"stage", "request", "loading", "walk", "plan", "content", "delivery", "package", "claimed",
   "result"}

\* What a run remembers is what its steps can read.
IsRun(x) ==
  /\ DOMAIN x = RunFields
  /\ x = [f \in RunFields |-> x[f]]
  /\ x.stage \in Stages
  /\ x.request \in Requests \cup {NoRequest}
  /\ x.content \in Contents \cup {Nothing}
  /\ x.delivery \in Deliveries \cup {NoDelivery}
  /\ x.package \in Packages \cup {NoPackage}

StoresOK ==
  /\ sharing \in BOOLEAN
  /\ DOMAIN outbox = Stores /\ DOMAIN keys = Stores /\ DOMAIN posts = Stores
  /\ \A s \in Stores : outbox[s] \in Seq(Rows)

RunsOK == DOMAIN run = Runs /\ \A r \in Runs : IsRun(run[r])

-----------------------------------------------------------------------------
\* Rows: what the operations of the outbox leave of them.

\* What the rows are of.
Carried(rows) == {<<rows[i].handoff, rows[i].package>> : i \in DOMAIN rows}

\* No handoff has two rows, and each row is of its package's handoff.
Distinct(rows) ==
  /\ \A i, j \in DOMAIN rows : rows[i].handoff = rows[j].handoff => i = j
  /\ \A i \in DOMAIN rows : rows[i].handoff = rows[i].package.handoff

\* A handoff that has a row has one, and it is the one that is found.
LEMMA FoundRow ==
  ASSUME NEW rows \in Seq(Rows), Distinct(rows), NEW i \in DOMAIN rows
  PROVE  /\ rows[i].handoff \in Handoffs(rows)
         /\ RowOf(rows, rows[i].handoff) = rows[i]
         /\ Place(rows, rows[i].handoff) = i
<1>1. rows[i] \in ToSet(rows)
  BY DEF ToSet
<1>2. \A row \in ToSet(rows) : row.handoff = rows[i].handoff => row = rows[i]
  BY DEF ToSet, Distinct
<1>3. \A j \in DOMAIN rows : rows[j].handoff = rows[i].handoff => j = i
  BY DEF Distinct
<1>4. RowOf(rows, rows[i].handoff) = rows[i]
  BY <1>1, <1>2 DEF RowOf
<1>5. Place(rows, rows[i].handoff) = i
  BY <1>3 DEF Place
<1>6. QED
  BY <1>1, <1>4, <1>5 DEF Handoffs

\* The handoffs that have a row.
LEMMA RowIsThere ==
  ASSUME NEW rows \in Seq(Rows), NEW h \in Handoffs(rows)
  PROVE  \E i \in DOMAIN rows : rows[i].handoff = h
  BY DEF Handoffs, ToSet

\* Rows that changed in place: what they are of stays.
Alike(rows, after) ==
  /\ after \in Seq(Rows)
  /\ DOMAIN after = DOMAIN rows
  /\ \A i \in DOMAIN rows :
       after[i].handoff = rows[i].handoff /\ after[i].package = rows[i].package

\* Rows alike are of the same packages.
LEMMA AlikeCarries ==
  ASSUME NEW rows \in Seq(Rows), Distinct(rows), NEW after, Alike(rows, after)
  PROVE  Distinct(after) /\ Carried(after) = Carried(rows)
  BY DEF Distinct, Carried, Alike

\* A row that goes on is a row of the same handoff.
LEMMA RowGoesOn ==
  ASSUME NEW row \in Rows, NEW by \in Runs \cup {"nobody"}, NEW version \in Nat, NEW waits \in BOOLEAN,
         NEW status \in {"processing", "failed", "succeeded", "dead-letter"}, NEW attempts \in Nat
  PROVE  /\ [row EXCEPT !.status = status, !.by = by, !.version = version] \in Rows
         /\ [row EXCEPT !.status = status, !.attempts = attempts, !.waits = waits, !.by = by,
                        !.version = version] \in Rows
  BY DEF Rows

\* A claim, a success and a failure change one row in place.
LEMMA ClaimIsAlike ==
  ASSUME NEW rows \in Seq(Rows), NEW i \in DOMAIN rows, NEW r \in Runs
  PROVE  /\ Alike(rows, Claim(rows, i, r))
         /\ Claim(rows, i, r)[i] \in Rows
         /\ Claim(rows, i, r)[i].status = "processing"
         /\ Claim(rows, i, r)[i].waits = rows[i].waits
<1>1. rows[i] \in Rows
  OBVIOUS
<1> DEFINE row == [rows[i] EXCEPT !.status = "processing", !.by = r, !.version = @ + 1]
<1>2. /\ row \in Rows /\ row.handoff = rows[i].handoff /\ row.package = rows[i].package
      /\ row.status = "processing" /\ row.waits = rows[i].waits
  <2>1. rows[i].version + 1 \in Nat /\ DOMAIN rows[i] = DOMAIN row
    BY <1>1 DEF Rows
  <2>2. row \in Rows
    BY <1>1, <2>1, RowGoesOn
  <2>3. \A v : LET after == [rows[i] EXCEPT !.status = "processing", !.by = r, !.version = v]
               IN after.status = "processing" /\ after.waits = rows[i].waits
    BY <1>1 DEF Rows
  <2>4. QED
    BY <2>2, <2>3
<1>3. Claim(rows, i, r) = [rows EXCEPT ![i] = row]
  BY DEF Claim
<1> HIDE DEF row
<1>4. [rows EXCEPT ![i] = row] \in Seq(Rows)
  BY <1>2
<1>5. QED
  BY <1>2, <1>3, <1>4 DEF Alike

\* Marking a row leaves rows alike, but for the status of that row.
LEMMA MarkIsAlike ==
  ASSUME NEW rows \in Seq(Rows), Distinct(rows), NEW i \in DOMAIN rows,
         NEW claimed, claimed.handoff = rows[i].handoff, NEW retryable \in BOOLEAN
  PROVE  /\ Alike(rows, MarkSucceeded(rows, claimed))
         /\ MarkSucceeded(rows, claimed)[i].status = "succeeded"
         /\ MarkSucceeded(rows, claimed)[i].waits = rows[i].waits
         /\ Alike(rows, MarkFailed(rows, claimed, retryable))
<1>1. Place(rows, claimed.handoff) = i /\ RowOf(rows, claimed.handoff) = rows[i]
  BY FoundRow
<1>2. rows[i] \in Rows
  OBVIOUS
<1> DEFINE done == [rows[i] EXCEPT !.status = "succeeded", !.by = "nobody", !.version = @ + 1]
           again == retryable /\ rows[i].attempts + 1 < MaxAttempts
           left == [rows[i] EXCEPT !.status = IF again THEN "failed" ELSE "dead-letter",
                      !.attempts = @ + 1, !.waits = again, !.by = "nobody", !.version = @ + 1]
<1>3. done \in Rows /\ done.handoff = rows[i].handoff /\ done.package = rows[i].package
      /\ done.status = "succeeded" /\ done.waits = rows[i].waits
  <2>1. rows[i].version + 1 \in Nat
    BY <1>2 DEF Rows
  <2>2. done \in Rows
    BY <1>2, <2>1, RowGoesOn
  <2>3. \A v : LET after == [rows[i] EXCEPT !.status = "succeeded", !.by = "nobody", !.version = v]
               IN after.status = "succeeded" /\ after.waits = rows[i].waits
    BY <1>2 DEF Rows
  <2>4. QED
    BY <2>2, <2>3
<1>4. left \in Rows /\ left.handoff = rows[i].handoff /\ left.package = rows[i].package
  <2>1. rows[i].version + 1 \in Nat /\ rows[i].attempts + 1 \in Nat /\ again \in BOOLEAN
    BY <1>2 DEF Rows
  <2>2. (IF again THEN "failed" ELSE "dead-letter") \in {"failed", "dead-letter"}
    OBVIOUS
  <2> HIDE DEF again
  <2>3. left \in Rows
    BY <1>2, <2>1, <2>2, RowGoesOn
  <2>4. QED
    BY <2>3
<1>5. MarkSucceeded(rows, claimed) = [rows EXCEPT ![i] = done]
  BY <1>1 DEF MarkSucceeded
<1>6. MarkFailed(rows, claimed, retryable) = [rows EXCEPT ![i] = left]
  BY <1>1 DEF MarkFailed
<1> HIDE DEF done, left
<1>7. [rows EXCEPT ![i] = done] \in Seq(Rows) /\ [rows EXCEPT ![i] = left] \in Seq(Rows)
  BY <1>3, <1>4
<1>8. QED
  BY <1>3, <1>4, <1>5, <1>6, <1>7 DEF Alike

\* A row whose wait ends moves to the end of the line; nothing else is changed by it.
LEMMA AvailableMoves ==
  ASSUME NEW rows \in Seq(Rows), NEW i \in DOMAIN rows
  PROVE  \E from \in [1..Len(rows) -> 1..Len(rows)] :
           /\ Available(rows, i) \in Seq(Rows) /\ Len(Available(rows, i)) = Len(rows)
           /\ \A j \in 1..Len(rows) :
                Available(rows, i)[j] \in {rows[from[j]], [rows[from[j]] EXCEPT !.waits = FALSE]}
           /\ \A j, k \in 1..Len(rows) : from[j] = from[k] => j = k
           /\ \A k \in 1..Len(rows) : \E j \in 1..Len(rows) : from[j] = k
<1> DEFINE n == Len(rows)
           row == [rows[i] EXCEPT !.waits = FALSE]
           left == SubSeq(rows, 1, i - 1)
           right == SubSeq(rows, i + 1, n)
           from == [j \in 1..n |-> IF j < i THEN j ELSE IF j < n THEN j + 1 ELSE i]
<1>1. n \in Nat /\ DOMAIN rows = 1..n /\ i \in 1..n /\ rows[i] \in Rows
  OBVIOUS
<1>2. row \in Rows
  BY <1>1 DEF Rows
<1>3. left \in Seq(Rows) /\ Len(left) = i - 1 /\ \A j \in 1..(i - 1) : left[j] = rows[j]
  BY <1>1
<1>4. right \in Seq(Rows) /\ Len(right) = n - i /\ \A j \in 1..(n - i) : right[j] = rows[i + j]
  BY <1>1
<1> HIDE DEF n, row, left, right
<1>5. /\ left \o right \in Seq(Rows) /\ Len(left \o right) = n - 1
      /\ \A j \in 1..(i - 1) : (left \o right)[j] = rows[j]
      /\ \A j \in i..(n - 1) : (left \o right)[j] = rows[j + 1]
  <2>1. left \o right \in Seq(Rows) /\ Len(left \o right) = n - 1
    BY <1>1, <1>3, <1>4
  <2>2. ASSUME NEW j \in 1..(i - 1) PROVE (left \o right)[j] = rows[j]
    BY <1>1, <1>3, <1>4
  <2>3. ASSUME NEW j \in i..(n - 1) PROVE (left \o right)[j] = rows[j + 1]
    <3>1. (left \o right)[j] = right[j - (i - 1)] /\ j - (i - 1) \in 1..(n - i)
      BY <1>1, <1>3, <1>4
    <3>2. i + (j - (i - 1)) = j + 1
      BY <1>1
    <3>3. QED
      BY <1>4, <3>1, <3>2
  <2>4. QED
    BY <2>1, <2>2, <2>3
<1> DEFINE both == left \o right
           after == Append(both, row)
<1> HIDE DEF both
<1>6. after \in Seq(Rows) /\ Len(after) = n /\ after[n] = row
  BY <1>1, <1>2, <1>5 DEF both
<1>7. /\ \A j \in 1..(i - 1) : both[j] = rows[j]
      /\ \A j \in i..(n - 1) : both[j] = rows[j + 1]
  BY <1>5 DEF both
<1>8. \A j \in 1..(n - 1) : after[j] = both[j]
  BY <1>1, <1>2, <1>5 DEF both
<1>9. Available(rows, i) = after
  BY DEF Available, RemoveAt, after, both, left, right, row, n
<1> HIDE DEF after
<1>10. /\ \A j \in 1..n : j < i => from[j] = j
       /\ \A j \in 1..n : i <= j /\ j < n => from[j] = j + 1
       /\ from[n] = i
  <2>1. \A j \in 1..n : from[j] = IF j < i THEN j ELSE IF j < n THEN j + 1 ELSE i
    OBVIOUS
  <2> HIDE DEF from
  <2>2. QED
    BY <1>1, <2>1
<1>11. from \in [1..n -> 1..n]
  BY <1>1
<1> HIDE DEF from
<1>12. ASSUME NEW j \in 1..n
       PROVE  after[j] \in {rows[from[j]], [rows[from[j]] EXCEPT !.waits = FALSE]}
  <2>1. CASE j < i /\ j < n
    <3>1. after[j] = both[j] /\ both[j] = rows[j]
      <4>1. j \in 1..(i - 1) /\ j \in 1..(n - 1)
        BY <1>1, <2>1
      <4>2. QED
        BY <1>8, <1>7, <4>1
    <3>2. QED
      BY <1>10, <2>1, <3>1
  <2>2. CASE i <= j /\ j < n
    <3>1. after[j] = both[j] /\ both[j] = rows[j + 1]
      <4>1. j \in i..(n - 1) /\ j \in 1..(n - 1)
        BY <1>1, <2>2
      <4>2. QED
        BY <1>8, <1>7, <4>1
    <3>2. QED
      BY <1>10, <2>2, <3>1
  <2>3. CASE i <= j /\ j = n
    <3>1. from[j] = i /\ after[j] = row
      BY <1>6, <1>10, <2>3
    <3>2. QED
      BY <3>1 DEF row
  <2>4. QED
    BY <1>1, <2>1, <2>2, <2>3
<1>13. \A j, k \in 1..n : from[j] = from[k] => j = k
  <2>1. SUFFICES ASSUME NEW j \in 1..n, NEW k \in 1..n, from[j] = from[k], j < k PROVE FALSE
    OBVIOUS
  <2>2. QED
    BY <1>1, <1>10, <2>1
<1>14. ASSUME NEW k \in 1..n PROVE \E j \in 1..n : from[j] = k
  <2>1. CASE k < i
    BY <1>1, <1>10, <2>1
  <2>2. CASE k = i
    <3>1. n \in 1..n /\ from[n] = k
      BY <1>1, <1>10, <2>2
    <3>2. QED
      BY <3>1
  <2>3. CASE k > i
    <3>1. k - 1 \in 1..n /\ i <= k - 1 /\ k - 1 < n /\ (k - 1) + 1 = k
      BY <1>1, <2>3
    <3>2. from[k - 1] = k
      BY <1>10, <3>1
    <3>3. QED
      BY <3>1, <3>2
  <2>4. QED
    BY <1>1, <2>1, <2>2, <2>3
<1>15. QED
  BY <1>6, <1>9, <1>12, <1>13, <1>14, <1>11 DEF n

\* A row that becomes available keeps what the rows are of.
LEMMA AvailableCarries ==
  ASSUME NEW rows \in Seq(Rows), Distinct(rows), NEW i \in DOMAIN rows
  PROVE  LET after == Available(rows, i)
         IN /\ after \in Seq(Rows) /\ Len(after) = Len(rows)
            /\ Distinct(after) /\ Carried(after) = Carried(rows)
            /\ \A j \in DOMAIN after : \E k \in DOMAIN rows : after[j].status = rows[k].status
<1> DEFINE n == Len(rows)
           after == Available(rows, i)
<1>1. PICK from \in [1..n -> 1..n] :
        /\ after \in Seq(Rows) /\ Len(after) = n
        /\ \A j \in 1..n : after[j] \in {rows[from[j]], [rows[from[j]] EXCEPT !.waits = FALSE]}
        /\ \A j, k \in 1..n : from[j] = from[k] => j = k
        /\ \A k \in 1..n : \E j \in 1..n : from[j] = k
  BY AvailableMoves
<1>2. DOMAIN rows = 1..n /\ DOMAIN after = 1..n
  BY <1>1
<1> HIDE DEF after, n
<1>3. ASSUME NEW j \in 1..n
      PROVE  /\ after[j].handoff = rows[from[j]].handoff
             /\ after[j].package = rows[from[j]].package
             /\ after[j].status = rows[from[j]].status
             /\ from[j] \in 1..n
  <2>1. from[j] \in 1..n /\ rows[from[j]] \in Rows
    BY <1>1, <1>2
  <2>2. after[j] = rows[from[j]] \/ after[j] = [rows[from[j]] EXCEPT !.waits = FALSE]
    BY <1>1
  <2>3. QED
    BY <2>1, <2>2 DEF Rows
<1>4. Distinct(after)
  <2>1. ASSUME NEW j \in 1..n, NEW k \in 1..n, after[j].handoff = after[k].handoff PROVE j = k
    <3>1. rows[from[j]].handoff = rows[from[k]].handoff
      BY <1>3, <2>1
    <3>2. from[j] = from[k]
      BY <1>2, <1>3, <3>1 DEF Distinct
    <3>3. QED
      BY <1>1, <3>2
  <2>2. ASSUME NEW j \in 1..n PROVE after[j].handoff = after[j].package.handoff
    <3>1. rows[from[j]].handoff = rows[from[j]].package.handoff
      BY <1>2, <1>3 DEF Distinct
    <3>2. QED
      BY <1>3, <3>1
  <2>3. QED
    BY <1>2, <2>1, <2>2 DEF Distinct
<1>5. Carried(after) \subseteq Carried(rows)
  BY <1>2, <1>3 DEF Carried
<1>6. Carried(rows) \subseteq Carried(after)
  <2>1. SUFFICES ASSUME NEW k \in 1..n
                 PROVE  <<rows[k].handoff, rows[k].package>> \in Carried(after)
    BY <1>2 DEF Carried
  <2>2. PICK j \in 1..n : from[j] = k
    BY <1>1
  <2>3. QED
    BY <1>2, <1>3, <2>2 DEF Carried
<1>7. QED
  BY <1>1, <1>2, <1>3, <1>4, <1>5, <1>6 DEF after, n

\* An enqueue adds the row of a handoff that has none, or is answered from the row it has.
LEMMA EnqueueCarries ==
  ASSUME NEW rows \in Seq(Rows), Distinct(rows), NEW package \in Packages, NEW waits \in BOOLEAN
  PROVE  LET after == Enqueued(rows, package, waits)
         IN /\ after \in Seq(Rows) /\ Distinct(after)
            /\ \/ after = rows
               \/ /\ after = Append(rows, Row(package, waits))
                  /\ Carried(after) = Carried(rows) \cup {<<package.handoff, package>>}
            /\ EnqueueAnswer(rows, package) # "conflict" =>
                 \E i \in DOMAIN after : /\ after[i].handoff = package.handoff
                                         /\ Length(after[i].package.content) = Length(package.content)
<1> DEFINE row == Row(package, waits)
           after == Enqueued(rows, package, waits)
<1>1. row \in Rows /\ row.handoff = package.handoff /\ row.package = package
  BY DEF Row, Rows, Packages
<1> HIDE DEF row
<1>2. CASE EnqueueAnswer(rows, package) = "created"
  <2>1. after = Append(rows, row)
    BY <1>2 DEF Enqueued, row
  <2>2. package.handoff \notin Handoffs(rows)
    BY <1>2 DEF EnqueueAnswer
  <2>3. /\ after \in Seq(Rows) /\ DOMAIN rows = 1..Len(rows) /\ DOMAIN after = 1..(Len(rows) + 1)
        /\ \A i \in 1..Len(rows) : after[i] = rows[i]
        /\ after[Len(rows) + 1] = row /\ Len(rows) \in Nat
    BY <1>1, <2>1
  <2>4. \A i \in DOMAIN rows : rows[i].handoff # package.handoff
    BY <2>2 DEF Handoffs, ToSet
  <2> HIDE DEF after
  <2>5. Distinct(after)
    BY <1>1, <2>3, <2>4 DEF Distinct
  <2>6. Carried(after) = Carried(rows) \cup {<<package.handoff, package>>}
    <3>1. Carried(after) \subseteq Carried(rows) \cup {<<package.handoff, package>>}
      BY <1>1, <2>3 DEF Carried
    <3>2. Len(rows) + 1 \in DOMAIN after /\ \A i \in DOMAIN rows : i \in DOMAIN after
      BY <2>3
    <3>3. QED
      BY <1>1, <2>3, <3>1, <3>2 DEF Carried
  <2>7. Len(rows) + 1 \in DOMAIN after
    BY <2>3
  <2>8. QED
    BY <1>1, <2>1, <2>3, <2>5, <2>6, <2>7 DEF after, row
<1>3. CASE EnqueueAnswer(rows, package) # "created"
  <2>1. after = rows
    BY <1>3 DEF Enqueued
  <2>2. ASSUME EnqueueAnswer(rows, package) # "conflict"
        PROVE  \E i \in DOMAIN rows : /\ rows[i].handoff = package.handoff
                                      /\ Length(rows[i].package.content) = Length(package.content)
    <3>1. /\ package.handoff \in Handoffs(rows)
          /\ RequestHash(RowOf(rows, package.handoff).package) = RequestHash(package)
      BY <1>3, <2>2 DEF EnqueueAnswer
    <3>2. PICK i \in DOMAIN rows : rows[i].handoff = package.handoff
      BY <3>1, RowIsThere
    <3>3. RowOf(rows, package.handoff) = rows[i]
      BY <3>2, FoundRow
    <3>4. RequestHash(rows[i].package).length = RequestHash(package).length
      BY <3>1, <3>3
    <3>5. QED
      BY <3>2, <3>4 DEF RequestHash
  <2>3. QED
    BY <2>1, <2>2
<1>4. QED
  BY <1>2, <1>3

-----------------------------------------------------------------------------
\* Runs: what a run has behind it at each stage.

\* Nothing of what the prompt shows gives a path or a URL away.
Safe(x) ==
  /\ x.plan.code = "none"
  /\ \A ref \in Shown(x.request, x.plan) : Entities(x.plan)[ref].marks = {}

\* A package is made of a run that has earned it, and of nothing else.
Made(r, x) ==
  /\ Safe(x)
  /\ x.delivery.decision \in {"approve", "approve-with-notes"}
  /\ x.content.valid
  /\ ~x.delivery.link
  /\ x.delivery \in Deliveries
  /\ x.package \in Packages
  /\ x.package.content = x.content

Succeeded(x) == x.stage = "done" /\ x.result.status = "succeeded"

RunGood(r, x) ==
  /\ x.loading # "none" => x.stage \in {"root", "walk"}
  /\ x.stage \in {"root", "walk", "planned", "written"} => x.request \in Requests
  /\ x.stage \in {"idle", "root", "walk", "planned", "written"} => x.package = NoPackage
  /\ x.stage = "planned" => x.plan.code = "none" /\ (~x.plan.url => Safe(x))
  /\ x.stage = "written" => Safe(x) /\ x.content \in Contents /\ x.content.valid
  /\ x.stage \in {"packed", "queued", "publishing"} \/ Succeeded(x) => x.package # NoPackage
  /\ x.package # NoPackage => Made(r, x)

\* What a run that goes on with storage asks of its store.
RunStored(r, x) ==
  LET rows == outbox[Store(r)] IN
    /\ x.stage = "publishing" => <<x.claimed.handoff, x.claimed.package>> \in Carried(rows)
    /\ x.stage \in {"queued", "publishing"} \/ Succeeded(x) =>
         \E c \in Carried(rows) : /\ c[1] = x.package.handoff
                                  /\ Length(c[2].content) = Length(x.package.content)

\* What is in a store is of its runs; what is posted has a row and a key that says so.
StoreGood(s) ==
  /\ Distinct(outbox[s])
  /\ \A c \in Carried(outbox[s]) : \E r \in Runs : Store(r) = s /\ run[r].package = c[2]
  /\ \A post \in posts[s] :
       /\ \E c \in Carried(outbox[s]) : c[1] = post.handoff /\ c[2].content = post.content
       /\ KeyOf(keys[s], post.handoff) \in {"completed", "reserved"}
       /\ \A other \in posts[s] : other.handoff = post.handoff => other = post

\* A run that has its store to itself.
Alone(r, x, rows, reservations, published) ==
  /\ x.stage \in {"idle", "root", "walk", "planned", "written", "packed"} => rows = << >>
  /\ x.stage \in Stages \ {"done"} => reservations = << >> /\ published = {}
  /\ x.stage = "queued" =>
       /\ Len(rows) = 1
       /\ rows[1].handoff = x.package.handoff
       /\ rows[1].status \in {"pending", "scheduled"}
       /\ rows[1].by = "nobody"
       /\ ~x.delivery.scheduled => ~rows[1].waits
  /\ x.stage = "publishing" =>
       /\ Len(rows) = 1
       /\ rows[1] = x.claimed
       /\ rows[1].handoff = x.package.handoff
       /\ rows[1].status = "processing"
       /\ ~rows[1].waits
  /\ Succeeded(x) /\ ~x.delivery.scheduled =>
       /\ Len(rows) = 1
       /\ rows[1].handoff = x.package.handoff
       /\ rows[1].status = "succeeded"
       /\ ~rows[1].waits
       /\ published = {[by |-> r, handoff |-> x.claimed.handoff, content |-> x.claimed.package.content]}

Publication ==
  /\ StoresOK
  /\ RunsOK
  /\ \A r \in Runs : RunGood(r, run[r]) /\ RunStored(r, run[r])
  /\ \A s \in Stores : StoreGood(s)
  /\ ~sharing => \A r \in Runs : Alone(r, run[r], outbox[r], keys[r], posts[r])

\* NoPackage is no package.
LEMMA NothingIsNoPackage == NoPackage \notin Packages
  BY DEF NoPackage, Packages, Handles

\* What a key says once it is bound.
LEMMA BoundKey ==
  ASSUME NEW k, NEW h, NEW state, NEW x
  PROVE  KeyOf(Bound(k, h, state), x) = IF x = h THEN state ELSE KeyOf(k, x)
  BY DEF KeyOf, Bound

\* What is safe stays so: nothing writes to the repository.
LEMMA SafeStays ==
  ASSUME repository' = repository, NEW x
  PROVE  Safe(x)' <=> Safe(x)
  BY DEF Safe, Entities, Collection, Shown

\* What rows are of is a package.
LEMMA CarriedIsPackage ==
  ASSUME NEW rows \in Seq(Rows), NEW c \in Carried(rows)
  PROVE  c[2] \in Packages
<1>1. PICK i \in DOMAIN rows : c = <<rows[i].handoff, rows[i].package>>
  BY DEF Carried
<1>2. rows[i] \in Rows
  OBVIOUS
<1>3. QED
  BY <1>1, <1>2 DEF Rows

\* A store that has become these rows, reservations and posts, the others being left alone.
Becomes(s, rows, reservations, published) ==
  /\ sharing' = sharing
  /\ DOMAIN outbox' = Stores /\ DOMAIN keys' = Stores /\ DOMAIN posts' = Stores
  /\ outbox'[s] = rows /\ keys'[s] = reservations /\ posts'[s] = published
  /\ \A other \in Stores \ {s} :
       outbox'[other] = outbox[other] /\ keys'[other] = keys[other] /\ posts'[other] = posts[other]

\* What the steps of a run say of its store, and what they say when they leave storage alone.
LEMMA StoredBecomes ==
  ASSUME StoresOK, NEW s \in Stores, NEW rows, NEW reservations, NEW published
  PROVE  /\ Stored(s, rows, reservations, published) => Becomes(s, rows, reservations, published)
         /\ UNCHANGED storage => Becomes(s, outbox[s], keys[s], posts[s])
<1>1. ASSUME Stored(s, rows, reservations, published)
      PROVE  Becomes(s, rows, reservations, published)
  BY <1>1 DEF Stored, StoresOK, Becomes
<1>2. ASSUME UNCHANGED storage PROVE Becomes(s, outbox[s], keys[s], posts[s])
  BY <1>2 DEF storage, StoresOK, Becomes
<1>3. QED
  BY <1>1, <1>2

\* The posts of a store, against what its rows are of and its keys.
PostsGood(carried, reservations, published) ==
  \A post \in published :
    /\ \E c \in carried : c[1] = post.handoff /\ c[2].content = post.content
    /\ KeyOf(reservations, post.handoff) \in {"completed", "reserved"}
    /\ \A other \in published : other.handoff = post.handoff => other = post

\* A step of one run at its store.
LEMMA RunStep ==
  ASSUME Publication, NEW r \in Runs, NEW after, Goes(r, after), repository' = repository,
         NEW rows \in Seq(Rows), NEW reservations, NEW published,
         Becomes(Store(r), rows, reservations, published),
         IsRun(after), RunGood(r, after),
         run[r].package # NoPackage => after.package = run[r].package,
         Distinct(rows), Carried(outbox[Store(r)]) \subseteq Carried(rows),
         \A c \in Carried(rows) \ Carried(outbox[Store(r)]) : c[2] = after.package,
         PostsGood(Carried(rows), reservations, published),
         after.stage = "publishing" => <<after.claimed.handoff, after.claimed.package>> \in Carried(rows),
         after.stage \in {"queued", "publishing"} \/ Succeeded(after) =>
           \E c \in Carried(rows) : /\ c[1] = after.package.handoff
                                    /\ Length(c[2].content) = Length(after.package.content),
         ~sharing => Alone(r, after, rows, reservations, published)
  PROVE  Publication'
<1> DEFINE s == Store(r)
<1>1. /\ StoresOK /\ RunsOK
      /\ \A q \in Runs : RunGood(q, run[q])
      /\ \A q \in Runs : RunStored(q, run[q])
      /\ \A x \in Stores : StoreGood(x)
      /\ ~sharing => \A q \in Runs : Alone(q, run[q], outbox[q], keys[q], posts[q])
  BY DEF Publication
<1>2. s \in Stores /\ \A q \in Runs : Store(q) \in Stores
  BY DEF Store, Stores
<1>3. run'[r] = after /\ DOMAIN run' = Runs /\ \A q \in Runs \ {r} : run'[q] = run[q]
  BY <1>1 DEF Goes, RunsOK
<1>4. \A q \in Runs : Store(q)' = Store(q)
  BY DEF Becomes, Store
<1>5. StoresOK'
  BY <1>1, <1>2 DEF StoresOK, Becomes
<1>6. RunsOK'
  BY <1>1, <1>3 DEF RunsOK
<1>7. ASSUME NEW q \in Runs PROVE RunGood(q, run[q])'
  <2>1. CASE q = r
    BY <1>3, <2>1, SafeStays DEF RunGood, Made
  <2>2. CASE q # r
    <3>1. run'[q] = run[q] /\ RunGood(q, run[q])
      BY <1>1, <1>3, <2>2
    <3>2. QED
      BY <3>1, SafeStays DEF RunGood, Made
  <2>3. QED
    BY <2>1, <2>2
<1>8. \A x \in Stores : Carried(outbox[x]) \subseteq Carried(outbox'[x])
  BY DEF Becomes
<1>9. ASSUME NEW q \in Runs PROVE RunStored(q, run[q])'
  <2>1. CASE q = r
    <3>1. outbox'[Store(r)'] = rows
      BY <1>4 DEF Becomes
    <3>2. QED
      BY <1>3, <2>1, <3>1 DEF RunStored, Carried, Succeeded, Length
  <2>2. CASE q # r
    <3>1. run'[q] = run[q] /\ RunStored(q, run[q]) /\ Store(q)' = Store(q)
      BY <1>1, <1>3, <1>4, <2>2
    <3>2. Carried(outbox[Store(q)]) \subseteq Carried(outbox'[Store(q)])
      BY <1>2, <1>8
    <3>3. QED
      BY <3>1, <3>2 DEF RunStored, Succeeded
  <2>3. QED
    BY <2>1, <2>2
<1>10. \A q \in Runs : run[q].package # NoPackage => run'[q].package = run[q].package
  BY <1>3
<1>11. ASSUME NEW x \in Stores PROVE StoreGood(x)'
  <2>1. Distinct(outbox'[x])
    BY <1>1 DEF Becomes, StoreGood
  <2>2. ASSUME NEW c \in Carried(outbox'[x]) PROVE \E q \in Runs : Store(q)' = x /\ run'[q].package = c[2]
    <3>1. CASE c \in Carried(outbox[x])
      <4>1. PICK q \in Runs : Store(q) = x /\ run[q].package = c[2]
        BY <1>1, <3>1 DEF StoreGood
      <4>2. c[2] \in Packages
        <5>1. outbox[x] \in Seq(Rows)
          BY <1>1 DEF StoresOK
        <5>2. QED
          BY <3>1, <5>1, CarriedIsPackage
      <4>3. run[q].package # NoPackage
        BY <4>1, <4>2, NothingIsNoPackage
      <4>4. QED
        BY <1>4, <1>10, <4>1, <4>3
    <3>2. CASE c \notin Carried(outbox[x])
      <4>1. x = s
        BY <3>2 DEF Becomes
      <4>2. QED
        BY <1>3, <1>4, <3>2, <4>1 DEF Becomes
    <3>3. QED
      BY <3>1, <3>2
  <2>3. PostsGood(Carried(outbox'[x]), keys'[x], posts'[x])
    <3>1. CASE x = s
      BY <3>1 DEF Becomes
    <3>2. CASE x # s
      BY <1>1, <3>2 DEF Becomes, StoreGood, PostsGood
    <3>3. QED
      BY <3>1, <3>2
  <2>4. QED
    BY <2>1, <2>2, <2>3 DEF StoreGood, PostsGood
<1>12. ASSUME ~sharing', NEW q \in Runs PROVE Alone(q, run[q], outbox[q], keys[q], posts[q])'
  <2>1. ~sharing /\ Store(r) = r /\ q \in Stores
    BY <1>12 DEF Becomes, Store, Stores
  <2>2. CASE q = r
    <3>1. outbox'[q] = rows /\ keys'[q] = reservations /\ posts'[q] = published /\ run'[q] = after
      BY <1>3, <2>1, <2>2 DEF Becomes
    <3>2. Alone(r, after, rows, reservations, published)
      BY <2>1
    <3>3. QED
      BY <2>2, <3>1, <3>2 DEF Alone, Stages, Succeeded
  <2>3. CASE q # r
    <3>1. outbox'[q] = outbox[q] /\ keys'[q] = keys[q] /\ posts'[q] = posts[q] /\ run'[q] = run[q]
      BY <1>3, <2>1, <2>3 DEF Becomes
    <3>2. Alone(q, run[q], outbox[q], keys[q], posts[q])
      BY <1>1, <2>1
    <3>3. QED
      BY <3>1, <3>2 DEF Alone, Stages, Succeeded
  <2>4. QED
    BY <2>2, <2>3
<1>13. QED
  BY <1>5, <1>6, <1>7, <1>9, <1>11, <1>12 DEF Publication

Early == {"idle", "root", "walk", "planned", "written"}

\* A step before there is a package: nothing is stored.
LEMMA EarlyStep ==
  ASSUME Publication, NEW r \in Runs, NEW after, Goes(r, after), repository' = repository,
         UNCHANGED storage, run[r].stage \in Early, IsRun(after), RunGood(r, after),
         after.stage \in Early \cup {"done"}, after.package = NoPackage
  PROVE  Publication'
<1>1. StoresOK /\ Store(r) \in Stores /\ StoreGood(Store(r)) /\ RunGood(r, run[r])
  BY DEF Publication, Store, Stores
<1>2. Becomes(Store(r), outbox[Store(r)], keys[Store(r)], posts[Store(r)])
  BY <1>1, StoredBecomes
<1>3. ~Succeeded(after)
  BY DEF RunGood
<1>4. run[r].package = NoPackage
  BY <1>1 DEF RunGood, Early
<1>5. outbox[Store(r)] \in Seq(Rows)
  BY <1>1 DEF StoresOK
<1>6. ~sharing => Alone(r, after, outbox[Store(r)], keys[Store(r)], posts[Store(r)])
  <2>1. ASSUME ~sharing PROVE Store(r) = r /\ Alone(r, run[r], outbox[r], keys[r], posts[r])
    BY <2>1 DEF Publication, Store
  <2>2. QED
    BY <1>3, <2>1 DEF Alone, Early, Stages
<1>7. PostsGood(Carried(outbox[Store(r)]), keys[Store(r)], posts[Store(r)])
  BY <1>1 DEF StoreGood, PostsGood
<1>8. Distinct(outbox[Store(r)])
  BY <1>1 DEF StoreGood
<1>9. after.stage \notin {"queued", "publishing"}
  BY DEF Early
<1>10. QED
  BY <1>2, <1>3, <1>4, <1>5, <1>6, <1>7, <1>8, <1>9, RunStep

\* A new run, and one that ends.
LEMMA NewRunIsRun == IsRun(NewRun) /\ NewRun.package = NoPackage /\ NewRun.loading = "none"
<1>1. NewRun = [f \in RunFields |-> NewRun[f]]
  BY DEF RunFields, NewRun
<1>2. DOMAIN NewRun = RunFields
  BY DEF RunFields, NewRun
<1>3. /\ NewRun.stage = "idle" /\ NewRun.request = NoRequest /\ NewRun.content = Nothing
      /\ NewRun.delivery = NoDelivery /\ NewRun.package = NoPackage /\ NewRun.loading = "none"
  BY DEF NewRun
<1>4. QED
  BY <1>1, <1>2, <1>3 DEF IsRun, Stages

Ended(x, status, code) == [x EXCEPT !.stage = "done", !.result = Result(status, code)]

\* A run that has ended is a run with a result.
LEMMA EndedRun ==
  ASSUME NEW x, IsRun(x), NEW status, NEW code
  PROVE  /\ IsRun(Ended(x, status, code))
         /\ Ended(x, status, code).stage = "done" /\ Ended(x, status, code).result.status = status
         /\ \A f \in RunFields \ {"stage", "result"} : Ended(x, status, code)[f] = x[f]
<1> DEFINE result == Result(status, code)
           after == [x EXCEPT !.stage = "done", !.result = result]
<1>1. result.status = status
  BY DEF Result
<1>2. Ended(x, status, code) = after
  BY DEF Ended
<1> HIDE DEF result
<1>3. DOMAIN after = RunFields /\ after = [f \in RunFields |-> after[f]]
  BY DEF IsRun
<1>4. \A f \in RunFields \ {"stage", "result"} : after[f] = x[f]
  BY DEF IsRun
<1>5. after.stage = "done" /\ after.result = result
  BY DEF IsRun, RunFields
<1> HIDE DEF after
<1>6. IsRun(after)
  BY <1>3, <1>4, <1>5 DEF IsRun, RunFields, Stages
<1>7. QED
  BY <1>2, <1>1, <1>4, <1>5, <1>6

\* A run that ends before its package is made leaves everything published as it was.
LEMMA EndsEarly ==
  ASSUME Publication, NEW r \in Runs, NEW status \in {"failed", "blocked"}, NEW code,
         Ends(r, status, code), repository' = repository, UNCHANGED storage, run[r].stage \in Early
  PROVE  Publication'
<1> DEFINE after == Ended(NewRun, status, code)
<1>1. run[r].package = NoPackage
  BY DEF Publication, RunGood, Early
<1>2. Goes(r, after)
  BY <1>1 DEF Ends, Ended
<1>3. /\ IsRun(after) /\ after.stage = "done" /\ after.result.status = status
      /\ after.package = NewRun.package /\ after.loading = NewRun.loading
  BY NewRunIsRun, EndedRun DEF RunFields
<1> HIDE DEF after
<1>4. RunGood(r, after)
  BY <1>3, NewRunIsRun DEF RunGood, Succeeded
<1>5. QED
  BY <1>2, <1>3, <1>4, NewRunIsRun, EarlyStep

\* A request that is taken up, or refused.
LEMMA AskKeeps ==
  ASSUME Publication, NEW r \in Runs, Ask(r)
  PROVE  Publication'
<1>1. IsRun(run[r]) /\ RunGood(r, run[r]) /\ run[r].stage = "idle"
  BY DEF Publication, RunsOK, Ask
<1>2. UNCHANGED storage /\ repository' = repository
  BY DEF Ask, knowledge
<1>3. run[r].stage \in Early
  BY <1>1 DEF Early
<1>4. PICK request \in Requests :
        \/ Ends(r, "blocked", Refusal(request))
        \/ Ends(r, "failed", "knowledge-load-failure")
        \/ Goes(r, [run[r] EXCEPT !.stage = "root", !.request = request])
  BY DEF Ask, Fails
<1>5. CASE Goes(r, [run[r] EXCEPT !.stage = "root", !.request = request])
  <2> DEFINE x == run[r]
             after == [x EXCEPT !.stage = "root", !.request = request]
  <2>1. Goes(r, after)
    BY <1>5
  <2> HIDE DEF x
  <2>2. DOMAIN after = RunFields /\ after = [f \in RunFields |-> after[f]]
    BY <1>1 DEF IsRun, x
  <2>3. \A f \in RunFields \ {"stage", "request"} : after[f] = x[f]
    BY <1>1 DEF IsRun, x
  <2>4. after.stage = "root" /\ after.request = request
    BY <1>1 DEF IsRun, RunFields, x
  <2> HIDE DEF after
  <2>5. IsRun(after) /\ after.package = NoPackage /\ after.loading = x.loading
    BY <1>1, <2>2, <2>3, <2>4 DEF IsRun, RunFields, Stages, RunGood, x
  <2>6. RunGood(r, after)
    BY <1>1, <2>4, <2>5 DEF RunGood, Succeeded, x
  <2>7. QED
    BY <1>2, <1>3, <2>1, <2>4, <2>5, <2>6, EarlyStep DEF Early
<1>6. QED
  BY <1>2, <1>3, <1>4, <1>5, EndsEarly

\* A load that starts.
LEMMA StartLoadKeeps ==
  ASSUME Publication, NEW r \in Runs, StartLoad(r)
  PROVE  Publication'
<1>1. IsRun(run[r]) /\ RunGood(r, run[r])
  BY DEF Publication, RunsOK
<1>2. UNCHANGED storage /\ repository' = repository
  BY DEF StartLoad, knowledge
<1>3. run[r].stage \in {"root", "walk"}
  BY DEF StartLoad, Lacks, Needs
<1>4. PICK type : Goes(r, [run[r] EXCEPT !.loading = type])
  BY DEF StartLoad
<1> DEFINE x == run[r]
           after == [x EXCEPT !.loading = type]
<1>5. Goes(r, after)
  BY <1>4
<1> HIDE DEF x
<1>6. IsRun(after) /\ after.loading = type /\ \A f \in RunFields \ {"loading"} : after[f] = x[f]
  BY <1>1 DEF IsRun, RunFields, x
<1> HIDE DEF after
<1>7. /\ after.stage = x.stage /\ after.request = x.request /\ after.package = x.package
      /\ after.plan = x.plan /\ after.content = x.content
  BY <1>6 DEF RunFields
<1>8. after.package = NoPackage /\ RunGood(r, after)
  BY <1>1, <1>3, <1>7 DEF RunGood, Succeeded, x
<1>9. QED
  BY <1>2, <1>3, <1>5, <1>6, <1>7, <1>8, EarlyStep DEF Early, x

\* A load that ends, with a wider index or with the run.
LEMMA FinishLoadKeeps ==
  ASSUME Publication, NEW r \in Runs, FinishLoad(r)
  PROVE  Publication'
<1>1. IsRun(run[r]) /\ RunGood(r, run[r])
  BY DEF Publication, RunsOK
<1>2. UNCHANGED storage /\ repository' = repository
  BY DEF FinishLoad, knowledge
<1>3. run[r].stage \in {"root", "walk"}
  BY <1>1 DEF FinishLoad, RunGood
<1>4. \/ Ends(r, "failed", "knowledge-load-failure")
      \/ Goes(r, [run[r] EXCEPT !.loading = "none"])
  BY DEF FinishLoad, Fails
<1>5. CASE Goes(r, [run[r] EXCEPT !.loading = "none"])
  <2> DEFINE x == run[r]
             after == [x EXCEPT !.loading = "none"]
  <2>1. Goes(r, after)
    BY <1>5
  <2> HIDE DEF x
  <2>2. IsRun(after) /\ after.loading = "none" /\ \A f \in RunFields \ {"loading"} : after[f] = x[f]
    BY <1>1 DEF IsRun, RunFields, x
  <2> HIDE DEF after
  <2>3. /\ after.stage = x.stage /\ after.request = x.request /\ after.package = x.package
        /\ after.plan = x.plan /\ after.content = x.content
    BY <2>2 DEF RunFields
  <2>4. after.package = NoPackage /\ RunGood(r, after)
    BY <1>1, <1>3, <2>2, <2>3 DEF RunGood, Succeeded, x
  <2>5. QED
    BY <1>2, <1>3, <2>1, <2>2, <2>3, <2>4, EarlyStep DEF Early, x
<1>6. QED
  BY <1>2, <1>3, <1>4, <1>5, EndsEarly DEF Early

\* A plan that is not refused, of a prompt that shows no path and says whether it shows a URL.
LEMMA PlannedKeeps ==
  ASSUME Publication, NEW r \in Runs, NEW plan, Planned(r, plan), UNCHANGED storage,
         repository' = repository, run[r].stage \in {"root", "walk"}, run[r].loading = "none",
         plan.code = "none" /\ ~plan.url =>
           \A ref \in Shown(run[r].request, plan) : Entities(plan)[ref].marks = {}
  PROVE  Publication'
<1>1. IsRun(run[r]) /\ RunGood(r, run[r])
  BY DEF Publication, RunsOK
<1>2. CASE plan.code = "none"
  <2> DEFINE x == run[r]
             walk == StartWalk(Nowhere)
             after == [x EXCEPT !.stage = "planned", !.walk = walk, !.plan = plan]
  <2>1. Goes(r, after)
    BY <1>2 DEF Planned
  <2> HIDE DEF x, walk
  <2>2. DOMAIN after = RunFields /\ after = [f \in RunFields |-> after[f]]
    BY <1>1 DEF IsRun, x
  <2>3. \A f \in RunFields \ {"stage", "walk", "plan"} : after[f] = x[f]
    BY <1>1 DEF IsRun, x
  <2>4. after.stage = "planned" /\ after.plan = plan
    BY <1>1 DEF IsRun, RunFields, x
  <2> HIDE DEF after
  <2>5. IsRun(after) /\ after.package = x.package /\ after.loading = x.loading /\ after.request = x.request
    BY <1>1, <2>2, <2>3, <2>4 DEF IsRun, RunFields, Stages, x
  <2>6. after.package = NoPackage /\ after.request \in Requests
    BY <1>1, <2>5 DEF RunGood, x
  <2>7. ~after.plan.url => Safe(after)
    BY <1>2, <2>4, <2>5 DEF Safe, x
  <2>8. RunGood(r, after)
    BY <1>2, <2>4, <2>5, <2>6, <2>7 DEF RunGood, Succeeded, x
  <2>9. QED
    BY <2>1, <2>4, <2>5, <2>6, <2>8, EarlyStep DEF Early
<1>3. CASE plan.code # "none"
  BY <1>3, EndsEarly DEF Planned, Early
<1>4. QED
  BY <1>2, <1>3

\* A root that is looked up.
LEMMA LookUpRootKeeps ==
  ASSUME Publication, NEW r \in Runs, LookUpRoot(r)
  PROVE  Publication'
<1>1. IsRun(run[r]) /\ RunGood(r, run[r])
  BY DEF Publication, RunsOK
<1>2. UNCHANGED storage /\ repository' = repository /\ run[r].stage = "root" /\ run[r].loading = "none"
  BY DEF LookUpRoot, knowledge, Ready
<1>3. \/ Ends(r, "failed", "knowledge-load-failure")
      \/ \E code \in {"missing-root-entity", "incompatible-recipe-content"} : Planned(r, Refused(code))
      \/ Goes(r, [run[r] EXCEPT !.stage = "walk", !.walk = StartWalk(run[r].request.root)])
  BY DEF LookUpRoot, Fails
<1>4. CASE Goes(r, [run[r] EXCEPT !.stage = "walk", !.walk = StartWalk(run[r].request.root)])
  <2> DEFINE x == run[r]
             walk == StartWalk(x.request.root)
             after == [x EXCEPT !.stage = "walk", !.walk = walk]
  <2>1. Goes(r, after)
    BY <1>4
  <2> HIDE DEF x, walk
  <2>2. DOMAIN after = RunFields /\ after = [f \in RunFields |-> after[f]]
    BY <1>1 DEF IsRun, x
  <2>3. \A f \in RunFields \ {"stage", "walk"} : after[f] = x[f]
    BY <1>1 DEF IsRun, x
  <2>4. after.stage = "walk"
    BY <1>1 DEF IsRun, RunFields, x
  <2> HIDE DEF after
  <2>5. IsRun(after) /\ after.package = x.package /\ after.loading = x.loading /\ after.request = x.request
    BY <1>1, <2>2, <2>3, <2>4 DEF IsRun, RunFields, Stages, x
  <2>6. after.package = NoPackage /\ RunGood(r, after)
    BY <1>1, <1>2, <2>4, <2>5 DEF RunGood, Succeeded, x
  <2>7. QED
    BY <1>2, <2>1, <2>4, <2>5, <2>6, EarlyStep DEF Early
<1>5. ASSUME NEW code \in {"missing-root-entity", "incompatible-recipe-content"}, Planned(r, Refused(code))
      PROVE  Publication'
  <2>1. Ends(r, "blocked", code)
    BY <1>5 DEF Planned, Refused
  <2>2. QED
    BY <1>2, <2>1, EndsEarly DEF Early
<1>6. QED
  BY <1>2, <1>3, <1>4, <1>5, EndsEarly DEF Early

\* A text that is generated: only of a prompt with no URL, and only one that passes validation.
LEMMA GenerateKeeps ==
  ASSUME Publication, NEW r \in Runs, Generate(r)
  PROVE  Publication'
<1>1. IsRun(run[r]) /\ RunGood(r, run[r])
  BY DEF Publication, RunsOK
<1>2. UNCHANGED storage /\ repository' = repository /\ run[r].stage = "planned"
  BY DEF Generate, knowledge
<1>3. CASE \E code : Ends(r, "failed", code)
  BY <1>2, <1>3, EndsEarly DEF Early
<1>4. ASSUME NEW content \in Contents, ~run[r].plan.url, content.valid,
             Goes(r, [run[r] EXCEPT !.stage = "written", !.content = content])
      PROVE  Publication'
  <2> DEFINE x == run[r]
             after == [x EXCEPT !.stage = "written", !.content = content]
  <2>1. Goes(r, after)
    BY <1>4
  <2> HIDE DEF x
  <2>2. DOMAIN after = RunFields /\ after = [f \in RunFields |-> after[f]]
    BY <1>1 DEF IsRun, x
  <2>3. \A f \in RunFields \ {"stage", "content"} : after[f] = x[f]
    BY <1>1 DEF IsRun, x
  <2>4. after.stage = "written" /\ after.content = content
    BY <1>1 DEF IsRun, RunFields, x
  <2> HIDE DEF after
  <2>5. /\ IsRun(after) /\ after.package = x.package /\ after.loading = x.loading
        /\ after.request = x.request /\ after.plan = x.plan
    BY <1>1, <2>2, <2>3, <2>4 DEF IsRun, RunFields, Stages, x
  <2>6. Safe(after)
    BY <1>1, <1>2, <1>4, <2>5 DEF RunGood, Safe, x
  <2>7. after.package = NoPackage /\ RunGood(r, after)
    BY <1>1, <1>2, <1>4, <2>4, <2>5, <2>6 DEF RunGood, Succeeded, x
  <2>8. QED
    BY <1>2, <2>1, <2>4, <2>5, <2>7, EarlyStep DEF Early
<1>5. QED
  BY <1>3, <1>4 DEF Generate, Fails, JobAllowed, Publishable

\* A package that is made: only of an approved text with clean metadata.
LEMMA HandOffKeeps ==
  ASSUME Publication, NEW r \in Runs, HandOff(r)
  PROVE  Publication'
<1>1. IsRun(run[r]) /\ RunGood(r, run[r])
  BY DEF Publication, RunsOK
<1>2. UNCHANGED storage /\ repository' = repository /\ run[r].stage = "written"
  BY DEF HandOff, knowledge
<1>3. CASE \E status \in {"failed", "blocked"} : \E code : Ends(r, status, code)
  BY <1>2, <1>3, EndsEarly DEF Early
<1>4. ASSUME NEW delivery \in Deliveries, HandoffReady(delivery),
             Goes(r, [run[r] EXCEPT !.stage = "packed", !.delivery = delivery,
                                    !.package = Package(r, delivery)])
      PROVE  Publication'
  <2> DEFINE x == run[r]
             package == Package(r, delivery)
             after == [x EXCEPT !.stage = "packed", !.delivery = delivery, !.package = package]
             s == Store(r)
  <2>1. Goes(r, after)
    BY <1>4
  <2>2. package \in Packages /\ package.content = x.content
    <3>1. /\ delivery.created \in STRING /\ delivery.target \in STRING
      BY ContentPipelineConstants
    <3>2. x.request \in Requests /\ x.content \in Contents
      BY <1>1, <1>2 DEF RunGood
    <3>3. Stamp(r, delivery) \in Runs \cup STRING
      BY <3>1 DEF Stamp
    <3>4. \A a \in Requests, b \in Runs \cup STRING, c \in STRING : <<a, b, c>> \in Handles
      BY DEF Handles
    <3> DEFINE handoff == <<x.request, Stamp(r, delivery), delivery.target>>
    <3>5. package = [handoff |-> handoff, target |-> delivery.target,
                     slug |-> "pipeline-dry-run-draft", content |-> x.content]
      BY DEF Package
    <3>6. handoff \in Handles
      BY <3>1, <3>2, <3>3, <3>4
    <3> HIDE DEF handoff, package
    <3>7. package \in Packages /\ package.content = x.content
      BY <3>1, <3>2, <3>5, <3>6 DEF Packages
    <3>8. QED
      BY <3>7
  <2> HIDE DEF x, package
  <2>3. DOMAIN after = RunFields /\ after = [f \in RunFields |-> after[f]]
    BY <1>1 DEF IsRun, x
  <2>4. \A f \in RunFields \ {"stage", "delivery", "package"} : after[f] = x[f]
    BY <1>1 DEF IsRun, x
  <2>5. after.stage = "packed" /\ after.delivery = delivery /\ after.package = package
    BY <1>1 DEF IsRun, RunFields, x
  <2> HIDE DEF after
  <2>6. IsRun(after)
    BY <1>1, <2>2, <2>3, <2>4, <2>5 DEF IsRun, RunFields, Stages, x
  <2>7. /\ after.loading = x.loading /\ after.request = x.request /\ after.plan = x.plan
        /\ after.content = x.content
    BY <2>4 DEF RunFields
  <2>8. Safe(after) /\ after.loading = "none"
    BY <1>1, <1>2, <2>7 DEF RunGood, Safe, x
  <2>9. RunGood(r, after)
    <3>1. Made(r, after)
      BY <1>1, <1>2, <1>4, <2>2, <2>5, <2>7, <2>8 DEF Made, RunGood, HandoffReady, x
    <3>2. QED
      BY <2>2, <2>5, <2>8, <3>1, NothingIsNoPackage DEF RunGood, Succeeded
  <2>10. /\ StoresOK /\ s \in Stores /\ StoreGood(s) /\ outbox[s] \in Seq(Rows)
         /\ run[r].package = NoPackage
    BY <1>1, <1>2 DEF Publication, Store, Stores, StoresOK, RunGood
  <2>11. Becomes(s, outbox[s], keys[s], posts[s])
    BY <1>2, <2>10, StoredBecomes
  <2>12. ~sharing => Alone(r, after, outbox[s], keys[s], posts[s])
    <3>1. ASSUME ~sharing PROVE s = r /\ Alone(r, run[r], outbox[r], keys[r], posts[r])
      BY <3>1 DEF Publication, Store
    <3>2. QED
      BY <1>2, <2>5, <3>1 DEF Alone, Stages, Succeeded
  <2>13. PostsGood(Carried(outbox[s]), keys[s], posts[s]) /\ Distinct(outbox[s])
    BY <2>10 DEF StoreGood, PostsGood
  <2>14. after.stage \notin {"queued", "publishing"} /\ ~Succeeded(after)
    BY <2>5 DEF Succeeded
  <2> HIDE DEF s
  <2>15. QED
    BY <1>2, <2>1, <2>6, <2>9, <2>10, <2>11, <2>12, <2>13, <2>14, RunStep DEF s
<1>5. QED
  BY <1>3, <1>4 DEF HandOff, Fails

\* What holds of a run that has its package, and of its store.
LEMMA LateRun ==
  ASSUME Publication, NEW r \in Runs, run[r].stage \in {"packed", "queued", "publishing"}
  PROVE  LET s == Store(r) IN
         /\ IsRun(run[r]) /\ RunGood(r, run[r]) /\ RunStored(r, run[r])
         /\ run[r].package \in Packages /\ run[r].package # NoPackage /\ run[r].loading = "none"
         /\ Made(r, run[r])
         /\ StoresOK /\ s \in Stores /\ outbox[s] \in Seq(Rows)
         /\ StoreGood(s) /\ Distinct(outbox[s])
         /\ PostsGood(Carried(outbox[s]), keys[s], posts[s])
         /\ ~sharing => s = r /\ Alone(r, run[r], outbox[s], keys[s], posts[s])
<1> DEFINE s == Store(r)
<1>1. IsRun(run[r]) /\ RunGood(r, run[r]) /\ RunStored(r, run[r]) /\ StoresOK
  BY DEF Publication, RunsOK
<1>2. run[r].package # NoPackage /\ run[r].loading = "none" /\ Made(r, run[r])
  BY <1>1 DEF RunGood
<1>3. run[r].package \in Packages
  BY <1>2 DEF Made
<1>4. s \in Stores
  BY DEF Store, Stores
<1>5. StoreGood(s) /\ outbox[s] \in Seq(Rows)
  BY <1>1, <1>4 DEF Publication, StoresOK
<1>6. Distinct(outbox[s]) /\ PostsGood(Carried(outbox[s]), keys[s], posts[s])
  BY <1>5 DEF StoreGood, PostsGood
<1>7. ~sharing => s = r /\ Alone(r, run[r], outbox[s], keys[s], posts[s])
  BY DEF Publication, Store
<1>8. QED
  BY <1>1, <1>2, <1>3, <1>4, <1>5, <1>6, <1>7

\* A run that ends with its package keeps what it has earned.
LEMMA EndsLate ==
  ASSUME Publication, NEW r \in Runs, run[r].stage \in {"packed", "queued", "publishing"},
         NEW status, NEW code, Ends(r, status, code)
  PROVE  LET after == Ended(run[r], status, code) IN
         /\ Goes(r, after) /\ IsRun(after) /\ RunGood(r, after)
         /\ after.stage = "done" /\ (Succeeded(after) <=> status = "succeeded")
         /\ after.package = run[r].package /\ after.delivery = run[r].delivery
         /\ after.claimed = run[r].claimed
<1> DEFINE x == run[r]
           after == Ended(x, status, code)
<1>1. IsRun(x) /\ RunGood(r, x) /\ x.package # NoPackage /\ x.loading = "none" /\ Made(r, x)
  BY LateRun
<1>2. Goes(r, after)
  BY <1>1 DEF Ends, Ended
<1> HIDE DEF x
<1>3. /\ IsRun(after) /\ after.stage = "done" /\ after.result.status = status
      /\ \A f \in RunFields \ {"stage", "result"} : after[f] = x[f]
  BY <1>1, EndedRun
<1> HIDE DEF after
<1>4. /\ after.package = x.package /\ after.plan = x.plan /\ after.request = x.request
      /\ after.content = x.content /\ after.delivery = x.delivery /\ after.loading = x.loading
      /\ after.claimed = x.claimed
  BY <1>3 DEF RunFields
<1>5. Made(r, after)
  BY <1>1, <1>4 DEF Made, Safe
<1>6. RunGood(r, after)
  BY <1>1, <1>3, <1>4, <1>5 DEF RunGood
<1>7. QED
  BY <1>2, <1>3, <1>4, <1>6 DEF Succeeded, after, x

\* A package that is enqueued, replayed or refused as a conflict.
LEMMA EnqueueKeeps ==
  ASSUME Publication, NEW r \in Runs, Enqueue(r)
  PROVE  Publication'
<1> DEFINE s == Store(r)
           x == run[r]
           package == x.package
           rows == Enqueued(outbox[s], package, x.delivery.scheduled)
<1>1. run[r].stage = "packed" /\ repository' = repository /\ Stored(s, rows, keys[s], posts[s])
  BY DEF Enqueue, knowledge
<1>2. /\ IsRun(x) /\ RunGood(r, x) /\ Made(r, x)
      /\ package \in Packages /\ package # NoPackage /\ x.loading = "none"
      /\ StoresOK /\ s \in Stores /\ outbox[s] \in Seq(Rows)
      /\ StoreGood(s) /\ Distinct(outbox[s])
      /\ PostsGood(Carried(outbox[s]), keys[s], posts[s])
      /\ ~sharing => s = r /\ Alone(r, x, outbox[s], keys[s], posts[s])
  BY <1>1, LateRun
<1>3. Becomes(s, rows, keys[s], posts[s])
  BY <1>1, <1>2, StoredBecomes
<1>4. x.delivery.scheduled \in BOOLEAN
  BY <1>2, ContentPipelineConstants DEF Made
<1>5. /\ rows \in Seq(Rows) /\ Distinct(rows)
      /\ \/ rows = outbox[s]
         \/ /\ rows = Append(outbox[s], Row(package, x.delivery.scheduled))
            /\ Carried(rows) = Carried(outbox[s]) \cup {<<package.handoff, package>>}
      /\ EnqueueAnswer(outbox[s], package) # "conflict" =>
           \E i \in DOMAIN rows : /\ rows[i].handoff = package.handoff
                                 /\ Length(rows[i].package.content) = Length(package.content)
  BY <1>2, <1>4, EnqueueCarries
<1>6. /\ Carried(outbox[s]) \subseteq Carried(rows)
      /\ \A c \in Carried(rows) \ Carried(outbox[s]) : c[2] = package
  BY <1>5
<1>7. PostsGood(Carried(rows), keys[s], posts[s])
  BY <1>2, <1>6 DEF PostsGood
<1>8. CASE EnqueueAnswer(outbox[s], package) = "conflict"
  <2> DEFINE after == Ended(x, "failed", "knowledge-load-failure")
  <2>1. Ends(r, "failed", "knowledge-load-failure")
    BY <1>8 DEF Enqueue, Fails
  <2>2. /\ Goes(r, after) /\ IsRun(after) /\ RunGood(r, after)
        /\ after.stage = "done" /\ ~Succeeded(after) /\ after.package = package
    BY <1>1, <2>1, EndsLate
  <2> HIDE DEF after, x, package, s, rows
  <2>3. ~sharing => Alone(r, after, rows, keys[s], posts[s])
    BY <2>2 DEF Alone, Stages
  <2>4. QED
    BY <1>1, <1>2, <1>3, <1>5, <1>6, <1>7, <2>2, <2>3, RunStep DEF s, x, package
<1>9. CASE EnqueueAnswer(outbox[s], package) # "conflict"
  <2> DEFINE after == [x EXCEPT !.stage = "queued"]
  <2>1. Goes(r, after)
    BY <1>9 DEF Enqueue
  <2> HIDE DEF x, package, rows, s
  <2>2. DOMAIN after = RunFields /\ after = [f \in RunFields |-> after[f]]
    BY <1>2 DEF IsRun
  <2>3. after.stage = "queued" /\ \A f \in RunFields \ {"stage"} : after[f] = x[f]
    BY <1>2 DEF IsRun, RunFields
  <2> HIDE DEF after
  <2>4. /\ IsRun(after) /\ after.loading = x.loading /\ after.request = x.request
        /\ after.plan = x.plan /\ after.content = x.content /\ after.delivery = x.delivery
        /\ after.package = x.package
    BY <1>2, <2>2, <2>3 DEF IsRun, RunFields, Stages
  <2>5. Made(r, after)
    BY <1>2, <2>4 DEF Made, Safe
  <2>6. RunGood(r, after) /\ ~Succeeded(after) /\ after.package = package
    BY <1>2, <2>3, <2>4, <2>5 DEF RunGood, Succeeded, package
  <2>7. \E c \in Carried(rows) : /\ c[1] = after.package.handoff
                                  /\ Length(c[2].content) = Length(after.package.content)
    <3>1. PICK i \in DOMAIN rows : /\ rows[i].handoff = package.handoff
                                   /\ Length(rows[i].package.content) = Length(package.content)
      BY <1>5, <1>9
    <3>2. <<rows[i].handoff, rows[i].package>> \in Carried(rows)
      BY DEF Carried
    <3>3. QED
      BY <2>6, <3>1, <3>2
  <2>8. ASSUME ~sharing PROVE Alone(r, after, rows, keys[s], posts[s])
    <3>1. Alone(r, x, outbox[s], keys[s], posts[s])
      BY <1>2, <2>8
    <3>2. outbox[s] = << >> /\ keys[s] = << >> /\ posts[s] = {}
      BY <1>1, <3>1 DEF Alone, Stages, x
    <3>3. rows = Append(<< >>, Row(package, x.delivery.scheduled))
      <4>1. package.handoff \notin Handoffs(<< >>)
        BY DEF Handoffs, ToSet
      <4>2. EnqueueAnswer(outbox[s], package) = "created"
        BY <3>2, <4>1 DEF EnqueueAnswer
      <4>3. QED
        BY <3>2, <4>2 DEF Enqueued, rows
    <3>4. Len(rows) = 1 /\ rows[1] = Row(package, x.delivery.scheduled)
      BY <3>3
    <3>5. QED
      BY <1>4, <2>3, <2>4, <2>6, <3>2, <3>4 DEF Alone, Row
  <2>9. QED
    BY <1>1, <1>2, <1>3, <1>5, <1>6, <1>7, <2>1, <2>3, <2>4, <2>6, <2>7, <2>8, RunStep DEF s, x, package
<1>10. QED
  BY <1>8, <1>9

\* Of the rows that can be claimed one is the first.
LEMMA FirstIsClaimable ==
  ASSUME NEW rows \in Seq(Rows), NEW i \in ClaimedAt(rows)
  PROVE  i \in DOMAIN rows /\ Claimable(rows[i])
<1> DEFINE At == {k \in DOMAIN rows : Claimable(rows[k])}
<1>1. At # {} /\ At \subseteq Nat
  BY DEF ClaimedAt
<1>2. PICK x \in At : \A y \in At : ~(<<y, x>> \in OpToRel(<, Nat))
  BY <1>1, NatLessThanWellFounded, WFMin
<1>3. \A j \in 1..(x - 1) : ~Claimable(rows[j])
  <2>1. SUFFICES ASSUME NEW j \in 1..(x - 1), Claimable(rows[j]) PROVE FALSE
    OBVIOUS
  <2>2. j \in DOMAIN rows /\ j < x /\ j \in Nat /\ x \in Nat
    OBVIOUS
  <2>3. j \in At /\ <<j, x>> \in OpToRel(<, Nat)
    BY <2>1, <2>2 DEF OpToRel
  <2>4. QED
    BY <1>2, <2>3
<1>4. x \in DOMAIN rows /\ Claimable(rows[x])
  OBVIOUS
<1>5. QED
  BY <1>3, <1>4 DEF ClaimedAt

\* A row that is claimed, or none.
LEMMA ClaimNextKeeps ==
  ASSUME Publication, NEW r \in Runs, ClaimNext(r)
  PROVE  Publication'
<1> DEFINE s == Store(r)
           x == run[r]
           old == outbox[s]
<1>1. run[r].stage = "queued" /\ repository' = repository
  BY DEF ClaimNext, knowledge
<1>2. /\ IsRun(x) /\ RunGood(r, x) /\ RunStored(r, x) /\ Made(r, x)
      /\ x.package \in Packages /\ x.package # NoPackage /\ x.loading = "none"
      /\ StoresOK /\ s \in Stores /\ old \in Seq(Rows)
      /\ StoreGood(s) /\ Distinct(old)
      /\ PostsGood(Carried(old), keys[s], posts[s])
      /\ ~sharing => s = r /\ Alone(r, x, old, keys[s], posts[s])
  BY <1>1, LateRun
<1>3. \E c \in Carried(old) : /\ c[1] = x.package.handoff
                              /\ Length(c[2].content) = Length(x.package.content)
  BY <1>1, <1>2 DEF RunStored
<1>4. CASE ClaimedAt(old) = {}
  <2> DEFINE after == Ended(x, "succeeded", "idle")
  <2>1. Ends(r, "succeeded", "idle") /\ UNCHANGED storage
    BY <1>4 DEF ClaimNext
  <2>2. /\ Goes(r, after) /\ IsRun(after) /\ RunGood(r, after)
        /\ after.stage = "done" /\ after.package = x.package /\ after.delivery = x.delivery
    BY <1>1, <2>1, EndsLate
  <2>3. Becomes(s, old, keys[s], posts[s])
    BY <1>2, <2>1, StoredBecomes
  <2> HIDE DEF after
  <2>4. ASSUME ~sharing PROVE Alone(r, after, old, keys[s], posts[s])
    <3>1. Alone(r, x, old, keys[s], posts[s])
      BY <1>2, <2>4
    <3>2. after.delivery.scheduled
      <4>1. SUFFICES ASSUME ~x.delivery.scheduled PROVE FALSE
        BY <2>2
      <4>2. Claimable(old[1]) /\ 1 \in DOMAIN old
        BY <1>1, <1>2, <3>1, <4>1 DEF Alone, Claimable, x
      <4>3. QED
        BY <1>4, <4>2 DEF ClaimedAt
    <3>3. QED
      BY <2>2, <3>2 DEF Alone, Stages
  <2> HIDE DEF old, s, x
  <2>5. QED
    BY <1>1, <1>2, <1>3, <2>2, <2>3, <2>4, RunStep DEF old, s, x
<1>5. ASSUME NEW i \in ClaimedAt(old), Stored(s, Claim(old, i, r), keys[s], posts[s]),
             Goes(r, [x EXCEPT !.stage = "publishing", !.claimed = Claim(old, i, r)[i]])
      PROVE  Publication'
  <2> DEFINE rows == Claim(old, i, r)
             claimed == rows[i]
             after == [x EXCEPT !.stage = "publishing", !.claimed = claimed]
  <2>1. i \in DOMAIN old /\ Claimable(old[i])
    BY <1>2, FirstIsClaimable
  <2>2. /\ Alike(old, rows) /\ claimed \in Rows /\ claimed.status = "processing"
        /\ claimed.waits = old[i].waits
    BY <1>2, <2>1, ClaimIsAlike
  <2>3. rows \in Seq(Rows) /\ Distinct(rows) /\ Carried(rows) = Carried(old) /\ DOMAIN rows = DOMAIN old
    BY <1>2, <2>2, AlikeCarries DEF Alike
  <2>4. Becomes(s, rows, keys[s], posts[s])
    BY <1>2, <1>5, StoredBecomes
  <2>5. Goes(r, after)
    BY <1>5
  <2>6. <<claimed.handoff, claimed.package>> \in Carried(rows)
    BY <2>1, <2>3 DEF Carried
  <2>7. claimed.handoff = old[i].handoff
    BY <2>1, <2>2 DEF Alike
  <2>8. claimed = rows[i]
    OBVIOUS
  <2> HIDE DEF x, rows, s, old, claimed
  <2>9. DOMAIN after = RunFields /\ after = [f \in RunFields |-> after[f]]
    BY <1>2 DEF IsRun
  <2>10. after.stage = "publishing" /\ after.claimed = claimed
    BY <1>2 DEF IsRun, RunFields
  <2>11. \A f \in RunFields \ {"stage", "claimed"} : after[f] = x[f]
    BY <1>2 DEF IsRun, RunFields
  <2> HIDE DEF after
  <2>12. /\ IsRun(after) /\ after.loading = x.loading /\ after.request = x.request
         /\ after.plan = x.plan /\ after.content = x.content /\ after.delivery = x.delivery
         /\ after.package = x.package
    BY <1>2, <2>9, <2>10, <2>11 DEF IsRun, RunFields, Stages
  <2>13. Made(r, after)
    BY <1>2, <2>12 DEF Made, Safe
  <2>14. RunGood(r, after) /\ ~Succeeded(after)
    BY <1>2, <2>10, <2>12, <2>13 DEF RunGood, Succeeded
  <2>15. ASSUME ~sharing PROVE Alone(r, after, rows, keys[s], posts[s])
    <3>1. Alone(r, x, old, keys[s], posts[s]) /\ x.stage = "queued"
      BY <1>1, <1>2, <2>15 DEF x
    <3>2. /\ Len(old) = 1 /\ old[1].handoff = x.package.handoff
          /\ keys[s] = << >> /\ posts[s] = {}
      BY <3>1 DEF Alone, Stages
    <3>3. i = 1 /\ Len(rows) = 1
      BY <1>2, <2>1, <2>3, <3>2
    <3>4. ~claimed.waits
      BY <2>1, <2>2 DEF Claimable
    <3>5. QED
      BY <2>2, <2>7, <2>10, <2>12, <2>14, <2>8, <3>2, <3>3, <3>4 DEF Alone
  <2>16. QED
    BY <1>1, <1>2, <1>3, <2>3, <2>4, <2>5, <2>6, <2>10, <2>12, <2>14, <2>15, RunStep DEF old, s, x
<1>6. QED
  BY <1>4, <1>5 DEF ClaimNext

\* The end of a pass of the worker, whatever has become of the row, the key and the posts.
LEMMA PublishEnds ==
  ASSUME Publication, NEW r \in Runs, run[r].stage = "publishing", repository' = repository,
         NEW status, NEW code, Ends(r, status, code),
         NEW rows, Alike(outbox[Store(r)], rows), NEW reservations, NEW published,
         Becomes(Store(r), rows, reservations, published),
         PostsGood(Carried(outbox[Store(r)]), reservations, published),
         ~sharing /\ status = "succeeded" =>
           /\ Len(rows) = 1
           /\ rows[1].handoff = run[r].package.handoff
           /\ rows[1].status = "succeeded"
           /\ ~rows[1].waits
           /\ published = {Post(r)}
  PROVE  Publication'
<1> DEFINE s == Store(r)
           x == run[r]
           old == outbox[s]
           after == Ended(x, status, code)
<1>1. /\ IsRun(x) /\ RunGood(r, x) /\ RunStored(r, x) /\ Made(r, x)
      /\ old \in Seq(Rows) /\ Distinct(old)
      /\ ~sharing => s = r /\ Alone(r, x, old, keys[s], posts[s])
  BY LateRun
<1>2. /\ Goes(r, after) /\ IsRun(after) /\ RunGood(r, after)
      /\ after.stage = "done" /\ (Succeeded(after) <=> status = "succeeded")
      /\ after.package = x.package /\ after.delivery = x.delivery /\ after.claimed = x.claimed
  BY EndsLate
<1>3. rows \in Seq(Rows) /\ Distinct(rows) /\ Carried(rows) = Carried(old)
  BY <1>1, AlikeCarries DEF Alike
<1>4. \E c \in Carried(old) : /\ c[1] = x.package.handoff
                              /\ Length(c[2].content) = Length(x.package.content)
  BY <1>1 DEF RunStored
<1>5. Post(r) = [by |-> r, handoff |-> x.claimed.handoff, content |-> x.claimed.package.content]
  BY DEF Post
<1> HIDE DEF after
<1>6. ~sharing => Alone(r, after, rows, reservations, published)
  BY <1>2, <1>5 DEF Alone, Stages
<1> HIDE DEF x, s, old
<1>7. QED
  BY <1>1, <1>2, <1>3, <1>4, <1>6, RunStep DEF old, s, x

\* A run that fails when it publishes.
LEMMA PublishFails ==
  ASSUME Publication, NEW r \in Runs, run[r].stage = "publishing", repository' = repository,
         NEW code, Ends(r, "failed", code),
         NEW rows, Alike(outbox[Store(r)], rows), NEW reservations, NEW published,
         Becomes(Store(r), rows, reservations, published),
         PostsGood(Carried(outbox[Store(r)]), reservations, published)
  PROVE  Publication'
<1> DEFINE failed == "failed"
<1>1. failed # "succeeded" /\ Ends(r, failed, code)
  OBVIOUS
<1> HIDE DEF failed
<1>2. QED
  BY <1>1, PublishEnds

\* A handoff whose key lets the worker proceed has not been posted.
LEMMA NotPostedYet ==
  ASSUME NEW carried, NEW k, NEW h, NEW published, PostsGood(carried, k, published),
         Reserve(k, h) = "proceed"
  PROVE  \A post \in published : post.handoff # h
<1>1. KeyOf(k, h) \notin {"completed", "reserved"}
  BY DEF Reserve
<1>2. QED
  BY <1>1 DEF PostsGood

\* A key that is bound to what has just been published, or not.
LEMMA PostsStayGood ==
  ASSUME NEW carried, NEW k, NEW h, NEW published, PostsGood(carried, k, published),
         Reserve(k, h) = "proceed", NEW state
  PROVE  /\ PostsGood(carried, Bound(k, h, state), published)
         /\ \A post : /\ state \in {"completed", "reserved"}
                      /\ post.handoff = h
                      /\ \E c \in carried : c[1] = h /\ c[2].content = post.content
                      => PostsGood(carried, Bound(k, h, state), published \cup {post})
<1>1. \A post \in published : post.handoff # h
  BY NotPostedYet
<1>2. \A post \in published : KeyOf(Bound(k, h, state), post.handoff) = KeyOf(k, post.handoff)
  BY <1>1, BoundKey
<1>3. KeyOf(Bound(k, h, state), h) = state
  BY BoundKey
<1>4. PostsGood(carried, Bound(k, h, state), published)
  BY <1>2 DEF PostsGood
<1>5. ASSUME NEW post, state \in {"completed", "reserved"}, post.handoff = h,
             \E c \in carried : c[1] = h /\ c[2].content = post.content
      PROVE  PostsGood(carried, Bound(k, h, state), published \cup {post})
  BY <1>1, <1>3, <1>4, <1>5 DEF PostsGood
<1>6. QED
  BY <1>4, <1>5

\* One pass of the worker over the row it has claimed, whatever the adapter does.
LEMMA PublishKeeps ==
  ASSUME Publication, NEW r \in Runs, Publish(r)
  PROVE  Publication'
<1> DEFINE s == Store(r)
           x == run[r]
           old == outbox[s]
           claimed == x.claimed
           h == claimed.handoff
           answer == Reserve(keys[s], h)
<1>1. run[r].stage = "publishing" /\ repository' = repository
  BY DEF Publish, knowledge
<1>2. /\ RunStored(r, x)
      /\ StoresOK /\ s \in Stores /\ old \in Seq(Rows) /\ Distinct(old)
      /\ PostsGood(Carried(old), keys[s], posts[s])
      /\ ~sharing => s = r /\ Alone(r, x, old, keys[s], posts[s])
  BY <1>1, LateRun
<1>3. <<h, claimed.package>> \in Carried(old)
  BY <1>1, <1>2 DEF RunStored
<1>4. PICK i \in DOMAIN old : old[i].handoff = h
  BY <1>3 DEF Carried
<1>5. \A retryable \in BOOLEAN : Alike(old, MarkFailed(old, claimed, retryable))
  BY <1>2, <1>4, MarkIsAlike
<1>6. /\ Alike(old, MarkSucceeded(old, claimed))
      /\ MarkSucceeded(old, claimed)[i].status = "succeeded"
      /\ MarkSucceeded(old, claimed)[i].waits = old[i].waits
  <2>1. TRUE \in BOOLEAN
    OBVIOUS
  <2>2. QED
    BY <1>2, <1>4, <2>1, MarkIsAlike
<1>7. Alike(old, old)
  BY <1>2 DEF Alike
<1>8. \E c \in Carried(old) : c[1] = h /\ c[2].content = Post(r).content
  BY <1>3 DEF Post
<1>9. Post(r).handoff = h
  BY DEF Post
<1>10. ~sharing => /\ Len(old) = 1 /\ old[1].handoff = x.package.handoff /\ ~old[1].waits
                  /\ keys[s] = << >> /\ posts[s] = {}
  BY <1>1, <1>2 DEF Alone, Stages
<1>11. ~sharing => answer = "proceed"
  BY <1>10 DEF Reserve, KeyOf
<1>12. ASSUME ~sharing
       PROVE  /\ Len(MarkSucceeded(old, claimed)) = 1
              /\ MarkSucceeded(old, claimed)[1].handoff = x.package.handoff
              /\ MarkSucceeded(old, claimed)[1].status = "succeeded"
              /\ ~MarkSucceeded(old, claimed)[1].waits
  <2>1. i = 1
    BY <1>2, <1>10, <1>12
  <2>2. QED
    BY <1>2, <1>6, <1>10, <1>12, <2>1 DEF Alike
<1>13. ASSUME NEW rows, Alike(old, rows), NEW reservations, NEW published, NEW code,
              Becomes(s, rows, reservations, published),
              PostsGood(Carried(old), reservations, published), Ends(r, "failed", code)
       PROVE  Publication'
  BY <1>1, <1>13, PublishFails
<1> HIDE DEF answer
<1>14. CASE Fails(r, "knowledge-load-failure") /\ UNCHANGED storage
  <2>1. Becomes(s, old, keys[s], posts[s])
    BY <1>2, <1>14, StoredBecomes
  <2>2. QED
    BY <1>1, <1>2, <1>7, <1>14, <2>1, PublishEnds DEF Fails
<1>15. CASE NoAdapter(r)
  <2>1. Becomes(s, MarkFailed(old, claimed, FALSE), keys[s], posts[s]) /\ Ends(r, "failed", "worker-failure")
    BY <1>2, <1>15, StoredBecomes DEF NoAdapter, Fails
  <2>2. Alike(old, MarkFailed(old, claimed, FALSE))
    BY <1>5
  <2>3. QED
    BY <1>2, <1>13, <2>1, <2>2
<1>16. CASE /\ Stored(s, MarkFailed(old, claimed, TRUE), keys[s], posts[s])
            /\ Fails(r, "worker-failure")
  <2>1. Becomes(s, MarkFailed(old, claimed, TRUE), keys[s], posts[s]) /\ Ends(r, "failed", "worker-failure")
    BY <1>2, <1>16, StoredBecomes DEF Fails
  <2>2. Alike(old, MarkFailed(old, claimed, TRUE))
    BY <1>5
  <2>3. QED
    BY <1>2, <1>13, <2>1, <2>2
<1>17. CASE /\ answer = "return-existing"
            /\ Stored(s, MarkSucceeded(old, claimed), keys[s], posts[s])
            /\ Ends(r, "succeeded", "succeeded")
  <2>1. Becomes(s, MarkSucceeded(old, claimed), keys[s], posts[s])
    BY <1>2, <1>17, StoredBecomes
  <2>2. sharing
    BY <1>11, <1>17
  <2>3. QED
    BY <1>1, <1>2, <1>6, <1>17, <2>1, <2>2, PublishEnds
<1>18. CASE /\ answer = "proceed"
            /\ Stored(s, MarkSucceeded(old, claimed), Completed(keys[s], h), posts[s] \cup {Post(r)})
            /\ Ends(r, "succeeded", "succeeded")
  <2>1. Becomes(s, MarkSucceeded(old, claimed), Completed(keys[s], h), posts[s] \cup {Post(r)})
    BY <1>2, <1>18, StoredBecomes
  <2>2. PostsGood(Carried(old), Completed(keys[s], h), posts[s] \cup {Post(r)})
    BY <1>2, <1>8, <1>9, <1>18, PostsStayGood DEF Completed, answer
  <2>3. ~sharing => posts[s] \cup {Post(r)} = {Post(r)}
    BY <1>10
  <2>4. QED
    BY <1>1, <1>6, <1>12, <1>18, <2>1, <2>2, <2>3, PublishEnds
<1>19. ASSUME answer = "proceed", NEW retryable \in BOOLEAN,
              Stored(s, MarkFailed(old, claimed, retryable), Failed(keys[s], h, retryable), posts[s]),
              Fails(r, "worker-failure")
       PROVE  Publication'
  <2>1. Becomes(s, MarkFailed(old, claimed, retryable), Failed(keys[s], h, retryable), posts[s])
    BY <1>2, <1>19, StoredBecomes
  <2>2. PostsGood(Carried(old), Failed(keys[s], h, retryable), posts[s])
    BY <1>2, <1>19, PostsStayGood DEF Failed, answer
  <2>3. Alike(old, MarkFailed(old, claimed, retryable)) /\ Ends(r, "failed", "worker-failure")
    BY <1>5, <1>19 DEF Fails
  <2>4. QED
    BY <1>13, <2>1, <2>2, <2>3
<1>20. ASSUME answer = "proceed", NEW published \in {{}, {Post(r)}},
              Stored(s, old, Reserved(keys[s], h), posts[s] \cup published),
              Fails(r, "knowledge-load-failure")
       PROVE  Publication'
  <2>1. Becomes(s, old, Reserved(keys[s], h), posts[s] \cup published)
    BY <1>2, <1>20, StoredBecomes
  <2>2. PostsGood(Carried(old), Reserved(keys[s], h), posts[s])
    BY <1>2, <1>20, PostsStayGood DEF Reserved, answer
  <2>3. PostsGood(Carried(old), Reserved(keys[s], h), posts[s] \cup {Post(r)})
    BY <1>2, <1>8, <1>9, <1>20, PostsStayGood DEF Reserved, answer
  <2>4. PostsGood(Carried(old), Reserved(keys[s], h), posts[s] \cup published)
    <3>1. CASE published = {}
      <4>1. posts[s] \cup published = posts[s]
        BY <3>1
      <4>2. QED
        BY <2>2, <4>1
    <3>2. CASE published = {Post(r)}
      BY <2>3, <3>2
    <3>3. QED
      BY <1>20, <3>1, <3>2
  <2>5. Ends(r, "failed", "knowledge-load-failure")
    BY <1>20 DEF Fails
  <2>6. QED
    BY <1>1, <1>7, <2>1, <2>4, <2>5, PublishEnds
<1>21. QED
  BY <1>14, <1>15, <1>16, <1>17, <1>18, <1>19, <1>20 DEF Publish, PublishThrough, answer

\* A row that becomes available moves behind the ones that are.
LEMMA BecomeAvailableKeeps ==
  ASSUME Publication, NEW s \in Stores, BecomeAvailable(s)
  PROVE  Publication'
<1>1. PICK i \in DOMAIN outbox[s] :
        outbox[s][i].waits /\ Stored(s, Available(outbox[s], i), keys[s], posts[s])
  BY DEF BecomeAvailable
<1> DEFINE old == outbox[s]
           rows == Available(old, i)
<1>2. repository' = repository /\ run' = run
  BY DEF BecomeAvailable, knowledge
<1>3. /\ StoresOK /\ RunsOK /\ StoreGood(s) /\ old \in Seq(Rows) /\ Distinct(old)
  BY DEF Publication, StoresOK, StoreGood
<1>4. rows \in Seq(Rows) /\ Len(rows) = Len(old) /\ Distinct(rows) /\ Carried(rows) = Carried(old)
  BY <1>3, AvailableCarries
<1>5. Becomes(s, rows, keys[s], posts[s])
  BY <1>1, <1>3, StoredBecomes
<1>6. PICK from \in [1..Len(old) -> 1..Len(old)] :
        \A j \in 1..Len(old) : rows[j] \in {old[from[j]], [old[from[j]] EXCEPT !.waits = FALSE]}
  BY <1>3, AvailableMoves
<1>7. Len(old) = 1 =>
        /\ rows[1].handoff = old[1].handoff /\ rows[1].status = old[1].status /\ rows[1].by = old[1].by
        /\ old[1].waits
        /\ rows[1].waits \in {old[1].waits, FALSE}
  <2>1. ASSUME Len(old) = 1
        PROVE  /\ i = 1 /\ from[1] = 1 /\ old[1] \in Rows
               /\ rows[1] \in {old[1], [old[1] EXCEPT !.waits = FALSE]}
    <3>1. i = 1 /\ old[1] \in Rows
      BY <1>3, <2>1
    <3>2. from[1] = 1 /\ 1 \in 1..Len(old)
      BY <2>1
    <3>3. rows[1] \in {old[from[1]], [old[from[1]] EXCEPT !.waits = FALSE]}
      BY <1>6, <3>2
    <3>4. QED
      BY <3>1, <3>2, <3>3
  <2>2. ASSUME NEW row \in Rows
        PROVE  LET woken == [row EXCEPT !.waits = FALSE] IN
               /\ woken.handoff = row.handoff /\ woken.status = row.status
               /\ woken.by = row.by /\ woken.waits = FALSE
    BY DEF Rows
  <2>3. old[i].waits
    BY <1>1
  <2> HIDE DEF rows, old
  <2>4. ASSUME Len(old) = 1
        PROVE  /\ rows[1].handoff = old[1].handoff /\ rows[1].status = old[1].status
               /\ rows[1].by = old[1].by /\ rows[1].waits \in {old[1].waits, FALSE}
    BY <2>1, <2>2, <2>4
  <2>5. QED
    BY <2>1, <2>3, <2>4
<1> HIDE DEF rows
<1>8. \A x \in Stores : Carried(outbox'[x]) = Carried(outbox[x]) /\ Distinct(outbox'[x])
                        /\ keys'[x] = keys[x] /\ posts'[x] = posts[x] /\ outbox'[x] \in Seq(Rows)
  BY <1>4, <1>5 DEF Becomes, Publication, StoreGood, StoresOK
<1>9. sharing' = sharing /\ StoresOK' /\ RunsOK'
  BY <1>2, <1>3, <1>5, <1>8 DEF StoresOK, RunsOK, Becomes
<1>10. \A q \in Runs : Store(q)' = Store(q) /\ Store(q) \in Stores
  BY <1>9 DEF Store, Stores
<1>11. ASSUME NEW q \in Runs PROVE RunGood(q, run[q])' /\ RunStored(q, run[q])'
  <2>1. RunGood(q, run[q]) /\ RunStored(q, run[q])
    BY DEF Publication
  <2>2. RunGood(q, run[q])'
    BY <1>2, <2>1, SafeStays DEF RunGood, Made
  <2>3. RunStored(q, run[q])'
    BY <1>2, <1>8, <1>10, <2>1 DEF RunStored
  <2>4. QED
    BY <2>2, <2>3
<1>12. ASSUME NEW x \in Stores PROVE StoreGood(x)'
  <2>1. StoreGood(x)
    BY DEF Publication
  <2>2. QED
    BY <1>2, <1>8, <1>10, <2>1 DEF StoreGood
<1>13. ASSUME ~sharing, NEW q \in Runs PROVE Alone(q, run[q], outbox[q], keys[q], posts[q])'
  <2>1. Alone(q, run[q], outbox[q], keys[q], posts[q]) /\ q \in Stores
    BY <1>13 DEF Publication, Stores
  <2>2. run'[q] = run[q] /\ keys'[q] = keys[q] /\ posts'[q] = posts[q]
    BY <1>2, <1>8, <2>1
  <2>3. CASE q # s
    <3>1. outbox'[q] = outbox[q]
      BY <1>5, <2>1, <2>3 DEF Becomes
    <3>2. QED
      BY <2>1, <2>2, <3>1 DEF Alone, Stages, Succeeded
  <2>4. CASE q = s
    <3>1. outbox'[q] = rows
      BY <1>5, <2>4 DEF Becomes
    <3>2. old # << >>
      BY <1>1, <1>3
    <3>3. QED
      BY <1>4, <1>7, <2>1, <2>2, <2>4, <3>1, <3>2 DEF Alone, Stages, Succeeded
  <2>5. QED
    BY <2>3, <2>4
<1>14. QED
  BY <1>9, <1>11, <1>12, <1>13 DEF Publication

\* Initially nothing has been asked for and nothing is stored.
LEMMA PublicationInit ==
  ASSUME Init
  PROVE  Publication
<1>1. StoresOK
  BY DEF Init, StoresOK
<1>2. RunsOK
  BY NewRunIsRun DEF Init, RunsOK
<1>3. \A r \in Runs : run[r] = NewRun /\ outbox[r] = << >> /\ keys[r] = << >> /\ posts[r] = {}
  BY DEF Init, Stores
<1>4. NewRun.stage = "idle"
  BY DEF NewRun
<1>5. \A r \in Runs : RunGood(r, run[r])
  BY <1>3, <1>4, NewRunIsRun DEF RunGood, Succeeded
<1>6. \A r \in Runs : RunStored(r, run[r])
  BY <1>3, <1>4 DEF RunStored, Succeeded
<1>7. ASSUME NEW s \in Stores PROVE StoreGood(s)
  <2>1. outbox[s] = << >> /\ posts[s] = {}
    BY DEF Init
  <2>2. QED
    BY <2>1 DEF StoreGood, Distinct, Carried
<1>8. \A r \in Runs : Alone(r, run[r], outbox[r], keys[r], posts[r])
  BY <1>3, <1>4 DEF Alone, Succeeded
<1>9. QED
  BY <1>1, <1>2, <1>5, <1>6, <1>7, <1>8 DEF Publication

\* What is published has been earned.
LEMMA PublicationEarns ==
  ASSUME Publication
  PROVE  PostsAreEarned
<1> SUFFICES ASSUME NEW s \in Stores
             PROVE  /\ \A row \in ToSet(outbox[s]) :
                         \E r \in Runs : Store(r) = s /\ run[r].package = row.package /\ Earned(r)
                    /\ \A post \in posts[s] :
                         /\ post.handoff \in Handoffs(outbox[s])
                         /\ post.content = RowOf(outbox[s], post.handoff).package.content
                         /\ \A other \in posts[s] : other.handoff = post.handoff => other = post
  BY DEF PostsAreEarned
<1>1. StoreGood(s) /\ outbox[s] \in Seq(Rows) /\ Distinct(outbox[s])
  BY DEF Publication, StoresOK, StoreGood
<1>2. ASSUME NEW row \in ToSet(outbox[s])
      PROVE  \E r \in Runs : Store(r) = s /\ run[r].package = row.package /\ Earned(r)
  <2>1. PICK i \in DOMAIN outbox[s] : outbox[s][i] = row
    BY DEF ToSet
  <2>2. <<row.handoff, row.package>> \in Carried(outbox[s])
    BY <2>1 DEF Carried
  <2>3. PICK r \in Runs : Store(r) = s /\ run[r].package = row.package
    BY <1>1, <2>2 DEF StoreGood
  <2>4. run[r].package # NoPackage
    <3>1. row.package \in Packages
      BY <1>1, <2>2, CarriedIsPackage
    <3>2. QED
      BY <2>3, <3>1, NothingIsNoPackage
  <2>5. Made(r, run[r])
    BY <2>4 DEF Publication, RunGood
  <2>6. QED
    BY <2>3, <2>5 DEF Made, Safe, Earned
<1>3. ASSUME NEW post \in posts[s]
      PROVE  /\ post.handoff \in Handoffs(outbox[s])
             /\ post.content = RowOf(outbox[s], post.handoff).package.content
  <2>1. PICK c \in Carried(outbox[s]) : c[1] = post.handoff /\ c[2].content = post.content
    BY <1>1 DEF StoreGood
  <2>2. PICK i \in DOMAIN outbox[s] : c = <<outbox[s][i].handoff, outbox[s][i].package>>
    BY DEF Carried
  <2>3. outbox[s][i].handoff = post.handoff /\ outbox[s][i].package.content = post.content
    BY <2>1, <2>2
  <2>4. QED
    BY <1>1, <2>3, FoundRow
<1>4. QED
  BY <1>1, <1>2, <1>3 DEF StoreGood

\* What has succeeded is in the outbox.
LEMMA PublicationSucceeds ==
  ASSUME Publication
  PROVE  SuccessIsEnqueued
<1> SUFFICES ASSUME NEW r \in Runs, Succeeded(run[r])
             PROVE  LET s == Store(r)
                        row == RowOf(outbox[s], run[r].package.handoff)
                    IN /\ run[r].package.handoff \in Handoffs(outbox[s])
                       /\ Length(row.package.content) = Length(run[r].content)
                       /\ ~sharing /\ ~run[r].delivery.scheduled =>
                            row.status = "succeeded" /\ posts[s] = {Post(r)}
  BY DEF SuccessIsEnqueued, Succeeded
<1> DEFINE s == Store(r)
<1>1. s \in Stores /\ (~sharing => s = r)
  BY DEF Store, Stores
<1>2. outbox[s] \in Seq(Rows) /\ Distinct(outbox[s])
  BY <1>1 DEF Publication, StoresOK, StoreGood
<1>3. RunGood(r, run[r]) /\ RunStored(r, run[r])
      /\ (~sharing => Alone(r, run[r], outbox[r], keys[r], posts[r]))
  BY DEF Publication
<1>4. run[r].package.content = run[r].content
  BY <1>3 DEF RunGood, Made
<1>5. PICK c \in Carried(outbox[s]) : /\ c[1] = run[r].package.handoff
                                     /\ Length(c[2].content) = Length(run[r].package.content)
  BY <1>3 DEF RunStored
<1>6. PICK i \in DOMAIN outbox[s] : c = <<outbox[s][i].handoff, outbox[s][i].package>>
  BY DEF Carried
<1>7. outbox[s][i].handoff = run[r].package.handoff
  BY <1>5, <1>6
<1>8. /\ run[r].package.handoff \in Handoffs(outbox[s])
      /\ RowOf(outbox[s], run[r].package.handoff) = outbox[s][i]
  BY <1>2, <1>7, FoundRow
<1>9. ASSUME ~sharing, ~run[r].delivery.scheduled
      PROVE  outbox[s][i].status = "succeeded" /\ posts[s] = {Post(r)}
  <2>1. /\ Len(outbox[s]) = 1 /\ outbox[s][1].status = "succeeded"
        /\ posts[s] = {[by |-> r, handoff |-> run[r].claimed.handoff,
                        content |-> run[r].claimed.package.content]}
    BY <1>1, <1>3, <1>9 DEF Alone
  <2>2. i = 1
    BY <1>2, <2>1
  <2>3. QED
    BY <2>1, <2>2 DEF Post
<1>10. QED
  BY <1>4, <1>5, <1>6, <1>8, <1>9

-----------------------------------------------------------------------------
\* Numbers in order.

\* What holds of 0 and of the successor of every number it holds of holds of all numbers.
LEMMA Inductive ==
  ASSUME NEW S, 0 \in S, \A k \in Nat : k \in S => k + 1 \in S
  PROVE  Nat \subseteq S
<1>1. SUFFICES ASSUME Nat \ S # {} PROVE FALSE
  OBVIOUS
<1>2. PICK x \in Nat \ S : \A y \in Nat \ S : ~(<<y, x>> \in OpToRel(<, Nat))
  BY <1>1, NatLessThanWellFounded, WFMin
<1>3. x # 0 /\ x - 1 \in Nat /\ (x - 1) + 1 = x
  OBVIOUS
<1>4. x - 1 \notin S
  BY <1>3
<1>5. <<x - 1, x>> \in OpToRel(<, Nat)
  BY <1>3 DEF OpToRel
<1>6. QED
  BY <1>2, <1>3, <1>4, <1>5

\* A finite set of numbers has a greatest one.
LEMMA GreatestIn ==
  ASSUME NEW T \in SUBSET Nat, IsFiniteSet(T), T # {}
  PROVE  \E m \in T : \A x \in T : x <= m
<1> DEFINE Below(k) == \A U \in SUBSET Nat :
                          IsFiniteSet(U) /\ U # {} /\ Cardinality(U) = k
                            => \E m \in U : \A x \in U : x <= m
           Good == {k \in Nat : Below(k)}
<1> HIDE DEF Below
<1>1. 0 \in Good
  <2>1. Below(0)
    BY FS_EmptySet DEF Below
  <2>2. QED
    BY <2>1
<1>2. ASSUME NEW k \in Nat, k \in Good PROVE k + 1 \in Good
  <2>1. SUFFICES ASSUME NEW U \in SUBSET Nat, IsFiniteSet(U), Cardinality(U) = k + 1, U # {}
                 PROVE  \E m \in U : \A x \in U : x <= m
    BY DEF Below
  <2>2. PICK y \in U : TRUE
    BY <2>1
  <2>3. IsFiniteSet(U \ {y}) /\ Cardinality(U \ {y}) = k
    <3>1. IsFiniteSet(U \ {y}) /\ Cardinality(U \ {y}) = Cardinality(U) - 1
      BY <2>1, FS_RemoveElement, Zenon
    <3>2. (k + 1) - 1 = k
      OBVIOUS
    <3>3. QED
      BY <2>1, <3>1, <3>2
  <2>4. CASE U \ {y} = {}
    BY <2>4
  <2>5. CASE U \ {y} # {}
    <3>1. PICK m \in U \ {y} : \A x \in U \ {y} : x <= m
      BY <1>2, <2>3, <2>5 DEF Below
    <3>2. CASE y <= m
      BY <3>1, <3>2
    <3>3. CASE ~(y <= m)
      <4>1. \A x \in U : x <= y
        BY <3>1, <3>3
      <4>2. QED
        BY <4>1
    <3>4. QED
      BY <3>2, <3>3
  <2>6. QED
    BY <2>4, <2>5
<1>3. Cardinality(T) \in Good
  <2>1. 0 \in Good /\ \A k \in Nat : k \in Good => k + 1 \in Good
    BY <1>1, <1>2
  <2> HIDE DEF Good
  <2>2. QED
    BY <2>1, Inductive, FS_CardinalityType
<1>4. Below(Cardinality(T))
  BY <1>3
<1>5. QED
  BY <1>4 DEF Below

Ascending(list) == \A i, j \in DOMAIN list : i < j => list[i] < list[j]

\* The numbers of a finite set can be put in order.
LEMMA OrderExists ==
  ASSUME NEW T \in SUBSET Nat, IsFiniteSet(T)
  PROVE  \E list \in [1..Cardinality(T) -> T] : Ascending(list)
<1> DEFINE Ordered(k) == \A U \in SUBSET Nat :
                            IsFiniteSet(U) /\ Cardinality(U) = k
                              => \E list \in [1..k -> U] : Ascending(list)
           Good == {k \in Nat : Ordered(k)}
<1> HIDE DEF Ordered
<1>1. 0 \in Good
  <2>1. ASSUME NEW U \in SUBSET Nat PROVE \E list \in [1..0 -> U] : Ascending(list)
    <3> DEFINE list == [x \in 1..0 |-> 0]
    <3>1. list \in [1..0 -> U] /\ Ascending(list)
      BY DEF Ascending
    <3>2. QED
      BY <3>1
  <2>2. Ordered(0)
    BY <2>1 DEF Ordered
  <2>3. QED
    BY <2>2
<1>2. ASSUME NEW k \in Nat, k \in Good PROVE k + 1 \in Good
  <2>1. SUFFICES ASSUME NEW U \in SUBSET Nat, IsFiniteSet(U), Cardinality(U) = k + 1
                 PROVE  \E list \in [1..(k + 1) -> U] : Ascending(list)
    BY DEF Ordered
  <2>2. U # {}
    BY <2>1, FS_EmptySet
  <2>3. PICK m \in U : \A x \in U : x <= m
    BY <2>1, <2>2, GreatestIn
  <2>4. IsFiniteSet(U \ {m}) /\ Cardinality(U \ {m}) = k
    <3>1. IsFiniteSet(U \ {m}) /\ Cardinality(U \ {m}) = Cardinality(U) - 1
      BY <2>1, FS_RemoveElement, Zenon
    <3>2. (k + 1) - 1 = k
      OBVIOUS
    <3>3. QED
      BY <2>1, <3>1, <3>2
  <2>5. PICK before \in [1..k -> U \ {m}] : Ascending(before)
    BY <1>2, <2>4 DEF Ordered
  <2> DEFINE list == [i \in 1..(k + 1) |-> IF i = k + 1 THEN m ELSE before[i]]
  <2>6. list \in [1..(k + 1) -> U]
    BY <2>5
  <2>7. ASSUME NEW i \in 1..(k + 1), NEW j \in 1..(k + 1), i < j PROVE list[i] < list[j]
    <3>1. i \in 1..k /\ list[i] = before[i] /\ before[i] \in U \ {m}
      BY <2>5, <2>7
    <3>2. CASE j = k + 1
      <4>1. list[j] = m /\ before[i] <= m /\ before[i] # m
        BY <2>3, <3>1, <3>2
      <4>2. before[i] \in Nat /\ m \in Nat
        BY <3>1
      <4> HIDE DEF list
      <4>3. QED
        BY <3>1, <4>1, <4>2
    <3>3. CASE j # k + 1
      <4>1. j \in 1..k /\ list[j] = before[j]
        BY <3>3
      <4>2. before[i] < before[j]
        BY <2>5, <2>7, <3>1, <4>1 DEF Ascending
      <4> HIDE DEF list
      <4>3. QED
        BY <3>1, <4>1, <4>2
    <3>4. QED
      BY <3>2, <3>3
  <2>8. DOMAIN list = 1..(k + 1)
    OBVIOUS
  <2> HIDE DEF list
  <2>9. QED
    BY <2>6, <2>7, <2>8 DEF Ascending
<1>3. Cardinality(T) \in Good
  <2>1. 0 \in Good /\ \A k \in Nat : k \in Good => k + 1 \in Good
    BY <1>1, <1>2
  <2> HIDE DEF Good
  <2>2. QED
    BY <2>1, Inductive, FS_CardinalityType
<1>4. Ordered(Cardinality(T))
  BY <1>3
<1>5. QED
  BY <1>4 DEF Ordered

\* Numbers in order are those numbers.
LEMMA InOrderLists ==
  ASSUME NEW T \in SUBSET Nat, IsFiniteSet(T)
  PROVE  /\ InOrder(T) \in Seq(T)
         /\ DOMAIN InOrder(T) = 1..Cardinality(T)
         /\ ToSet(InOrder(T)) = T
<1> DEFINE n == Cardinality(T)
           list == InOrder(T)
<1>1. n \in Nat /\ IsFiniteSet(1..n) /\ Cardinality(1..n) = n
  <2>1. n \in Nat
    BY FS_CardinalityType
  <2> HIDE DEF n
  <2>2. QED
    BY <2>1, FS_Interval
<1>2. list \in [1..n -> T] /\ Ascending(list)
  BY OrderExists DEF InOrder, Ascending
<1> HIDE DEF list, n
<1>3. IsInjective(list)
  <2>1. SUFFICES ASSUME NEW i \in 1..n, NEW j \in 1..n, list[i] = list[j], i < j PROVE FALSE
    BY <1>1, <1>2 DEF IsInjective
  <2>2. list[i] < list[j] /\ list[i] \in Nat
    BY <1>2, <2>1 DEF Ascending
  <2>3. QED
    BY <2>1, <2>2
<1>4. list \in Injection(1..n, T)
  BY <1>2, <1>3 DEF Injection
<1>5. list \in Surjection(1..n, T)
  BY <1>1, <1>4, FS_Injection DEF n
<1>6. ToSet(list) = T
  BY <1>2, <1>5 DEF Surjection, ToSet
<1>7. list \in Seq(T)
  BY <1>1, <1>2
<1>8. QED
  BY <1>2, <1>6, <1>7 DEF list, n

-----------------------------------------------------------------------------
\* The walk.

Refs == [type : EntityTypes, id : Nat]

Names == {relationship.name : relationship \in Manifest}

Items == [ref : Refs, depth : Nat]

Walks ==
  [at : Items, todo : Seq(Names), expanded : SUBSET Refs, nodes : SUBSET Refs,
   queue : Seq(Items), edges : SUBSET (Refs \X Names \X Refs), missing : SUBSET Refs,
   truncated : BOOLEAN]

\* The greatest of the first numbers.
LEMMA MaxIs ==
  ASSUME NEW s \in SUBSET Nat, NEW m \in s, \A y \in s : m >= y
  PROVE  Max(s) = m
<1>1. \A x \in s : (\A y \in s : x >= y) => x = m
  OBVIOUS
<1>2. Max(s) \in s /\ \A y \in s : Max(s) >= y
  BY Zenon DEF Max
<1>3. QED
  BY <1>1, <1>2

\* What is left to do without its first relation.
Less(walk) == [walk EXCEPT !.todo = Tail(walk.todo)]

\* Walks of which each has reached one more of the targets, from the first to the last.
IsChain(n, w, ids, walk, types, relationship) ==
  /\ ids \in [1..n -> Targets(types, walk.at.ref, relationship)]
  /\ ToSet(ids) = Targets(types, walk.at.ref, relationship)
  /\ w[0] = Less(walk)
  /\ \A k \in 1..n : w[k] = Reach(w[k - 1], types, relationship, ids[k])
  /\ w[n] = Follow(walk, types)

\* Following a relation is reaching its targets one after the other.
LEMMA FollowIsChain ==
  ASSUME NEW walk, NEW types, NEW relationship, relationship = Named(Head(walk.todo)),
         Targets(types, walk.at.ref, relationship) \in SUBSET Nat,
         IsFiniteSet(Targets(types, walk.at.ref, relationship))
  PROVE  \E n \in Nat : \E w, ids : IsChain(n, w, ids, walk, types, relationship)
<1> DEFINE T == Targets(types, walk.at.ref, relationship)
           ids == InOrder(T)
           n == Cardinality(T)
           base == Less(walk)
           iter[s \in SUBSET DOMAIN ids] ==
             IF s = {} THEN base
             ELSE Reach(iter[s \ {Max(s)}], types, relationship, ids[Max(s)])
<1>1. Follow(walk, types) = iter[DOMAIN ids]
  BY DEF Follow, FoldLeft, MapThenFoldSet, Less
<1>2. ids \in [1..n -> T] /\ DOMAIN ids = 1..n /\ ToSet(ids) = T /\ n \in Nat
  <2>1. ids \in Seq(T) /\ DOMAIN ids = 1..n /\ ToSet(ids) = T
    BY InOrderLists
  <2>2. n \in Nat
    BY FS_CardinalityType
  <2> HIDE DEF ids, n
  <2>3. QED
    BY <2>1, <2>2
<1> HIDE DEF T, ids, n, base
<1> DEFINE Then(g, s) == IF s = {} THEN base
                         ELSE Reach(g[s \ {Max(s)}], types, relationship, ids[Max(s)])
           Found(k) == \E g : g = [s \in SUBSET (1..k) |-> Then(g, s)]
           Have == {k \in Nat : Found(k)}
<1> HIDE DEF Found
<1>3. 0 \in Have
  <2> DEFINE g == [s \in SUBSET (1..0) |-> base]
  <2>1. SUBSET (1..0) = {{}}
    OBVIOUS
  <2>2. g = [s \in SUBSET (1..0) |-> Then(g, s)]
    BY <2>1
  <2> HIDE DEF g
  <2>3. Found(0)
    BY <2>2 DEF Found
  <2>4. QED
    BY <2>3
<1>4. ASSUME NEW k \in Nat, k \in Have PROVE k + 1 \in Have
  <2>1. Found(k)
    BY <1>4
  <2>2. PICK g : g = [s \in SUBSET (1..k) |-> Then(g, s)]
    BY <2>1 DEF Found
  <2> DEFINE h == [s \in SUBSET (1..(k + 1)) |->
                     IF k + 1 \in s
                     THEN Reach(g[s \ {k + 1}], types, relationship, ids[k + 1]) ELSE g[s]]
  <2>3. ASSUME NEW s \in SUBSET (1..(k + 1)) PROVE h[s] = Then(h, s)
    <3>1. CASE k + 1 \in s
      <4>1. Max(s) = k + 1
        BY <3>1, MaxIs
      <4>2. s \ {k + 1} \in SUBSET (1..(k + 1)) /\ k + 1 \notin s \ {k + 1}
        OBVIOUS
      <4>3. /\ h[s \ {k + 1}] = g[s \ {k + 1}]
            /\ h[s] = Reach(g[s \ {k + 1}], types, relationship, ids[k + 1])
        BY <3>1, <4>2
      <4> HIDE DEF h
      <4>4. QED
        BY <3>1, <4>1, <4>3
    <3>2. CASE k + 1 \notin s
      <4>1. s \in SUBSET (1..k)
        BY <3>2
      <4>2. s \ {Max(s)} \in SUBSET (1..(k + 1))
        OBVIOUS
      <4>3. h[s] = g[s] /\ h[s \ {Max(s)}] = g[s \ {Max(s)}]
        BY <3>2, <4>1, <4>2
      <4>4. g[s] = Then(g, s)
        BY <2>2, <4>1
      <4> HIDE DEF h
      <4>5. QED
        BY <4>3, <4>4
    <3>3. QED
      BY <3>1, <3>2
  <2>4. h = [s \in SUBSET (1..(k + 1)) |-> Then(h, s)]
    <3> HIDE DEF Then
    <3>1. QED
      BY <2>3
  <2> HIDE DEF h
  <2>5. Found(k + 1)
    BY <2>4 DEF Found
  <2>6. QED
    BY <2>5
<1>5. n \in Have
  <2>1. 0 \in Have /\ \A k \in Nat : k \in Have => k + 1 \in Have
    BY <1>3, <1>4
  <2> HIDE DEF Have
  <2>2. QED
    BY <1>2, <2>1, Inductive
<1>6. PICK g : g = [s \in SUBSET (1..n) |-> Then(g, s)]
  BY <1>5 DEF Found
<1>7. iter = [s \in SUBSET (1..n) |->
                IF s = {} THEN base
                ELSE Reach(iter[s \ {Max(s)}], types, relationship, ids[Max(s)])]
  BY <1>2, <1>6, Zenon
<1> HIDE DEF iter
<1> DEFINE w == [k \in 0..n |-> iter[1..k]]
<1>8. w[0] = base
  <2>1. 1..0 = {} /\ {} \in SUBSET (1..n) /\ 0 \in 0..n
    BY <1>2
  <2>2. iter[{}] = base
    BY <1>7, <2>1
  <2>3. QED
    BY <2>1, <2>2
<1>9. ASSUME NEW k \in 1..n
      PROVE  w[k] = Reach(w[k - 1], types, relationship, ids[k])
  <2>1. /\ 1..k \in SUBSET (1..n) /\ 1..k # {} /\ (1..k) \ {k} = 1..(k - 1)
        /\ k \in 0..n /\ k - 1 \in 0..n
    <3>1. k \in Nat /\ k # 0 /\ k <= n
      BY <1>2
    <3>2. 1..k \in SUBSET (1..n) /\ k \in 0..n /\ k - 1 \in 0..n /\ k \in 1..k
      BY <1>2, <3>1
    <3>3. (1..k) \ {k} = 1..(k - 1)
      BY <3>1
    <3>4. QED
      BY <3>2, <3>3
  <2>2. Max(1..k) = k
    <3>1. k \in 1..k /\ (\A y \in 1..k : k >= y) /\ 1..k \in SUBSET Nat
      BY <1>2
    <3>2. QED
      BY <3>1, MaxIs
  <2>3. iter[1..k] = Reach(iter[(1..k) \ {k}], types, relationship, ids[k])
    BY <1>7, <2>1, <2>2
  <2>4. QED
    BY <2>1, <2>3
<1>10. w[n] = Follow(walk, types)
  <2>1. n \in 0..n
    BY <1>2
  <2>2. QED
    BY <1>1, <1>2, <2>1
<1> HIDE DEF w
<1>11. IsChain(n, w, ids, walk, types, relationship)
  BY <1>2, <1>8, <1>9, <1>10 DEF IsChain, base, T
<1>12. QED
  BY <1>2, <1>11

\* The three ways a target changes a walk.
Misses(w, to) == [w EXCEPT !.missing = w.missing \cup {to}]

Stops(w, edge) == [w EXCEPT !.edges = w.edges \cup {edge}, !.truncated = TRUE]

Enters(w, edge, to, queue) ==
  [w EXCEPT !.edges = w.edges \cup {edge}, !.nodes = w.nodes \cup {to}, !.queue = queue]

\* A reference to nothing is noted and changes nothing else.
LEMMA MissesWalk ==
  ASSUME NEW w \in Walks, NEW to \in Refs
  PROVE  LET after == Misses(w, to) IN
         /\ after \in Walks /\ after.at = w.at /\ after.todo = w.todo /\ after.expanded = w.expanded
         /\ after.nodes = w.nodes /\ after.queue = w.queue /\ after.truncated = w.truncated
         /\ after.missing = w.missing \cup {to}
<1>1. w.missing \cup {to} \in SUBSET Refs
  BY DEF Walks
<1>2. QED
  BY <1>1 DEF Walks, Misses

\* A walk at its limit stops with an edge.
LEMMA StopsWalk ==
  ASSUME NEW w \in Walks, NEW edge \in Refs \X Names \X Refs
  PROVE  LET after == Stops(w, edge) IN
         /\ after \in Walks /\ after.at = w.at /\ after.todo = w.todo /\ after.expanded = w.expanded
         /\ after.nodes = w.nodes /\ after.queue = w.queue /\ after.truncated
         /\ after.missing = w.missing
<1>1. w.edges \cup {edge} \in SUBSET (Refs \X Names \X Refs)
  BY DEF Walks
<1>2. QED
  BY <1>1 DEF Walks, Stops

\* A reference that is found is entered and stands in the line.
LEMMA EntersWalk ==
  ASSUME NEW w \in Walks, NEW edge \in Refs \X Names \X Refs, NEW to \in Refs,
         NEW queue \in Seq(Items)
  PROVE  LET after == Enters(w, edge, to, queue) IN
         /\ after \in Walks /\ after.at = w.at /\ after.todo = w.todo /\ after.expanded = w.expanded
         /\ after.nodes = w.nodes \cup {to} /\ after.queue = queue /\ after.truncated = w.truncated
         /\ after.missing = w.missing
<1>1. w.edges \cup {edge} \in SUBSET (Refs \X Names \X Refs) /\ w.nodes \cup {to} \in SUBSET Refs
  BY DEF Walks
<1>2. QED
  BY <1>1 DEF Walks, Enters

-----------------------------------------------------------------------------

SameFrame(base, w) ==
  w \in Walks /\ w.at = base.at /\ w.todo = base.todo /\ w.expanded = base.expanded

NodesGrow(base, w, types, new) ==
  /\ base.nodes \subseteq w.nodes
  /\ \A n \in w.nodes \ base.nodes :
       /\ n \in new
       /\ Lookup(types, n) # {}
       /\ \E i \in DOMAIN w.queue : w.queue[i].ref = n /\ w.queue[i].depth = base.at.depth + 1

MissingGrow(base, w, types, new) ==
  /\ base.missing \subseteq w.missing
  /\ \A m \in w.missing \ base.missing : m \in new /\ Lookup(types, m) = {}

QueueGrow(base, w, types, new) ==
  /\ Len(base.queue) <= Len(w.queue)
  /\ \A i \in DOMAIN base.queue : w.queue[i] = base.queue[i]
  /\ \A i \in DOMAIN w.queue \ DOMAIN base.queue :
       /\ w.queue[i].depth = base.at.depth + 1
       /\ w.queue[i].ref \in w.nodes \cap new
       /\ Lookup(types, w.queue[i].ref) # {}

AllMet(base, w, new) == ~w.truncated => ~base.truncated /\ new \subseteq w.nodes \cup w.missing

\* What a walk has become of another by reaching these references.
Grown(base, w, types, new) ==
  /\ SameFrame(base, w)
  /\ NodesGrow(base, w, types, new)
  /\ MissingGrow(base, w, types, new)
  /\ QueueGrow(base, w, types, new)
  /\ AllMet(base, w, new)

\* A queue with one more item.
LEMMA LongerQueue ==
  ASSUME NEW queue \in Seq(Items), NEW item \in Items
  PROVE  /\ Append(queue, item) \in Seq(Items)
         /\ DOMAIN queue = 1..Len(queue) /\ Len(queue) \in Nat
         /\ DOMAIN Append(queue, item) = 1..(Len(queue) + 1)
         /\ Len(Append(queue, item)) = Len(queue) + 1
         /\ \A i \in DOMAIN queue : Append(queue, item)[i] = queue[i]
         /\ Append(queue, item)[Len(queue) + 1] = item
  OBVIOUS

\* Reaching one more target.
LEMMA ReachGrows ==
  ASSUME NEW base \in Walks, base.expanded \subseteq base.nodes, NEW w, NEW types,
         NEW relationship \in Manifest, relationship.target \in EntityTypes, NEW id \in Nat,
         NEW new, Grown(base, w, types, new)
  PROVE  Grown(base, Reach(w, types, relationship, id), types, new \cup {Ref(relationship.target, id)})
<1> DEFINE to == Ref(relationship.target, id)
           edge == <<w.at.ref, relationship.name, to>>
           after == Reach(w, types, relationship, id)
           item == [ref |-> to, depth |-> w.at.depth + 1]
           more == new \cup {to}
<1>1. /\ w \in Walks /\ w.at \in Items /\ w.queue \in Seq(Items) /\ w.at = base.at
      /\ w.expanded = base.expanded /\ w.todo = base.todo
  BY DEF Grown, SameFrame, Walks
<1>2. to \in Refs /\ relationship.name \in Names /\ w.at.depth \in Nat /\ w.at.ref \in Refs
  BY <1>1 DEF Refs, Ref, Items, Names
<1>3. edge \in Refs \X Names \X Refs
  BY <1>2
<1>4. item \in Items /\ item.ref = to /\ item.depth = base.at.depth + 1
  <2>1. w.at.depth + 1 \in Nat
    BY <1>2
  <2>2. QED
    BY <1>1, <1>2, <2>1 DEF Items
<1>5. /\ NodesGrow(base, w, types, new) /\ MissingGrow(base, w, types, new)
      /\ QueueGrow(base, w, types, new) /\ AllMet(base, w, new)
  BY DEF Grown
<1>6. CASE w.truncated
  <2>1. after = w
    BY <1>6 DEF Reach
  <2> HIDE DEF after, to
  <2>2. NodesGrow(base, w, types, more)
    BY <1>5 DEF NodesGrow
  <2>3. MissingGrow(base, w, types, more)
    BY <1>5 DEF MissingGrow
  <2>4. QueueGrow(base, w, types, more)
    BY <1>5 DEF QueueGrow
  <2>5. QED
    BY <1>1, <1>6, <2>1, <2>2, <2>3, <2>4 DEF Grown, SameFrame, AllMet, after, to
<1>7. CASE ~w.truncated /\ Lookup(types, to) = {}
  <2>1. after = Misses(w, to)
    BY <1>7 DEF Reach, Misses
  <2>2. /\ after \in Walks /\ after.at = w.at /\ after.todo = w.todo /\ after.expanded = w.expanded
        /\ after.nodes = w.nodes /\ after.queue = w.queue /\ after.truncated = w.truncated
        /\ after.missing = w.missing \cup {to}
    BY <1>1, <1>2, <2>1, MissesWalk
  <2> HIDE DEF after, to
  <2>3. SameFrame(base, after)
    BY <1>1, <2>2 DEF SameFrame
  <2>4. NodesGrow(base, after, types, more)
    BY <1>5, <2>2 DEF NodesGrow
  <2>5. MissingGrow(base, after, types, more)
    BY <1>5, <1>7, <2>2 DEF MissingGrow
  <2>6. QueueGrow(base, after, types, more)
    BY <1>5, <2>2 DEF QueueGrow
  <2>7. AllMet(base, after, more)
    BY <1>5, <2>2 DEF AllMet
  <2>8. QED
    BY <2>3, <2>4, <2>5, <2>6, <2>7 DEF Grown, after, to
<1>8. CASE ~w.truncated /\ Lookup(types, to) # {} /\ (Cardinality(w.nodes) >= NodeLimit /\ to \notin w.nodes)
  <2>1. after = Stops(w, edge)
    BY <1>8 DEF Reach, Stops
  <2>2. /\ after \in Walks /\ after.at = w.at /\ after.todo = w.todo /\ after.expanded = w.expanded
        /\ after.nodes = w.nodes /\ after.queue = w.queue /\ after.truncated
        /\ after.missing = w.missing
    BY <1>1, <1>3, <2>1, StopsWalk
  <2> HIDE DEF after, to
  <2>3. SameFrame(base, after)
    BY <1>1, <2>2 DEF SameFrame
  <2>4. NodesGrow(base, after, types, more)
    BY <1>5, <2>2 DEF NodesGrow
  <2>5. MissingGrow(base, after, types, more)
    BY <1>5, <2>2 DEF MissingGrow
  <2>6. QueueGrow(base, after, types, more)
    BY <1>5, <2>2 DEF QueueGrow
  <2>7. AllMet(base, after, more)
    BY <1>5, <2>2 DEF AllMet
  <2>8. QED
    BY <2>3, <2>4, <2>5, <2>6, <2>7 DEF Grown, after, to
<1>9. CASE ~w.truncated /\ Lookup(types, to) # {} /\ ~(Cardinality(w.nodes) >= NodeLimit /\ to \notin w.nodes)
  <2> DEFINE queue == IF to \in w.expanded THEN w.queue ELSE Append(w.queue, item)
             q == w.queue
             p == Append(q, item)
  <2>1. after = Enters(w, edge, to, queue)
    BY <1>9 DEF Reach, Enters
  <2>2. queue \in Seq(Items)
    BY <1>1, <1>4, LongerQueue
  <2>3. (queue = q /\ to \in base.nodes) \/ queue = p
    BY <1>1
  <2> HIDE DEF queue, item, edge, to, after
  <2>4. /\ after \in Walks /\ after.at = w.at /\ after.todo = w.todo /\ after.expanded = w.expanded
        /\ after.nodes = w.nodes \cup {to} /\ after.queue = queue /\ after.truncated = w.truncated
        /\ after.missing = w.missing
    <3>1. w \in Walks /\ edge \in Refs \X Names \X Refs /\ to \in Refs /\ queue \in Seq(Items)
      BY <1>1, <1>2, <1>3, <2>2
    <3>2. LET then == Enters(w, edge, to, queue) IN
          /\ then \in Walks /\ then.at = w.at /\ then.todo = w.todo /\ then.expanded = w.expanded
          /\ then.nodes = w.nodes \cup {to} /\ then.queue = queue /\ then.truncated = w.truncated
          /\ then.missing = w.missing
      BY <3>1, EntersWalk
    <3>3. QED
      BY <2>1, <3>2
  <2>5. SameFrame(base, after)
    BY <1>1, <2>4 DEF SameFrame
  <2>6. MissingGrow(base, after, types, more)
    BY <1>5, <2>4 DEF MissingGrow
  <2>7. AllMet(base, after, more)
    BY <1>5, <2>4 DEF AllMet
  <2>8. CASE queue = q /\ to \in base.nodes
    <3>1. NodesGrow(base, after, types, more)
      BY <1>5, <2>4, <2>8 DEF NodesGrow
    <3>2. QueueGrow(base, after, types, more)
      BY <1>5, <2>4, <2>8 DEF QueueGrow
    <3>3. QED
      BY <2>5, <2>6, <2>7, <3>1, <3>2 DEF Grown, after, to
  <2>9. CASE queue = p
    <3>1. /\ DOMAIN q = 1..Len(q) /\ Len(q) \in Nat /\ DOMAIN p = 1..(Len(q) + 1) /\ Len(p) = Len(q) + 1
          /\ \A i \in DOMAIN q : p[i] = q[i]
          /\ p[Len(q) + 1] = item
      BY <1>1, <1>4, LongerQueue
    <3>2. after.queue = p
      BY <2>4, <2>9
    <3> HIDE DEF p
    <3>3. base.queue \in Seq(Items) /\ DOMAIN base.queue = 1..Len(base.queue) /\ Len(base.queue) \in Nat
      BY DEF Walks
    <3>4. NodesGrow(base, after, types, more)
      <4>1. ASSUME NEW n \in after.nodes \ base.nodes
            PROVE  /\ n \in more /\ Lookup(types, n) # {}
                   /\ \E i \in DOMAIN p : p[i].ref = n /\ p[i].depth = base.at.depth + 1
        <5>1. CASE n = to
          <6>1. Len(q) + 1 \in DOMAIN p
            BY <3>1
          <6>2. QED
            BY <1>4, <1>9, <3>1, <5>1, <6>1
        <5>2. CASE n # to
          <6>1. n \in w.nodes \ base.nodes
            BY <2>4, <5>2
          <6>2. PICK i \in DOMAIN q : q[i].ref = n /\ q[i].depth = base.at.depth + 1
            BY <1>5, <6>1 DEF NodesGrow
          <6>3. i \in DOMAIN p /\ p[i] = q[i]
            BY <3>1
          <6>4. n \in new /\ Lookup(types, n) # {}
            BY <1>5, <6>1 DEF NodesGrow
          <6>5. QED
            BY <6>2, <6>3, <6>4
        <5>3. QED
          BY <5>1, <5>2
      <4>2. base.nodes \subseteq after.nodes
        BY <1>5, <2>4 DEF NodesGrow
      <4>3. QED
        BY <3>2, <4>1, <4>2 DEF NodesGrow
    <3>5. QueueGrow(base, after, types, more)
      <4>1. ASSUME NEW i \in DOMAIN p \ DOMAIN base.queue
            PROVE  /\ p[i].depth = base.at.depth + 1 /\ p[i].ref \in after.nodes \cap more
                   /\ Lookup(types, p[i].ref) # {}
        <5>1. CASE i = Len(q) + 1
          BY <1>4, <1>9, <2>4, <3>1, <5>1
        <5>2. CASE i # Len(q) + 1
          <6>1. i \in DOMAIN q /\ p[i] = q[i]
            BY <3>1, <5>2
          <6>2. q[i].depth = base.at.depth + 1 /\ q[i].ref \in w.nodes \cap new /\ Lookup(types, q[i].ref) # {}
            BY <1>5, <6>1 DEF QueueGrow
          <6>3. QED
            BY <2>4, <6>1, <6>2
        <5>3. QED
          BY <5>1, <5>2
      <4>2. Len(base.queue) <= Len(q) /\ \A i \in DOMAIN base.queue : q[i] = base.queue[i]
        BY <1>5 DEF QueueGrow
      <4>3. \A i \in DOMAIN base.queue : i \in DOMAIN q
        BY <3>1, <3>3, <4>2
      <4>4. Len(base.queue) <= Len(p) /\ \A i \in DOMAIN base.queue : p[i] = base.queue[i]
        BY <3>1, <3>3, <4>2, <4>3
      <4>5. QED
        BY <3>2, <4>1, <4>4 DEF QueueGrow
    <3>6. QED
      BY <2>5, <2>6, <2>7, <3>4, <3>5 DEF Grown, after, to
  <2>10. QED
    BY <2>3, <2>8, <2>9
<1>10. QED
  BY <1>6, <1>7, <1>8, <1>9

\* The relations of the repository: between its types, by their names.
LEMMA ManifestOK ==
  \A relationship \in Manifest :
    /\ relationship.source \in EntityTypes /\ relationship.target \in EntityTypes
    /\ relationship.name \in Names
    /\ relationship.name = <<relationship.name[1], relationship.name[2]>>
    /\ relationship.name[1] = relationship.source
  BY DEF Manifest, Relationship, EntityTypes, Names

\* A name of the manifest names one of its relations.
LEMMA NamedIs ==
  ASSUME NEW name \in Names
  PROVE  Named(name) \in Manifest /\ Named(name).name = name
  BY DEF Named, Names

\* Foreign keys are followed backwards to products only.
LEMMA InversesAreProducts ==
  ASSUME NEW relationship \in Manifest, InversesOf(relationship) # {}
  PROVE  relationship.target = "product"
<1>1. \A inverse \in Manifest : IsForeignKey(inverse) => inverse.source = "product"
  BY DEF Manifest, Relationship, IsForeignKey, FieldName
<1>2. QED
  BY <1>1 DEF InversesOf

\* The recipes follow relations of the manifest, in the order of their lists.
LEMMA RecipesFollow ==
  ASSUME NEW name \in DOMAIN ContextRecipes
  PROVE  ContextRecipes[name].follow \in Seq(Names)
<1>1. \A source, relation, target, field :
        Relationship(source, relation, target, field).name = <<source, relation>>
  BY DEF Relationship
<1>2. {<<"brand", "products">>, <<"product", "brand">>, <<"product", "ingredients">>,
       <<"product", "product-category">>, <<"product", "healing-stages">>,
       <<"problem", "symptoms">>, <<"problem", "related-products">>,
       <<"problem", "related-ingredients">>, <<"piercing-type", "common-problems">>,
       <<"piercing-type", "healing-stages">>, <<"keyword-cluster", "related-products">>,
       <<"keyword-cluster", "related-brands">>} \subseteq Names
  BY <1>1 DEF Names, Manifest
<1>3. /\ \A a, b \in Names : <<a, b>> \in Seq(Names)
      /\ \A a, b, c \in Names : <<a, b, c>> \in Seq(Names)
      /\ \A a, b, c, d \in Names : <<a, b, c, d>> \in Seq(Names)
  OBVIOUS
<1>4. /\ ContextRecipes["brandProfile"].follow =
           <<<<"brand", "products">>, <<"product", "product-category">>>>
      /\ ContextRecipes["productReview"].follow =
           <<<<"product", "brand">>, <<"product", "ingredients">>, <<"product", "healing-stages">>,
            <<"product", "product-category">>>>
      /\ ContextRecipes["productComparison"].follow =
           <<<<"product", "brand">>, <<"product", "ingredients">>, <<"product", "product-category">>>>
      /\ ContextRecipes["problemGuide"].follow =
           <<<<"problem", "symptoms">>, <<"problem", "related-products">>,
            <<"problem", "related-ingredients">>>>
      /\ ContextRecipes["aftercareGuide"].follow =
           <<<<"piercing-type", "healing-stages">>, <<"piercing-type", "common-problems">>>>
      /\ ContextRecipes["buyingGuide"].follow =
           <<<<"keyword-cluster", "related-products">>, <<"keyword-cluster", "related-brands">>,
            <<"product", "ingredients">>, <<"product", "product-category">>>>
  BY DEF ContextRecipes, Recipe
<1>5. \A recipe \in {"brandProfile", "productReview", "productComparison", "problemGuide",
                    "aftercareGuide", "buyingGuide"} : ContextRecipes[recipe].follow \in Seq(Names)
  <2>1. /\ ContextRecipes["brandProfile"].follow \in Seq(Names)
        /\ ContextRecipes["aftercareGuide"].follow \in Seq(Names)
    BY <1>2, <1>4, <1>3
  <2>2. /\ ContextRecipes["productComparison"].follow \in Seq(Names)
        /\ ContextRecipes["problemGuide"].follow \in Seq(Names)
    BY <1>2, <1>4, <1>3
  <2>3. ContextRecipes["productReview"].follow \in Seq(Names)
    BY <1>2, <1>4, <1>3
  <2>4. ContextRecipes["buyingGuide"].follow \in Seq(Names)
    BY <1>2, <1>4, <1>3
  <2>5. QED
    BY <2>1, <2>2, <2>3, <2>4
<1>6. name \in {"brandProfile", "productReview", "productComparison", "problemGuide",
               "aftercareGuide", "buyingGuide"}
  BY DEF ContextRecipes
<1>7. QED
  BY <1>5, <1>6

\* What a recipe follows from a type are names of relations.
LEMMA FollowingNames ==
  ASSUME NEW recipe, recipe.follow \in Seq(Names), NEW type
  PROVE  Following(recipe, type) \in Seq(Names)
<1> DEFINE at == {i \in DOMAIN recipe.follow : recipe.follow[i][1] = type}
           places == InOrder(at)
           n == Cardinality(at)
<1>1. at \in SUBSET (1..Len(recipe.follow)) /\ Len(recipe.follow) \in Nat
  OBVIOUS
<1>2. IsFiniteSet(at) /\ at \in SUBSET Nat
  <2>1. IsFiniteSet(1..Len(recipe.follow))
    BY <1>1, FS_Interval
  <2> HIDE DEF at
  <2>2. IsFiniteSet(at)
    BY <1>1, <2>1, FS_Subset
  <2>3. QED
    BY <1>1, <2>2
<1> HIDE DEF at
<1>3. places \in Seq(at) /\ DOMAIN places = 1..n /\ n \in Nat
  BY <1>2, InOrderLists, FS_CardinalityType
<1> HIDE DEF places, n
<1>4. \A i \in 1..n : places[i] \in at
  BY <1>3
<1>5. \A i \in 1..n : recipe.follow[places[i]] \in Names
  BY <1>4 DEF at
<1>6. Following(recipe, type) = [i \in 1..n |-> recipe.follow[places[i]]]
  BY <1>3 DEF Following, places, at
<1>7. QED
  BY <1>3, <1>5, <1>6

-----------------------------------------------------------------------------
\* What the repository holds.

\* A record of a collection is a file with its slug filled in.
LEMMA CollectionOK ==
  ASSUME repository \in Repositories, NEW type \in EntityTypes
  PROVE  /\ IsFiniteSet(Collection(type))
         /\ \A e \in Collection(type) :
              /\ e.id \in Nat /\ "marks" \in DOMAIN e
              /\ \A field : Links(e, field) \in SUBSET Nat /\ IsFiniteSet(Links(e, field))
              /\ e.marks \subseteq {"path", "url"}
<1> DEFINE S == repository[type]
           Filled(file) == IF file.slug = 0 THEN [file EXCEPT !.slug = file.id] ELSE file
           f == [file \in S |-> Filled(file)]
<1>1. IsFiniteSet(S) /\ \A file \in S : IsFile(file)
  BY RepositoriesHoldFiles
<1>2. Collection(type) = {Filled(file) : file \in S}
  BY DEF Collection
<1>3. f \in Surjection(S, Collection(type))
  BY <1>2 DEF Surjection
<1>4. IsFiniteSet(Collection(type))
  BY <1>1, <1>3, FS_Surjection
<1>5. ASSUME NEW file \in S
      PROVE  /\ Filled(file).id = file.id /\ Filled(file).links = file.links
             /\ Filled(file).marks = file.marks /\ "marks" \in DOMAIN Filled(file)
  <2>1. DOMAIN file = {"file", "id", "slug", "named", "links", "fault", "marks", "fields"}
    BY <1>1 DEF IsFile
  <2>2. QED
    BY <2>1
<1> HIDE DEF Filled, S
<1>6. ASSUME NEW e \in Collection(type)
      PROVE  /\ e.id \in Nat /\ "marks" \in DOMAIN e
             /\ \A field : Links(e, field) \in SUBSET Nat /\ IsFiniteSet(Links(e, field))
             /\ e.marks \subseteq {"path", "url"}
  <2>1. PICK file \in S : e = Filled(file)
    BY <1>2
  <2>2. IsFile(file) /\ e.id = file.id /\ e.links = file.links /\ e.marks = file.marks
       /\ "marks" \in DOMAIN e
    BY <1>1, <1>5, <2>1
  <2>3. ASSUME NEW field PROVE Links(e, field) \in SUBSET Nat /\ IsFiniteSet(Links(e, field))
    <3>1. CASE field \in DOMAIN e.links
      BY <2>2, <3>1 DEF IsFile, Links
    <3>2. CASE field \notin DOMAIN e.links
      BY <3>2, FS_EmptySet DEF Links
    <3>3. QED
      BY <3>1, <3>2
  <2>4. e.id \in Nat /\ "marks" \in DOMAIN e /\ e.marks \subseteq {"path", "url"}
    BY <2>2 DEF IsFile
  <2>5. QED
    BY <2>3, <2>4
<1>7. QED
  BY <1>4, <1>6

\* A reference has finitely many targets over each relation.
LEMMA TargetsOK ==
  ASSUME repository \in Repositories, NEW types \in SUBSET EntityTypes,
         NEW ref \in Refs, NEW relationship \in Manifest
  PROVE  /\ Targets(types, ref, relationship) \in SUBSET Nat
         /\ IsFiniteSet(Targets(types, ref, relationship))
<1> DEFINE L == Lookup(types, ref)
           f == [e \in L |-> Links(e, relationship.field)]
           image == {Links(e, relationship.field) : e \in L}
           C == Collection(relationship.target)
           B == {e \in C : \E inverse \in InversesOf(relationship) : ref.id \in Links(e, inverse.field)}
           g == [e \in B |-> e.id]
           ids == {e.id : e \in B}
<1>1. relationship.target \in EntityTypes /\ ref.type \in EntityTypes
  BY ManifestOK DEF Refs
<1>2. L \in SUBSET Collection(ref.type)
  BY DEF Lookup
<1>3. /\ IsFiniteSet(Collection(ref.type)) /\ IsFiniteSet(C)
      /\ \A e \in Collection(ref.type) : \A field :
           Links(e, field) \in SUBSET Nat /\ IsFiniteSet(Links(e, field))
      /\ \A e \in C : e.id \in Nat
  BY <1>1, CollectionOK
<1>4. IsFiniteSet(L)
  BY <1>2, <1>3, FS_Subset
<1> HIDE DEF L, C
<1>5. f \in Surjection(L, image)
  BY DEF Surjection
<1>6. IsFiniteSet(image)
  BY <1>4, <1>5, FS_Surjection
<1>7. \A T \in image : IsFiniteSet(T) /\ T \in SUBSET Nat
  BY <1>2, <1>3
<1> HIDE DEF image, f
<1>8. IsFiniteSet(UNION image) /\ UNION image \in SUBSET Nat
  BY <1>6, <1>7, FS_UNION
<1>9. B \in SUBSET C
  OBVIOUS
<1>10. IsFiniteSet(B) /\ \A e \in B : e.id \in Nat
  BY <1>3, <1>9, FS_Subset
<1> HIDE DEF B
<1>11. g \in Surjection(B, ids)
  BY DEF Surjection
<1>12. IsFiniteSet(ids) /\ ids \in SUBSET Nat
  BY <1>10, <1>11, FS_Surjection
<1> HIDE DEF ids, g
<1>13. IsFiniteSet({})
  BY FS_EmptySet
<1> DEFINE back == IF relationship.target \notin types THEN {} ELSE ids
<1>14. IsFiniteSet(back) /\ back \in SUBSET Nat
  BY <1>12, <1>13
<1> DEFINE forward == UNION image
<1>15. Targets(types, ref, relationship) = forward \cup back
  <2>1. ForwardTargets(types, ref, relationship) = forward
    BY DEF ForwardTargets, image, L
  <2>2. ids = {e.id : e \in {e \in Collection(relationship.target) :
                 \E inverse \in InversesOf(relationship) : ref.id \in Links(e, inverse.field)}}
    BY DEF ids, B, C
  <2>3. QED
    BY <2>1, <2>2, Zenon DEF Targets
<1> HIDE DEF back, forward
<1>16. IsFiniteSet(forward \cup back)
  BY <1>8, <1>14, FS_Union DEF forward
<1>17. forward \cup back \in SUBSET Nat
  BY <1>8, <1>14 DEF forward
<1>18. QED
  BY <1>15, <1>16, <1>17

\* An index that covers a reference's type and the types loaded first finds all its targets.
LEMMA TargetsCovered ==
  ASSUME NEW types \in SUBSET EntityTypes, EagerTypes \subseteq types, NEW ref, ref.type \in types,
         NEW relationship \in Manifest
  PROVE  Targets(types, ref, relationship) = Targets(EntityTypes, ref, relationship)
<1>1. Lookup(types, ref) = Lookup(EntityTypes, ref)
  BY DEF Lookup
<1>2. CASE relationship.target \in types
  BY <1>1, <1>2, ManifestOK DEF Targets, ForwardTargets
<1>3. CASE relationship.target \notin types
  <2>1. relationship.target # "product"
    BY <1>3 DEF EagerTypes
  <2>2. InversesOf(relationship) = {}
    BY <2>1, InversesAreProducts
  <2>3. QED
    BY <1>1, <1>3, <2>2, ManifestOK DEF Targets, ForwardTargets
<1>4. QED
  BY <1>2, <1>3

\* What the references of one name, or of some, lead to.
Leads(ref, name) == {Ref(Named(name).target, id) : id \in Targets(EntityTypes, ref, Named(name))}

OneStep(ref, names) == UNION {Leads(ref, name) : name \in names}

Follows(recipe, ref) == OneStep(ref, ToSet(Following(recipe, ref.type)))

\* What the service holds and what its index covers.
KnowledgeOK ==
  /\ repository \in Repositories
  /\ DOMAIN held = EntityTypes /\ \A type \in EntityTypes : held[type] \in Nat
  /\ EagerTypes \subseteq covered /\ covered \subseteq EntityTypes
  /\ \A type \in covered : held[type] > 0
  /\ Indexable(held) => \A type \in EntityTypes : held[type] > 0 => type \in covered

\* What stands in the line, and in which order.
QueueOK(walk, recipe, root) ==
  /\ \A i \in DOMAIN walk.queue :
       /\ walk.queue[i].ref \in walk.nodes
       /\ walk.queue[i].depth \in {1, 2}
       /\ walk.queue[i].depth = 1 => walk.queue[i].ref \in Near(recipe, root)
  /\ \A i, j \in DOMAIN walk.queue : i < j => walk.queue[i].depth <= walk.queue[j].depth

\* What is being expanded.
AtOK(walk, recipe, root) ==
  walk.todo # << >> =>
    /\ walk.at.ref \in walk.expanded \cap Near(recipe, root)
    /\ ToSet(walk.todo) \subseteq ToSet(Following(recipe, walk.at.ref.type))
    /\ \/ /\ walk.at.depth = 0 /\ walk.at.ref = root
          /\ \A i \in DOMAIN walk.queue : walk.queue[i].depth = 1
       \/ walk.at.depth = 1 /\ walk.at.ref # root

\* What has been expanded has been followed, but for what is left to do; and what is near
\* the root has been expanded or stands in the line before its last depth.
Complete(walk, recipe, root) ==
  /\ \A e \in walk.expanded \cap Near(recipe, root) :
       Follows(recipe, e) \subseteq
         walk.nodes \cup walk.missing \cup (IF e = walk.at.ref THEN OneStep(e, ToSet(walk.todo)) ELSE {})
  /\ \A n \in walk.nodes \cap Near(recipe, root) :
       n \in walk.expanded \/ \E i \in DOMAIN walk.queue : walk.queue[i].ref = n /\ walk.queue[i].depth = 1

\* A walk that knows no more than the repository holds.
WalkBase(walk, recipe, root) ==
  /\ walk \in Walks
  /\ root \in walk.nodes
  /\ \A n \in walk.nodes : Lookup(covered, n) # {}
  /\ walk.nodes \subseteq Reached(recipe, root)
  /\ walk.expanded \subseteq walk.nodes
  /\ walk.missing \subseteq Step(recipe, Near(recipe, root))
  /\ Indexable(held) => \A m \in walk.missing : Lookup(EntityTypes, m) = {}

Clean(walk) == walk.missing = {} \/ Indexable(held)

WalkOK(walk, recipe, root) ==
  /\ WalkBase(walk, recipe, root)
  /\ ~walk.truncated
  /\ \/ walk = StartWalk(root)
     \/ /\ root \in walk.expanded
        /\ QueueOK(walk, recipe, root)
        /\ AtOK(walk, recipe, root)
        /\ Clean(walk) => Complete(walk, recipe, root)

Asked(request) ==
  request \in Requests /\ Refusal(request) = "none" /\ request.root.type \in EntityTypes

\* How far a run that has no plan yet is with it.
Preparation(x) ==
  /\ x.loading # "none" => x.loading \in EntityTypes
  /\ x.stage \in {"root", "walk"} => Asked(x.request)
  /\ x.stage = "walk" =>
       /\ WalkOK(x.walk, ContextRecipes[x.request.recipe], x.request.root)
       /\ ~WalkIsOver(x.walk)

\* What is reached in one step, and in the steps of a walk.
LEMMA StepIs ==
  ASSUME NEW recipe, NEW refs
  PROVE  /\ \A x \in Step(recipe, refs) : \E ref \in refs : x \in Follows(recipe, ref)
         /\ \A ref \in refs : Follows(recipe, ref) \subseteq Step(recipe, refs)
  BY DEF Step, Follows, OneStep, Leads

\* An index knows nothing the repository does not hold.
LEMMA LookupMore ==
  ASSUME NEW types \in SUBSET EntityTypes, NEW ref, Lookup(types, ref) # {}
  PROVE  ref.type \in types /\ Lookup(types, ref) = Lookup(EntityTypes, ref)
  BY DEF Lookup

-----------------------------------------------------------------------------
\* Visits.

Visited(walk, item, todo) ==
  [walk EXCEPT !.queue = Tail(walk.queue), !.expanded = walk.expanded \cup {item.ref}, !.at = item,
               !.todo = todo]

\* What a visit changes.
LEMMA VisitedWalk ==
  ASSUME NEW walk \in Walks, NEW item \in Items, NEW todo \in Seq(Names), walk.queue # << >>
  PROVE  LET after == Visited(walk, item, todo) IN
         /\ after \in Walks /\ after.at = item /\ after.todo = todo
         /\ after.expanded = walk.expanded \cup {item.ref}
         /\ after.nodes = walk.nodes /\ after.queue = Tail(walk.queue)
         /\ after.truncated = walk.truncated /\ after.missing = walk.missing
<1>1. /\ walk.expanded \cup {item.ref} \in SUBSET Refs /\ Tail(walk.queue) \in Seq(Items)
  BY DEF Walks, Items
<1>2. QED
  BY <1>1 DEF Walks, Visited

\* The rest of a line.
LEMMA ShorterQueue ==
  ASSUME NEW queue \in Seq(Items), queue # << >>
  PROVE  /\ 1 \in DOMAIN queue /\ Head(queue) = queue[1] /\ queue[1] \in Items
         /\ \A i \in DOMAIN Tail(queue) :
              /\ i \in Nat /\ i + 1 \in DOMAIN queue /\ Tail(queue)[i] = queue[i + 1]
         /\ \A i \in DOMAIN queue : i # 1 => i - 1 \in DOMAIN Tail(queue) /\ Tail(queue)[i - 1] = queue[i]
<1>1. Len(queue) \in Nat /\ Len(queue) # 0 /\ DOMAIN queue = 1..Len(queue)
  OBVIOUS
<1>2. DOMAIN Tail(queue) = 1..(Len(queue) - 1) /\ \A i \in 1..(Len(queue) - 1) : Tail(queue)[i] = queue[i + 1]
  BY <1>1
<1>3. \A i \in 1..(Len(queue) - 1) : i \in Nat /\ i + 1 \in DOMAIN queue
  BY <1>1
<1>4. \A i \in DOMAIN queue : i # 1 => i - 1 \in 1..(Len(queue) - 1) /\ (i - 1) + 1 = i
  BY <1>1
<1>5. 1 \in DOMAIN queue /\ Head(queue) = queue[1] /\ queue[1] \in Items
  BY <1>1
<1>6. QED
  BY <1>2, <1>3, <1>4, <1>5

\* The next reference of the line.
LEMMA VisitOK ==
  ASSUME NEW walk, NEW recipe, recipe.follow \in Seq(Names), NEW root, WalkOK(walk, recipe, root),
         walk.todo = << >>, walk.queue # << >>
  PROVE  WalkOK(Visit(walk, recipe), recipe, root)
<1> DEFINE q == walk.queue
           item == Head(q)
           leads == item.ref \notin walk.expanded /\ item.depth < MaxDepth
           todo == IF leads THEN Following(recipe, item.ref.type) ELSE << >>
           after == Visit(walk, recipe)
<1>1. walk \in Walks /\ q \in Seq(Items)
  BY DEF WalkOK, WalkBase, Walks
<1>2. item \in Items /\ item = q[1] /\ 1 \in DOMAIN q
  BY <1>1, ShorterQueue
<1>3. todo \in Seq(Names)
  <2>1. Following(recipe, item.ref.type) \in Seq(Names)
    BY FollowingNames
  <2>2. QED
    BY <2>1
<1>4. after = Visited(walk, item, todo)
  BY DEF Visit, Visited
<1> HIDE DEF item, todo, after
<1>5. /\ after \in Walks /\ after.at = item /\ after.todo = todo
      /\ after.expanded = walk.expanded \cup {item.ref}
      /\ after.nodes = walk.nodes /\ after.queue = Tail(q)
      /\ after.truncated = walk.truncated /\ after.missing = walk.missing
  <2>1. LET then == Visited(walk, item, todo) IN
        /\ then \in Walks /\ then.at = item /\ then.todo = todo
        /\ then.expanded = walk.expanded \cup {item.ref}
        /\ then.nodes = walk.nodes /\ then.queue = Tail(q)
        /\ then.truncated = walk.truncated /\ then.missing = walk.missing
    BY <1>1, <1>2, <1>3, VisitedWalk
  <2>2. QED
    BY <1>4, <2>1
<1>6. WalkBase(walk, recipe, root) /\ ~walk.truncated
  BY DEF WalkOK
<1>7. root \in Near(recipe, root)
  BY DEF Near
<1>8. item.ref \in walk.nodes
  <2>1. CASE walk = StartWalk(root)
    BY <1>2, <2>1 DEF StartWalk
  <2>2. CASE QueueOK(walk, recipe, root)
    BY <1>2, <2>2 DEF QueueOK
  <2>3. QED
    BY <2>1, <2>2 DEF WalkOK
<1>9. WalkBase(after, recipe, root) /\ ~after.truncated
  BY <1>5, <1>6, <1>8 DEF WalkBase
<1>10. Clean(after) <=> Clean(walk)
  BY <1>5 DEF Clean
<1>11. leads => OneStep(item.ref, ToSet(todo)) = Follows(recipe, item.ref)
  BY DEF Follows, todo
<1>12. leads => todo = Following(recipe, item.ref.type)
  BY DEF todo
<1>13. ~leads => todo = << >>
  BY DEF todo
<1>14. CASE walk = StartWalk(root)
  <2>1. /\ q = <<[ref |-> root, depth |-> 0]>> /\ walk.expanded = {} /\ walk.nodes = {root}
        /\ walk.missing = {}
    BY <1>14 DEF StartWalk
  <2>2. item.ref = root /\ item.depth = 0 /\ leads /\ Tail(q) = << >>
    BY <1>2, <2>1 DEF MaxDepth
  <2>3. root \in after.expanded /\ QueueOK(after, recipe, root)
    BY <1>5, <2>2 DEF QueueOK
  <2>4. AtOK(after, recipe, root)
    BY <1>5, <1>7, <1>12, <2>2 DEF AtOK
  <2>5. Complete(after, recipe, root)
    BY <1>5, <1>11, <2>1, <2>2 DEF Complete
  <2>6. QED
    BY <1>9, <2>3, <2>4, <2>5 DEF WalkOK, after
<1>15. CASE walk # StartWalk(root)
  <2>1. /\ root \in walk.expanded /\ QueueOK(walk, recipe, root)
        /\ (Clean(walk) => Complete(walk, recipe, root))
    BY <1>15 DEF WalkOK
  <2>2. item.depth \in {1, 2} /\ (item.depth = 1 => item.ref \in Near(recipe, root))
    BY <1>2, <2>1 DEF QueueOK
  <2>3. leads <=> item.ref \notin walk.expanded /\ item.depth = 1
    BY <2>2 DEF MaxDepth
  <2> HIDE DEF leads
  <2>4. QueueOK(after, recipe, root)
    <3>1. \A i \in DOMAIN Tail(q) :
            /\ Tail(q)[i].ref \in walk.nodes /\ Tail(q)[i].depth \in {1, 2}
            /\ Tail(q)[i].depth = 1 => Tail(q)[i].ref \in Near(recipe, root)
      BY <1>1, <2>1, ShorterQueue DEF QueueOK
    <3>2. ASSUME NEW i \in DOMAIN Tail(q), NEW j \in DOMAIN Tail(q), i < j
          PROVE  Tail(q)[i].depth <= Tail(q)[j].depth
      <4>1. /\ i \in Nat /\ j \in Nat /\ i + 1 \in DOMAIN q /\ j + 1 \in DOMAIN q
            /\ Tail(q)[i] = q[i + 1] /\ Tail(q)[j] = q[j + 1]
        BY <1>1, ShorterQueue
      <4>2. i + 1 < j + 1
        BY <3>2, <4>1
      <4>3. q[i + 1].depth <= q[j + 1].depth
        BY <2>1, <4>1, <4>2 DEF QueueOK
      <4>4. QED
        BY <4>1, <4>3
    <3>3. QED
      BY <1>5, <3>1, <3>2 DEF QueueOK
  <2>5. AtOK(after, recipe, root)
    BY <1>5, <1>12, <1>13, <2>1, <2>2, <2>3 DEF AtOK
  <2>6. ASSUME Clean(walk) PROVE Complete(after, recipe, root)
    <3>1. Complete(walk, recipe, root)
      BY <2>1, <2>6
    <3>2. ASSUME NEW e \in after.expanded \cap Near(recipe, root)
          PROVE  Follows(recipe, e) \subseteq
                   after.nodes \cup after.missing \cup
                   (IF e = after.at.ref THEN OneStep(e, ToSet(after.todo)) ELSE {})
      <4>1. CASE e \in walk.expanded
        <5>1. OneStep(e, ToSet(walk.todo)) = {}
          BY DEF OneStep, ToSet
        <5>2. Follows(recipe, e) \subseteq walk.nodes \cup walk.missing
          BY <3>1, <3>2, <4>1, <5>1 DEF Complete
        <5>3. QED
          BY <1>5, <5>2
      <4>2. CASE e \notin walk.expanded
        <5>1. e = item.ref /\ e \in walk.nodes \cap Near(recipe, root)
          BY <1>5, <1>8, <3>2, <4>2
        <5>2. PICK i \in DOMAIN q : q[i].ref = e /\ q[i].depth = 1
          BY <3>1, <4>2, <5>1 DEF Complete
        <5>3. q[1].depth <= q[i].depth
          <6>1. i \in Nat /\ 1 <= i
            BY <1>1
          <6>2. CASE i = 1
            BY <1>2, <2>2, <6>2
          <6>3. CASE 1 < i
            BY <1>2, <2>1, <6>3 DEF QueueOK
          <6>4. QED
            BY <6>1, <6>2, <6>3
        <5>4. leads
          BY <1>2, <2>2, <2>3, <4>2, <5>1, <5>2, <5>3
        <5>5. QED
          BY <1>5, <1>11, <5>1, <5>4
      <4>3. QED
        BY <4>1, <4>2
    <3>3. ASSUME NEW n \in after.nodes \cap Near(recipe, root), n \notin after.expanded
          PROVE  \E i \in DOMAIN after.queue : after.queue[i].ref = n /\ after.queue[i].depth = 1
      <4>1. n \in walk.nodes /\ n \notin walk.expanded /\ n # item.ref
        BY <1>5, <3>3
      <4>2. PICK i \in DOMAIN q : q[i].ref = n /\ q[i].depth = 1
        BY <3>1, <3>3, <4>1 DEF Complete
      <4>3. i # 1
        BY <1>2, <4>1, <4>2
      <4>4. i - 1 \in DOMAIN Tail(q) /\ Tail(q)[i - 1] = q[i]
        BY <1>1, <4>3, ShorterQueue
      <4>5. QED
        BY <1>5, <4>2, <4>4
    <3>4. QED
      BY <3>2, <3>3 DEF Complete
  <2>7. root \in after.expanded
    BY <1>5, <2>1
  <2>8. QED
    BY <1>9, <1>10, <2>4, <2>5, <2>6, <2>7 DEF WalkOK, after
<1>16. QED
  BY <1>14, <1>15 DEF after

-----------------------------------------------------------------------------
\* Relations.

\* What is changed by taking the first relation.
LEMMA LessWalk ==
  ASSUME NEW walk \in Walks, walk.todo # << >>
  PROVE  LET base == Less(walk) IN
         /\ base \in Walks /\ base.at = walk.at /\ base.todo = Tail(walk.todo)
         /\ base.expanded = walk.expanded /\ base.nodes = walk.nodes /\ base.queue = walk.queue
         /\ base.truncated = walk.truncated /\ base.missing = walk.missing
<1>1. Tail(walk.todo) \in Seq(Names)
  BY DEF Walks
<1>2. QED
  BY <1>1 DEF Walks, Less

\* A walk has grown from itself by reaching nothing.
LEMMA GrownFromItself ==
  ASSUME NEW base \in Walks, NEW types
  PROVE  Grown(base, base, types, {})
<1>1. base.queue \in Seq(Items) /\ Len(base.queue) <= Len(base.queue)
  BY DEF Walks
<1>2. QED
  BY <1>1 DEF Grown, SameFrame, NodesGrow, MissingGrow, QueueGrow, AllMet

\* What a walk has become by following the first of its relations.
LEMMA FollowGrows ==
  ASSUME repository \in Repositories, NEW walk \in Walks, walk.expanded \subseteq walk.nodes,
         walk.todo # << >>, NEW types \in SUBSET EntityTypes,
         NEW relationship \in Manifest, relationship = Named(Head(walk.todo))
  PROVE  Grown(Less(walk), Follow(walk, types), types,
               {Ref(relationship.target, id) : id \in Targets(types, walk.at.ref, relationship)})
<1> DEFINE T == Targets(types, walk.at.ref, relationship)
           base == Less(walk)
           target == relationship.target
<1>1. T \in SUBSET Nat /\ IsFiniteSet(T) /\ target \in EntityTypes
  <2>1. walk.at.ref \in Refs
    BY DEF Walks, Items
  <2>2. QED
    BY <2>1, TargetsOK, ManifestOK
<1>2. PICK n \in Nat : \E w, ids : IsChain(n, w, ids, walk, types, relationship)
  <2>1. T \in SUBSET Nat /\ IsFiniteSet(T)
    BY <1>1
  <2>2. QED
    BY <2>1, FollowIsChain
<1>3. PICK w, ids : IsChain(n, w, ids, walk, types, relationship)
  BY <1>2
<1>4. /\ ids \in [1..n -> T] /\ ToSet(ids) = T
      /\ w[0] = base
      /\ \A k \in 1..n : w[k] = Reach(w[k - 1], types, relationship, ids[k])
      /\ w[n] = Follow(walk, types)
  BY <1>3 DEF IsChain
<1>5. base \in Walks /\ base.expanded \subseteq base.nodes
  <2>1. LET b == Less(walk) IN b \in Walks /\ b.expanded = walk.expanded /\ b.nodes = walk.nodes
    BY LessWalk
  <2>2. QED
    BY <2>1
<1> HIDE DEF base, T
<1> DEFINE First(k) == {Ref(target, ids[j]) : j \in 1..k}
           Holds(k) == Grown(base, w[k], types, First(k))
           Good == {k \in Nat : k <= n => Holds(k)}
<1>6. 0 \in Good
  <2>1. First(0) = {}
    OBVIOUS
  <2> HIDE DEF First
  <2>2. Grown(base, base, types, {})
    BY <1>5, GrownFromItself
  <2>3. QED
    BY <1>4, <2>1, <2>2
<1>7. ASSUME NEW k \in Nat, k \in Good PROVE k + 1 \in Good
  <2>1. SUFFICES ASSUME k + 1 <= n PROVE Holds(k + 1)
    OBVIOUS
  <2>2. /\ k + 1 \in 1..n /\ (k + 1) - 1 = k /\ Holds(k) /\ 1..(k + 1) = (1..k) \cup {k + 1}
    BY <1>7, <2>1
  <2>3. w[k + 1] = Reach(w[k], types, relationship, ids[k + 1]) /\ ids[k + 1] \in Nat
    BY <1>1, <1>4, <2>2
  <2>4. First(k + 1) = First(k) \cup {Ref(target, ids[k + 1])}
    BY <2>2
  <2> HIDE DEF First
  <2>5. Grown(base, Reach(w[k], types, relationship, ids[k + 1]), types,
              First(k) \cup {Ref(target, ids[k + 1])})
    BY <1>1, <1>5, <2>2, <2>3, ReachGrows
  <2>6. QED
    BY <2>3, <2>4, <2>5
<1>8. n \in Good
  <2>1. 0 \in Good /\ \A k \in Nat : k \in Good => k + 1 \in Good
    BY <1>6, <1>7
  <2> HIDE DEF Good
  <2>2. QED
    BY <2>1, Inductive
<1>9. First(n) = {Ref(target, id) : id \in T}
  <2>1. \A id \in T : \E j \in 1..n : ids[j] = id
    BY <1>4 DEF ToSet
  <2>2. \A j \in 1..n : ids[j] \in T
    BY <1>4
  <2>3. QED
    BY <2>1, <2>2
<1>10. Holds(n)
  BY <1>8
<1> HIDE DEF First
<1>11. QED
  BY <1>4, <1>9, <1>10 DEF base, T

\* A list is its first element and the rest.
LEMMA HeadAndTail ==
  ASSUME NEW list \in Seq(Names), list # << >>
  PROVE  /\ Tail(list) \in Seq(Names)
         /\ Head(list) \in ToSet(list) /\ Head(list) \in Names
         /\ ToSet(list) = {Head(list)} \cup ToSet(Tail(list))
<1>1. Len(list) \in Nat /\ Len(list) # 0 /\ DOMAIN list = 1..Len(list) /\ Head(list) = list[1]
  OBVIOUS
<1>2. DOMAIN Tail(list) = 1..(Len(list) - 1) /\ \A i \in 1..(Len(list) - 1) : Tail(list)[i] = list[i + 1]
  BY <1>1
<1>3. 1 \in DOMAIN list /\ \A i \in 1..(Len(list) - 1) : i + 1 \in DOMAIN list
  BY <1>1
<1>4. \A i \in DOMAIN list : i # 1 => i - 1 \in 1..(Len(list) - 1) /\ (i - 1) + 1 = i
  BY <1>1
<1>5. ASSUME NEW x \in ToSet(list), x # Head(list) PROVE x \in ToSet(Tail(list))
  <2>1. PICK i \in DOMAIN list : list[i] = x
    BY DEF ToSet
  <2>2. i # 1
    BY <1>1, <1>5, <2>1
  <2>3. i - 1 \in DOMAIN Tail(list) /\ Tail(list)[i - 1] = x
    BY <1>2, <1>4, <2>1, <2>2
  <2>4. QED
    BY <2>3 DEF ToSet
<1>6. ToSet(Tail(list)) \subseteq ToSet(list)
  BY <1>2, <1>3 DEF ToSet
<1>7. Head(list) \in ToSet(list) /\ Head(list) \in Names /\ Tail(list) \in Seq(Names)
  BY <1>1, <1>3 DEF ToSet
<1>8. QED
  BY <1>5, <1>6, <1>7

\* Following more relations leads to more.
LEMMA OneStepSplits ==
  ASSUME NEW ref, NEW names, NEW name, NEW rest, names = {name} \cup rest
  PROVE  OneStep(ref, names) = Leads(ref, name) \cup OneStep(ref, rest)
  BY DEF OneStep

\* What exists of what is near.
LEMMA ExistingIsReached ==
  ASSUME NEW recipe, NEW root, NEW ref, Lookup(EntityTypes, ref) # {}
  PROVE  /\ ref \in Step(recipe, Near(recipe, root)) => ref \in Reached(recipe, root)
         /\ ref \in Step(recipe, {root}) => ref \in Near(recipe, root)
  BY DEF Existing, Reached, Near

\* The first of the relations left, as far as it leads.
LEMMA FollowOK ==
  ASSUME KnowledgeOK, NEW walk, NEW recipe, recipe.follow \in Seq(Names), NEW root,
         WalkOK(walk, recipe, root), walk.todo # << >>, held[Named(Head(walk.todo)).target] > 0
  PROVE  /\ WalkBase(Follow(walk, covered), recipe, root)
         /\ ~Follow(walk, covered).truncated => WalkOK(Follow(walk, covered), recipe, root)
<1> DEFINE name == Head(walk.todo)
           relationship == Named(name)
           e == walk.at.ref
           base == Less(walk)
           after == Follow(walk, covered)
           new == {Ref(relationship.target, id) : id \in Targets(covered, e, relationship)}
<1>1. /\ repository \in Repositories /\ EagerTypes \subseteq covered /\ covered \in SUBSET EntityTypes
      /\ Indexable(held) => \A type \in EntityTypes : held[type] > 0 => type \in covered
  BY DEF KnowledgeOK
<1>2. WalkBase(walk, recipe, root) /\ walk \in Walks /\ walk.todo \in Seq(Names) /\ ~walk.truncated
  BY DEF WalkOK, WalkBase, Walks
<1>3. /\ Tail(walk.todo) \in Seq(Names) /\ name \in ToSet(walk.todo) /\ name \in Names
      /\ ToSet(walk.todo) = {name} \cup ToSet(Tail(walk.todo))
  BY <1>2, HeadAndTail
<1>4. relationship \in Manifest /\ relationship.target \in EntityTypes
  <2>1. relationship \in Manifest
    BY <1>3, NamedIs
  <2>2. QED
    BY <2>1, ManifestOK
<1>5. /\ base \in Walks /\ base.at = walk.at /\ base.todo = Tail(walk.todo)
      /\ base.expanded = walk.expanded /\ base.nodes = walk.nodes /\ base.queue = walk.queue
      /\ base.truncated = walk.truncated /\ base.missing = walk.missing
  <2>1. LET b == Less(walk) IN
        /\ b \in Walks /\ b.at = walk.at /\ b.todo = Tail(walk.todo)
        /\ b.expanded = walk.expanded /\ b.nodes = walk.nodes /\ b.queue = walk.queue
        /\ b.truncated = walk.truncated /\ b.missing = walk.missing
    BY <1>2, LessWalk
  <2>2. QED
    BY <2>1
<1>6. Grown(base, after, covered, new)
  <2>1. walk.expanded \subseteq walk.nodes
    BY <1>2 DEF WalkBase
  <2>2. QED
    BY <1>1, <1>2, <1>4, <2>1, FollowGrows
<1>7. walk # StartWalk(root)
  BY DEF StartWalk
<1>8. /\ root \in walk.expanded /\ QueueOK(walk, recipe, root) /\ AtOK(walk, recipe, root)
      /\ (Clean(walk) => Complete(walk, recipe, root))
  BY <1>7 DEF WalkOK
<1>9. /\ e \in walk.expanded \cap Near(recipe, root)
      /\ ToSet(walk.todo) \subseteq ToSet(Following(recipe, e.type))
      /\ \/ /\ walk.at.depth = 0 /\ e = root
            /\ \A i \in DOMAIN walk.queue : walk.queue[i].depth = 1
         \/ walk.at.depth = 1 /\ e # root
  BY <1>8 DEF AtOK
<1>10. e.type \in covered
  <2>1. e \in walk.nodes
    BY <1>2, <1>9 DEF WalkBase
  <2>2. Lookup(covered, e) # {}
    BY <1>2, <2>1 DEF WalkBase
  <2>3. QED
    BY <1>1, <2>2, LookupMore
<1>11. new = Leads(e, name)
  <2>1. Targets(covered, e, relationship) = Targets(EntityTypes, e, relationship)
    BY <1>1, <1>4, <1>10, TargetsCovered
  <2>2. QED
    BY <2>1 DEF Leads
<1> HIDE DEF new, after, base, relationship, name, e
<1>12. new \subseteq Follows(recipe, e)
  BY <1>3, <1>9, <1>11 DEF Follows, OneStep
<1>13. /\ new \subseteq Step(recipe, Near(recipe, root))
       /\ e = root => new \subseteq Step(recipe, {root})
  BY <1>9, <1>12, StepIs
<1>14. \A x : Lookup(covered, x) # {} => Lookup(EntityTypes, x) # {}
  BY <1>1, LookupMore
<1>15. /\ SameFrame(base, after) /\ NodesGrow(base, after, covered, new)
       /\ MissingGrow(base, after, covered, new) /\ QueueGrow(base, after, covered, new)
       /\ AllMet(base, after, new)
  BY <1>6 DEF Grown
<1>16. /\ after \in Walks /\ after.at = walk.at /\ after.todo = Tail(walk.todo)
       /\ after.expanded = walk.expanded
  BY <1>5, <1>15 DEF SameFrame
<1>17. WalkBase(after, recipe, root)
  <2>1. walk.nodes \subseteq after.nodes
    BY <1>5, <1>15 DEF NodesGrow
  <2>2. ASSUME NEW n \in after.nodes \ walk.nodes
        PROVE  Lookup(covered, n) # {} /\ n \in Reached(recipe, root)
    <3>1. n \in new /\ Lookup(covered, n) # {}
      BY <1>5, <1>15 DEF NodesGrow
    <3>2. QED
      BY <1>13, <1>14, <3>1, ExistingIsReached
  <2>3. ASSUME NEW m \in after.missing \ walk.missing
        PROVE  /\ m \in Step(recipe, Near(recipe, root))
               /\ Indexable(held) => Lookup(EntityTypes, m) = {}
    <3>1. m \in new /\ Lookup(covered, m) = {}
      BY <1>5, <1>15 DEF MissingGrow
    <3>2. m.type = relationship.target
      BY <3>1 DEF new, Ref
    <3>3. Indexable(held) => relationship.target \in covered
      BY <1>1, <1>4 DEF relationship, name
    <3>4. Indexable(held) => Lookup(EntityTypes, m) = {}
      BY <1>4, <3>1, <3>2, <3>3 DEF Lookup
    <3>5. QED
      BY <1>13, <3>1, <3>4
  <2>4. /\ root \in after.nodes /\ after.expanded \subseteq after.nodes
    BY <1>2, <1>16, <2>1 DEF WalkBase
  <2>5. \A n \in after.nodes : Lookup(covered, n) # {} /\ n \in Reached(recipe, root)
    BY <1>2, <2>2 DEF WalkBase
  <2>6. \A m \in after.missing : /\ m \in Step(recipe, Near(recipe, root))
                                 /\ Indexable(held) => Lookup(EntityTypes, m) = {}
    BY <1>2, <2>3 DEF WalkBase
  <2>7. QED
    BY <1>16, <2>4, <2>5, <2>6 DEF WalkBase
<1> DEFINE q == walk.queue
           p == after.queue
<1>18. /\ q \in Seq(Items) /\ p \in Seq(Items) /\ DOMAIN q = 1..Len(q) /\ DOMAIN p = 1..Len(p)
       /\ Len(q) \in Nat /\ Len(p) \in Nat
  BY <1>2, <1>16 DEF Walks
<1>19. /\ DOMAIN q \subseteq DOMAIN p
       /\ \A i \in DOMAIN q : p[i] = q[i]
       /\ \A i \in DOMAIN p \ DOMAIN q :
            /\ p[i].depth = walk.at.depth + 1
            /\ p[i].ref \in after.nodes \cap new
            /\ Lookup(covered, p[i].ref) # {}
  <2>1. /\ Len(q) <= Len(p) /\ \A i \in DOMAIN q : p[i] = q[i]
        /\ \A i \in DOMAIN p \ DOMAIN q :
            /\ p[i].depth = walk.at.depth + 1
            /\ p[i].ref \in after.nodes \cap new
            /\ Lookup(covered, p[i].ref) # {}
    BY <1>5, <1>15 DEF QueueGrow
  <2>2. DOMAIN q \subseteq DOMAIN p
    BY <1>18, <2>1
  <2>3. QED
    BY <2>1, <2>2
<1> HIDE DEF q, p
<1>20. QueueOK(after, recipe, root)
  <2>1. ASSUME NEW i \in DOMAIN p
        PROVE  /\ p[i].ref \in after.nodes /\ p[i].depth \in {1, 2}
               /\ p[i].depth = 1 => p[i].ref \in Near(recipe, root)
    <3>1. CASE i \in DOMAIN q
      <4>1. /\ q[i].ref \in walk.nodes /\ q[i].depth \in {1, 2}
            /\ q[i].depth = 1 => q[i].ref \in Near(recipe, root)
        BY <1>8, <3>1 DEF QueueOK, q
      <4>2. walk.nodes \subseteq after.nodes
        BY <1>5, <1>15 DEF NodesGrow
      <4>3. QED
        BY <1>19, <3>1, <4>1, <4>2
    <3>2. CASE i \notin DOMAIN q
      <4>1. p[i].depth = walk.at.depth + 1 /\ p[i].ref \in after.nodes \cap new /\ Lookup(covered, p[i].ref) # {}
        BY <1>19, <3>2
      <4>2. p[i].depth \in {1, 2} /\ (p[i].depth = 1 => e = root)
        BY <1>9, <4>1
      <4>3. p[i].depth = 1 => p[i].ref \in Near(recipe, root)
        BY <1>13, <1>14, <4>1, <4>2, ExistingIsReached
      <4>4. QED
        BY <4>1, <4>2, <4>3
    <3>3. QED
      BY <3>1, <3>2
  <2>2. ASSUME NEW i \in DOMAIN p, NEW j \in DOMAIN p, i < j PROVE p[i].depth <= p[j].depth
    <3>1. CASE j \in DOMAIN q
      <4>1. i \in DOMAIN q
        BY <1>18, <2>2, <3>1
      <4>2. q[i].depth <= q[j].depth
        BY <1>8, <2>2, <3>1, <4>1 DEF QueueOK, q
      <4>3. QED
        BY <1>19, <3>1, <4>1, <4>2
    <3>2. CASE i \notin DOMAIN q /\ j \notin DOMAIN q
      <4>1. p[i].depth = p[j].depth /\ p[j].depth \in {1, 2}
        BY <1>19, <2>1, <3>2
      <4>2. QED
        BY <4>1
    <3>3. CASE i \in DOMAIN q /\ j \notin DOMAIN q
      <4>1. p[i] = q[i] /\ p[j].depth = walk.at.depth + 1
        BY <1>19, <3>3
      <4>2. CASE walk.at.depth = 0
        <5>1. q[i].depth = 1
          BY <1>9, <3>3, <4>2 DEF q
        <5>2. QED
          BY <4>1, <4>2, <5>1
      <4>3. CASE walk.at.depth = 1
        <5>1. p[j].depth = 2 /\ p[i].depth \in {1, 2}
          BY <2>1, <4>1, <4>3
        <5>2. QED
          BY <5>1
      <4>4. QED
        BY <1>9, <4>2, <4>3
    <3>4. QED
      BY <3>1, <3>2, <3>3
  <2>3. QED
    BY <2>1, <2>2 DEF QueueOK, p
<1>21. AtOK(after, recipe, root)
  <2>1. ToSet(Tail(walk.todo)) \subseteq ToSet(Following(recipe, e.type))
    BY <1>3, <1>9
  <2>2. walk.at.depth = 0 => \A i \in DOMAIN p : p[i].depth = 1
    <3>1. SUFFICES ASSUME walk.at.depth = 0, NEW i \in DOMAIN p PROVE p[i].depth = 1
      OBVIOUS
    <3>2. i \in DOMAIN q => q[i].depth = 1
      BY <1>9, <3>1 DEF q
    <3>3. QED
      BY <1>19, <3>1, <3>2
  <2>3. QED
    BY <1>9, <1>16, <2>1, <2>2 DEF AtOK, p, e
<1>22. ASSUME Clean(after), ~after.truncated PROVE Complete(after, recipe, root)
  <2>1. walk.nodes \subseteq after.nodes /\ walk.missing \subseteq after.missing
    BY <1>5, <1>15 DEF NodesGrow, MissingGrow
  <2>2. Clean(walk)
    BY <1>22, <2>1 DEF Clean
  <2>3. Complete(walk, recipe, root)
    BY <1>8, <2>2
  <2>4. new \subseteq after.nodes \cup after.missing
    BY <1>15, <1>22 DEF AllMet
  <2>5. ASSUME NEW x \in after.expanded \cap Near(recipe, root)
        PROVE  Follows(recipe, x) \subseteq
                 after.nodes \cup after.missing \cup
                 (IF x = after.at.ref THEN OneStep(x, ToSet(after.todo)) ELSE {})
    <3>1. Follows(recipe, x) \subseteq
            walk.nodes \cup walk.missing \cup (IF x = e THEN OneStep(x, ToSet(walk.todo)) ELSE {})
      BY <1>16, <2>3 DEF Complete, e
    <3>2. CASE x = e
      <4>1. OneStep(e, ToSet(walk.todo)) = new \cup OneStep(e, ToSet(Tail(walk.todo)))
        BY <1>3, <1>11, OneStepSplits
      <4>2. e = after.at.ref
        BY <1>16 DEF e
      <4>3. QED
        BY <1>16, <2>1, <2>4, <3>1, <3>2, <4>1, <4>2
    <3>3. CASE x # e
      BY <2>1, <3>1, <3>3
    <3>4. QED
      BY <3>2, <3>3
  <2>6. ASSUME NEW n \in after.nodes \cap Near(recipe, root), n \notin after.expanded
        PROVE  \E i \in DOMAIN p : p[i].ref = n /\ p[i].depth = 1
    <3>1. CASE n \in walk.nodes
      <4>1. PICK i \in DOMAIN q : q[i].ref = n /\ q[i].depth = 1
        BY <1>16, <2>3, <2>6, <3>1 DEF Complete, q
      <4>2. QED
        BY <1>19, <4>1
    <3>2. CASE n \notin walk.nodes
      <4>1. PICK i \in DOMAIN p : p[i].ref = n /\ p[i].depth = walk.at.depth + 1
        BY <1>5, <1>15, <3>2 DEF NodesGrow, p
      <4>2. CASE walk.at.depth = 0
        BY <4>1, <4>2
      <4>3. CASE walk.at.depth = 1 /\ e # root
        <5>1. n # root
          BY <1>8, <1>16, <2>6
        <5>2. n \in Step(recipe, {root}) /\ Lookup(EntityTypes, n) # {}
          BY <2>6, <5>1 DEF Near, Existing
        <5>3. n \in Follows(recipe, root)
          BY <5>2, StepIs
        <5>4. root \in walk.expanded \cap Near(recipe, root) /\ root # walk.at.ref
          BY <1>8, <4>3 DEF Near, e
        <5>5. n \in walk.nodes \cup walk.missing
          BY <2>3, <5>3, <5>4 DEF Complete
        <5>6. n \in walk.missing
          BY <3>2, <5>5
        <5>7. QED
          BY <1>2, <2>2, <5>2, <5>6 DEF Clean, WalkBase
      <4>4. QED
        BY <1>9, <4>2, <4>3
    <3>3. QED
      BY <3>1, <3>2
  <2>7. QED
    BY <2>5, <2>6 DEF Complete, p
<1>23. ~after.truncated => WalkOK(after, recipe, root)
  BY <1>8, <1>16, <1>17, <1>20, <1>21, <1>22 DEF WalkOK
<1>24. QED
  BY <1>17, <1>23 DEF after

-----------------------------------------------------------------------------
\* Plans.

\* A walk that is over without having been cut short has met what there is, unless the
\* index was spoiled after it met a reference to nothing.
LEMMA OverOK ==
  ASSUME NEW walk, NEW recipe, NEW root, WalkOK(walk, recipe, root),
         walk.queue = << >>, walk.todo = << >>, Clean(walk)
  PROVE  walk.nodes = Reached(recipe, root) /\ walk.missing = Dangling(recipe, root)
<1>1. WalkBase(walk, recipe, root)
  BY DEF WalkOK
<1>2. root \in walk.expanded /\ Complete(walk, recipe, root)
  <2>1. walk # StartWalk(root)
    <3>1. StartWalk(root).queue = <<[ref |-> root, depth |-> 0]>>
      BY DEF StartWalk
    <3>2. \A item : <<item>> # << >>
      OBVIOUS
    <3>3. QED
      BY <3>1, <3>2
  <2>2. QED
    BY <2>1 DEF WalkOK
<1>3. \A n \in walk.nodes \cap Near(recipe, root) : n \in walk.expanded
  BY <1>2 DEF Complete
<1>4. ASSUME NEW e \in walk.expanded \cap Near(recipe, root)
      PROVE  Follows(recipe, e) \subseteq walk.nodes \cup walk.missing
  <2>1. OneStep(e, ToSet(walk.todo)) = {}
    BY DEF OneStep, ToSet
  <2>2. QED
    BY <1>2, <2>1 DEF Complete
<1>5. \A m \in walk.missing : Lookup(EntityTypes, m) = {}
  BY <1>1 DEF Clean, WalkBase
<1>6. Near(recipe, root) \subseteq walk.nodes
  <2>1. SUFFICES ASSUME NEW n \in Near(recipe, root), n # root PROVE n \in walk.nodes
    BY <1>1 DEF WalkBase
  <2>2. n \in Step(recipe, {root}) /\ Lookup(EntityTypes, n) # {}
    BY <2>1 DEF Near, Existing
  <2>3. n \in Follows(recipe, root)
    BY <2>2, StepIs
  <2>4. root \in Near(recipe, root)
    BY DEF Near
  <2>5. QED
    BY <1>2, <1>4, <1>5, <2>2, <2>3, <2>4
<1>7. Step(recipe, Near(recipe, root)) \subseteq walk.nodes \cup walk.missing
  <2>1. SUFFICES ASSUME NEW x \in Step(recipe, Near(recipe, root))
                 PROVE  x \in walk.nodes \cup walk.missing
    OBVIOUS
  <2>2. PICK e \in Near(recipe, root) : x \in Follows(recipe, e)
    BY StepIs
  <2>3. QED
    BY <1>3, <1>4, <1>6, <2>2
<1>8. walk.nodes = Reached(recipe, root)
  <2>1. walk.nodes \subseteq Reached(recipe, root)
    BY <1>1 DEF WalkBase
  <2>2. ASSUME NEW x \in Reached(recipe, root) PROVE x \in walk.nodes
    <3>1. CASE x \in Near(recipe, root)
      BY <1>6, <3>1
    <3>2. CASE x \notin Near(recipe, root)
      <4>1. x \in Step(recipe, Near(recipe, root)) /\ Lookup(EntityTypes, x) # {}
        BY <2>2, <3>2 DEF Reached, Existing
      <4>2. QED
        BY <1>5, <1>7, <4>1
    <3>3. QED
      BY <3>1, <3>2
  <2>3. QED
    BY <2>1, <2>2
<1>9. ASSUME NEW m \in walk.missing PROVE m \in Dangling(recipe, root)
  <2>1. m \in Step(recipe, Near(recipe, root)) /\ Lookup(EntityTypes, m) = {}
    BY <1>1, <1>5 DEF WalkBase
  <2>2. m \notin walk.nodes
    <3>1. SUFFICES ASSUME m \in walk.nodes PROVE FALSE
      OBVIOUS
    <3>2. Lookup(covered, m) # {}
      BY <1>1, <3>1 DEF WalkBase
    <3>3. m.type \in EntityTypes
      BY <1>1 DEF WalkBase, Walks, Refs
    <3>4. QED
      BY <2>1, <3>2, <3>3 DEF Lookup
  <2>3. QED
    BY <1>8, <2>1, <2>2 DEF Dangling
<1>10. Dangling(recipe, root) \subseteq walk.missing
  BY <1>7, <1>8 DEF Dangling
<1>11. QED
  BY <1>8, <1>9, <1>10

\* What ContextIsComplete asks of the plan of one request.
ContextTold(request, plan) ==
  LET recipe == ContextRecipes[request.recipe]
      all == Reached(recipe, request.root)
  IN /\ plan.nodes \subseteq all
     /\ request.strict => plan.nodes = all /\ Dangling(recipe, request.root) = {}
     /\ Indexable(held) /\ ~plan.truncated =>
          plan.nodes = all /\ plan.missing = Dangling(recipe, request.root)
     /\ plan.nodes # all =>
          plan.warnings \cap {"missing-reference", "context-truncated"} # {}
     /\ plan.complete => recipe.required \subseteq {ref.type : ref \in plan.nodes}

\* A plan is of its walk.
LEMMA PlanIs ==
  ASSUME NEW request, NEW walk
  PROVE  LET plan == Plan(request, walk) IN
         /\ plan.code = PlanRefusal(request, walk) /\ plan.nodes = walk.nodes
         /\ plan.missing = walk.missing /\ plan.truncated = walk.truncated
         /\ plan.warnings = PlanWarnings(request, walk)
         /\ plan.complete = ContextComplete(request, walk)
         /\ plan.url = ShowsUrl(Prompt(request, walk))
  BY DEF Plan

\* The plan of a walk that is over says what the repository holds.
LEMMA PlanTells ==
  ASSUME NEW request, NEW walk,
         WalkBase(walk, ContextRecipes[request.recipe], request.root),
         ~walk.truncated => /\ WalkOK(walk, ContextRecipes[request.recipe], request.root)
                            /\ walk.queue = << >> /\ walk.todo = << >>,
         request.strict => walk.missing = {},
         Plan(request, walk).code = "none"
  PROVE  ContextTold(request, Plan(request, walk))
<1> DEFINE plan == Plan(request, walk)
           recipe == ContextRecipes[request.recipe]
           all == Reached(recipe, request.root)
<1>1. /\ plan.code = PlanRefusal(request, walk) /\ plan.nodes = walk.nodes
      /\ plan.missing = walk.missing /\ plan.truncated = walk.truncated
      /\ plan.warnings = PlanWarnings(request, walk)
      /\ plan.complete = ContextComplete(request, walk)
  BY PlanIs
<1>2. plan.code = "none"
  OBVIOUS
<1> HIDE DEF plan
<1>3. request.strict => ~walk.truncated
  BY <1>1, <1>2 DEF PlanRefusal
<1>4. ~walk.truncated /\ Clean(walk) =>
        walk.nodes = all /\ walk.missing = Dangling(recipe, request.root)
  BY OverOK
<1>5. walk.nodes \subseteq all
  BY DEF WalkBase
<1>6. walk.nodes # all => walk.truncated \/ walk.missing # {}
  BY <1>4 DEF Clean
<1>7. walk.truncated => "context-truncated" \in plan.warnings
  <2>1. walk.truncated => "context-truncated" \in PromptWarnings(request, walk)
    BY DEF PromptWarnings
  <2>2. Prompt(request, walk).warnings = PromptWarnings(request, walk)
    BY DEF Prompt
  <2>3. QED
    BY <1>1, <2>1, <2>2 DEF PlanWarnings
<1>8. walk.missing # {} => "missing-reference" \in plan.warnings
  <2>1. walk.missing # {} => "missing-reference" \in ContextWarnings(request, walk)
    BY DEF ContextWarnings
  <2>2. QED
    BY <1>1, <2>1 DEF PlanWarnings
<1>9. plan.complete => recipe.required \subseteq {ref.type : ref \in walk.nodes}
  BY <1>1 DEF ContextComplete, MissingRequired
<1>10. request.strict => plan.nodes = all /\ Dangling(recipe, request.root) = {}
  BY <1>1, <1>3, <1>4 DEF Clean
<1>11. Indexable(held) /\ ~plan.truncated =>
         plan.nodes = all /\ plan.missing = Dangling(recipe, request.root)
  BY <1>1, <1>4 DEF Clean
<1>12. plan.nodes # all => plan.warnings \cap {"missing-reference", "context-truncated"} # {}
  BY <1>1, <1>6, <1>7, <1>8
<1>13. ContextTold(request, plan)
  BY <1>1, <1>5, <1>9, <1>10, <1>11, <1>12 DEF ContextTold
<1>14. QED
  BY <1>13 DEF plan

\* A prompt that is neither refused for a path nor said to have a URL gives nothing away.
LEMMA PlanIsSafe ==
  ASSUME KnowledgeOK, NEW request, NEW walk,
         WalkBase(walk, ContextRecipes[request.recipe], request.root),
         Plan(request, walk).code = "none", ~Plan(request, walk).url,
         NEW ref \in Shown(request, Plan(request, walk))
  PROVE  Entities(Plan(request, walk))[ref].marks = {}
<1> DEFINE plan == Plan(request, walk)
           e == CHOOSE e \in Collection(ref.type) : e.id = ref.id
           entity == Entities(walk)[ref]
<1>1. plan.nodes = walk.nodes /\ plan.code = PlanRefusal(request, walk)
      /\ plan.url = ShowsUrl(Prompt(request, walk))
  BY PlanIs
<1>2. plan.code = "none" /\ ~plan.url /\ ref \in Shown(request, plan)
  OBVIOUS
<1> HIDE DEF plan
<1>3. ref \in walk.nodes /\ ref \in Shown(request, walk)
  BY <1>1, <1>2 DEF Shown
<1>4. ~ShowsPath(Prompt(request, walk)) /\ ~ShowsUrl(Prompt(request, walk))
  BY <1>1, <1>2 DEF PlanRefusal
<1>5. entity \in Prompt(request, walk).entities
  BY <1>3 DEF Prompt
<1>6. "path" \notin entity.marks /\ "url" \notin entity.marks
  BY <1>4, <1>5 DEF ShowsPath, ShowsUrl
<1>7. e \in Collection(ref.type) /\ ref.type \in EntityTypes
  <2>1. Lookup(covered, ref) # {} /\ ref.type \in EntityTypes
    BY <1>3 DEF WalkBase, Walks, Refs
  <2>2. QED
    BY <2>1 DEF Lookup
<1>8. "marks" \in DOMAIN e /\ e.marks \subseteq {"path", "url"}
  BY <1>7, CollectionOK DEF KnowledgeOK
<1>9. entity = Project(e) /\ Entities(plan)[ref] = Project(e)
  BY <1>1, <1>3 DEF Entities
<1> HIDE DEF e, entity
<1>10. Project(e).marks = e.marks
  BY <1>8 DEF Project
<1>11. Entities(plan)[ref].marks = {}
  BY <1>6, <1>8, <1>9, <1>10
<1>12. QED
  BY <1>11 DEF plan

-----------------------------------------------------------------------------
\* Preparation: from the request to the plan, whatever other runs load in between.

\* The same repository, and an index that covers no less of it and is not repaired.
MoreKnown ==
  /\ repository' = repository
  /\ covered \subseteq covered' /\ covered' \subseteq EntityTypes
  /\ Indexable(held)' => Indexable(held)

\* What the repository holds and what is reached in it stay what they are.
LEMMA GraphStays ==
  ASSUME repository' = repository
  PROVE  /\ \A types, ref : Lookup(types, ref)' = Lookup(types, ref)
         /\ \A recipe, refs : Step(recipe, refs)' = Step(recipe, refs)
         /\ \A recipe, root : Near(recipe, root)' = Near(recipe, root)
         /\ \A recipe, root : Reached(recipe, root)' = Reached(recipe, root)
         /\ \A recipe, root : Dangling(recipe, root)' = Dangling(recipe, root)
         /\ \A ref, names : OneStep(ref, names)' = OneStep(ref, names)
         /\ \A recipe, ref : Follows(recipe, ref)' = Follows(recipe, ref)
<1>1. \A type : Collection(type)' = Collection(type)
  BY DEF Collection
<1>2. \A types, ref : Lookup(types, ref)' = Lookup(types, ref)
  BY <1>1 DEF Lookup
<1>3. \A types, ref, relationship : Targets(types, ref, relationship)' = Targets(types, ref, relationship)
  BY <1>1, <1>2 DEF Targets, ForwardTargets
<1>4. \A recipe, refs : Step(recipe, refs)' = Step(recipe, refs)
  BY <1>3 DEF Step
<1>5. \A refs : Existing(refs)' = Existing(refs)
  BY <1>2 DEF Existing
<1>6. \A recipe, root : Near(recipe, root)' = Near(recipe, root)
  BY <1>4, <1>5 DEF Near
<1>7. \A recipe, root : Reached(recipe, root)' = Reached(recipe, root)
  BY <1>4, <1>5, <1>6 DEF Reached
<1>8. \A recipe, root : Dangling(recipe, root)' = Dangling(recipe, root)
  BY <1>4, <1>6, <1>7 DEF Dangling
<1>9. \A ref, name : Leads(ref, name)' = Leads(ref, name)
  BY <1>3 DEF Leads
<1>10. \A ref, names : OneStep(ref, names)' = OneStep(ref, names)
  BY <1>9 DEF OneStep
<1>11. \A recipe, ref : Follows(recipe, ref)' = Follows(recipe, ref)
  BY <1>10 DEF Follows
<1>12. QED
  BY <1>2, <1>4, <1>6, <1>7, <1>8, <1>10, <1>11

\* A walk is no worse for what others load meanwhile.
LEMMA WalkStays ==
  ASSUME MoreKnown, NEW walk, NEW recipe, NEW root, WalkOK(walk, recipe, root)
  PROVE  WalkOK(walk, recipe, root)'
<1>1. repository' = repository
  BY DEF MoreKnown
<1>2. WalkBase(walk, recipe, root)'
  <2>1. WalkBase(walk, recipe, root)
    BY DEF WalkOK
  <2>2. ASSUME NEW n, Lookup(covered, n) # {} PROVE Lookup(covered, n)' # {}
    <3>1. \A type : Collection(type)' = Collection(type)
      BY <1>1 DEF Collection
    <3>2. covered \subseteq covered'
      BY DEF MoreKnown
    <3>3. QED
      BY <2>2, <3>1, <3>2 DEF Lookup
  <2>3. \A m : Lookup(EntityTypes, m)' = Lookup(EntityTypes, m)
    BY <1>1, GraphStays
  <2>4. /\ Reached(recipe, root)' = Reached(recipe, root)
        /\ Step(recipe, Near(recipe, root))' = Step(recipe, Near(recipe, root))
    BY <1>1, GraphStays
  <2>5. QED
    BY <2>1, <2>2, <2>3, <2>4 DEF WalkBase, MoreKnown
<1>3. Near(recipe, root)' = Near(recipe, root)
  BY <1>1, GraphStays
<1>4. QueueOK(walk, recipe, root)' <=> QueueOK(walk, recipe, root)
  BY <1>3 DEF QueueOK
<1>5. AtOK(walk, recipe, root)' <=> AtOK(walk, recipe, root)
  BY <1>3 DEF AtOK
<1>6. Complete(walk, recipe, root)' <=> Complete(walk, recipe, root)
  BY <1>1, <1>3, GraphStays DEF Complete
<1>7. Clean(walk)' => Clean(walk)
  BY DEF Clean, MoreKnown
<1>8. QED
  BY <1>2, <1>4, <1>5, <1>6, <1>7 DEF WalkOK

\* A plan that says what the repository holds goes on doing so.
LEMMA ToldStays ==
  ASSUME MoreKnown, NEW request, NEW plan, ContextTold(request, plan)
  PROVE  ContextTold(request, plan)'
<1>1. /\ \A recipe, root : Reached(recipe, root)' = Reached(recipe, root)
      /\ \A recipe, root : Dangling(recipe, root)' = Dangling(recipe, root)
  BY GraphStays DEF MoreKnown
<1>2. QED
  BY <1>1 DEF ContextTold, MoreKnown

Prepared ==
  /\ KnowledgeOK
  /\ \A r \in Runs : Preparation(run[r])
  /\ \A r \in Runs : run[r].stage = "planned" => ContextTold(run[r].request, run[r].plan)

\* What a run has prepared stays as it should be.
LEMMA RunStays ==
  ASSUME MoreKnown, NEW x, Preparation(x), x.stage = "planned" => ContextTold(x.request, x.plan)
  PROVE  Preparation(x)' /\ (x.stage = "planned" => ContextTold(x.request, x.plan)')
<1>1. /\ x.loading # "none" => x.loading \in EntityTypes
      /\ x.stage \in {"root", "walk"} => Asked(x.request)
      /\ x.stage = "walk" => ~WalkIsOver(x.walk)
  BY DEF Preparation
<1>2. x.stage = "walk" => WalkOK(x.walk, ContextRecipes[x.request.recipe], x.request.root)'
  BY WalkStays DEF Preparation
<1>3. x.stage = "planned" => ContextTold(x.request, x.plan)'
  BY ToldStays
<1>4. QED
  BY <1>1, <1>2, <1>3 DEF Preparation

\* A step of one run that leaves what it has prepared as it should be.
LEMMA PreparedStep ==
  ASSUME RunsOK, Prepared, NEW r \in Runs, NEW after, Goes(r, after), MoreKnown, KnowledgeOK',
         Preparation(after),
         after.stage = "planned" => ContextTold(after.request, after.plan)
  PROVE  Prepared'
<1>1. run'[r] = after /\ \A q \in Runs \ {r} : run'[q] = run[q]
  BY DEF Goes, RunsOK
<1>2. ASSUME NEW q \in Runs
      PROVE  /\ Preparation(run[q])'
             /\ run'[q].stage = "planned" => ContextTold(run[q].request, run[q].plan)'
  <2>1. PICK x : x = run'[q]
    OBVIOUS
  <2>2. Preparation(x) /\ (x.stage = "planned" => ContextTold(x.request, x.plan))
    BY <1>1, <2>1 DEF Prepared
  <2>3. QED
    BY <2>1, <2>2, RunStays
<1>3. QED
  BY <1>2 DEF Prepared

\* Nothing is loaded.
LEMMA KnowledgeSame ==
  ASSUME UNCHANGED knowledge, KnowledgeOK
  PROVE  MoreKnown /\ KnowledgeOK'
<1>1. repository' = repository /\ held' = held /\ covered' = covered
  BY DEF knowledge
<1>2. \A type : Collection(type)' = Collection(type)
  BY <1>1 DEF Collection
<1>3. Indexable(held)' <=> Indexable(held)
  BY <1>1, <1>2 DEF Indexable
<1>4. QED
  BY <1>1, <1>3 DEF MoreKnown, KnowledgeOK

\* A run that has nothing to prepare any more.
LEMMA LaterStep ==
  ASSUME RunsOK, Prepared, NEW r \in Runs, NEW after, Goes(r, after), UNCHANGED knowledge,
         after.stage \notin {"root", "walk", "planned"}, after.loading \in {"none", run[r].loading}
  PROVE  Prepared'
<1>1. KnowledgeOK /\ Preparation(run[r])
  BY DEF Prepared
<1>2. MoreKnown /\ KnowledgeOK'
  BY <1>1, KnowledgeSame
<1>3. Preparation(after)
  BY <1>1 DEF Preparation
<1>4. QED
  BY <1>2, <1>3, PreparedStep

\* A run that ends has nothing prepared.
LEMMA EndsPrepared ==
  ASSUME RunsOK, Prepared, NEW r \in Runs, NEW status, NEW code, Ends(r, status, code),
         MoreKnown, KnowledgeOK'
  PROVE  Prepared'
<1> DEFINE x == IF run[r].package = NoPackage THEN NewRun ELSE run[r]
           after == Ended(x, status, code)
<1>1. Goes(r, after)
  BY DEF Ends, Ended
<1>2. IsRun(x) /\ x.loading \in {"none", run[r].loading}
  BY NewRunIsRun DEF RunsOK
<1> HIDE DEF x
<1>3. after.stage = "done" /\ after.loading = x.loading
  BY <1>2, EndedRun DEF RunFields
<1> HIDE DEF after
<1>4. Preparation(run[r])
  BY DEF Prepared
<1>5. Preparation(after)
  BY <1>2, <1>3, <1>4 DEF Preparation
<1>6. QED
  BY <1>1, <1>3, <1>5, PreparedStep

\* A step of a run that has its plan.
LEMMA PlannedRun ==
  ASSUME RunsOK, Prepared, NEW r \in Runs, UNCHANGED knowledge,
         \/ \E status, code : Ends(r, status, code)
         \/ \E after : /\ Goes(r, after)
                       /\ after.stage \in {"written", "packed", "queued", "publishing"}
                       /\ after.loading = run[r].loading
  PROVE  Prepared'
<1>1. CASE \E status, code : Ends(r, status, code)
  BY <1>1, EndsPrepared, KnowledgeSame DEF Prepared
<1>2. CASE \E after : /\ Goes(r, after)
                      /\ after.stage \in {"written", "packed", "queued", "publishing"}
                      /\ after.loading = run[r].loading
  BY <1>2, LaterStep
<1>3. QED
  BY <1>1, <1>2

\* What a run does with its plan is no matter to what others prepare.
LEMMA LaterKeepsPrepared ==
  ASSUME RunsOK, Prepared, NEW r \in Runs,
         Generate(r) \/ HandOff(r) \/ Enqueue(r) \/ ClaimNext(r) \/ Publish(r)
  PROVE  Prepared'
<1>1. IsRun(run[r])
  BY DEF RunsOK
<1>2. UNCHANGED knowledge
  BY DEF Generate, HandOff, Enqueue, ClaimNext, Publish
<1>3. CASE Generate(r)
  <2>1. CASE \E status, code : Ends(r, status, code)
    BY <1>2, <2>1, PlannedRun
  <2>2. ASSUME NEW content, Goes(r, [run[r] EXCEPT !.stage = "written", !.content = content]) PROVE Prepared'
    <3> DEFINE x == run[r]
               after == [x EXCEPT !.stage = "written", !.content = content]
    <3>1. Goes(r, after)
      BY <2>2
    <3> HIDE DEF x
    <3>2. after.stage = "written" /\ after.loading = x.loading
      BY <1>1 DEF IsRun, RunFields, x
    <3> HIDE DEF after
    <3>3. after.loading = run[r].loading
      BY <3>2 DEF x
    <3>4. QED
      BY <1>2, <3>1, <3>2, <3>3, PlannedRun
  <2>3. QED
    BY <1>3, <2>1, <2>2 DEF Generate, Fails
<1>4. CASE HandOff(r)
  <2>1. CASE \E status, code : Ends(r, status, code)
    BY <1>2, <2>1, PlannedRun
  <2>2. ASSUME NEW delivery,
               Goes(r, [run[r] EXCEPT !.stage = "packed", !.delivery = delivery,
                                      !.package = Package(r, delivery)])
        PROVE  Prepared'
    <3> DEFINE x == run[r]
               after == [x EXCEPT !.stage = "packed", !.delivery = delivery,
                                  !.package = Package(r, delivery)]
    <3>1. Goes(r, after)
      BY <2>2
    <3> HIDE DEF x
    <3>2. after.stage = "packed" /\ after.loading = x.loading
      BY <1>1 DEF IsRun, RunFields, x
    <3> HIDE DEF after
    <3>3. after.loading = run[r].loading
      BY <3>2 DEF x
    <3>4. QED
      BY <1>2, <3>1, <3>2, <3>3, PlannedRun
  <2>3. QED
    BY <1>4, <2>1, <2>2 DEF HandOff, Fails
<1>5. CASE Enqueue(r)
  <2>1. CASE \E status, code : Ends(r, status, code)
    BY <1>2, <2>1, PlannedRun
  <2>2. ASSUME Goes(r, [run[r] EXCEPT !.stage = "queued"]) PROVE Prepared'
    <3> DEFINE x == run[r]
               after == [x EXCEPT !.stage = "queued"]
    <3>1. Goes(r, after)
      BY <2>2
    <3> HIDE DEF x
    <3>2. after.stage = "queued" /\ after.loading = x.loading
      BY <1>1 DEF IsRun, RunFields, x
    <3> HIDE DEF after
    <3>3. after.loading = run[r].loading
      BY <3>2 DEF x
    <3>4. QED
      BY <1>2, <3>1, <3>2, <3>3, PlannedRun
  <2>3. QED
    BY <1>5, <2>1, <2>2 DEF Enqueue, Fails
<1>6. CASE ClaimNext(r)
  <2>1. CASE \E status, code : Ends(r, status, code)
    BY <1>2, <2>1, PlannedRun
  <2>2. ASSUME NEW claimed, Goes(r, [run[r] EXCEPT !.stage = "publishing", !.claimed = claimed]) PROVE Prepared'
    <3> DEFINE x == run[r]
               after == [x EXCEPT !.stage = "publishing", !.claimed = claimed]
    <3>1. Goes(r, after)
      BY <2>2
    <3> HIDE DEF x
    <3>2. after.stage = "publishing" /\ after.loading = x.loading
      BY <1>1 DEF IsRun, RunFields, x
    <3> HIDE DEF after
    <3>3. after.loading = run[r].loading
      BY <3>2 DEF x
    <3>4. QED
      BY <1>2, <3>1, <3>2, <3>3, PlannedRun
  <2>3. QED
    BY <1>6, <2>1, <2>2 DEF ClaimNext, Fails
<1>7. CASE Publish(r)
  <2>1. \E status, code : Ends(r, status, code)
    BY <1>7 DEF Publish, PublishThrough, NoAdapter, Fails
  <2>2. QED
    BY <1>2, <2>1, PlannedRun
<1>8. QED
  BY <1>3, <1>4, <1>5, <1>6, <1>7

\* Nor is the passing of time.
LEMMA BecomeAvailableKeepsPrepared ==
  ASSUME RunsOK, Prepared, UNCHANGED <<knowledge, run>>
  PROVE  Prepared'
<1>1. UNCHANGED knowledge /\ run' = run /\ KnowledgeOK
  BY DEF Prepared
<1>2. MoreKnown /\ KnowledgeOK'
  BY <1>1, KnowledgeSame
<1>3. QED
  BY <1>1, <1>2, RunStays DEF Prepared

\* A request that is taken up.
LEMMA AskKeepsPrepared ==
  ASSUME RunsOK, Prepared, NEW r \in Runs, Ask(r)
  PROVE  Prepared'
<1>1. IsRun(run[r]) /\ Preparation(run[r]) /\ KnowledgeOK /\ UNCHANGED knowledge
  BY DEF RunsOK, Prepared, Ask
<1>2. CASE \E status, code : Ends(r, status, code)
  BY <1>1, <1>2, PlannedRun
<1>3. ASSUME NEW request \in Requests, Refusal(request) = "none", request.root.type \in EntityTypes,
             Goes(r, [run[r] EXCEPT !.stage = "root", !.request = request])
      PROVE  Prepared'
  <2> DEFINE x == run[r]
             after == [x EXCEPT !.stage = "root", !.request = request]
  <2>1. Goes(r, after)
    BY <1>3
  <2> HIDE DEF x
  <2>2. after.stage = "root" /\ after.request = request /\ after.loading = x.loading
    BY <1>1 DEF IsRun, RunFields, x
  <2> HIDE DEF after
  <2>3. Preparation(after)
    BY <1>1, <1>3, <2>2 DEF Preparation, Asked, x
  <2>4. QED
    BY <1>1, <2>1, <2>2, <2>3, KnowledgeSame, PreparedStep
<1>4. QED
  BY <1>2, <1>3 DEF Ask, Fails

\* What a run cannot go on without is a type of the repository.
LEMMA NeedsTypes ==
  ASSUME NEW r, Preparation(run[r])
  PROVE  Needs(r) \subseteq EntityTypes
<1>1. CASE run[r].stage = "root"
  BY <1>1 DEF Needs, Preparation, Asked
<1>2. CASE run[r].stage = "walk" /\ run[r].walk.todo # << >>
  <2>1. run[r].walk \in Walks
    BY <1>2 DEF Preparation, WalkOK, WalkBase
  <2>2. Head(run[r].walk.todo) \in Names
    BY <1>2, <2>1, HeadAndTail DEF Walks
  <2>3. Named(Head(run[r].walk.todo)).target \in EntityTypes
    BY <2>2, NamedIs, ManifestOK
  <2>4. QED
    BY <1>2, <2>3 DEF Needs
<1>3. CASE run[r].stage # "root" /\ ~(run[r].stage = "walk" /\ run[r].walk.todo # << >>)
  BY <1>3 DEF Needs
<1>4. QED
  BY <1>1, <1>2, <1>3

\* A load that starts.
LEMMA StartLoadKeepsPrepared ==
  ASSUME RunsOK, Prepared, NEW r \in Runs, StartLoad(r)
  PROVE  Prepared'
<1>1. /\ IsRun(run[r]) /\ Preparation(run[r]) /\ KnowledgeOK /\ UNCHANGED knowledge
      /\ run[r].stage = "planned" => ContextTold(run[r].request, run[r].plan)
  BY DEF RunsOK, Prepared, StartLoad
<1>2. PICK type \in Lacks(r) : Goes(r, [run[r] EXCEPT !.loading = type])
  BY DEF StartLoad
<1>3. type \in EntityTypes
  BY <1>1, NeedsTypes DEF Lacks
<1> DEFINE x == run[r]
           after == [x EXCEPT !.loading = type]
<1>4. Goes(r, after)
  BY <1>2
<1> HIDE DEF x
<1>5. after.loading = type /\ \A f \in RunFields \ {"loading"} : after[f] = x[f]
  BY <1>1 DEF IsRun, RunFields, x
<1> HIDE DEF after
<1>6. after.stage = x.stage /\ after.request = x.request /\ after.walk = x.walk /\ after.plan = x.plan
  BY <1>5 DEF RunFields
<1>7. Preparation(after) /\ (after.stage = "planned" => ContextTold(after.request, after.plan))
  BY <1>1, <1>3, <1>5, <1>6 DEF Preparation, x
<1>8. QED
  BY <1>1, <1>4, <1>7, KnowledgeSame, PreparedStep

\* A collection more: an index over more than before can be built only where one over what
\* was held could.
LEMMA LoadedMore ==
  ASSUME KnowledgeOK, NEW type \in EntityTypes, NEW added, added = [held EXCEPT ![type] = @ + 1]
  PROVE  /\ DOMAIN added = EntityTypes /\ \A t \in EntityTypes : added[t] \in Nat
         /\ \A t \in EntityTypes : held[t] > 0 => added[t] > 0
         /\ Indexable(added) => Indexable(held)
<1>1. DOMAIN held = EntityTypes /\ \A t \in EntityTypes : held[t] \in Nat
  BY DEF KnowledgeOK
<1>2. /\ DOMAIN added = EntityTypes
      /\ added[type] = held[type] + 1
      /\ \A t \in EntityTypes \ {type} : added[t] = held[t]
  BY <1>1
<1>3. \A t \in EntityTypes : added[t] \in Nat
  BY <1>1, <1>2
<1>4. \A t \in EntityTypes : /\ held[t] > 0 => added[t] > 0
                             /\ held[t] > 0 /\ added[t] = 1 => held[t] = 1
  <2>1. SUFFICES ASSUME NEW t \in EntityTypes
                 PROVE  /\ held[t] > 0 => added[t] > 0
                        /\ held[t] > 0 /\ added[t] = 1 => held[t] = 1
    OBVIOUS
  <2>2. CASE t = type
    BY <1>1, <1>2, <2>2
  <2>3. CASE t # type
    BY <1>1, <1>2, <2>3
  <2>4. QED
    BY <2>2, <2>3
<1>5. Indexable(added) => Indexable(held)
  BY <1>4 DEF Indexable
<1>6. QED
  BY <1>2, <1>3, <1>4, <1>5

\* A load that ends, while others are on their way with what was covered before.
LEMMA FinishLoadKeepsPrepared ==
  ASSUME RunsOK, Prepared, NEW r \in Runs, FinishLoad(r)
  PROVE  Prepared'
<1>1. /\ IsRun(run[r]) /\ Preparation(run[r]) /\ KnowledgeOK
      /\ run[r].stage = "planned" => ContextTold(run[r].request, run[r].plan)
  BY DEF RunsOK, Prepared
<1> DEFINE type == run[r].loading
           added == [held EXCEPT ![type] = @ + 1]
<1>2. type \in EntityTypes
  BY <1>1 DEF Preparation, FinishLoad
<1>3. CASE ~Readable(type)
  <2>1. UNCHANGED knowledge /\ Ends(r, "failed", "knowledge-load-failure")
    BY <1>3 DEF FinishLoad, Fails
  <2>2. QED
    BY <2>1, PlannedRun
<1>4. CASE Readable(type)
  <2>1. /\ held' = added /\ repository' = repository
        /\ \/ /\ Indexable(added) /\ covered' = {t \in EntityTypes : added[t] > 0}
              /\ Goes(r, [run[r] EXCEPT !.loading = "none"])
           \/ /\ ~Indexable(added) /\ covered' = covered
              /\ Ends(r, "failed", "knowledge-load-failure")
    BY <1>4 DEF FinishLoad, Fails
  <2> HIDE DEF type, added
  <2>2. /\ DOMAIN added = EntityTypes /\ \A t \in EntityTypes : added[t] \in Nat
        /\ \A t \in EntityTypes : held[t] > 0 => added[t] > 0
        /\ Indexable(added) => Indexable(held)
    BY <1>1, <1>2, LoadedMore DEF added
  <2>3. Indexable(held)' <=> Indexable(added)
    <3>1. \A t : Collection(t)' = Collection(t)
      BY <2>1 DEF Collection
    <3>2. QED
      BY <2>1, <3>1 DEF Indexable
  <2>4. CASE Indexable(added) /\ covered' = {t \in EntityTypes : added[t] > 0}
    <3>1. covered \subseteq covered' /\ covered' \subseteq EntityTypes
      BY <1>1, <2>2, <2>4 DEF KnowledgeOK
    <3>2. MoreKnown
      BY <2>1, <2>2, <2>3, <3>1 DEF MoreKnown
    <3>3. KnowledgeOK'
      BY <1>1, <2>1, <2>2, <2>4, <3>1 DEF KnowledgeOK
    <3>4. CASE Goes(r, [run[r] EXCEPT !.loading = "none"])
      <4> DEFINE x == run[r]
                 after == [x EXCEPT !.loading = "none"]
      <4>1. Goes(r, after)
        BY <3>4
      <4> HIDE DEF x
      <4>2. after.loading = "none" /\ \A f \in RunFields \ {"loading"} : after[f] = x[f]
        BY <1>1 DEF IsRun, RunFields, x
      <4> HIDE DEF after
      <4>3. /\ after.stage = x.stage /\ after.request = x.request /\ after.walk = x.walk
            /\ after.plan = x.plan
        BY <4>2 DEF RunFields
      <4>4. Preparation(after) /\ (after.stage = "planned" => ContextTold(after.request, after.plan))
        BY <1>1, <4>2, <4>3 DEF Preparation, x
      <4>5. QED
        BY <3>2, <3>3, <4>1, <4>4, PreparedStep
    <3>5. QED
      BY <2>1, <2>4, <3>4
  <2>5. CASE ~Indexable(added) /\ covered' = covered
    <3>1. MoreKnown
      BY <1>1, <2>1, <2>3, <2>5 DEF MoreKnown, KnowledgeOK
    <3>2. KnowledgeOK'
      BY <1>1, <2>1, <2>2, <2>3, <2>5 DEF KnowledgeOK
    <3>3. QED
      BY <2>1, <2>5, <3>1, <3>2, EndsPrepared
  <2>6. QED
    BY <2>1, <2>4, <2>5
<1>5. QED
  BY <1>3, <1>4

\* A plan of the repository, or a run that ends.
LEMMA PlannedKeepsPrepared ==
  ASSUME RunsOK, Prepared, NEW r \in Runs, NEW plan, Planned(r, plan), UNCHANGED knowledge,
         plan.code = "none" => ContextTold(run[r].request, plan)
  PROVE  Prepared'
<1>1. IsRun(run[r]) /\ Preparation(run[r]) /\ KnowledgeOK
  BY DEF RunsOK, Prepared
<1>2. CASE plan.code = "none"
  <2> DEFINE x == run[r]
             walk == StartWalk(Nowhere)
             after == [x EXCEPT !.stage = "planned", !.walk = walk, !.plan = plan]
  <2>1. Goes(r, after)
    BY <1>2 DEF Planned
  <2> HIDE DEF x, walk
  <2>2. /\ after.stage = "planned" /\ after.plan = plan /\ after.request = x.request
        /\ after.loading = x.loading
    BY <1>1 DEF IsRun, RunFields, x
  <2> HIDE DEF after
  <2>3. Preparation(after)
    BY <1>1, <2>2 DEF Preparation, x
  <2>4. ContextTold(after.request, after.plan)
    BY <1>2, <2>2 DEF x
  <2>5. QED
    BY <1>1, <2>1, <2>3, <2>4, KnowledgeSame, PreparedStep
<1>3. CASE plan.code # "none"
  BY <1>3, PlannedRun DEF Planned
<1>4. QED
  BY <1>2, <1>3

\* A refused plan is none.
LEMMA RefusedIs ==
  ASSUME NEW code
  PROVE  Refused(code).code = code
  BY DEF Refused

\* A walk that starts.
LEMMA StartWalkOK ==
  ASSUME NEW recipe, NEW root \in Refs, Lookup(covered, root) # {}
  PROVE  WalkOK(StartWalk(root), recipe, root) /\ ~WalkIsOver(StartWalk(root))
<1> DEFINE item == [ref |-> root, depth |-> 0]
           walk == StartWalk(root)
<1>1. item \in Items /\ <<item>> \in Seq(Items) /\ <<item>> # << >>
  BY DEF Items
<1> HIDE DEF item
<1>2. walk = [at |-> item, todo |-> << >>, expanded |-> {}, nodes |-> {root}, queue |-> <<item>>,
              edges |-> {}, missing |-> {}, truncated |-> FALSE]
  BY DEF StartWalk, item
<1>3. walk \in Walks
  BY <1>1, <1>2 DEF Walks
<1>4. /\ walk.nodes = {root} /\ walk.expanded = {} /\ walk.missing = {} /\ ~walk.truncated
      /\ walk.queue # << >>
  BY <1>1, <1>2
<1> HIDE DEF walk
<1>5. root \in Reached(recipe, root)
  BY DEF Reached, Near
<1>6. WalkBase(walk, recipe, root) /\ ~WalkIsOver(walk)
  BY <1>3, <1>4, <1>5 DEF WalkBase, WalkIsOver
<1>7. QED
  BY <1>4, <1>6 DEF WalkOK, walk

\* A root that is looked up, and the walk that starts there.
LEMMA LookUpRootKeepsPrepared ==
  ASSUME RunsOK, Prepared, NEW r \in Runs, LookUpRoot(r)
  PROVE  Prepared'
<1>1. /\ IsRun(run[r]) /\ Preparation(run[r]) /\ KnowledgeOK /\ UNCHANGED knowledge
      /\ run[r].stage = "root" /\ run[r].loading = "none"
  BY DEF RunsOK, Prepared, LookUpRoot, Ready
<1> DEFINE request == run[r].request
<1>2. Asked(request)
  BY <1>1 DEF Preparation
<1>3. CASE \E status, code : Ends(r, status, code)
  BY <1>1, <1>3, PlannedRun
<1>4. CASE \E code \in {"missing-root-entity", "incompatible-recipe-content"} : Planned(r, Refused(code))
  BY <1>1, <1>4, RefusedIs, PlannedKeepsPrepared
<1>5. CASE /\ Lookup(covered, request.root) # {}
           /\ Goes(r, [run[r] EXCEPT !.stage = "walk", !.walk = StartWalk(request.root)])
  <2> DEFINE x == run[r]
             walk == StartWalk(request.root)
             after == [x EXCEPT !.stage = "walk", !.walk = walk]
  <2>1. Goes(r, after)
    BY <1>5
  <2>2. request.root \in Refs
    BY <1>2, ContentPipelineConstants DEF Asked, Refs
  <2>3. WalkOK(walk, ContextRecipes[request.recipe], request.root) /\ ~WalkIsOver(walk)
    BY <1>5, <2>2, StartWalkOK
  <2> HIDE DEF x, walk
  <2>4. /\ after.stage = "walk" /\ after.walk = walk /\ after.request = x.request
        /\ after.loading = x.loading
    BY <1>1 DEF IsRun, RunFields, x
  <2> HIDE DEF after
  <2>5. Preparation(after)
    BY <1>1, <1>2, <2>3, <2>4 DEF Preparation, x
  <2>6. QED
    BY <1>1, <2>1, <2>4, <2>5, KnowledgeSame, PreparedStep
<1>6. QED
  BY <1>3, <1>4, <1>5 DEF LookUpRoot, Fails

-----------------------------------------------------------------------------
\* A step of a walk, for what is prepared and for what is published.

\* The walk after one more step, of a run that can go on.
LEMMA NextWalkOK ==
  ASSUME RunsOK, Prepared, NEW r \in Runs, run[r].stage = "walk", Ready(r),
         NEW walk, walk = NextWalk(run[r].walk, run[r].request)
  PROVE  /\ WalkBase(walk, ContextRecipes[run[r].request.recipe], run[r].request.root)
         /\ ~walk.truncated =>
              WalkOK(walk, ContextRecipes[run[r].request.recipe], run[r].request.root)
<1> DEFINE before == run[r].walk
           recipe == ContextRecipes[run[r].request.recipe]
           root == run[r].request.root
<1>1. KnowledgeOK /\ Preparation(run[r])
  BY DEF Prepared
<1>2. WalkOK(before, recipe, root) /\ ~WalkIsOver(before) /\ Asked(run[r].request)
  BY <1>1 DEF Preparation
<1>3. recipe.follow \in Seq(Names)
  <2>1. run[r].request.recipe \in DOMAIN ContextRecipes
    BY <1>2 DEF Asked, Refusal
  <2>2. QED
    BY <2>1, RecipesFollow
<1>4. CASE before.todo = << >>
  <2>1. before.queue # << >>
    BY <1>2, <1>4 DEF WalkIsOver
  <2>2. walk = Visit(before, recipe)
    BY <1>4 DEF NextWalk
  <2> HIDE DEF before, recipe, root
  <2>3. WalkOK(walk, recipe, root)
    BY <1>2, <1>3, <1>4, <2>1, <2>2, VisitOK
  <2>4. QED
    BY <2>3 DEF WalkOK, before, recipe, root
<1>5. CASE before.todo # << >>
  <2> DEFINE type == Named(Head(before.todo)).target
  <2>1. type \in Needs(r)
    BY <1>5 DEF Needs
  <2>2. type \in EntityTypes
    BY <1>1, <2>1, NeedsTypes
  <2>3. held[type] # 0
    BY <2>1 DEF Ready, Lacks
  <2>4. held[type] > 0
    BY <1>1, <2>2, <2>3 DEF KnowledgeOK
  <2>5. walk = Follow(before, covered)
    BY <1>5 DEF NextWalk
  <2> HIDE DEF before, recipe, root
  <2>6. WalkBase(walk, recipe, root) /\ (~walk.truncated => WalkOK(walk, recipe, root))
    BY <1>1, <1>2, <1>3, <1>5, <2>4, <2>5, FollowOK
  <2>7. QED
    BY <2>6 DEF recipe, root
<1>6. QED
  BY <1>4, <1>5

\* What a step of a walk comes to.
LEMMA WalkComesTo ==
  ASSUME Publication, Prepared, NEW r \in Runs, Walk(r)
  PROVE  /\ run[r].stage = "walk" /\ run[r].loading = "none" /\ UNCHANGED <<knowledge, storage>>
         /\ \E plan : /\ Planned(r, plan)
                      /\ plan.code = "none" => ContextTold(run[r].request, plan)
                      /\ plan.code = "none" /\ ~plan.url =>
                           \A ref \in Shown(run[r].request, plan) : Entities(plan)[ref].marks = {}
            \/ \E walk : /\ Goes(r, [run[r] EXCEPT !.walk = walk])
                         /\ WalkOK(walk, ContextRecipes[run[r].request.recipe], run[r].request.root)
                         /\ ~WalkIsOver(walk)
<1> DEFINE request == run[r].request
           walk == NextWalk(run[r].walk, request)
           recipe == ContextRecipes[request.recipe]
<1>1. run[r].stage = "walk" /\ run[r].loading = "none" /\ UNCHANGED <<knowledge, storage>> /\ Ready(r)
  BY DEF Walk, Ready
<1>2. \/ Planned(r, Refused("missing-root-entity"))
      \/ /\ request.strict => walk.missing = {}
         /\ WalkIsOver(walk) /\ Planned(r, Plan(request, walk))
      \/ ~WalkIsOver(walk) /\ Goes(r, [run[r] EXCEPT !.walk = walk])
  BY DEF Walk
<1>3. WalkBase(walk, recipe, request.root) /\ (~walk.truncated => WalkOK(walk, recipe, request.root))
  BY <1>1, NextWalkOK DEF Publication
<1> HIDE DEF walk
<1>4. CASE Planned(r, Refused("missing-root-entity"))
  BY <1>1, <1>4, RefusedIs
<1>5. CASE /\ request.strict => walk.missing = {}
           /\ WalkIsOver(walk) /\ Planned(r, Plan(request, walk))
  <2> DEFINE plan == Plan(request, walk)
  <2>1. ~walk.truncated => walk.queue = << >> /\ walk.todo = << >>
    BY <1>5 DEF WalkIsOver
  <2>2. plan.code = "none" => ContextTold(request, plan)
    BY <1>3, <1>5, <2>1, PlanTells
  <2>3. plan.code = "none" /\ ~plan.url =>
          \A ref \in Shown(request, plan) : Entities(plan)[ref].marks = {}
    BY <1>3, PlanIsSafe DEF Prepared
  <2> HIDE DEF plan
  <2>4. Planned(r, plan)
    BY <1>5 DEF plan
  <2>5. QED
    BY <1>1, <2>2, <2>3, <2>4
<1>6. CASE ~WalkIsOver(walk) /\ Goes(r, [run[r] EXCEPT !.walk = walk])
  <2>1. ~walk.truncated
    BY <1>6 DEF WalkIsOver
  <2>2. QED
    BY <1>1, <1>3, <1>6, <2>1
<1>7. QED
  BY <1>2, <1>4, <1>5, <1>6

\* A step of a walk keeps both.
LEMMA WalkKeeps ==
  ASSUME Publication, Prepared, NEW r \in Runs, Walk(r)
  PROVE  Publication' /\ Prepared'
<1>1. /\ RunsOK /\ IsRun(run[r]) /\ RunGood(r, run[r]) /\ Preparation(run[r]) /\ KnowledgeOK
  BY DEF Publication, Prepared, RunsOK
<1>2. /\ run[r].stage = "walk" /\ run[r].loading = "none"
      /\ UNCHANGED knowledge /\ UNCHANGED storage /\ repository' = repository
  BY WalkComesTo DEF knowledge
<1>3. ASSUME NEW plan, Planned(r, plan),
             plan.code = "none" => ContextTold(run[r].request, plan),
             plan.code = "none" /\ ~plan.url =>
               \A ref \in Shown(run[r].request, plan) : Entities(plan)[ref].marks = {}
      PROVE  Publication' /\ Prepared'
  <2>1. Publication'
    BY <1>2, <1>3, PlannedKeeps
  <2>2. Prepared'
    BY <1>1, <1>2, <1>3, PlannedKeepsPrepared
  <2>3. QED
    BY <2>1, <2>2
<1>4. ASSUME NEW walk, Goes(r, [run[r] EXCEPT !.walk = walk]), ~WalkIsOver(walk),
             WalkOK(walk, ContextRecipes[run[r].request.recipe], run[r].request.root)
      PROVE  Publication' /\ Prepared'
  <2> DEFINE x == run[r]
             after == [x EXCEPT !.walk = walk]
  <2>1. Goes(r, after)
    BY <1>4
  <2> HIDE DEF x
  <2>2. IsRun(after) /\ after.walk = walk /\ \A f \in RunFields \ {"walk"} : after[f] = x[f]
    BY <1>1 DEF IsRun, RunFields, x
  <2> HIDE DEF after
  <2>3. /\ after.stage = x.stage /\ after.request = x.request /\ after.package = x.package
        /\ after.plan = x.plan /\ after.content = x.content /\ after.loading = x.loading
    BY <2>2 DEF RunFields
  <2>4. Preparation(after)
    BY <1>1, <1>2, <1>4, <2>2, <2>3 DEF Preparation, x
  <2>5. Prepared'
    BY <1>1, <1>2, <2>1, <2>3, <2>4, KnowledgeSame, PreparedStep DEF x
  <2>6. after.package = NoPackage /\ RunGood(r, after)
    BY <1>1, <1>2, <2>3 DEF RunGood, Succeeded, x
  <2>7. Publication'
    BY <1>2, <2>1, <2>2, <2>3, <2>6, EarlyStep DEF Early, x
  <2>8. QED
    BY <2>5, <2>7
<1>5. QED
  BY <1>3, <1>4, WalkComesTo

-----------------------------------------------------------------------------
\* The theorems.

IInv == Publication /\ Prepared

\* At first only what every recipe needs has been loaded, and nobody has asked.
LEMMA PreparedInit ==
  ASSUME Init
  PROVE  Prepared
<1>1. EagerTypes \subseteq EntityTypes
  BY DEF EagerTypes, EntityTypes
<1>2. held = [type \in EntityTypes |-> IF type \in EagerTypes THEN 1 ELSE 0] /\ covered = EagerTypes
  BY DEF Init
<1>3. KnowledgeOK
  BY <1>1, <1>2 DEF Init, KnowledgeOK
<1>4. NewRun.stage = "idle" /\ NewRun.loading = "none"
  BY DEF NewRun
<1>5. QED
  BY <1>3, <1>4 DEF Init, Prepared, Preparation

\* Every step keeps the inductive invariant.
LEMMA IInvStep ==
  ASSUME IInv, [Next]_vars
  PROVE  IInv'
<1>1. Publication /\ Prepared /\ RunsOK
  BY DEF IInv, Publication
<1>2. CASE UNCHANGED vars
  <2>1. UNCHANGED <<knowledge, run>> /\ UNCHANGED storage /\ UNCHANGED knowledge
    BY <1>2 DEF vars
  <2>2. Prepared'
    BY <1>1, <2>1, BecomeAvailableKeepsPrepared
  <2>3. Publication'
    <3>1. /\ repository' = repository /\ sharing' = sharing /\ outbox' = outbox /\ keys' = keys
          /\ posts' = posts /\ run' = run
      BY <1>2 DEF vars, knowledge, storage
    <3>2. \A r \in Runs : RunGood(r, run[r])'
      BY <1>1, <3>1, SafeStays DEF Publication, RunGood, Made
    <3>3. \A r \in Runs : RunStored(r, run[r])'
      BY <1>1, <3>1 DEF Publication, RunStored, Store, Succeeded
    <3>4. \A s \in Stores : StoreGood(s)'
      BY <1>1, <3>1 DEF Publication, StoreGood, Store
    <3>5. StoresOK' /\ RunsOK'
      BY <1>1, <3>1 DEF Publication, StoresOK, RunsOK
    <3>6. ~sharing' => \A r \in Runs : Alone(r, run[r], outbox[r], keys[r], posts[r])'
      BY <1>1, <3>1 DEF Publication, Alone, Succeeded
    <3>7. QED
      BY <3>2, <3>3, <3>4, <3>5, <3>6 DEF Publication
  <2>4. QED
    BY <2>2, <2>3 DEF IInv
<1>3. ASSUME NEW r \in Runs, Ask(r) PROVE IInv'
  BY <1>1, <1>3, AskKeeps, AskKeepsPrepared DEF IInv
<1>4. ASSUME NEW r \in Runs, StartLoad(r) PROVE IInv'
  BY <1>1, <1>4, StartLoadKeeps, StartLoadKeepsPrepared DEF IInv
<1>5. ASSUME NEW r \in Runs, FinishLoad(r) PROVE IInv'
  BY <1>1, <1>5, FinishLoadKeeps, FinishLoadKeepsPrepared DEF IInv
<1>6. ASSUME NEW r \in Runs, LookUpRoot(r) PROVE IInv'
  BY <1>1, <1>6, LookUpRootKeeps, LookUpRootKeepsPrepared DEF IInv
<1>7. ASSUME NEW r \in Runs, Walk(r) PROVE IInv'
  BY <1>1, <1>7, WalkKeeps DEF IInv
<1>8. ASSUME NEW r \in Runs, Generate(r) PROVE IInv'
  BY <1>1, <1>8, GenerateKeeps, LaterKeepsPrepared DEF IInv
<1>9. ASSUME NEW r \in Runs, HandOff(r) PROVE IInv'
  BY <1>1, <1>9, HandOffKeeps, LaterKeepsPrepared DEF IInv
<1>10. ASSUME NEW r \in Runs, Enqueue(r) PROVE IInv'
  BY <1>1, <1>10, EnqueueKeeps, LaterKeepsPrepared DEF IInv
<1>11. ASSUME NEW r \in Runs, ClaimNext(r) PROVE IInv'
  BY <1>1, <1>11, ClaimNextKeeps, LaterKeepsPrepared DEF IInv
<1>12. ASSUME NEW r \in Runs, Publish(r) PROVE IInv'
  BY <1>1, <1>12, PublishKeeps, LaterKeepsPrepared DEF IInv
<1>13. ASSUME NEW s \in Stores, BecomeAvailable(s) PROVE IInv'
  <2>1. UNCHANGED <<knowledge, run>>
    BY <1>13 DEF BecomeAvailable
  <2>2. QED
    BY <1>1, <1>13, <2>1, BecomeAvailableKeeps, BecomeAvailableKeepsPrepared DEF IInv
<1>14. QED
  BY <1>2, <1>3, <1>4, <1>5, <1>6, <1>7, <1>8, <1>9, <1>10, <1>11, <1>12, <1>13 DEF Next

\* Every state of the pipeline has the inductive invariant.
THEOREM Invariant == Spec => []IInv
<1>1. Init => IInv
  BY PublicationInit, PreparedInit DEF IInv
<1>2. IInv /\ [Next]_vars => IInv'
  BY IInvStep
<1>3. QED
  BY <1>1, <1>2, PTL DEF Spec

\* PostsAreEarned for any number of runs, requests, contents and deliveries: what enters an
\* outbox or is published was asked for by a run whose prompt was clean, whose text passed
\* validation and whose review approved it, and no handoff is published twice.
THEOREM PublishedOnlyWhatWasEarned == Spec => []PostsAreEarned
<1>1. IInv => PostsAreEarned
  BY PublicationEarns DEF IInv
<1>2. QED
  BY <1>1, Invariant, PTL

\* SuccessIsEnqueued: no run reports success with its handoff missing from the outbox, and a
\* run that is alone and not scheduled has published it.
THEOREM SuccessMeansEnqueued == Spec => []SuccessIsEnqueued
<1>1. IInv => SuccessIsEnqueued
  BY PublicationSucceeds DEF IInv
<1>2. QED
  BY <1>1, Invariant, PTL

\* ContextIsComplete for every repository and node limit: whatever other runs load between two
\* steps of a walk, a plan says what the repository holds, or warns.
THEOREM PlansTellWhatIsHeld == Spec => []ContextIsComplete
<1>1. IInv => ContextIsComplete
  BY DEF IInv, Prepared, ContextIsComplete, ContextTold
<1>2. QED
  BY <1>1, Invariant, PTL

=============================================================================
