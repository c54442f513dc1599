---------------------------- MODULE ConsoleProofs ----------------------------
(***************************************************************************)
(* Safety of Console for every value of its constants: a configuration of  *)
(* a publisher that was saved stays in effect; whatever is in the queue    *)
(* was asked for by someone who may; a publication answers what happened;  *)
(* the audit and the notices tell what was answered, and no alarm that is  *)
(* not due; the timeline of the calendar shows nothing that did not happen.*)
(***************************************************************************)
EXTENDS Console, TLAPS, WellFoundedInduction, FiniteSetTheorems

-----------------------------------------------------------------------------
\* Folds.  A set of numbers stands for the property that is proved by induction.

\* What holds of 0 and of the successor of every number it holds of holds of all numbers.
LEMMA Inductive ==
  ASSUME NEW S, 0 \in S, \A k \in Nat : k \in S => k + 1 \in S
  PROVE  Nat \subseteq S
<1>1. SUFFICES ASSUME Nat \ S # {} PROVE FALSE
  OBVIOUS
<1>2. PICK x \in Nat \ S : \A y \in Nat \ S : ~(<<y, x>> \in OpToRel(<, Nat))
  BY <1>1, NatLessThanWellFounded, WFMin
<1>3. x # 0 /\ x - 1 \in Nat /\ (x - 1) + 1 = x
  OBVIOUS
<1>4. x - 1 \notin S
  BY <1>3
<1>5. <<x - 1, x>> \in OpToRel(<, Nat)
  BY <1>3 DEF OpToRel
<1>6. QED
  BY <1>2, <1>3, <1>4, <1>5

\* The greatest of some numbers.
LEMMA MaxIs ==
  ASSUME NEW s \in SUBSET Nat, NEW m \in s, \A y \in s : m >= y
  PROVE  Max(s) = m
<1>1. \A x \in s : (\A y \in s : x >= y) => x = m
  OBVIOUS
<1>2. Max(s) \in s /\ \A y \in s : Max(s) >= y
  BY Zenon DEF Max
<1>3. QED
  BY <1>1, <1>2

\* There is a greatest among the first n.
LEMMA MaxIn ==
  ASSUME NEW n \in Nat, NEW s \in SUBSET (1..n), s # {}
  PROVE  Max(s) \in s
<1> DEFINE Good == {k \in Nat : \A u \in SUBSET (1..k) : u # {} => Max(u) \in u}
<1>1. 0 \in Good
  <2>1. 1..0 = {}
    OBVIOUS
  <2>2. QED
    BY <2>1
<1>2. ASSUME NEW k \in Nat, k \in Good PROVE k + 1 \in Good
  <2>1. SUFFICES ASSUME NEW u \in SUBSET (1..(k + 1)), u # {} PROVE Max(u) \in u
    OBVIOUS
  <2>2. CASE k + 1 \in u
    BY <2>2, MaxIs
  <2>3. CASE k + 1 \notin u
    <3>1. u \in SUBSET (1..k)
      BY <2>3
    <3>2. QED
      BY <1>2, <2>1, <3>1
  <2>4. QED
    BY <2>2, <2>3
<1>3. n \in Good
  <2>1. 0 \in Good /\ \A k \in Nat : k \in Good => k + 1 \in Good
    BY <1>1, <1>2
  <2> HIDE DEF Good
  <2>2. QED
    BY <2>1, Inductive
<1>4. QED
  BY <1>3

\* The function by which a fold is computed, for steps that stay in a set.
Folding(g, base, step, seq, n) ==
  g = [s \in SUBSET (1..n) |->
         IF s = {} THEN base ELSE step[<<g[s \ {Max(s)}], seq[Max(s)]>>]]

\* There is one, and its values are in the set.
LEMMA FoldExists ==
  ASSUME NEW T, NEW E, NEW base \in T, NEW step \in [T \X E -> T], NEW seq \in Seq(E)
  PROVE  \E g \in [SUBSET (1..Len(seq)) -> T] : Folding(g, base, step, seq, Len(seq))
<1> DEFINE Found(k) == \E g \in [SUBSET (1..k) -> T] : Folding(g, base, step, seq, k)
           Have == {k \in Nat : k <= Len(seq) => Found(k)}
<1> HIDE DEF Found
<1>1. 0 \in Have
  <2> DEFINE g == [s \in SUBSET (1..0) |-> base]
  <2>1. SUBSET (1..0) = {{}}
    OBVIOUS
  <2>2. g \in [SUBSET (1..0) -> T] /\ Folding(g, base, step, seq, 0)
    BY <2>1 DEF Folding
  <2> HIDE DEF g
  <2>3. Found(0)
    BY <2>2 DEF Found
  <2>4. QED
    BY <2>3
<1>2. ASSUME NEW k \in Nat, k \in Have PROVE k + 1 \in Have
  <2>1. SUFFICES ASSUME k + 1 <= Len(seq) PROVE Found(k + 1)
    OBVIOUS
  <2>7. Found(k)
    BY <1>2, <2>1
  <2>2. PICK g \in [SUBSET (1..k) -> T] : Folding(g, base, step, seq, k)
    BY <2>7 DEF Found
  <2> DEFINE h == [s \in SUBSET (1..(k + 1)) |->
                     IF k + 1 \in s THEN step[<<g[s \ {k + 1}], seq[k + 1]>>] ELSE g[s]]
             Then(s) == IF s = {} THEN base ELSE step[<<h[s \ {Max(s)}], seq[Max(s)]>>]
  <2>3. ASSUME NEW s \in SUBSET (1..(k + 1)) PROVE h[s] = Then(s) /\ h[s] \in T
    <3>1. CASE k + 1 \in s
      <4>1. Max(s) = k + 1
        BY <3>1, MaxIs
      <4>2. s \ {k + 1} \in SUBSET (1..(k + 1)) /\ k + 1 \notin s \ {k + 1}
        OBVIOUS
      <4>3. h[s \ {k + 1}] = g[s \ {k + 1}] /\ h[s] = step[<<g[s \ {k + 1}], seq[k + 1]>>]
        BY <3>1, <4>2
      <4>4. s \ {k + 1} \in SUBSET (1..k) /\ seq[k + 1] \in E
        BY <2>1
      <4>5. <<g[s \ {k + 1}], seq[k + 1]>> \in T \X E
        BY <4>4
      <4> HIDE DEF h
      <4>6. QED
        BY <3>1, <4>1, <4>3, <4>5
    <3>2. CASE k + 1 \notin s
      <4>1. s \in SUBSET (1..k)
        BY <3>2
      <4>2. s \ {Max(s)} \in SUBSET (1..(k + 1))
        OBVIOUS
      <4>3. h[s] = g[s] /\ h[s \ {Max(s)}] = g[s \ {Max(s)}]
        BY <3>2, <4>1, <4>2
      <4>4. g[s] = IF s = {} THEN base ELSE step[<<g[s \ {Max(s)}], seq[Max(s)]>>]
        BY <2>2, <4>1 DEF Folding
      <4> HIDE DEF h
      <4>5. QED
        BY <4>1, <4>3, <4>4
    <3>3. QED
      BY <3>1, <3>2
  <2>4. h = [s \in SUBSET (1..(k + 1)) |-> Then(s)] /\ h \in [SUBSET (1..(k + 1)) -> T]
    <3> HIDE DEF Then
    <3>1. QED
      BY <2>3
  <2>5. Folding(h, base, step, seq, k + 1)
    BY <2>4 DEF Folding
  <2> HIDE DEF h
  <2>6. QED
    BY <2>4, <2>5 DEF Found
<1>3. Len(seq) \in Have
  <2>1. 0 \in Have /\ \A k \in Nat : k \in Have => k + 1 \in Have
    BY <1>1, <1>2
  <2> HIDE DEF Have
  <2>2. QED
    BY <2>1, Inductive
<1>4. Found(Len(seq))
  BY <1>3
<1>5. QED
  BY <1>4 DEF Found

\* What holds of nothing and is kept by every step holds of the whole.
LEMMA FoldStays ==
  ASSUME NEW T, NEW n \in Nat, NEW i, i[{}] \in T,
         \A s \in SUBSET (1..n) : s # {} /\ i[s \ {Max(s)}] \in T => i[s] \in T
  PROVE  i[1..n] \in T
<1> DEFINE Good == {k \in Nat : k <= n => i[1..k] \in T}
<1>1. 0 \in Good
  <2>1. 1..0 = {}
    OBVIOUS
  <2>2. QED
    BY <2>1
<1>2. ASSUME NEW k \in Nat, k \in Good PROVE k + 1 \in Good
  <2>1. SUFFICES ASSUME k + 1 <= n PROVE i[1..(k + 1)] \in T
    OBVIOUS
  <2>2. i[1..k] \in T
    BY <1>2, <2>1
  <2>3. 1..(k + 1) \in SUBSET (1..n) /\ 1..(k + 1) # {}
    BY <2>1
  <2>4. (1..(k + 1)) \ {k + 1} = 1..k
    OBVIOUS
  <2>5. k + 1 \in 1..(k + 1) /\ (\A y \in 1..(k + 1) : k + 1 >= y) /\ 1..(k + 1) \in SUBSET Nat
    OBVIOUS
  <2>6. Max(1..(k + 1)) = k + 1
    BY <2>5, MaxIs
  <2>7. QED
    BY <2>2, <2>3, <2>4, <2>6
<1>3. n \in Good
  <2>1. 0 \in Good /\ \A k \in Nat : k \in Good => k + 1 \in Good
    BY <1>1, <1>2
  <2> HIDE DEF Good
  <2>2. QED
    BY <2>1, Inductive
<1>4. QED
  BY <1>3

\* A list without repetitions.
Simple(s) == s \in Seq(ToSet(s)) /\ IsInjective(s)

\* A list is one of its members.
LEMMA ListOfMembers ==
  ASSUME NEW S, NEW s \in Seq(S)
  PROVE  s \in Seq(ToSet(s)) /\ ToSet(s) \subseteq S
<1>1. DOMAIN s = 1..Len(s) /\ Len(s) \in Nat /\ s = [k \in 1..Len(s) |-> s[k]]
  OBVIOUS
<1>2. \A k \in 1..Len(s) : s[k] \in ToSet(s) /\ s[k] \in S
  BY <1>1 DEF ToSet
<1>3. s \in Seq(ToSet(s))
  BY <1>1, <1>2
<1>4. QED
  BY <1>1, <1>2, <1>3 DEF ToSet

\* A list with one more member.
LEMMA SimpleAppend ==
  ASSUME NEW S, NEW kept \in Seq(S), IsInjective(kept), NEW id \in S, id \notin ToSet(kept)
  PROVE  Append(kept, id) \in Seq(S) /\ IsInjective(Append(kept, id))
<1>1. DOMAIN kept = 1..Len(kept)
  OBVIOUS
<1>2. \A i \in 1..Len(kept) : kept[i] # id
  BY <1>1 DEF ToSet
<1>3. QED
  BY <1>2 DEF IsInjective

\* A list from which repetitions are dropped has none.
LEMMA UniqueIsSimple ==
  ASSUME NEW ids, ids \in Seq(ToSet(ids))
  PROVE  Simple(Unique(ids)) /\ ToSet(Unique(ids)) \subseteq ToSet(ids)
<1> DEFINE S == ToSet(ids)
           n == Len(ids)
           T == {kept \in Seq(S) : IsInjective(kept)}
           Step(kept, id) == IF id = "" \/ id \in ToSet(kept) THEN kept ELSE Append(kept, id)
           step == [x \in T \X S |-> Step(x[1], x[2])]
           iter[s \in SUBSET DOMAIN ids] ==
             IF s = {} THEN << >> ELSE Step(iter[s \ {Max(s)}], ids[Max(s)])
<1>1. Unique(ids) = iter[DOMAIN ids]
  BY DEF Unique, FoldLeft, MapThenFoldSet
<1>2. DOMAIN ids = 1..n /\ n \in Nat /\ ids \in Seq(S)
  OBVIOUS
<1>3. << >> \in T
  <2>1. << >> \in Seq(S) /\ DOMAIN << >> = {}
    OBVIOUS
  <2>2. IsInjective(<< >>)
    BY <2>1 DEF IsInjective
  <2>3. QED
    BY <2>1, <2>2
<1>4. ASSUME NEW kept \in T, NEW id \in S PROVE Step(kept, id) \in T
  BY <1>4, SimpleAppend
<1> HIDE DEF T, Step, S, n
<1>5. step \in [T \X S -> T]
  BY <1>4
<1> HIDE DEF step
<1>6. PICK g \in [SUBSET (1..n) -> T] : Folding(g, << >>, step, ids, n)
  BY <1>2, <1>3, <1>5, FoldExists DEF n
<1>7. ASSUME NEW s \in SUBSET (1..n), s # {}
      PROVE  /\ ids[Max(s)] \in S
             /\ \A kept \in T : step[<<kept, ids[Max(s)]>>] = Step(kept, ids[Max(s)])
  <2>1. Max(s) \in 1..n
    BY <1>2, <1>7, MaxIn
  <2>2. ids[Max(s)] \in S
    BY <1>2, <2>1
  <2>3. QED
    BY <2>2 DEF step
<1>8. g = [s \in SUBSET (1..n) |->
             IF s = {} THEN << >> ELSE Step(g[s \ {Max(s)}], ids[Max(s)])]
  BY <1>6, <1>7 DEF Folding
<1>9. iter = [s \in SUBSET (1..n) |->
             IF s = {} THEN << >> ELSE Step(iter[s \ {Max(s)}], ids[Max(s)])]
  BY <1>2, <1>8, Zenon
<1> HIDE DEF iter
<1>10. iter[{}] \in T
  BY <1>3, <1>9
<1>11. ASSUME NEW s \in SUBSET (1..n), s # {}, iter[s \ {Max(s)}] \in T PROVE iter[s] \in T
  BY <1>4, <1>7, <1>9, <1>11
<1>12. iter[1..n] \in T
  BY <1>2, <1>10, <1>11, FoldStays
<1>13. QED
  BY <1>1, <1>2, <1>12, ListOfMembers DEF Simple, T, S

-----------------------------------------------------------------------------
\* The overlay and the loaders.

\* What is saved for a provider concerns its own fields, and no secret is a placeholder.
SoundOverlay(over) ==
  /\ over \in [Providers -> [Vars -> Values]]
  /\ \A p \in Providers, v \in Vars :
       /\ v \notin FieldsOf(p) => over[p][v] = "none"
       /\ v \in Secrets => over[p][v] # "masked"

SoundBase(base) == base \in [Vars -> Values \ {"masked"}]

\* The providers and their fields, which have none in common.
LEMMA FieldsApart ==
  /\ Providers = {"wordpress", "ghost"}
  /\ FieldsOf("wordpress") = {"WORDPRESS_URL", "WORDPRESS_USERNAME", "WORDPRESS_APP_PASSWORD",
                              "WORDPRESS_REQUEST_TIMEOUT_MS"}
  /\ FieldsOf("ghost") = {"GHOST_URL", "GHOST_ADMIN_API_KEY", "GHOST_REQUEST_TIMEOUT_MS"}
  /\ Vars = FieldsOf("wordpress") \cup FieldsOf("ghost") \cup {"WORDPRESS_BASE_URL"}
<1>1. Providers = {"wordpress", "ghost"}
  BY DEF Providers, Requirements
<1>2. /\ FieldsOf("wordpress") = {"WORDPRESS_URL", "WORDPRESS_USERNAME", "WORDPRESS_APP_PASSWORD",
                                  "WORDPRESS_REQUEST_TIMEOUT_MS"}
      /\ FieldsOf("ghost") = {"GHOST_URL", "GHOST_ADMIN_API_KEY", "GHOST_REQUEST_TIMEOUT_MS"}
  BY DEF FieldsOf, Requirements
<1>3. DEFINE fields == UNION {FieldsOf(p) : p \in Providers}
<1>4. fields = FieldsOf("wordpress") \cup FieldsOf("ghost")
  BY <1>1
<1>5. Vars = fields \cup {"WORDPRESS_BASE_URL"}
  BY Zenon DEF Vars
<1> HIDE DEF fields
<1>6. QED
  BY <1>1, <1>2, <1>4, <1>5

\* A provider reads the environment at its own fields, and at the older name of an address.
LEMMA LoadersRead ==
  ASSUME NEW p \in Providers, NEW e, NEW f,
         \A v \in FieldsOf(p) \cup {"WORDPRESS_BASE_URL"} : e[v] = f[v]
  PROVE  Enabled(p, e) <=> Enabled(p, f)
<1>1. CASE p = "wordpress"
  <2>1. /\ e["WORDPRESS_URL"] = f["WORDPRESS_URL"]
        /\ e["WORDPRESS_BASE_URL"] = f["WORDPRESS_BASE_URL"]
        /\ e["WORDPRESS_USERNAME"] = f["WORDPRESS_USERNAME"]
        /\ e["WORDPRESS_APP_PASSWORD"] = f["WORDPRESS_APP_PASSWORD"]
        /\ e["WORDPRESS_REQUEST_TIMEOUT_MS"] = f["WORDPRESS_REQUEST_TIMEOUT_MS"]
    BY <1>1, FieldsApart
  <2>2. LoadsWordPress(e) <=> LoadsWordPress(f)
    BY <2>1 DEF LoadsWordPress, Or
  <2>3. QED
    BY <1>1, <2>2 DEF Enabled
<1>2. CASE p = "ghost"
  <2>1. /\ e["GHOST_URL"] = f["GHOST_URL"]
        /\ e["GHOST_ADMIN_API_KEY"] = f["GHOST_ADMIN_API_KEY"]
        /\ e["GHOST_REQUEST_TIMEOUT_MS"] = f["GHOST_REQUEST_TIMEOUT_MS"]
    BY <1>2, FieldsApart
  <2>2. LoadsGhost(e) <=> LoadsGhost(f)
    BY <2>1 DEF LoadsGhost
  <2>3. QED
    BY <1>2, <2>2 DEF Enabled
<1>3. QED
  BY <1>1, <1>2, FieldsApart

\* What is in effect at a field of a provider: what is saved for it, or the environment.
LEMMA InEffect ==
  ASSUME NEW base, NEW over, SoundOverlay(over), NEW v \in Vars
  PROVE  /\ \A p \in Providers : v \in FieldsOf(p) =>
              Merged(base, over)[v] = Or(over[p][v], base[v])
         /\ v = "WORDPRESS_BASE_URL" => Merged(base, over)[v] = base[v]
  BY FieldsApart DEF SoundOverlay, Merged, Or

\* What is in effect, what a form is filled in with, and an overlay in which nothing is saved.
LEMMA ConfigTypes ==
  ASSUME NEW base, NEW over, SoundOverlay(over), SoundBase(base)
  PROVE  /\ Merged(base, over) \in [Vars -> Values]
         /\ \A p \in Providers : FormInput(p, Merged(base, over)) \in [FieldsOf(p) -> Values]
         /\ SoundOverlay(NoOverrides)
<1>1. Merged(base, over) \in [Vars -> Values]
  BY FieldsApart DEF SoundOverlay, SoundBase, Merged, Or
<1>2. ASSUME NEW env \in [Vars -> Values], NEW p \in Providers
      PROVE  /\ FieldValues(p, env) \in [FieldsOf(p) -> Values]
             /\ FormInput(p, env) \in [FieldsOf(p) -> Values]
  <2>1. FieldsOf(p) \subseteq Vars /\ "WORDPRESS_BASE_URL" \in Vars
    BY FieldsApart
  <2>2. FieldValues(p, env) \in [FieldsOf(p) -> Values]
    BY <2>1 DEF FieldValues, Or
  <2>3. ASSUME NEW v \in FieldsOf(p)
        PROVE  FieldShown(v, FieldValues(p, env)[v]) \in Values \cup {"not set"}
    BY <2>2 DEF FieldShown, Values
  <2>4. ConfigShown(p, env).fields =
          [v \in FieldsOf(p) |-> FieldShown(v, FieldValues(p, env)[v])]
    BY DEF ConfigShown
  <2>5. FormInput(p, env) \in [FieldsOf(p) -> Values]
    BY <2>3, <2>4 DEF FormInput, Values
  <2>6. QED
    BY <2>2, <2>5
<1>3. SoundOverlay(NoOverrides)
  <2>1. NoVars \in [Vars -> Values] /\ \A v \in Vars : NoVars[v] = "none"
    BY DEF NoVars, Values
  <2>2. QED
    BY <2>1 DEF SoundOverlay, NoOverrides
<1>4. QED
  BY <1>1, <1>2, <1>3

\* What saving makes of the overlay.
LEMMA SavedFields ==
  ASSUME NEW base, NEW over, SoundOverlay(over), SoundBase(base),
         NEW p \in Providers, NEW input \in [FieldsOf(p) -> Values],
         NEW env, env = Merged(base, over),
         NEW saved, saved = MergeUpdate(p, over, env, input)
  PROVE  /\ SoundOverlay(saved)
         /\ \A q \in Providers \ {p} : saved[q] = over[q]
         /\ \A v \in FieldsOf(p) :
              saved[p][v] = IF KeepsExisting(v, input[v])
                            THEN Or(over[p][v], FieldValues(p, env)[v]) ELSE input[v]
<1>1. DOMAIN over = Providers
  BY DEF SoundOverlay
<1>2. \A q \in Providers \ {p} : saved[q] = over[q]
  BY <1>1 DEF MergeUpdate
<1>3. DOMAIN saved = Providers
  BY <1>1 DEF MergeUpdate
<1>4. \A v \in Vars :
        saved[p][v] = IF v \in FieldsOf(p) /\ ~KeepsExisting(v, input[v]) THEN input[v]
                      ELSE Or(over[p][v], IF v \in FieldsOf(p) THEN FieldValues(p, env)[v]
                                          ELSE "none")
  BY <1>1 DEF MergeUpdate
<1>5. FieldsOf(p) \subseteq Vars
  BY FieldsApart
<1>6. ASSUME NEW v \in Vars, v \notin FieldsOf(p) PROVE saved[p][v] = "none"
  BY <1>4, <1>6 DEF SoundOverlay, Or
<1>7. ASSUME NEW v \in Vars, v \in Secrets PROVE saved[p][v] # "masked"
  <2>1. CASE v \in FieldsOf(p)
    <3>1. v # "WORDPRESS_URL"
      BY <1>7 DEF Secrets
    <3>2. FieldValues(p, env)[v] = env[v]
      BY <2>1, <3>1 DEF FieldValues
    <3>3. env[v] # "masked"
      BY <1>7, <2>1, InEffect DEF SoundOverlay, SoundBase, Or
    <3>4. QED
      BY <1>4, <1>7, <2>1, <3>2, <3>3 DEF SoundOverlay, KeepsExisting, Or
  <2>2. CASE v \notin FieldsOf(p)
    BY <1>6, <2>2
  <2>3. QED
    BY <2>1, <2>2
<1>8. SoundOverlay(saved)
  <2>1. saved[p] \in [Vars -> Values]
    <3>1. DOMAIN over = Providers /\ over[p] \in [Vars -> Values]
      BY DEF SoundOverlay
    <3>2. env \in [Vars -> Values]
      BY ConfigTypes
    <3>3. FieldValues(p, env) \in [FieldsOf(p) -> Values]
      BY <1>5, <3>2, FieldsApart DEF FieldValues, Or
    <3>4. \A v \in Vars : saved[p][v] \in Values
      BY <1>4, <3>1, <3>3 DEF Or, Values
    <3>5. saved[p] = [v \in Vars |-> saved[p][v]]
      BY <3>1 DEF MergeUpdate
    <3>6. QED
      BY <3>4, <3>5
  <2>2. saved \in [Providers -> [Vars -> Values]]
    <3>1. saved = [over EXCEPT ![p] = saved[p]]
      BY <1>1 DEF MergeUpdate
    <3>2. QED
      BY <2>1, <3>1 DEF SoundOverlay
  <2>3. QED
    BY <1>2, <1>6, <1>7, <2>2 DEF SoundOverlay
<1>9. QED
  BY <1>2, <1>4, <1>5, <1>8

\* What validation looked at is what is then in effect.
LEMMA SavedLoads ==
  ASSUME NEW base, NEW over, SoundOverlay(over), SoundBase(base),
         NEW p \in Providers, NEW input \in [FieldsOf(p) -> Values],
         NEW env, env = Merged(base, over),
         UpdateIsValid(p, env, input),
         NEW saved, saved = MergeUpdate(p, over, env, input)
  PROVE  Enabled(p, Merged(base, saved))
<1>1. /\ SoundOverlay(saved)
      /\ \A v \in FieldsOf(p) :
           saved[p][v] = IF KeepsExisting(v, input[v])
                         THEN Or(over[p][v], FieldValues(p, env)[v]) ELSE input[v]
  BY SavedFields
<1>2. Enabled(p, Preview(p, env, input))
  BY DEF UpdateIsValid, Valid
<1>3. DEFINE new == Merged(base, saved)
             seen == Preview(p, env, input)
<1>4. \A v \in FieldsOf(p) :
        /\ env[v] = Or(over[p][v], base[v])
        /\ new[v] = Or(saved[p][v], base[v])
  BY <1>1, InEffect, FieldsApart
<1>5. ASSUME NEW v \in FieldsOf(p), v # "WORDPRESS_URL" PROVE new[v] = seen[v]
  <2>1. FieldValues(p, env)[v] = env[v] /\ v \in Vars
    BY <1>5, FieldsApart DEF FieldValues
  <2>2. seen[v] = IF KeepsExisting(v, input[v]) THEN env[v] ELSE input[v]
    BY <1>5, <2>1, FieldsApart DEF Preview, Or
  <2>3. CASE KeepsExisting(v, input[v])
    BY <1>1, <1>4, <2>1, <2>2, <2>3 DEF Or
  <2>4. CASE ~KeepsExisting(v, input[v])
    <3>1. input[v] # "none"
      BY <2>4 DEF KeepsExisting
    <3>2. QED
      BY <1>1, <1>4, <2>2, <2>4, <3>1 DEF Or
  <2>5. QED
    BY <2>3, <2>4
<1>6. CASE p = "ghost"
  BY <1>2, <1>5, <1>6, FieldsApart DEF Enabled, LoadsGhost
<1>7. CASE p = "wordpress"
  <2>1. /\ env["WORDPRESS_BASE_URL"] = base["WORDPRESS_BASE_URL"]
        /\ new["WORDPRESS_BASE_URL"] = base["WORDPRESS_BASE_URL"]
    BY <1>1, InEffect, FieldsApart
  <2>2. FieldValues(p, env)["WORDPRESS_URL"] =
          Or(env["WORDPRESS_URL"], base["WORDPRESS_BASE_URL"])
    BY <1>7, <2>1, FieldsApart DEF FieldValues
  <2>3. Or(seen["WORDPRESS_URL"], seen["WORDPRESS_BASE_URL"]) =
          IF KeepsExisting("WORDPRESS_URL", input["WORDPRESS_URL"])
          THEN Or(env["WORDPRESS_URL"], base["WORDPRESS_BASE_URL"])
          ELSE input["WORDPRESS_URL"]
    BY <1>7, <2>1, <2>2, FieldsApart DEF Preview, Or, KeepsExisting
  <2>4. Or(new["WORDPRESS_URL"], new["WORDPRESS_BASE_URL"]) =
          Or(seen["WORDPRESS_URL"], seen["WORDPRESS_BASE_URL"])
    BY <1>1, <1>4, <1>7, <2>1, <2>2, <2>3, FieldsApart DEF Or, KeepsExisting
  <2>5. QED
    BY <1>2, <1>5, <1>7, <2>4, FieldsApart DEF Enabled, LoadsWordPress
<1>8. QED
  BY <1>6, <1>7, FieldsApart

\* Saving for one provider leaves the other as it is.
LEMMA OthersLoad ==
  ASSUME NEW base, NEW over, SoundOverlay(over), SoundBase(base),
         NEW p \in Providers, NEW input \in [FieldsOf(p) -> Values],
         NEW env, env = Merged(base, over),
         NEW saved, saved = MergeUpdate(p, over, env, input),
         NEW q \in Providers, q # p, Enabled(q, env)
  PROVE  Enabled(q, Merged(base, saved))
<1>1. SoundOverlay(saved) /\ saved[q] = over[q]
  BY SavedFields
<1>2. \A v \in FieldsOf(q) \cup {"WORDPRESS_BASE_URL"} : Merged(base, saved)[v] = env[v]
  BY <1>1, InEffect, FieldsApart
<1>3. QED
  BY <1>2, LoadersRead

\* No secret in effect is a placeholder.
LEMMA SecretsAreReal ==
  ASSUME NEW base, NEW over, SoundOverlay(over), SoundBase(base), NEW v \in Secrets
  PROVE  Merged(base, over)[v] # "masked"
<1>1. v \in Vars /\ \E p \in Providers : v \in FieldsOf(p)
  BY FieldsApart DEF Secrets
<1>2. QED
  BY <1>1, InEffect DEF SoundOverlay, SoundBase, Or

-----------------------------------------------------------------------------
\* Requests, and what a step makes of one.

Codes == {0, 200, 202, 400, 401, 403, 404, 409, 500, 503}

\* A call names assets and publishers in lists, none by the star, and only in bulk several
\* assets.
CallOK(call) ==
  /\ DOMAIN call = DOMAIN Call("none")
  /\ "*" \notin ToSet(call.assets) \cup ToSet(call.publishers)
  /\ call.assets \in Seq(ToSet(call.assets)) /\ call.publishers \in Seq(ToSet(call.publishers))
  /\ call.op # "bulk" => Len(call.assets) <= 1

\* A request that is answered has a code, and the code of one accepted is that of a publication.
Coded(req) ==
  /\ req.code \in Codes
  /\ req.stage \in {"done", "past"} <=> req.code # 0
  /\ req.code = 202 => req.call.op \in Publications

\* An answer has three lists.
AnswerOK(answer) ==
  /\ DOMAIN answer = DOMAIN NoAnswer
  /\ \A list \in DOMAIN NoAnswer : answer[list] \in Seq(ToSet(answer[list]))

\* The fields of a request and of a call are the same from the first to the last.
Whole(req) ==
  /\ DOMAIN req = DOMAIN NoRequest
  /\ CallOK(req.call) /\ Coded(req) /\ AnswerOK(req.answer)

Shaped == DOMAIN request = Requests /\ \A r \in Requests : Whole(request[r])

\* A request that saved a configuration and was told so.
Saved(req) == req.stage = "done" /\ req.code = 200 /\ req.call.op = "configure"

\* Who asked for what is known to the last.
Kept(x, req) ==
  /\ x.call.op = req.call.op /\ x.call.about = req.call.about
  /\ x.call.assets = req.call.assets /\ x.call.publishers = req.call.publishers
  /\ x.by = req.by /\ x.caller = req.caller

\* A call, whatever is filled in.
LEMMA CallFields ==
  ASSUME NEW op
  PROVE  /\ DOMAIN Call(op) = DOMAIN Call("none") /\ Call(op).op = op
         /\ DOMAIN Call("none") = {"op", "assets", "publishers", "when", "input", "about"}
         /\ Call(op).assets = << >> /\ Call(op).publishers = << >>
         /\ CallOK(Call(op))
<1>1. << >> \in Seq(ToSet(<< >>)) /\ Len(<< >>) = 0 /\ ToSet(<< >>) = {}
  BY DEF ToSet
<1>2. Call(op).assets = << >> /\ Call(op).publishers = << >>
  BY DEF Call
<1>3. /\ DOMAIN Call(op) = DOMAIN Call("none") /\ Call(op).op = op
      /\ DOMAIN Call("none") = {"op", "assets", "publishers", "when", "input", "about"}
  BY DEF Call
<1>4. QED
  BY <1>1, <1>2, <1>3 DEF CallOK

\* A request has these fields.
LEMMA RequestFields ==
  /\ DOMAIN NoRequest = {"stage", "call", "by", "caller", "todo", "left", "answer", "code",
                         "scanned", "entries", "state"}
  /\ NoRequest.stage = "idle" /\ NoRequest.call = Call("none") /\ NoRequest.code = 0
  /\ NoRequest.answer = NoAnswer /\ NoRequest.scanned = {} /\ NoRequest.entries = {}
  /\ NoRequest.todo = << >> /\ NoRequest.left = << >>
  /\ DOMAIN NoAnswer = {"accepted", "skipped", "failed"}
  /\ \A list \in DOMAIN NoAnswer : NoAnswer[list] = << >>
  /\ AnswerOK(NoAnswer)
  /\ Whole(NoRequest) /\ ~Saved(NoRequest)
<1>1. /\ DOMAIN NoRequest = {"stage", "call", "by", "caller", "todo", "left", "answer", "code",
                             "scanned", "entries", "state"}
      /\ NoRequest.stage = "idle" /\ NoRequest.call = Call("none") /\ NoRequest.code = 0
      /\ NoRequest.answer = NoAnswer /\ NoRequest.scanned = {} /\ NoRequest.entries = {}
      /\ NoRequest.todo = << >> /\ NoRequest.left = << >>
  BY DEF NoRequest
<1>2. /\ DOMAIN NoAnswer = {"accepted", "skipped", "failed"}
      /\ \A list \in DOMAIN NoAnswer : NoAnswer[list] = << >>
  BY DEF NoAnswer
<1>3. << >> \in Seq(ToSet(<< >>))
  OBVIOUS
<1>4. AnswerOK(NoAnswer)
  BY <1>2, <1>3 DEF AnswerOK
<1>5. Whole(NoRequest)
  BY <1>1, <1>4, CallFields DEF Whole, Coded, Codes
<1>6. QED
  BY <1>1, <1>2, <1>4, <1>5 DEF Saved

\* What is left of a request is one, for the same operation.
LEMMA RemainsFields ==
  ASSUME NEW req, Whole(req), NEW stage, NEW code \in Codes, code # 202,
         stage \in {"done", "past"} <=> code # 0
  PROVE  /\ Whole(Remains(req, stage, code)) /\ Kept(Remains(req, stage, code), req)
         /\ Remains(req, stage, code).stage = stage
         /\ Remains(req, stage, code).code = code
         /\ Remains(req, stage, code).answer = NoAnswer
         /\ Remains(req, stage, code).scanned = {}
         /\ Remains(req, stage, code).entries = {}
<1>1. DOMAIN req.call = {"op", "assets", "publishers", "when", "input", "about"}
  BY CallFields DEF Whole, CallOK
<1>2. DEFINE call == [req.call EXCEPT !.input = << >>]
<1>3. /\ DOMAIN call = DOMAIN Call("none") /\ call.op = req.call.op /\ call.about = req.call.about
      /\ call.assets = req.call.assets /\ call.publishers = req.call.publishers
  BY <1>1, CallFields
<1>4. Remains(req, stage, code) =
        [NoRequest EXCEPT !.stage = stage, !.call = call, !.by = req.by, !.caller = req.caller,
                          !.code = code]
  BY DEF Remains
<1> HIDE DEF call
<1>5. /\ DOMAIN Remains(req, stage, code) = DOMAIN NoRequest
      /\ Remains(req, stage, code).stage = stage
      /\ Remains(req, stage, code).code = code
      /\ Remains(req, stage, code).call = call
      /\ Remains(req, stage, code).by = req.by
      /\ Remains(req, stage, code).caller = req.caller
      /\ Remains(req, stage, code).answer = NoAnswer
      /\ Remains(req, stage, code).scanned = {}
      /\ Remains(req, stage, code).entries = {}
  BY <1>4, RequestFields
<1>6. CallOK(call)
  BY <1>3 DEF Whole, CallOK
<1>7. Whole(Remains(req, stage, code))
  BY <1>5, <1>6, RequestFields DEF Whole, Coded
<1>8. QED
  BY <1>3, <1>5, <1>7 DEF Kept

-----------------------------------------------------------------------------
\* Publications.

\* A publication goes through its pairs.
Publishes(req) ==
  req.call.op \in Publications /\ req.stage \in {"asset", "check", "look", "queue"}

\* What is left of the lists a publication goes through.
PubReq(req) ==
  Publishes(req) =>
    /\ Simple(req.todo) /\ req.todo # << >>
    /\ ToSet(req.todo) \subseteq ToSet(Unique(req.call.assets))
    /\ Simple(req.left) /\ ToSet(req.left) \subseteq ToSet(Unique(req.call.publishers))
    /\ req.stage = "asset" => req.left = Unique(req.call.publishers)
    /\ req.stage # "asset" => req.left # << >>

\* The pairs of a request that are not settled yet.
Rest(req) ==
  CASE req.stage \in {"idle", "admitted"} -> PairsAsked(req)
    [] req.stage = "asset" -> ToSet(req.todo) \X ToSet(Unique(req.call.publishers))
    [] req.stage \in {"check", "look", "queue"} ->
         ({Head(req.todo)} \X ToSet(req.left))
           \cup (ToSet(Tail(req.todo)) \X ToSet(Unique(req.call.publishers)))
    [] OTHER -> {}

\* The rest of a list without repetitions.
LEMMA SimpleTail ==
  ASSUME NEW s, Simple(s), s # << >>
  PROVE  /\ Simple(Tail(s)) /\ ToSet(Tail(s)) = ToSet(s) \ {Head(s)} /\ Head(s) \in ToSet(s)
         /\ Len(s) > 1 <=> Tail(s) # << >>
         /\ ~(Len(s) > 1) => ToSet(Tail(s)) = {}
<1>1. s \in Seq(ToSet(s)) /\ DOMAIN s = 1..Len(s) /\ Len(s) \in Nat /\ Len(s) >= 1
  BY DEF Simple
<1>2. /\ Tail(s) \in Seq(ToSet(s)) /\ Len(Tail(s)) = Len(s) - 1
      /\ \A k \in 1..(Len(s) - 1) : Tail(s)[k] = s[k + 1]
      /\ Head(s) = s[1] /\ DOMAIN Tail(s) = 1..(Len(s) - 1)
  BY <1>1
<1>3. \A i, j \in 1..Len(s) : s[i] = s[j] => i = j
  BY <1>1 DEF Simple, IsInjective
<1>4. ToSet(Tail(s)) = ToSet(s) \ {Head(s)}
  <2>1. ASSUME NEW v \in ToSet(Tail(s)) PROVE v \in ToSet(s) \ {Head(s)}
    <3>1. PICK k \in 1..(Len(s) - 1) : v = Tail(s)[k]
      BY <1>2, <2>1 DEF ToSet
    <3>2. v = s[k + 1] /\ k + 1 \in 1..Len(s) /\ 1 \in 1..Len(s) /\ k + 1 # 1
      BY <1>1, <1>2, <3>1
    <3>3. v # s[1]
      BY <1>3, <3>2
    <3>4. QED
      BY <1>1, <1>2, <3>2, <3>3 DEF ToSet
  <2>2. ASSUME NEW v \in ToSet(s) \ {Head(s)} PROVE v \in ToSet(Tail(s))
    <3>1. PICK k \in 1..Len(s) : v = s[k]
      BY <1>1, <2>2 DEF ToSet
    <3>2. k # 1
      BY <1>2, <2>2, <3>1
    <3>3. k - 1 \in 1..(Len(s) - 1) /\ (k - 1) + 1 = k
      BY <1>1, <3>2
    <3>4. v = Tail(s)[k - 1]
      BY <1>2, <3>1, <3>3
    <3>5. QED
      BY <1>2, <3>3, <3>4 DEF ToSet
  <2>3. QED
    BY <2>1, <2>2
<1>5. IsInjective(Tail(s))
  <2>1. \A k \in 1..(Len(s) - 1) : k + 1 \in 1..Len(s)
    BY <1>1
  <2>2. \A i, j \in 1..(Len(s) - 1) : Tail(s)[i] = Tail(s)[j] => i = j
    BY <1>2, <1>3, <2>1
  <2>3. QED
    BY <1>2, <2>2 DEF IsInjective
<1>6. Simple(Tail(s))
  BY <1>2, <1>5, ListOfMembers DEF Simple
<1>7. Head(s) \in ToSet(s)
  BY <1>1, <1>2 DEF ToSet
<1>8. Len(s) > 1 <=> Tail(s) # << >>
  <2>1. Tail(s) = << >> <=> Len(Tail(s)) = 0
    BY <1>2
  <2>2. QED
    BY <1>1, <1>2, <2>1
<1>9. ~(Len(s) > 1) => ToSet(Tail(s)) = {}
  <2>1. ~(Len(s) > 1) => DOMAIN Tail(s) = {}
    BY <1>1, <1>2
  <2>2. QED
    BY <2>1 DEF ToSet
<1>10. QED
  BY <1>4, <1>6, <1>7, <1>8, <1>9

\* A list with one more member has that member too.
LEMMA AppendedList ==
  ASSUME NEW s, s \in Seq(ToSet(s)), NEW e
  PROVE  /\ Append(s, e) \in Seq(ToSet(Append(s, e)))
         /\ ToSet(Append(s, e)) = ToSet(s) \cup {e}
<1> DEFINE old == ToSet(s)
           more == Append(s, e)
<1>1. DOMAIN s = 1..Len(s) /\ Len(s) \in Nat /\ s \in Seq(old)
  OBVIOUS
<1>2. ToSet(more) = old \cup {e}
  <2>1. /\ DOMAIN more = 1..(Len(s) + 1) /\ more[Len(s) + 1] = e
        /\ \A k \in 1..Len(s) : more[k] = s[k]
    BY <1>1
  <2>2. \A k \in 1..(Len(s) + 1) : k \in 1..Len(s) \/ k = Len(s) + 1
    BY <1>1
  <2> HIDE DEF more
  <2>3. \A k \in 1..Len(s) : k \in 1..(Len(s) + 1)
    BY <1>1
  <2>4. Len(s) + 1 \in 1..(Len(s) + 1)
    BY <1>1
  <2>5. QED
    BY <1>1, <2>1, <2>2, <2>3, <2>4 DEF ToSet
<1> HIDE DEF old
<1>3. s \in Seq(old \cup {e}) /\ e \in old \cup {e}
  BY <1>1
<1>4. more \in Seq(old \cup {e})
  BY <1>3
<1> HIDE DEF more
<1>5. more \in Seq(ToSet(more))
  BY <1>4, ListOfMembers
<1>6. QED
  BY <1>2, <1>5 DEF more, old

\* A publication that goes to its next asset, or is answered, has settled the asset.
LEMMA NextAssetSettles ==
  ASSUME NEW req, Whole(req), PubReq(req), Publishes(req), NEW x, x = NextAsset(req)
  PROVE  /\ Whole(x) /\ Kept(x, req) /\ PubReq(x)
         /\ x.answer = req.answer /\ x.scanned = req.scanned /\ x.entries = req.entries
         /\ Rest(x) = ToSet(Tail(req.todo)) \X ToSet(Unique(req.call.publishers))
         /\ x.stage = "done" => x.code = 202
         /\ x.stage \in {"asset", "done"}
<1>1. DOMAIN req = {"stage", "call", "by", "caller", "todo", "left", "answer", "code",
                    "scanned", "entries", "state"}
  BY RequestFields DEF Whole
<1>2. /\ Simple(req.todo) /\ req.todo # << >>
      /\ ToSet(req.todo) \subseteq ToSet(Unique(req.call.assets))
  BY DEF PubReq
<1>3. /\ Simple(Tail(req.todo)) /\ ToSet(Tail(req.todo)) \subseteq ToSet(req.todo)
      /\ Len(req.todo) > 1 <=> Tail(req.todo) # << >>
      /\ ~(Len(req.todo) > 1) => ToSet(Tail(req.todo)) = {}
  BY <1>2, SimpleTail
<1>4. Simple(Unique(req.call.publishers))
  BY UniqueIsSimple DEF Whole, CallOK
<1>5. CASE Len(req.todo) > 1
  <2>1. x = [req EXCEPT !.stage = "asset", !.todo = Tail(req.todo),
                        !.left = Unique(req.call.publishers)]
    BY <1>5 DEF NextAsset
  <2>2. /\ DOMAIN x = DOMAIN req /\ x.stage = "asset" /\ x.todo = Tail(req.todo)
        /\ x.left = Unique(req.call.publishers) /\ x.call = req.call /\ x.by = req.by
        /\ x.caller = req.caller /\ x.answer = req.answer /\ x.code = req.code
        /\ x.scanned = req.scanned /\ x.entries = req.entries
    BY <1>1, <2>1
  <2>3. req.code = 0
    BY DEF Whole, Coded, Publishes
  <2>4. Whole(x) /\ Kept(x, req)
    BY <2>2, <2>3 DEF Whole, Coded, Kept
  <2>5. PubReq(x)
    BY <1>2, <1>3, <1>4, <1>5, <2>2 DEF PubReq, Publishes
  <2>6. QED
    BY <2>2, <2>4, <2>5 DEF Rest
<1>6. CASE ~(Len(req.todo) > 1)
  <2>1. x = [req EXCEPT !.stage = "done", !.code = 202, !.todo = << >>, !.left = << >>]
    BY <1>6 DEF NextAsset, Answered
  <2>2. /\ DOMAIN x = DOMAIN req /\ x.stage = "done" /\ x.call = req.call /\ x.by = req.by
        /\ x.caller = req.caller /\ x.answer = req.answer /\ x.code = 202
        /\ x.scanned = req.scanned /\ x.entries = req.entries
    BY <1>1, <2>1
  <2>3. Whole(x) /\ Kept(x, req)
    BY <2>2 DEF Whole, Coded, Codes, Kept, Publishes
  <2>4. PubReq(x)
    BY <2>2 DEF PubReq, Publishes
  <2>5. Rest(x) = {}
    BY <2>2 DEF Rest
  <2>6. ToSet(Tail(req.todo)) \X ToSet(Unique(req.call.publishers)) = {}
    BY <1>3, <1>6
  <2>7. QED
    BY <2>2, <2>3, <2>4, <2>5, <2>6
<1>7. QED
  BY <1>5, <1>6

\* A publication that goes to its next pair has settled one.
LEMMA NextPairSettles ==
  ASSUME NEW req, Whole(req), PubReq(req), Publishes(req), req.stage # "asset",
         NEW x, x = NextPair(req)
  PROVE  /\ Whole(x) /\ Kept(x, req) /\ PubReq(x)
         /\ x.answer = req.answer /\ x.scanned = req.scanned /\ x.entries = req.entries
         /\ Rest(x) = Rest(req) \ {Pair(req)} /\ Pair(req) \in Rest(req)
         /\ x.stage = "done" => x.code = 202
         /\ x.stage \in {"asset", "check", "done"}
<1> DEFINE pubs == ToSet(Unique(req.call.publishers))
<1>1. DOMAIN req = {"stage", "call", "by", "caller", "todo", "left", "answer", "code",
                    "scanned", "entries", "state"}
  BY RequestFields DEF Whole
<1>2. /\ Simple(req.todo) /\ req.todo # << >> /\ Simple(req.left) /\ req.left # << >>
      /\ ToSet(req.left) \subseteq pubs
  BY DEF PubReq
<1>3. /\ ToSet(Tail(req.todo)) = ToSet(req.todo) \ {Head(req.todo)}
      /\ Simple(Tail(req.left)) /\ ToSet(Tail(req.left)) = ToSet(req.left) \ {Head(req.left)}
      /\ Head(req.left) \in ToSet(req.left)
      /\ Len(req.left) > 1 <=> Tail(req.left) # << >>
      /\ ~(Len(req.left) > 1) => ToSet(Tail(req.left)) = {}
  BY <1>2, SimpleTail
<1> DEFINE later == ToSet(Tail(req.todo)) \X pubs
<1>4. /\ Rest(req) = ({Head(req.todo)} \X ToSet(req.left)) \cup later
      /\ Pair(req) = <<Head(req.todo), Head(req.left)>>
  BY DEF Rest, Publishes, Pair
<1>5. Rest(req) \ {Pair(req)} = ({Head(req.todo)} \X ToSet(Tail(req.left))) \cup later
  <2>1. Pair(req) \notin later
    BY <1>3, <1>4
  <2>2. ({Head(req.todo)} \X ToSet(req.left)) \ {Pair(req)} =
          {Head(req.todo)} \X ToSet(Tail(req.left))
    BY <1>3, <1>4
  <2> HIDE DEF later
  <2>3. QED
    BY <1>4, <2>1, <2>2
<1>6. Pair(req) \in Rest(req)
  BY <1>3, <1>4
<1>7. CASE Len(req.left) > 1
  <2>1. x = [req EXCEPT !.stage = "check", !.left = Tail(req.left)]
    BY <1>7 DEF NextPair
  <2>2. /\ DOMAIN x = DOMAIN req /\ x.stage = "check" /\ x.todo = req.todo
        /\ x.left = Tail(req.left) /\ x.call = req.call /\ x.by = req.by
        /\ x.caller = req.caller /\ x.answer = req.answer /\ x.code = req.code
        /\ x.scanned = req.scanned /\ x.entries = req.entries
    BY <1>1, <2>1
  <2>3. req.code = 0
    BY DEF Whole, Coded, Publishes
  <2>4. Whole(x) /\ Kept(x, req)
    BY <2>2, <2>3 DEF Whole, Coded, Kept
  <2>5. PubReq(x)
    BY <1>2, <1>3, <1>7, <2>2 DEF PubReq, Publishes
  <2>6. Rest(x) = ({Head(req.todo)} \X ToSet(Tail(req.left))) \cup later
    BY <2>2 DEF Rest
  <2>7. QED
    BY <1>5, <1>6, <2>2, <2>4, <2>5, <2>6
<1>8. CASE ~(Len(req.left) > 1)
  <2>1. x = NextAsset(req)
    BY <1>8 DEF NextPair
  <2>2. {Head(req.todo)} \X ToSet(Tail(req.left)) = {}
    BY <1>3, <1>8
  <2>3. Rest(req) \ {Pair(req)} = later
    BY <1>5, <2>2
  <2>4. QED
    BY <1>6, <2>1, <2>3, NextAssetSettles
<1>9. QED
  BY <1>7, <1>8

\* An outcome that is told.
Noting(answer, list, pair) == [answer EXCEPT ![list] = Append(@, pair)]

\* The same of the request it is told by.
Telling(req, list, pair) == [req EXCEPT !.answer[list] = Append(@, pair)]

\* Telling an outcome changes the answer of a request and nothing else of it.
LEMMA ToldGoesOn ==
  ASSUME NEW req, Whole(req), NEW list \in DOMAIN NoAnswer, NEW pair,
         NEW x, x = Telling(req, list, pair)
  PROVE  /\ Whole(x) /\ Kept(x, req) /\ x.stage = req.stage /\ x.todo = req.todo
         /\ x.left = req.left /\ x.call = req.call /\ x.code = req.code
         /\ x.scanned = req.scanned /\ x.entries = req.entries
         /\ x.answer = Noting(req.answer, list, pair)
         /\ PubReq(req) => PubReq(x)
         /\ Publishes(req) => Publishes(x)
         /\ Rest(x) = Rest(req)
<1>1. DOMAIN req = {"stage", "call", "by", "caller", "todo", "left", "answer", "code",
                    "scanned", "entries", "state"}
  BY RequestFields DEF Whole
<1>2. /\ DOMAIN x = DOMAIN req /\ x.stage = req.stage /\ x.todo = req.todo
      /\ x.left = req.left /\ x.call = req.call /\ x.code = req.code
      /\ x.by = req.by /\ x.caller = req.caller
      /\ x.scanned = req.scanned /\ x.entries = req.entries
      /\ x.answer = Noting(req.answer, list, pair)
  BY <1>1 DEF Telling, Noting
<1>3. AnswerOK(x.answer)
  <2>0. DOMAIN req.answer = DOMAIN NoAnswer
    BY DEF Whole, AnswerOK
  <2>1. req.answer[list] \in Seq(ToSet(req.answer[list]))
    BY DEF Whole, AnswerOK
  <2>3. Append(req.answer[list], pair) \in Seq(ToSet(Append(req.answer[list], pair)))
    BY <2>1, AppendedList
  <2>4. x.answer[list] = Append(req.answer[list], pair)
    BY <1>2, <2>0 DEF Noting
  <2>5. \A other \in DOMAIN NoAnswer \ {list} : x.answer[other] = req.answer[other]
    BY <1>2, <2>0 DEF Noting
  <2>6. DOMAIN x.answer = DOMAIN NoAnswer
    BY <1>2, <2>0 DEF Noting
  <2>7. QED
    BY <2>3, <2>4, <2>5, <2>6 DEF Whole, AnswerOK
<1>4. Whole(x) /\ Kept(x, req)
  BY <1>2, <1>3 DEF Whole, Coded, Kept
<1>5. (PubReq(req) => PubReq(x)) /\ (Publishes(req) => Publishes(x))
  BY <1>2 DEF PubReq, Publishes
<1>6. Rest(x) = Rest(req)
  BY <1>2 DEF Rest, PairsAsked
<1>7. QED
  BY <1>2, <1>4, <1>5, <1>6

-----------------------------------------------------------------------------
\* Lists of events.

\* A list, of whatever.
IsList(s) == s \in Seq(ToSet(s))

\* Lists over a set.
LEMMA ConcatIn ==
  ASSUME NEW S, NEW s \in Seq(S), NEW t \in Seq(S)
  PROVE  s \o t \in Seq(S)
  OBVIOUS

\* The positions of a list.
LEMMA ListDomain ==
  ASSUME NEW S, NEW s \in Seq(S)
  PROVE  DOMAIN s = 1..Len(s) /\ Len(s) \in Nat
  OBVIOUS

\* Lists one after the other are a list.
LEMMA ConcatList ==
  ASSUME NEW s, IsList(s), NEW t, IsList(t)
  PROVE  IsList(s \o t)
<1> DEFINE S == ToSet(s) \cup ToSet(t)
           both == s \o t
<1>1. s \in Seq(ToSet(s)) /\ t \in Seq(ToSet(t))
  BY DEF IsList
<1> DEFINE A == ToSet(s)
           B == ToSet(t)
<1> HIDE DEF A, B
<1>2. s \in Seq(A \cup B) /\ t \in Seq(A \cup B)
  BY <1>1 DEF A, B
<1>3. both \in Seq(A \cup B)
  BY <1>2
<1> HIDE DEF both
<1>4. both \in Seq(ToSet(both))
  BY <1>3, ListOfMembers
<1>5. QED
  BY <1>4 DEF IsList, both

\* A list of one or none.
LEMMA ShortList ==
  /\ IsList(<< >>)
  /\ \A e : IsList(<<e>>)
  /\ \A e, f : IsList(<<e, f>>)
<1>1. << >> \in Seq(ToSet(<< >>))
  OBVIOUS
<1>2. ASSUME NEW e PROVE IsList(<<e>>)
  <2>1. <<e>> \in Seq({e})
    OBVIOUS
  <2>2. QED
    BY <2>1, ListOfMembers DEF IsList
<1>3. ASSUME NEW e, NEW f PROVE IsList(<<e, f>>)
  <2>1. <<e, f>> \in Seq({e, f})
    OBVIOUS
  <2>2. QED
    BY <2>1, ListOfMembers DEF IsList
<1>4. QED
  BY <1>1, <1>2, <1>3 DEF IsList

\* A trail, as far as counting goes.
TrailOK(t) ==
  DOMAIN t = {"events", "notices", "streak"} /\ t.streak \in 0..(AuthFailureThreshold - 1)

\* An event that is recorded leaves the count of failed logins below the threshold.
LEMMA RecordedCounts ==
  ASSUME NEW t, TrailOK(t), NEW c, NEW event
  PROVE  TrailOK(Recorded(t, c, event))
  BY DEF TrailOK, Recorded, StreakAfter, Alarms, AuthFailureThreshold

\* What the guard records of a request is a list.
Guarded ==
  {Plain(type) : type \in {"auth.authenticated", "auth.login_failure", "auth.rbac_denied"}}

\* The guard records a list of such events.
LEMMA GuardLists ==
  ASSUME NEW credential, NEW permission
  PROVE  GuardEvents(credential, permission) \in Seq(Guarded)
<1> DEFINE Times(m) == [i \in 1..m |-> Plain("auth.authenticated")]
<1>0. /\ Plain("auth.authenticated") \in Guarded /\ Plain("auth.login_failure") \in Guarded
      /\ Plain("auth.rbac_denied") \in Guarded
  BY Zenon DEF Guarded
<1> HIDE DEF Guarded
<1>1. \A m \in {0, 1, 2} : Times(m) \in Seq(Guarded)
  <2>1. \A m \in Nat : Times(m) \in Seq(Guarded)
    BY <1>0
  <2>2. QED
    BY <2>1
<1>2. /\ <<Plain("auth.login_failure")>> \in Seq(Guarded)
      /\ <<Plain("auth.rbac_denied")>> \in Seq(Guarded) /\ << >> \in Seq(Guarded)
  BY <1>0
<1> HIDE DEF Times
<1>3. \E m \in {0, 1, 2} :
        \E last \in {<<Plain("auth.login_failure")>>, <<Plain("auth.rbac_denied")>>, << >>} :
          \/ GuardEvents(credential, permission) = Times(m)
          \/ GuardEvents(credential, permission) = Times(m) \o last
  BY Zenon DEF GuardEvents, Times
<1>4. QED
  BY <1>1, <1>2, <1>3, ConcatIn

\* So is what the reads of a page leave.
LEMMA ReadLists ==
  ASSUME NEW at \in DOMAIN PageReads
  PROVE  ReadEvents(at) \in Seq(Guarded)
<1> DEFINE reads == PageReads[at]
           E == ToSet(reads)
           n == Len(reads)
           T == Seq(Guarded)
           Step(events, read) ==
             events \o GuardEvents(DeskCredential(setup.desk, read \in KeyedReads),
                                   Reading[read].permission)
           step == [x \in T \X E |-> Step(x[1], x[2])]
           iter[s \in SUBSET DOMAIN reads] ==
             IF s = {} THEN << >> ELSE Step(iter[s \ {Max(s)}], reads[Max(s)])
<1>1. ReadEvents(at) = iter[DOMAIN reads]
  BY DEF ReadEvents, FoldLeft, MapThenFoldSet
<1> DEFINE Names == {"health", "summary", "recent", "metrics", "queue", "notifications",
                     "publishers", "publisher", "configs", "config", "jobs", "job", "assets",
                     "asset", "composerAssets", "composerAsset", "events", "timeline",
                     "activity", "activityEvent"}
<1>2. reads \in Seq(Names)
  <2>1. reads \in {HomeReads, PublishersReads, ConfigReads, JobsReads, JobReads, AssetsReads,
                   AssetReads, ComposerReads, BulkReads, CalendarReads, ActivityReads,
                   NotificationsReads}
    BY DEF PageReads
  <2>2. HomeReads \in Seq(Names)
    BY DEF HomeReads
  <2>3. /\ PublishersReads \in Seq(Names) /\ ConfigReads \in Seq(Names)
        /\ ComposerReads \in Seq(Names) /\ BulkReads \in Seq(Names)
        /\ CalendarReads \in Seq(Names) /\ ActivityReads \in Seq(Names)
    BY DEF PublishersReads, ConfigReads, ComposerReads, BulkReads, CalendarReads, ActivityReads
  <2>4. /\ JobsReads \in Seq(Names) /\ JobReads \in Seq(Names) /\ AssetsReads \in Seq(Names)
        /\ AssetReads \in Seq(Names) /\ NotificationsReads \in Seq(Names)
    BY DEF JobsReads, JobReads, AssetsReads, AssetReads, NotificationsReads
  <2> HIDE DEF reads, Names
  <2>5. QED
    BY <2>1, <2>2, <2>3, <2>4
<1>3. DOMAIN reads = 1..n /\ n \in Nat /\ reads \in Seq(E)
  BY <1>2, ListOfMembers, ListDomain
<1>4. << >> \in T
  OBVIOUS
<1>5. ASSUME NEW events \in T, NEW read \in E PROVE Step(events, read) \in T
  <2>1. GuardEvents(DeskCredential(setup.desk, read \in KeyedReads),
                    Reading[read].permission) \in T
    BY GuardLists
  <2>2. QED
    BY <2>1
<1> HIDE DEF T, Step, E, n, reads, Names
<1>6. step \in [T \X E -> T]
  BY <1>5
<1> HIDE DEF step
<1>7. PICK g \in [SUBSET (1..n) -> T] : Folding(g, << >>, step, reads, n)
  BY <1>3, <1>4, <1>6, FoldExists DEF n
<1>8. ASSUME NEW s \in SUBSET (1..n), s # {}
      PROVE  /\ reads[Max(s)] \in E
             /\ \A events \in T : step[<<events, reads[Max(s)]>>] = Step(events, reads[Max(s)])
  <2>1. Max(s) \in 1..n
    BY <1>3, <1>8, MaxIn
  <2>2. reads[Max(s)] \in E
    BY <1>3, <2>1
  <2>3. QED
    BY <2>2 DEF step
<1>9. g = [s \in SUBSET (1..n) |->
             IF s = {} THEN << >> ELSE Step(g[s \ {Max(s)}], reads[Max(s)])]
  BY <1>7, <1>8 DEF Folding
<1>10. iter = [s \in SUBSET (1..n) |->
             IF s = {} THEN << >> ELSE Step(iter[s \ {Max(s)}], reads[Max(s)])]
  BY <1>3, <1>9, Zenon
<1> HIDE DEF iter
<1>11. iter[{}] \in T
  BY <1>4, <1>10
<1>12. ASSUME NEW s \in SUBSET (1..n), s # {}, iter[s \ {Max(s)}] \in T PROVE iter[s] \in T
  BY <1>5, <1>8, <1>10, <1>12
<1>13. iter[1..n] \in T
  BY <1>3, <1>11, <1>12, FoldStays
<1>14. QED
  BY <1>1, <1>3, <1>13 DEF T

\* Of the assets ticked in a form one is kept, and so of the publishers.
OneEach(choice, V) ==
  /\ DOMAIN choice = {"assets", "publishers"}
  /\ \A list \in DOMAIN choice : choice[list] \in Seq(V) /\ Len(choice[list]) <= 1

\* The ticked values of a form are sent as a list of fields of their name.
LEMMA FieldsLists ==
  ASSUME NEW name \in {"assets", "publishers"}, NEW V, NEW values \in Seq(V)
  PROVE  Fields(name, values) \in Seq([name : {"assets", "publishers"}, value : V])
<1>1. DOMAIN values = 1..Len(values) /\ Len(values) \in Nat
  OBVIOUS
<1>2. \A i \in 1..Len(values) :
        [name |-> name, value |-> values[i]] \in [name : {"assets", "publishers"}, value : V]
  OBVIOUS
<1>3. Fields(name, values) = [i \in 1..Len(values) |-> [name |-> name, value |-> values[i]]]
  BY <1>1 DEF Fields
<1>4. QED
  BY <1>1, <1>2, <1>3

\* What is made of a form with several values of a name has the last of them only.
LEMMA ChoiceIsOne ==
  ASSUME NEW V, NEW as \in Seq(V), NEW ps \in Seq(V)
  PROVE  OneEach(ChoiceOf(as, ps), V)
<1> DEFINE seq == Fields("assets", as) \o Fields("publishers", ps)
           E == [name : {"assets", "publishers"}, value : V]
           n == Len(seq)
           L == {<< >>} \cup {<<v>> : v \in V}
           T == [{"assets", "publishers"} -> L]
           Step(parsed, field) == [parsed EXCEPT ![field.name] = <<field.value>>]
           step == [x \in T \X E |-> Step(x[1], x[2])]
           iter[s \in SUBSET DOMAIN seq] ==
             IF s = {} THEN NoChoice ELSE Step(iter[s \ {Max(s)}], seq[Max(s)])
<1>1. ChoiceOf(as, ps) = iter[DOMAIN seq]
  BY DEF ChoiceOf, ParsedForm, FoldLeft, MapThenFoldSet
<1>2. seq \in Seq(E)
  <2>1. Fields("assets", as) \in Seq(E) /\ Fields("publishers", ps) \in Seq(E)
    BY FieldsLists
  <2>2. QED
    BY <2>1, ConcatIn
<1>3. DOMAIN seq = 1..n /\ n \in Nat
  BY <1>2, ListDomain
<1>4. NoChoice \in T
  BY DEF NoChoice
<1>5. ASSUME NEW parsed \in T, NEW field \in E PROVE Step(parsed, field) \in T
  <2>1. <<field.value>> \in L /\ field.name \in {"assets", "publishers"}
    OBVIOUS
  <2> HIDE DEF L
  <2>2. QED
    BY <2>1
<1>6. ASSUME NEW choice \in T PROVE OneEach(choice, V)
  <2>1. ASSUME NEW l \in L PROVE l \in Seq(V) /\ Len(l) <= 1
    <3>1. CASE l = << >>
      BY <3>1
    <3>2. ASSUME NEW v \in V, l = <<v>> PROVE l \in Seq(V) /\ Len(l) <= 1
      BY <3>2
    <3>3. QED
      BY <2>1, <3>1, <3>2
  <2> HIDE DEF L
  <2>2. QED
    BY <2>1 DEF OneEach
<1> HIDE DEF T, L, Step, E, n, seq
<1>7. step \in [T \X E -> T]
  BY <1>5
<1> HIDE DEF step
<1>8. PICK g \in [SUBSET (1..n) -> T] : Folding(g, NoChoice, step, seq, n)
  BY <1>2, <1>4, <1>7, FoldExists DEF n
<1>9. ASSUME NEW s \in SUBSET (1..n), s # {}
      PROVE  /\ seq[Max(s)] \in E
             /\ \A parsed \in T : step[<<parsed, seq[Max(s)]>>] = Step(parsed, seq[Max(s)])
  <2>1. Max(s) \in 1..n
    BY <1>3, <1>9, MaxIn
  <2>2. seq[Max(s)] \in E
    BY <1>2, <1>3, <2>1
  <2>3. QED
    BY <2>2 DEF step
<1>10. g = [s \in SUBSET (1..n) |->
              IF s = {} THEN NoChoice ELSE Step(g[s \ {Max(s)}], seq[Max(s)])]
  BY <1>8, <1>9 DEF Folding
<1>11. iter = [s \in SUBSET (1..n) |->
              IF s = {} THEN NoChoice ELSE Step(iter[s \ {Max(s)}], seq[Max(s)])]
  BY <1>3, <1>10, Zenon
<1> HIDE DEF iter
<1>12. iter[{}] \in T
  BY <1>4, <1>11
<1>13. ASSUME NEW s \in SUBSET (1..n), s # {}, iter[s \ {Max(s)}] \in T PROVE iter[s] \in T
  BY <1>5, <1>9, <1>11, <1>13
<1>14. iter[1..n] \in T
  BY <1>3, <1>12, <1>13, FoldStays
<1>15. QED
  BY <1>1, <1>3, <1>6, <1>14

-----------------------------------------------------------------------------
\* What a step does to a request.

\* A request goes on for the same call, has no more to settle than before, and is none that
\* has saved.
Quiet(x, req) ==
  Whole(x) /\ ~Saved(x) /\ Kept(x, req) /\ PubReq(x) /\ Rest(x) \subseteq Rest(req)

\* It goes on, and not as a publication.
Aside(x) == x.code # 202 /\ x.stage \notin {"idle", "admitted", "asset", "check", "look", "queue"}

\* What it learns of the jobs: nothing, a state of some, or the entries of its answer.
Dull(x, req) == x.scanned \in {req.scanned, {}} /\ x.entries \in {req.entries, {}}

\* States of jobs as they are now.
Scans(x, req) ==
  /\ x.entries = req.entries
  /\ \A e \in x.scanned :
       e \in req.scanned \/ /\ e.job \in DOMAIN jobs
                            /\ e.status = Status(jobs[e.job].state)
                            /\ e.timed = jobs[e.job].timed

\* Entries made of the states met before.
Enters(x, req) ==
  /\ x.scanned = {}
  /\ \A n \in x.entries : \E e \in req.scanned :
       /\ n[1] = e.job
       /\ (n[2] = "event" /\ IsScheduled(e)) \/ n[2] = EntryType(e)

Learns(x, req) == Dull(x, req) \/ Scans(x, req) \/ Enters(x, req)

\* A request goes on, and is no publication's.
GoesOn(r) ==
  \E x : /\ request' = [request EXCEPT ![r] = x]
         /\ Quiet(x, request[r]) /\ Aside(x) /\ Learns(x, request[r])

\* A request that ends without a configuration saved, or with a refusal.
LEMMA EndsMoves ==
  ASSUME Shaped, NEW r \in Requests, NEW code \in Codes, code \notin {0, 202}, NEW events,
         Ends(r, code, events), code = 200 => request[r].call.op # "configure"
  PROVE  GoesOn(r)
<1>1. DEFINE x == Remains(request[r], "done", code)
<1>2. /\ Whole(x) /\ Kept(x, request[r]) /\ x.stage = "done" /\ x.code = code
      /\ x.scanned = {} /\ x.entries = {}
  BY RemainsFields DEF Shaped
<1>3. request' = [request EXCEPT ![r] = x]
  BY DEF Ends
<1> HIDE DEF x
<1>4. Quiet(x, request[r]) /\ Aside(x) /\ Dull(x, request[r])
  BY <1>2 DEF Quiet, Aside, Dull, Saved, Kept, PubReq, Publishes, Rest
<1>5. QED
  BY <1>3, <1>4 DEF GoesOn, Learns

\* It is of the same caller, for the same call, and has told nothing more.
SameAsker(x, req) ==
  /\ DOMAIN x = DOMAIN req
  /\ x.call = req.call /\ x.by = req.by /\ x.caller = req.caller /\ x.answer = req.answer

\* It goes on, or is answered.
Progresses(x) ==
  \/ x.stage \in {"act", "scan", "history"} /\ x.code = 0
  \/ x.stage = "done" /\ x.code \in {200, 404}

\* A request that did not ask to publish or to save goes on, or ends, as what it is.
LEMMA FieldsMove ==
  ASSUME Shaped, NEW r \in Requests, request[r].call.op \notin Publications \cup {"configure"},
         NEW x, SameAsker(x, request[r]), Progresses(x), Learns(x, request[r]),
         request' = [request EXCEPT ![r] = x]
  PROVE  GoesOn(r)
<1>1. Whole(request[r])
  BY DEF Shaped
<1>2. Whole(x) /\ Kept(x, request[r])
  BY <1>1 DEF Whole, Coded, Codes, Kept, SameAsker, Progresses
<1>3. ~Saved(x) /\ PubReq(x) /\ Rest(x) = {} /\ Aside(x)
  BY DEF Saved, PubReq, Publishes, Rest, Aside, SameAsker, Progresses
<1>4. QED
  BY <1>2, <1>3 DEF GoesOn, Quiet

\* Each step of a handler that neither publishes nor saves, and a read that fails.
LEMMA OtherMoves ==
  ASSUME Shaped, NEW r \in Requests,
         \/ Throws(r) \/ Validate(r) \/ ManageQueue(r) \/ FindJob(r) \/ RetryFound(r)
         \/ RemoveFound(r) \/ CheckConfig(r) \/ CheckHealth(r)
  PROVE  GoesOn(r)
<1>1. CASE Throws(r)
  BY <1>1, EndsMoves DEF Throws, Codes
<1>2. CASE Validate(r) \/ ManageQueue(r) \/ RetryFound(r) \/ RemoveFound(r)
           \/ CheckConfig(r) \/ CheckHealth(r)
  <2>1. request[r].call.op # "configure"
    BY <1>2 DEF Validate, ManageQueue, RetryFound, RemoveFound, CheckConfig, CheckHealth, At
  <2> DEFINE Replies(code) == \E events : Ends(r, code, events)
  <2>2. Replies(200) \/ Replies(400) \/ Replies(404) \/ Replies(500) \/ Replies(503)
    <3>1. CASE ManageQueue(r)
      <4> DEFINE list == <<Plain(QueueEvents[request[r].call.op])>>
      <4>1. Ends(r, 503, << >>) \/ Ends(r, 200, list)
        BY <3>1, Zenon DEF ManageQueue
      <4> HIDE DEF list
      <4>2. QED
        BY <4>1
    <3>2. CASE RetryFound(r)
      BY <3>2 DEF RetryFound
    <3>3. CASE RemoveFound(r)
      BY <3>3 DEF RemoveFound
    <3>4. CASE CheckHealth(r)
      <4>1. Ends(r, 404, << >>) \/ Replies(200)
        BY <3>4, Zenon DEF CheckHealth
      <4>2. QED
        BY <4>1
    <3>5. CASE Validate(r)
      <4> DEFINE call == request[r].call
                 a == Head(call.assets)
                 p == Head(call.publishers)
                 ready == Validation(a, p, assets[a], setup.base, Env).ready
                 list == <<Event("composer.validation", <<a, p>>, ready)>>
      <4>1. Ends(r, 400, << >>) \/ Ends(r, 200, list)
        BY <3>5, Zenon DEF Validate
      <4> HIDE DEF list
      <4>2. QED
        BY <4>1
    <3>6. CASE CheckConfig(r)
      <4> DEFINE p == request[r].call.about[1]
                 list == <<Event("provider.validation", p,
                                 UpdateIsValid(p, Env, request[r].call.input))>>
      <4>1. Ends(r, 404, << >>) \/ Ends(r, 200, list)
        BY <3>6, Zenon DEF CheckConfig
      <4> HIDE DEF list
      <4>2. QED
        BY <4>1
    <3>7. QED
      BY <1>2, <3>1, <3>2, <3>3, <3>4, <3>5, <3>6
  <2>3. QED
    BY <2>1, <2>2, EndsMoves DEF Codes
<1>3. CASE FindJob(r)
  <2>1. /\ request[r].call.op \in {"retry", "remove"} /\ Whole(request[r])
        /\ request[r].stage = "admitted"
    BY <1>3 DEF FindJob, At, Shaped
  <2>2. DEFINE x == [request[r] EXCEPT !.stage = "act"]
  <2>3. /\ DOMAIN x = DOMAIN request[r] /\ x.call = request[r].call /\ x.by = request[r].by
        /\ x.caller = request[r].caller /\ x.answer = request[r].answer /\ x.stage = "act"
        /\ x.code = request[r].code /\ x.scanned = request[r].scanned
        /\ x.entries = request[r].entries
    BY <2>1, RequestFields DEF Whole
  <2>4. \/ \E code \in {404, 409, 503} : \E events : Ends(r, code, events)
        \/ Goes(r, x)
    BY <1>3 DEF FindJob
  <2>5. request[r].code = 0 /\ 0 \in Codes
    BY <2>1 DEF Whole, Coded, Codes
  <2> HIDE DEF x
  <2>6. CASE Goes(r, x)
    <3>1. Learns(x, request[r]) /\ SameAsker(x, request[r]) /\ Progresses(x)
      BY <2>3, <2>5 DEF Learns, Dull, SameAsker, Progresses
    <3>2. request' = [request EXCEPT ![r] = x]
      BY <2>6 DEF Goes
    <3>3. request[r].call.op \notin Publications \cup {"configure"}
      BY <2>1 DEF Publications
    <3>4. QED
      BY <3>1, <3>2, <3>3, FieldsMove
  <2>7. QED
    BY <2>4, <2>6, EndsMoves DEF Codes
<1>4. QED
  BY <1>1, <1>2, <1>3

\* And each step that reads for the calendar or reads notices.
LEMMA ReadingMoves ==
  ASSUME Shaped, NEW r \in Requests,
         \/ BeginCalendar(r) \/ ScanState(r) \/ ListEvents(r) \/ ReadHistory(r)
         \/ ReadNotices(r)
  PROVE  GoesOn(r)
<1> DEFINE req == request[r]
<1>1. /\ req.call.op \notin Publications \cup {"configure"} /\ Whole(req)
      /\ req.stage \in {"admitted", "scan", "history"}
  BY DEF BeginCalendar, ScanState, ListEvents, ReadHistory, ReadNotices, At, Shaped,
         Publications
<1>2. DOMAIN req = {"stage", "call", "by", "caller", "todo", "left", "answer", "code",
                    "scanned", "entries", "state"}
  BY <1>1, RequestFields DEF Whole
<1>3. req.code = 0 /\ {0, 200, 404, 503} \subseteq Codes \ {202}
  BY <1>1 DEF Whole, Coded, Codes
<1>4. CASE BeginCalendar(r)
  <2>1. DEFINE x == [req EXCEPT !.stage = "scan"]
  <2>2. /\ DOMAIN x = DOMAIN req /\ x.call = req.call /\ x.by = req.by
        /\ x.caller = req.caller /\ x.answer = req.answer /\ x.stage = "scan"
        /\ x.code = req.code /\ x.scanned = req.scanned /\ x.entries = req.entries
    BY <1>2
  <2>3. (\E events : Ends(r, 503, events)) \/ request' = [request EXCEPT ![r] = x]
    BY <1>4 DEF BeginCalendar, Goes
  <2> HIDE DEF x
  <2>4. Learns(x, req) /\ SameAsker(x, req) /\ Progresses(x)
    BY <1>3, <2>2 DEF Learns, Dull, SameAsker, Progresses
  <2>5. QED
    BY <1>1, <1>3, <2>3, <2>4, EndsMoves, FieldsMove
<1>5. CASE ScanState(r)
  <2>1. DEFINE met == {entry.job : entry \in req.scanned}
               found == {j \in DOMAIN jobs \ met :
                           Status(jobs[j].state) = JobStatuses[req.state + 1]}
               new == {[job |-> j, status |-> Status(jobs[j].state), timed |-> jobs[j].timed] :
                         j \in found}
               stage == IF req.state + 1 = Len(JobStatuses) THEN "history" ELSE "scan"
               x == [req EXCEPT !.state = @ + 1, !.stage = stage, !.scanned = @ \cup new]
  <2>2. request' = [request EXCEPT ![r] = x]
    BY <1>5, Zenon DEF ScanState, Goes
  <2>3. \A e \in new : /\ e.job \in DOMAIN jobs
                       /\ e.status = Status(jobs[e.job].state)
                       /\ e.timed = jobs[e.job].timed
    OBVIOUS
  <2> HIDE DEF new
  <2>4. /\ DOMAIN x = DOMAIN req /\ x.call = req.call /\ x.by = req.by
        /\ x.caller = req.caller /\ x.answer = req.answer /\ x.stage \in {"scan", "history"}
        /\ x.code = req.code /\ x.scanned = req.scanned \cup new /\ x.entries = req.entries
    BY <1>2
  <2> HIDE DEF x
  <2>5. Learns(x, req)
    BY <2>3, <2>4 DEF Learns, Scans
  <2>6. SameAsker(x, req) /\ Progresses(x)
    BY <1>3, <2>4 DEF SameAsker, Progresses
  <2>7. QED
    BY <1>1, <2>2, <2>5, <2>6, FieldsMove
<1>6. ASSUME NEW entries, request' = [request EXCEPT ![r] =
               [req EXCEPT !.stage = "done", !.code = 200, !.scanned = {}, !.entries = entries]],
             \A n \in entries : \E e \in req.scanned :
               n[1] = e.job /\ ((n[2] = "event" /\ IsScheduled(e)) \/ n[2] = EntryType(e))
      PROVE  GoesOn(r)
  <2>1. DEFINE x == [req EXCEPT !.stage = "done", !.code = 200, !.scanned = {},
                                !.entries = entries]
  <2>2. /\ DOMAIN x = DOMAIN req /\ x.call = req.call /\ x.by = req.by
        /\ x.caller = req.caller /\ x.answer = req.answer /\ x.stage = "done"
        /\ x.code = 200 /\ x.scanned = {} /\ x.entries = entries
    BY <1>2
  <2>3. request' = [request EXCEPT ![r] = x]
    BY <1>6
  <2> HIDE DEF x
  <2>4. Learns(x, req)
    BY <1>6, <2>2 DEF Learns, Enters
  <2>5. SameAsker(x, req) /\ Progresses(x)
    BY <2>2 DEF SameAsker, Progresses
  <2>6. QED
    BY <1>1, <2>3, <2>4, <2>5, FieldsMove
<1>7. CASE ListEvents(r)
  <2>1. DEFINE entries == {<<entry.job, "event">> :
                             entry \in {e \in req.scanned : IsScheduled(e)}}
  <2>2. request' = [request EXCEPT ![r] =
          [req EXCEPT !.stage = "done", !.code = 200, !.scanned = {}, !.entries = entries]]
    BY <1>7, Zenon DEF ListEvents, Goes
  <2>3. \A n \in entries : \E e \in req.scanned :
          n[1] = e.job /\ ((n[2] = "event" /\ IsScheduled(e)) \/ n[2] = EntryType(e))
    OBVIOUS
  <2> HIDE DEF entries
  <2>4. QED
    BY <1>6, <2>2, <2>3
<1>8. CASE ReadHistory(r)
  <2>1. DEFINE entries == {<<entry.job, EntryType(entry)>> : entry \in req.scanned}
  <2>2. request' = [request EXCEPT ![r] =
          [req EXCEPT !.stage = "done", !.code = 200, !.scanned = {}, !.entries = entries]]
    BY <1>8, Zenon DEF ReadHistory, Goes
  <2>3. \A n \in entries : \E e \in req.scanned :
          n[1] = e.job /\ ((n[2] = "event" /\ IsScheduled(e)) \/ n[2] = EntryType(e))
    OBVIOUS
  <2> HIDE DEF entries
  <2>4. QED
    BY <1>6, <2>2, <2>3
<1>9. CASE ReadNotices(r)
  <2> DEFINE call == req.call
             found == call.op = "readAll" \/ HasNotice(trail, call.about[1], call.about[2])
             code == IF found THEN 200 ELSE 404
             x == [req EXCEPT !.stage = "done", !.code = code]
  <2>1. request' = [request EXCEPT ![r].stage = "done", ![r].code = code]
    BY <1>9, Zenon DEF ReadNotices
  <2>2. code \in {200, 404}
    OBVIOUS
  <2> HIDE DEF code
  <2>3. /\ DOMAIN x = DOMAIN req /\ x.call = req.call /\ x.by = req.by
        /\ x.caller = req.caller /\ x.answer = req.answer /\ x.stage = "done"
        /\ x.code = code /\ x.scanned = req.scanned /\ x.entries = req.entries
    BY <1>2
  <2>4. request' = [request EXCEPT ![r] = x]
    BY <2>1 DEF Shaped
  <2> HIDE DEF x
  <2>5. Learns(x, req) /\ SameAsker(x, req) /\ Progresses(x)
    BY <2>2, <2>3 DEF Learns, Dull, SameAsker, Progresses
  <2>6. QED
    BY <1>1, <2>4, <2>5, FieldsMove
<1>10. QED
  BY <1>4, <1>5, <1>7, <1>8, <1>9

\* The permissions of the routes that publish.
LEMMA PublicationRoutes ==
  /\ PermissionOf("publish") = "publishing:write" /\ PermissionOf("bulk") = "publishing:write"
  /\ PermissionOf("schedule") = "scheduling:write"
<1>1. /\ ComposerRoutes["publish"] = "publishing:write"
      /\ ComposerRoutes["bulk"] = "publishing:write"
      /\ ComposerRoutes["schedule"] = "scheduling:write"
      /\ {"publish", "bulk", "schedule"} \subseteq DOMAIN ComposerRoutes
  BY DEF ComposerRoutes
<1>2. \A op \in {"publish", "bulk", "schedule"} :
        /\ op \notin DOMAIN QueueRoutes /\ op \notin DOMAIN ConfigRoutes
        /\ op \notin DOMAIN PublisherRoutes /\ op \notin DOMAIN CalendarRoutes
        /\ op \notin DOMAIN NotificationRoutes
  BY DEF QueueRoutes, ConfigRoutes, PublisherRoutes, CalendarRoutes, NotificationRoutes
<1>3. \A op \in {"publish", "bulk", "schedule"} : PermissionOf(op) = ComposerRoutes[op]
  BY <1>1, <1>2 DEF PermissionOf
<1>4. QED
  BY <1>1, <1>3

\* What the form of a provider is filled in with.
Typing(call) ==
  call.op = "configure" /\ call.about[1] \in Providers =>
    call.input \in [FieldsOf(call.about[1]) -> Values]

\* Who asks to publish may.
Allowed(x) ==
  x.call.op \in Publications =>
    /\ setup.auth.enabled => Grants(x.caller.role, PermissionOf(x.call.op))
    /\ x.by = "desk" => x.call.op # "schedule" /\ Can(setup.desk, "publishing:write")

\* A request comes, is let in or is turned away.
Comes(r) ==
  /\ request[r].stage = "idle"
  /\ \E x : /\ request' = [request EXCEPT ![r] = x]
            /\ Whole(x) /\ ~Saved(x) /\ PubReq(x) /\ x.answer = NoAnswer
            /\ x.scanned = {} /\ x.entries = {}
            /\ \/ x.stage = "admitted" /\ Allowed(x) /\ Typing(x.call)
               \/ x.stage = "done" /\ x.call = Call("none")

\* A call that is well made is let in, by who may, or turned away.
LEMMA ReceivedMoves ==
  ASSUME NEW r, NEW call, CallOK(call), Typing(call), NEW by, NEW credential,
         by = "desk" => call.op # "schedule" /\ Handles(setup.desk, call.op),
         Received(r, call, by, credential)
  PROVE  Comes(r)
<1> DEFINE verdict == Verdict(setup.auth, credential, PermissionOf(call.op))
           caller == IF setup.auth.enabled THEN Authenticated(setup.auth, credential) ELSE Nobody
           code == IF verdict = "401" THEN 401 ELSE 403
           let == [NoRequest EXCEPT !.stage = "admitted", !.call = call, !.by = by,
                                    !.caller = caller]
           turned == [NoRequest EXCEPT !.stage = "done", !.code = code]
<1>1. /\ request' = [request EXCEPT ![r] = IF verdict = "pass" THEN let ELSE turned]
      /\ request[r].stage = "idle"
  BY Zenon DEF Received
<1>2. setup.auth.enabled /\ call.op \in Publications /\ verdict = "pass" =>
        Grants(caller.role, PermissionOf(call.op))
  BY PublicationRoutes DEF Verdict, Publications
<1>3. code \in {401, 403}
  OBVIOUS
<1> HIDE DEF verdict, caller, code
<1>4. /\ DOMAIN let = DOMAIN NoRequest /\ let.stage = "admitted" /\ let.call = call
      /\ let.by = by /\ let.caller = caller /\ let.answer = NoAnswer /\ let.code = 0
      /\ let.scanned = {} /\ let.entries = {}
  BY RequestFields
<1>5. /\ DOMAIN turned = DOMAIN NoRequest /\ turned.stage = "done" /\ turned.call = Call("none")
      /\ turned.answer = NoAnswer /\ turned.code = code
      /\ turned.scanned = {} /\ turned.entries = {}
  BY RequestFields
<1> HIDE DEF let, turned
<1>6. Whole(let) /\ ~Saved(let) /\ PubReq(let)
  BY <1>4, RequestFields DEF Whole, Saved, PubReq, Publishes, Coded, Codes
<1>7. Whole(turned) /\ ~Saved(turned) /\ PubReq(turned)
  BY <1>3, <1>5, RequestFields, CallFields
  DEF Whole, Saved, PubReq, Publishes, Coded, Codes, Publications
<1>11. by = "desk" /\ call.op \in Publications =>
         call.op # "schedule" /\ Can(setup.desk, "publishing:write")
  BY DEF Handles, HandlerPermission, Publications
<1>8. verdict = "pass" => Allowed(let)
  BY <1>2, <1>4, <1>11 DEF Allowed
<1>9. Typing(let.call)
  BY <1>4
<1>10. QED
  BY <1>1, <1>4, <1>5, <1>6, <1>7, <1>8, <1>9 DEF Comes

\* A page that offers to save has a form of a provider, one that offers to publish pairs of an
\* asset and a publisher.
PageOK ==
  /\ DOMAIN page = DOMAIN NoView
  /\ OneEach(page.asks, Assets \cup Providers)
  /\ page.at \in {"composer", "bulk"} =>
       \A item \in page.items : item[1] \in Assets /\ item[2] \in Providers
  /\ page.at = "config" =>
       \A item \in page.items : item[1] \in Providers /\ item[2] \in [FieldsOf(item[1]) -> Values]

\* A call that the dashboard makes or that is made directly is received or turned away.
LEMMA ArrivingMoves ==
  ASSUME PageOK, NEW r \in Requests, Arrive(r) \/ Confirm(r) \/ Press(r)
  PROVE  Comes(r)
<1>1. ASSUME NEW op, NEW about
      PROVE  /\ CallOK([Call(op) EXCEPT !.about = about])
             /\ [Call(op) EXCEPT !.about = about].op = op
  <2> DEFINE call == [Call(op) EXCEPT !.about = about]
  <2>1. /\ DOMAIN call = DOMAIN Call("none") /\ call.op = op
        /\ call.assets = << >> /\ call.publishers = << >>
    BY CallFields
  <2> HIDE DEF call
  <2>2. CallOK(call)
    BY <2>1, CallFields DEF CallOK
  <2>3. QED
    BY <2>1, <2>2 DEF call
<1>3. ASSUME NEW call, CallOK(call), Typing(call), call.op # "schedule", Asks(r, call)
      PROVE  Comes(r)
  BY <1>3, ReceivedMoves DEF Asks
<1>4. CASE Arrive(r)
  <2>1. PICK call \in Calls \cup JobCalls, credential \in Callers :
          Received(r, call, "api", credential)
    BY <1>4 DEF Arrive
  <2>2. CallOK(call) /\ Typing(call)
    <3>1. CASE call \in Calls
      BY <3>1, CallsAreCalls, StarIsNoName DEF CallOK, Typing
    <3>2. CASE call \in JobCalls
      <4>1. PICK op \in {"retry", "remove"}, job \in DOMAIN jobs :
              call = [Call(op) EXCEPT !.about = job]
        BY <3>2 DEF JobCalls
      <4>2. QED
        BY <1>1, <4>1 DEF Typing
    <3>3. QED
      BY <3>1, <3>2
  <2>3. QED
    BY <2>1, <2>2, ReceivedMoves
<1>5. CASE Confirm(r)
  <2> DEFINE op == PublishOp(page.at)
             call == Publishing(op, page.asks.assets, page.asks.publishers)
  <2>1. Asks(r, call)
    BY <1>5 DEF Confirm
  <2>2. op \in {"publish", "bulk"}
    BY DEF PublishOp
  <2>3. /\ DOMAIN call = DOMAIN Call("none") /\ call.op = op
        /\ call.assets = page.asks.assets /\ call.publishers = page.asks.publishers
    BY CallFields DEF Publishing
  <2>4. /\ page.asks.assets \in Seq(Assets \cup Providers) /\ Len(page.asks.assets) <= 1
        /\ page.asks.publishers \in Seq(Assets \cup Providers)
    BY DEF PageOK, OneEach
  <2>7. "*" \notin Assets \cup Providers
    BY StarIsNoName, FieldsApart
  <2> HIDE DEF op, call
  <2>5. CallOK(call) /\ Typing(call) /\ call.op # "schedule"
    BY <2>2, <2>3, <2>4, <2>7, ListOfMembers DEF CallOK, Typing
  <2>6. QED
    BY <1>3, <2>1, <2>5
<1>6. CASE Press(r)
  <2>1. PICK op \in Offers(setup.desk, page) :
          CASE op \in {"pause", "resume", "drain", "readAll"} -> Asks(r, Call(op))
            [] op \in {"retry", "remove"} ->
                 \E job \in IF page.at = "job" THEN {item[1] : item \in page.items}
                            ELSE DOMAIN jobs :
                   Asks(r, [Call(op) EXCEPT !.about = job])
            [] op = "health" -> \E p \in Providers : Asks(r, [Call(op) EXCEPT !.about = <<p>>])
            [] op = "read" ->
                 \E notice \in page.items : Asks(r, [Call(op) EXCEPT !.about = notice])
            [] op \in {"check", "configure"} ->
                 \E item \in page.items : \E form \in Typed(item[2]) :
                   Asks(r, [Call(op) EXCEPT !.about = <<item[1]>>, !.input = form])
            [] OTHER -> FALSE
    BY <1>6, Zenon DEF Press
  <2>2. CASE op \in {"check", "configure"}
    <3>1. PICK item \in page.items : \E form \in Typed(item[2]) :
            Asks(r, [Call(op) EXCEPT !.about = <<item[1]>>, !.input = form])
      BY <2>1, <2>2
    <3>8. PICK form \in Typed(item[2]) :
            Asks(r, [Call(op) EXCEPT !.about = <<item[1]>>, !.input = form])
      BY <3>1
    <3>2. page.at = "config"
      BY <2>2, Zenon DEF Offers, QueueOperations, PublisherOperations, JobOperations,
                         ComposerOperations, BulkOperations, NotificationOperations
    <3>3. item[1] \in Providers /\ item[2] \in [FieldsOf(item[1]) -> Values]
      BY <3>2 DEF PageOK
    <3>4. form \in [FieldsOf(item[1]) -> Values]
      BY <3>3, <3>8 DEF Typed, Values
    <3> DEFINE about == <<item[1]>>
               call == [Call(op) EXCEPT !.about = about, !.input = form]
    <3>5. about[1] = item[1]
      OBVIOUS
    <3> HIDE DEF about
    <3>6. /\ DOMAIN call = DOMAIN Call("none") /\ call.op = op
          /\ call.about = about /\ call.input = form
          /\ call.assets = << >> /\ call.publishers = << >>
      BY CallFields
    <3>9. Asks(r, call)
      BY <3>8 DEF about
    <3> HIDE DEF call
    <3>10. CallOK(call)
      BY <3>6, CallFields DEF CallOK
    <3>11. Typing(call)
      BY <3>3, <3>4, <3>5, <3>6 DEF Typing
    <3>7. QED
      BY <1>3, <2>2, <3>6, <3>9, <3>10, <3>11
  <2>3. CASE op \notin {"check", "configure"}
    <3>1. \/ Asks(r, Call(op))
          \/ \E about : Asks(r, [Call(op) EXCEPT !.about = about])
      BY <2>1, <2>3
    <3>5. op # "schedule"
      BY <2>1, <2>3
    <3>2. \A about : /\ CallOK([Call(op) EXCEPT !.about = about])
                     /\ Typing([Call(op) EXCEPT !.about = about])
                     /\ [Call(op) EXCEPT !.about = about].op # "schedule"
      BY <1>1, <2>3, <3>5 DEF Typing
    <3>3. CallOK(Call(op)) /\ Typing(Call(op)) /\ Call(op).op # "schedule"
      BY <2>3, <3>5, CallFields DEF Typing
    <3>4. QED
      BY <1>3, <3>1, <3>2, <3>3
  <2>4. QED
    BY <2>2, <2>3
<1>7. QED
  BY <1>4, <1>5, <1>6

\* A publication goes through nothing but what was asked for, and by no star.
LEMMA RestIsAsked ==
  ASSUME NEW req, Whole(req), PubReq(req)
  PROVE  /\ Publishes(req) => Rest(req) \subseteq PairsAsked(req)
         /\ \A q \in PairsAsked(req) :
              /\ q = <<q[1], q[2]>> /\ q[1] # "*" /\ q[2] # "*"
              /\ q[1] \in ToSet(req.call.assets)
<1> DEFINE as == ToSet(Unique(req.call.assets))
           ps == ToSet(Unique(req.call.publishers))
<1>1. as \subseteq ToSet(req.call.assets) /\ ps \subseteq ToSet(req.call.publishers)
  BY UniqueIsSimple DEF Whole, CallOK
<1>2. "*" \notin ToSet(req.call.assets) /\ "*" \notin ToSet(req.call.publishers)
  BY DEF Whole, CallOK
<1>3. PairsAsked(req) = as \X ps
  BY DEF PairsAsked
<1>4. ASSUME Publishes(req) PROVE Rest(req) \subseteq as \X ps
  <2>1. /\ Simple(req.todo) /\ req.todo # << >> /\ ToSet(req.todo) \subseteq as
        /\ ToSet(req.left) \subseteq ps
    BY <1>4 DEF PubReq
  <2>2. {Head(req.todo)} \subseteq as /\ ToSet(Tail(req.todo)) \subseteq as
    BY <2>1, SimpleTail
  <2>3. \/ Rest(req) = ToSet(req.todo) \X ps
        \/ Rest(req) = ({Head(req.todo)} \X ToSet(req.left)) \cup (ToSet(Tail(req.todo)) \X ps)
    BY <1>4 DEF Publishes, Rest
  <2> HIDE DEF as, ps
  <2>4. QED
    BY <2>1, <2>2, <2>3
<1> HIDE DEF as, ps
<1>5. ASSUME NEW q \in as \X ps
      PROVE  /\ q = <<q[1], q[2]>> /\ q[1] # "*" /\ q[2] # "*"
             /\ q[1] \in ToSet(req.call.assets)
  <2>1. q[1] \in as /\ q[2] \in ps
    OBVIOUS
  <2>4. q = <<q[1], q[2]>>
    OBVIOUS
  <2>2. q[1] \in ToSet(req.call.assets) /\ q[2] \in ToSet(req.call.publishers)
    BY <1>1, <2>1
  <2>3. QED
    BY <1>2, <2>2, <2>4
<1>6. QED
  BY <1>3, <1>4, <1>5

-----------------------------------------------------------------------------
\* What an answer tells of a pair.

\* It names one publisher.
Single(pair) == \A a : pair # <<a, "*">>

\* One answer tells of a pair what the other did not yet.
TellsMore(x, req, list, pair) ==
  /\ Told(x, pair) = Told(req, pair) \cup {list}
  /\ \A q : q # pair => Told(x, q) = Told(req, q)
  /\ ToSet(x.answer[list]) = ToSet(req.answer[list]) \cup {pair}
  /\ \A other \in DOMAIN NoAnswer \ {list} : x.answer[other] = req.answer[other]

\* An outcome told of a pair is told of that pair, and changes what is told of no other.
LEMMA ToldOfPair ==
  ASSUME NEW req, AnswerOK(req.answer), NEW list \in DOMAIN NoAnswer,
         NEW pair, Single(pair), NEW x, x.answer = Noting(req.answer, list, pair)
  PROVE  TellsMore(x, req, list, pair)
<1>1. DOMAIN req.answer = DOMAIN NoAnswer /\ "failed" \in DOMAIN NoAnswer
  BY RequestFields DEF AnswerOK
<1>2. ToSet(x.answer[list]) = ToSet(req.answer[list]) \cup {pair}
  <2>1. x.answer[list] = Append(req.answer[list], pair)
    BY <1>1 DEF Noting
  <2>2. QED
    BY <2>1, AppendedList DEF AnswerOK
<1>3. \A other \in DOMAIN NoAnswer \ {list} : x.answer[other] = req.answer[other]
  BY <1>1 DEF Noting
<1>4. \A l \in DOMAIN NoAnswer : \A q :
        q \in ToSet(x.answer[l]) <=> q \in ToSet(req.answer[l]) \/ (l = list /\ q = pair)
  BY <1>2, <1>3
<1>5. ASSUME NEW q
      PROVE  ToSet(x.answer.failed) \cap {<<q[1], "*">>, <<"*", "*">>} =
               ToSet(req.answer.failed) \cap {<<q[1], "*">>, <<"*", "*">>}
  <2>1. pair # <<q[1], "*">> /\ pair # <<"*", "*">>
    BY DEF Single
  <2>2. \A e : e # pair => (e \in ToSet(x.answer.failed) <=> e \in ToSet(req.answer.failed))
    BY <1>1, <1>4
  <2>3. QED
    BY <2>1, <2>2
<1>6. ASSUME NEW q, NEW l \in DOMAIN NoAnswer
      PROVE  l \in Told(x, q) <=> l \in Told(req, q) \/ (l = list /\ q = pair)
  BY <1>4, <1>5 DEF Told
<1>7. ASSUME NEW q
      PROVE  Told(x, q) \subseteq DOMAIN NoAnswer /\ Told(req, q) \subseteq DOMAIN NoAnswer
  BY DEF Told
<1>8. Told(x, pair) = Told(req, pair) \cup {list}
  BY <1>6, <1>7
<1>9. \A q : q # pair => Told(x, q) = Told(req, q)
  BY <1>6, <1>7
<1>10. QED
  BY <1>2, <1>3, <1>8, <1>9 DEF TellsMore

\* A failure told of an asset is told of each of its pairs, and of no other pair.
LEMMA ToldOfAsset ==
  ASSUME NEW req, AnswerOK(req.answer), NEW a,
         NEW x, x.answer = Noting(req.answer, "failed", <<a, "*">>),
         NEW q, q[2] # "*", a # "*"
  PROVE  Told(x, q) = IF q[1] = a THEN Told(req, q) \cup {"failed"} ELSE Told(req, q)
<1>1. DOMAIN req.answer = DOMAIN NoAnswer /\ "failed" \in DOMAIN NoAnswer
  BY RequestFields DEF AnswerOK
<1>2. ToSet(x.answer.failed) = ToSet(req.answer.failed) \cup {<<a, "*">>}
  <2>1. x.answer.failed = Append(req.answer.failed, <<a, "*">>)
    BY <1>1 DEF Noting
  <2>2. QED
    BY <1>1, <2>1, AppendedList DEF AnswerOK
<1>3. \A other \in DOMAIN NoAnswer \ {"failed"} : x.answer[other] = req.answer[other]
  BY <1>1 DEF Noting
<1>4. q # <<a, "*">>
  OBVIOUS
<1>5. \A l \in DOMAIN NoAnswer : q \in ToSet(x.answer[l]) <=> q \in ToSet(req.answer[l])
  BY <1>1, <1>2, <1>3, <1>4
<1>6. q[1] # a => <<a, "*">> \notin {<<q[1], "*">>, <<"*", "*">>}
  OBVIOUS
<1>7. q[1] # a => ToSet(x.answer.failed) \cap {<<q[1], "*">>, <<"*", "*">>} =
                    ToSet(req.answer.failed) \cap {<<q[1], "*">>, <<"*", "*">>}
  BY <1>2, <1>6
<1>8. q[1] = a => ToSet(x.answer.failed) \cap {<<q[1], "*">>, <<"*", "*">>} # {}
  BY <1>2
<1>9. ASSUME NEW l \in DOMAIN NoAnswer
      PROVE  l \in Told(x, q) <=> l \in Told(req, q) \/ (l = "failed" /\ q[1] = a)
  BY <1>1, <1>5, <1>7, <1>8 DEF Told
<1>10. Told(x, q) \subseteq DOMAIN NoAnswer /\ Told(req, q) \subseteq DOMAIN NoAnswer
  BY DEF Told
<1>11. QED
  BY <1>1, <1>9, <1>10

\* A failure told of the request as a whole is told of every pair of it.
LEMMA ToldOfAll ==
  ASSUME NEW req, AnswerOK(req.answer), NEW e,
         NEW x, x.answer = [req.answer EXCEPT !.failed = <<e>>],
         NEW q, e \in {<<q[1], "*">>, <<"*", "*">>}, Told(req, q) = {}
  PROVE  Told(x, q) = {"failed"}
<1>1. DOMAIN req.answer = DOMAIN NoAnswer /\ "failed" \in DOMAIN NoAnswer
  BY RequestFields DEF AnswerOK
<1>2. x.answer.failed = <<e>> /\ e \in ToSet(x.answer.failed)
  <2>1. x.answer.failed = <<e>>
    BY <1>1
  <2>2. e \in ToSet(<<e>>)
    BY DEF ToSet
  <2>3. QED
    BY <2>1, <2>2
<1>3. \A other \in DOMAIN NoAnswer \ {"failed"} : x.answer[other] = req.answer[other]
  BY <1>1
<1>4. ASSUME NEW l \in DOMAIN NoAnswer \ {"failed"} PROVE l \notin Told(x, q)
  <2>1. l \notin Told(req, q)
    OBVIOUS
  <2>2. q \notin ToSet(req.answer[l])
    BY <2>1 DEF Told
  <2>3. QED
    BY <1>3, <2>2 DEF Told
<1>5. "failed" \in Told(x, q)
  BY <1>1, <1>2 DEF Told
<1>6. Told(x, q) \subseteq DOMAIN NoAnswer
  BY DEF Told
<1>7. QED
  BY <1>4, <1>5, <1>6

-----------------------------------------------------------------------------
\* What a step of a publication does.

\* It fails as a whole: one failure stands for every pair.
FailsWhole(x, req) ==
  /\ Rest(req) = PairsAsked(req) /\ Rest(x) = {}
  /\ \E e : /\ x.answer = [req.answer EXCEPT !.failed = <<e>>]
            /\ \A q \in PairsAsked(req) : e \in {<<q[1], "*">>, <<"*", "*">>}

\* An asset fails, and with it its pairs, of which none was settled.
Drops(x, req) ==
  \E a : /\ a # "*"
         /\ x.answer = Noting(req.answer, "failed", <<a, "*">>)
         /\ Rest(x) = {q \in Rest(req) : q[1] # a}
         /\ \A q \in PairsAsked(req) : q[1] = a => q \in Rest(req)

\* It goes on, and tells nothing.
Carries(x, req) == Rest(x) = Rest(req) /\ x.answer = req.answer

\* A pair is settled, with an outcome.
Settles(x, req, list) ==
  /\ Publishes(req) /\ Pair(req) \in Rest(req)
  /\ Rest(x) = Rest(req) \ {Pair(req)}
  /\ x.answer = Noting(req.answer, list, Pair(req))

\* Its job is in the queue.
Enqueued(r) ==
  jobs' = [j \in DOMAIN jobs \cup {JobId(r, Pair(request[r]))} |->
             IF j = JobId(r, Pair(request[r])) THEN Entered(request[r].call) ELSE jobs[j]]

\* One of these, with what it does to the queue.
Outcome(r, x) ==
  \/ FailsWhole(x, request[r]) /\ jobs' = jobs
  \/ Drops(x, request[r]) /\ jobs' = jobs
  \/ Carries(x, request[r]) /\ jobs' = jobs
  \/ Settles(x, request[r], "failed") /\ jobs' = jobs
  \/ Settles(x, request[r], "skipped") /\ IsPublished(Pair(request[r])) /\ jobs' = jobs
  \/ Settles(x, request[r], "accepted") /\ Enqueued(r)

\* A publication takes a step.
PublicationMoves(r) ==
  /\ request[r].call.op \in Publications
  /\ request[r].stage \in {"admitted", "asset", "check", "look", "queue"}
  /\ \E x : /\ request' = [request EXCEPT ![r] = x]
            /\ Quiet(x, request[r]) /\ Dull(x, request[r]) /\ Outcome(r, x)

\* A pair that is settled.
LEMMA SettledSettles ==
  ASSUME NEW req, Whole(req), PubReq(req), Publishes(req), req.stage # "asset",
         NEW list \in DOMAIN NoAnswer, NEW x, x = Settled(req, list)
  PROVE  Settles(x, req, list) /\ Quiet(x, req) /\ Dull(x, req)
<1> DEFINE pair == Pair(req)
           told == Telling(req, list, pair)
<1>2. x = NextPair(told)
  BY DEF Settled, Telling
<1> HIDE DEF pair
<1>1. /\ Whole(told) /\ Kept(told, req) /\ told.stage = req.stage /\ told.todo = req.todo
      /\ told.left = req.left /\ told.call = req.call
      /\ told.scanned = req.scanned /\ told.entries = req.entries
      /\ told.answer = Noting(req.answer, list, pair)
      /\ PubReq(told) /\ Publishes(told) /\ Rest(told) = Rest(req)
  BY ToldGoesOn
<1> HIDE DEF told
<1>3. Pair(told) = pair /\ pair = Pair(req)
  BY <1>1 DEF Pair, pair
<1>4. /\ Whole(x) /\ Kept(x, told) /\ PubReq(x)
      /\ x.answer = told.answer /\ x.scanned = told.scanned /\ x.entries = told.entries
      /\ Rest(x) = Rest(told) \ {Pair(told)} /\ Pair(told) \in Rest(told)
  BY <1>1, <1>2, NextPairSettles
<1>5. Kept(x, req)
  BY <1>1, <1>4 DEF Kept
<1>6. ~Saved(x)
  BY <1>5 DEF Kept, Saved, Publishes, Publications
<1>7. Settles(x, req, list)
  BY <1>1, <1>3, <1>4 DEF Settles
<1>8. Quiet(x, req) /\ Dull(x, req)
  BY <1>1, <1>3, <1>4, <1>5, <1>6 DEF Quiet, Dull
<1>9. QED
  BY <1>7, <1>8

\* A publication that goes to its next stage.
LEMMA StageCarries ==
  ASSUME NEW req, Whole(req), PubReq(req), Publishes(req), req.left # << >>,
         NEW stage \in {"check", "look", "queue"}, req.stage = "asset" => stage = "check",
         NEW x, x = [req EXCEPT !.stage = stage]
  PROVE  Carries(x, req) /\ Quiet(x, req) /\ Dull(x, req) /\ x.stage # "done"
<1>1. DOMAIN req = {"stage", "call", "by", "caller", "todo", "left", "answer", "code",
                    "scanned", "entries", "state"}
  BY RequestFields DEF Whole
<1>2. /\ DOMAIN x = DOMAIN req /\ x.stage = stage /\ x.todo = req.todo /\ x.left = req.left
      /\ x.call = req.call /\ x.by = req.by /\ x.caller = req.caller
      /\ x.answer = req.answer /\ x.code = req.code
      /\ x.scanned = req.scanned /\ x.entries = req.entries
  BY <1>1
<1>3. req.code = 0
  BY DEF Whole, Coded, Publishes
<1>4. Whole(x) /\ Kept(x, req) /\ ~Saved(x)
  BY <1>2, <1>3 DEF Whole, Coded, Kept, Saved
<1>5. PubReq(x)
  BY <1>2 DEF PubReq, Publishes
<1>6. Rest(x) = Rest(req)
  <2>1. CASE req.stage # "asset"
    BY <1>2, <2>1 DEF Rest, Publishes
  <2>2. CASE req.stage = "asset"
    <3> DEFINE ps == ToSet(Unique(req.call.publishers))
    <3>1. ToSet(req.left) = ps /\ Simple(req.todo) /\ req.todo # << >>
      BY <2>2 DEF PubReq
    <3>2. /\ ToSet(Tail(req.todo)) = ToSet(req.todo) \ {Head(req.todo)}
          /\ Head(req.todo) \in ToSet(req.todo)
      BY <3>1, SimpleTail
    <3>3. Rest(req) = ToSet(req.todo) \X ps
      BY <2>2 DEF Rest
    <3>4. Rest(x) = ({Head(req.todo)} \X ps) \cup (ToSet(Tail(req.todo)) \X ps)
      BY <1>2, <3>1 DEF Rest
    <3> HIDE DEF ps
    <3>5. QED
      BY <3>2, <3>3, <3>4
  <2>3. QED
    BY <2>1, <2>2
<1>7. QED
  BY <1>2, <1>4, <1>5, <1>6 DEF Carries, Quiet, Dull

\* A publication is refused, fails as a whole, or begins with its first asset.
LEMMA BeginMoves ==
  ASSUME Shaped, NEW r \in Requests, PubReq(request[r]), BeginPublish(r)
  PROVE  PublicationMoves(r) \/ (GoesOn(r) /\ jobs' = jobs)
<1> DEFINE req == request[r]
           call == req.call
<1>1. /\ call.op \in Publications /\ req.stage = "admitted" /\ Whole(req) /\ jobs' = jobs
  BY DEF BeginPublish, At, Shaped, OnlyRequest
<1>2. DOMAIN req = {"stage", "call", "by", "caller", "todo", "left", "answer", "code",
                    "scanned", "entries", "state"}
  BY <1>1, RequestFields DEF Whole
<1>3. Rest(req) = PairsAsked(req)
  BY <1>1 DEF Rest
<1>4. CASE RefusalCode(call) # 0 /\ Ends(r, RefusalCode(call), << >>)
  <2>1. RefusalCode(call) \in {503, 400}
    BY <1>4 DEF RefusalCode
  <2>2. RefusalCode(call) \in Codes /\ RefusalCode(call) \notin {0, 200, 202}
    BY <2>1 DEF Codes
  <2>3. QED
    BY <1>1, <1>4, <2>2, EndsMoves
<1>5. CASE RefusalCode(call) = 0 /\ Continues(r, WholeFailed(req))
  <2> DEFINE e == IF call.op = "bulk" THEN <<"*", "*">> ELSE <<Head(call.assets), "*">>
             answer == [req.answer EXCEPT !.failed = <<e>>]
             x == Answered([req EXCEPT !.answer.failed = <<e>>])
  <2>1. request' = [request EXCEPT ![r] = x]
    BY <1>5 DEF Continues, WholeFailed
  <2> HIDE DEF e
  <2>2. /\ DOMAIN x = DOMAIN req /\ x.stage = "done" /\ x.code = 202 /\ x.call = req.call
        /\ x.by = req.by /\ x.caller = req.caller /\ x.answer = answer
        /\ x.scanned = req.scanned /\ x.entries = req.entries
    BY <1>2 DEF Answered
  <2> HIDE DEF x
  <2>3. AnswerOK(answer)
    <3>1. DOMAIN req.answer = DOMAIN NoAnswer
          /\ \A list \in DOMAIN NoAnswer : req.answer[list] \in Seq(ToSet(req.answer[list]))
      BY <1>1 DEF Whole, AnswerOK
    <3>2. /\ DOMAIN answer = DOMAIN NoAnswer
          /\ \A list \in DOMAIN NoAnswer : answer[list] = <<e>> \/ answer[list] = req.answer[list]
      BY <3>1
    <3>3. <<e>> \in Seq(ToSet(<<e>>))
      BY ShortList DEF IsList
    <3> HIDE DEF answer
    <3>4. QED
      BY <3>1, <3>2, <3>3 DEF AnswerOK
  <2>4. Whole(x) /\ Kept(x, req) /\ ~Saved(x) /\ PubReq(x) /\ Rest(x) = {}
    BY <1>1, <2>2, <2>3 DEF Whole, Coded, Codes, Kept, Saved, PubReq, Publishes, Rest
  <2>5. ASSUME NEW q \in PairsAsked(req) PROVE e \in {<<q[1], "*">>, <<"*", "*">>}
    <3>1. q[1] \in ToSet(call.assets)
      BY <1>1, RestIsAsked
    <3>2. CASE call.op = "bulk"
      BY <3>2 DEF e
    <3>3. CASE call.op # "bulk"
      <4>1. IsList(call.assets) /\ Len(call.assets) <= 1
        BY <1>1, <3>3 DEF Whole, CallOK, IsList
      <4>2. PICK i \in DOMAIN call.assets : q[1] = call.assets[i]
        BY <3>1 DEF ToSet
      <4>3. DOMAIN call.assets = 1..Len(call.assets) /\ Len(call.assets) \in Nat
        BY <4>1, ListDomain DEF IsList
      <4>4. i = 1 /\ Head(call.assets) = call.assets[1]
        BY <4>1, <4>2, <4>3 DEF IsList
      <4>5. QED
        BY <3>3, <4>2, <4>4 DEF e
    <3>4. QED
      BY <3>2, <3>3
  <2>6. FailsWhole(x, req)
    BY <1>3, <2>2, <2>4, <2>5 DEF FailsWhole
  <2>7. QED
    BY <1>1, <2>1, <2>2, <2>4, <2>6 DEF PublicationMoves, Quiet, Dull, Outcome
<1>6. CASE /\ RefusalCode(call) = 0
           /\ Goes(r, [req EXCEPT !.stage = "asset", !.todo = Unique(call.assets),
                                  !.left = Unique(call.publishers)])
  <2> DEFINE x == [req EXCEPT !.stage = "asset", !.todo = Unique(call.assets),
                              !.left = Unique(call.publishers)]
  <2>1. request' = [request EXCEPT ![r] = x]
    BY <1>6 DEF Goes
  <2>2. /\ DOMAIN x = DOMAIN req /\ x.stage = "asset" /\ x.code = req.code /\ x.call = req.call
        /\ x.by = req.by /\ x.caller = req.caller /\ x.answer = req.answer
        /\ x.scanned = req.scanned /\ x.entries = req.entries
        /\ x.todo = Unique(call.assets) /\ x.left = Unique(call.publishers)
    BY <1>2
  <2> HIDE DEF x
  <2>3. Unique(call.assets) # << >>
    BY <1>6 DEF RefusalCode
  <2>4. Simple(Unique(call.assets)) /\ Simple(Unique(call.publishers))
    BY <1>1, UniqueIsSimple DEF Whole, CallOK
  <2>5. PubReq(x)
    BY <2>2, <2>3, <2>4 DEF PubReq
  <2>6. req.code = 0
    BY <1>1 DEF Whole, Coded
  <2>7. Whole(x) /\ Kept(x, req) /\ ~Saved(x)
    BY <1>1, <2>2, <2>6 DEF Whole, Coded, Kept, Saved
  <2>8. Rest(x) = Rest(req)
    BY <1>3, <2>2 DEF Rest, PairsAsked
  <2>9. QED
    BY <1>1, <2>1, <2>2, <2>5, <2>7, <2>8 DEF PublicationMoves, Quiet, Dull, Outcome, Carries
<1>7. QED
  BY <1>4, <1>5, <1>6 DEF BeginPublish

\* An asset that cannot be loaded fails with all its pairs.
LEMMA LoadMoves ==
  ASSUME Shaped, NEW r \in Requests, PubReq(request[r]), LoadAsset(r)
  PROVE  PublicationMoves(r)
<1> DEFINE req == request[r]
           a == Head(req.todo)
           ps == ToSet(Unique(req.call.publishers))
<1>1. /\ req.call.op \in Publications /\ req.stage = "asset" /\ Whole(req) /\ jobs' = jobs
      /\ Publishes(req)
  BY DEF LoadAsset, At, Shaped, OnlyRequest, Publishes
<1>2. CASE Continues(r, NextAsset([req EXCEPT !.answer.failed = Append(@, <<a, "*">>)]))
  <2> DEFINE told == Telling(req, "failed", <<a, "*">>)
             x == NextAsset(told)
  <2>1. request' = [request EXCEPT ![r] = x]
    BY <1>2 DEF Continues, Telling
  <2>2. /\ Whole(told) /\ Kept(told, req) /\ told.stage = req.stage /\ told.todo = req.todo
        /\ told.left = req.left /\ told.call = req.call
        /\ told.scanned = req.scanned /\ told.entries = req.entries
        /\ told.answer = Noting(req.answer, "failed", <<a, "*">>)
        /\ PubReq(told) /\ Publishes(told) /\ Rest(told) = Rest(req)
    BY <1>1, ToldGoesOn, RequestFields
  <2> HIDE DEF told
  <2>3. /\ Whole(x) /\ Kept(x, told) /\ PubReq(x)
        /\ x.answer = told.answer /\ x.scanned = told.scanned /\ x.entries = told.entries
        /\ Rest(x) = ToSet(Tail(told.todo)) \X ToSet(Unique(told.call.publishers))
    BY <2>2, NextAssetSettles
  <2> HIDE DEF x
  <2>4. /\ Simple(req.todo) /\ req.todo # << >>
        /\ ToSet(req.todo) \subseteq ToSet(Unique(req.call.assets))
    BY <1>1 DEF PubReq
  <2>5. ToSet(Tail(req.todo)) = ToSet(req.todo) \ {a} /\ a \in ToSet(req.todo)
    BY <2>4, SimpleTail
  <2>6. Rest(req) = ToSet(req.todo) \X ps /\ PairsAsked(req) = ToSet(Unique(req.call.assets)) \X ps
    BY <1>1 DEF Rest, PairsAsked
  <2>7. Rest(x) = (ToSet(req.todo) \ {a}) \X ps
    BY <2>2, <2>3, <2>5
  <2>8. a # "*"
    BY <1>1, <2>4, <2>5, UniqueIsSimple DEF Whole, CallOK
  <2> HIDE DEF a, ps
  <2>9. Rest(x) = {q \in Rest(req) : q[1] # a}
    BY <2>6, <2>7
  <2>10. \A q \in PairsAsked(req) : q[1] = a => q \in Rest(req)
    BY <2>5, <2>6
  <2>11. Drops(x, req)
    BY <2>2, <2>3, <2>8, <2>9, <2>10 DEF Drops
  <2>12. Kept(x, req)
    BY <2>2, <2>3 DEF Kept
  <2>13. ~Saved(x)
    BY <1>1, <2>12 DEF Kept, Saved, Publications
  <2>14. Rest(x) \subseteq Rest(req)
    BY <2>9
  <2>15. QED
    BY <1>1, <2>1, <2>2, <2>3, <2>11, <2>12, <2>13, <2>14
    DEF PublicationMoves, Quiet, Dull, Outcome
<1>3. CASE req.left # << >> /\ Continues(r, [req EXCEPT !.stage = "check"])
  <2> DEFINE x == [req EXCEPT !.stage = "check"]
  <2>1. Carries(x, req) /\ Quiet(x, req) /\ Dull(x, req)
    BY <1>1, <1>3, StageCarries
  <2>2. request' = [request EXCEPT ![r] = x]
    BY <1>3 DEF Continues
  <2> HIDE DEF x
  <2>3. QED
    BY <1>1, <2>1, <2>2 DEF PublicationMoves, Outcome
<1>4. QED
  BY <1>2, <1>3 DEF LoadAsset

\* A pair goes on, or is settled.
LEMMA PairMoves ==
  ASSUME Shaped, NEW r \in Requests, PubReq(request[r]),
         CheckPair(r) \/ LookUp(r) \/ Enqueue(r) \/ EnqueueFails(r)
  PROVE  PublicationMoves(r)
<1> DEFINE req == request[r]
<1>1. /\ req.call.op \in Publications /\ req.stage \in {"check", "look", "queue"} /\ Whole(req)
  BY DEF CheckPair, LookUp, Enqueue, EnqueueFails, At, Shaped
<1>2. Publishes(req) /\ req.stage # "asset" /\ req.left # << >>
  BY <1>1 DEF Publishes, PubReq
<1>3. ASSUME NEW stage \in {"look", "queue"}, jobs' = jobs,
             Continues(r, [req EXCEPT !.stage = stage])
      PROVE  PublicationMoves(r)
  <2> DEFINE x == [req EXCEPT !.stage = stage]
  <2>1. Carries(x, req) /\ Quiet(x, req) /\ Dull(x, req)
    BY <1>1, <1>2, StageCarries
  <2>2. request' = [request EXCEPT ![r] = x]
    BY <1>3 DEF Continues
  <2> HIDE DEF x
  <2>3. QED
    BY <1>1, <1>3, <2>1, <2>2 DEF PublicationMoves, Outcome
<1>4. ASSUME NEW list \in DOMAIN NoAnswer, Continues(r, Settled(req, list)),
             \/ list = "failed" /\ jobs' = jobs
             \/ list = "skipped" /\ IsPublished(Pair(req)) /\ jobs' = jobs
             \/ list = "accepted" /\ Enqueued(r)
      PROVE  PublicationMoves(r)
  <2> DEFINE x == Settled(req, list)
  <2>1. Settles(x, req, list) /\ Quiet(x, req) /\ Dull(x, req)
    BY <1>1, <1>2, SettledSettles
  <2>2. request' = [request EXCEPT ![r] = x]
    BY <1>4 DEF Continues
  <2> HIDE DEF x
  <2>3. Outcome(r, x)
    BY <1>4, <2>1 DEF Outcome
  <2>4. QED
    BY <1>1, <2>1, <2>2, <2>3 DEF PublicationMoves
<1>5. {"failed", "skipped", "accepted"} \subseteq DOMAIN NoAnswer
  BY RequestFields
<1>6. CASE CheckPair(r)
  BY <1>3, <1>4, <1>5, <1>6 DEF CheckPair, OnlyRequest
<1>7. CASE LookUp(r)
  BY <1>3, <1>4, <1>5, <1>7 DEF LookUp, OnlyRequest
<1>8. CASE Enqueue(r)
  BY <1>4, <1>5, <1>8 DEF Enqueue, Enqueued
<1>9. CASE EnqueueFails(r)
  BY <1>4, <1>5, <1>9 DEF EnqueueFails
<1>10. QED
  BY <1>6, <1>7, <1>8, <1>9

-----------------------------------------------------------------------------
\* What a step does to the jobs.

JobsTyped == \A j \in DOMAIN jobs : jobs[j] \in [state : JobStates, timed : BOOLEAN]

\* A job that is through without a publication on record.
Closed == {"unrecorded", "skipped", "removed"}

\* Jobs stay for what they are; one that is through is so for good, one is recorded when it is
\* published, and one that waits again has failed.
JobMoves(j) ==
  /\ jobs'[j] \in [state : JobStates, timed : BOOLEAN]
  /\ jobs'[j].timed = jobs[j].timed
  /\ jobs[j].state \in Closed => jobs'[j].state \in Closed
  /\ jobs[j].state = "recorded" => jobs'[j].state \in {"recorded", "removed"}
  /\ jobs'[j].state = "recorded" =>
       jobs[j].state = "recorded" \/ <<Slug[PairOf(j)[1]], PairOf(j)[2]>> \in published'
  /\ jobs'[j].state = "delayed" => jobs[j].state = "delayed" \/ faults' > 0

\* Jobs are neither added nor lost.
JobsMove == DOMAIN jobs' = DOMAIN jobs /\ \A j \in DOMAIN jobs : JobMoves(j)

\* Jobs that are left alone.
LEMMA StillJobs ==
  ASSUME JobsTyped, jobs' = jobs
  PROVE  JobsMove
  BY DEF JobsTyped, JobsMove, JobMoves

\* One job of which the state changes.
LEMMA OneJobMoves ==
  ASSUME JobsTyped, NEW k, NEW to \in JobStates, jobs' = [jobs EXCEPT ![k].state = to],
         k \in DOMAIN jobs =>
           /\ jobs[k].state \in Closed => to \in Closed
           /\ jobs[k].state = "recorded" => to = "removed"
           /\ to = "recorded" => <<Slug[PairOf(k)[1]], PairOf(k)[2]>> \in published'
           /\ to = "delayed" => faults' > 0
  PROVE  JobsMove
<1>1. DOMAIN jobs' = DOMAIN jobs
  OBVIOUS
<1>2. ASSUME NEW j \in DOMAIN jobs PROVE JobMoves(j)
  <2>1. jobs[j] \in [state : JobStates, timed : BOOLEAN]
    BY DEF JobsTyped
  <2>2. CASE j = k
    <3>1. jobs'[j] = [jobs[j] EXCEPT !.state = to]
      BY <2>2
    <3>2. /\ jobs'[j] \in [state : JobStates, timed : BOOLEAN]
          /\ jobs'[j].timed = jobs[j].timed /\ jobs'[j].state = to
      BY <2>1, <3>1
    <3>3. QED
      BY <2>2, <3>2 DEF JobMoves
  <2>3. CASE j # k
    <3>1. jobs'[j] = jobs[j]
      BY <2>3
    <3>2. QED
      BY <2>1, <3>1 DEF JobMoves
  <2>4. QED
    BY <2>2, <2>3
<1>3. QED
  BY <1>1, <1>2 DEF JobsMove

\* What the handlers of the queue's routes do to the jobs.
LEMMA ManagedJobs ==
  ASSUME JobsTyped, NEW r \in Requests, ManageQueue(r) \/ RetryFound(r) \/ RemoveFound(r)
  PROVE  JobsMove
<1>1. CASE ManageQueue(r)
  <2>1. CASE jobs' = JobsAfterDrain
    <3>1. DOMAIN jobs' = DOMAIN jobs
      BY <2>1 DEF JobsAfterDrain
    <3>2. ASSUME NEW j \in DOMAIN jobs PROVE JobMoves(j)
      <4>1. jobs[j] \in [state : JobStates, timed : BOOLEAN]
        BY DEF JobsTyped
      <4>2. jobs'[j] = IF jobs[j].state = "waiting" THEN [jobs[j] EXCEPT !.state = "removed"]
                       ELSE jobs[j]
        BY <2>1 DEF JobsAfterDrain
      <4>3. CASE jobs[j].state = "waiting"
        <5>1. jobs'[j] = [jobs[j] EXCEPT !.state = "removed"]
          BY <4>2, <4>3
        <5>2. /\ jobs'[j] \in [state : JobStates, timed : BOOLEAN]
              /\ jobs'[j].timed = jobs[j].timed /\ jobs'[j].state = "removed"
          BY <4>1, <5>1 DEF JobStates
        <5>3. QED
          BY <4>3, <5>2 DEF JobMoves, Closed
      <4>4. CASE jobs[j].state # "waiting"
        BY <4>1, <4>2, <4>4 DEF JobMoves
      <4>5. QED
        BY <4>3, <4>4
    <3>3. QED
      BY <3>1, <3>2 DEF JobsMove
  <2>2. CASE jobs' = jobs
    BY <2>2, StillJobs
  <2>3. QED
    BY <1>1, <2>1, <2>2, Zenon DEF ManageQueue
<1>2. CASE RetryFound(r)
  <2>1. \/ jobs' = jobs
        \/ /\ jobs[request[r].call.about].state = "failed"
           /\ jobs' = [jobs EXCEPT ![request[r].call.about].state = "waiting"]
    BY <1>2 DEF RetryFound
  <2>2. "waiting" \in JobStates
    BY DEF JobStates
  <2>3. QED
    BY <2>1, <2>2, StillJobs, OneJobMoves DEF Closed
<1>3. CASE RemoveFound(r)
  <2>1. \/ jobs' = jobs
        \/ jobs' = [jobs EXCEPT ![request[r].call.about].state = "removed"]
    BY <1>3 DEF RemoveFound
  <2>2. "removed" \in JobStates
    BY DEF JobStates
  <2>3. QED
    BY <2>1, <2>2, StillJobs, OneJobMoves DEF Closed
<1>4. QED
  BY <1>1, <1>2, <1>3

\* And what the workers do.
LEMMA WorkedJobs ==
  ASSUME JobsTyped, faults \in Nat, NEW j \in DOMAIN jobs, Worker(j)
  PROVE  JobsMove /\ published \subseteq published' /\ faults' \in Nat /\ faults' >= faults
<1>1. JobStates = {"waiting", "delayed", "active", "failed", "recorded", "unrecorded",
                   "skipped", "removed"}
  BY DEF JobStates
<1>2. CASE DelayEnds(j)
  <2>1. /\ jobs[j].state = "delayed" /\ jobs' = [jobs EXCEPT ![j].state = "waiting"]
        /\ published' = published /\ faults' = faults
    BY <1>2 DEF DelayEnds, Moves
  <2>2. JobsMove
    BY <1>1, <2>1, OneJobMoves DEF Closed
  <2>3. QED
    BY <2>1, <2>2
<1>3. CASE Take(j)
  <2>1. /\ jobs[j].state = "waiting" /\ jobs' = [jobs EXCEPT ![j].state = "active"]
        /\ published' = published /\ faults' = faults
    BY <1>3 DEF Take, Moves
  <2>2. JobsMove
    BY <1>1, <2>1, OneJobMoves DEF Closed
  <2>3. QED
    BY <2>1, <2>2
<1>4. CASE Skip(j)
  <2>1. /\ jobs[j].state = "active" /\ jobs' = [jobs EXCEPT ![j].state = "skipped"]
        /\ published' = published /\ faults' = faults
    BY <1>4 DEF Skip, Moves
  <2>2. JobsMove
    BY <1>1, <2>1, OneJobMoves DEF Closed
  <2>3. QED
    BY <2>1, <2>2
<1>5. CASE Publish(j)
  <2>1. /\ jobs[j].state = "active" /\ jobs' = [jobs EXCEPT ![j].state = "recorded"]
        /\ published' = published \cup {<<Slug[j[2]], j[3]>>} /\ faults' = faults
    BY <1>5 DEF Publish
  <2>2. PairOf(j)[1] = j[2] /\ PairOf(j)[2] = j[3]
    BY DEF PairOf
  <2>3. <<Slug[PairOf(j)[1]], PairOf(j)[2]>> \in published'
    BY <2>1, <2>2
  <2>4. JobsMove
    BY <1>1, <2>1, <2>3, OneJobMoves DEF Closed
  <2>5. QED
    BY <2>1, <2>4
<1>6. CASE PublishFails(j)
  <2>1. /\ jobs[j].state = "active" /\ faults' = faults + 1 /\ published' = published
    BY <1>6 DEF PublishFails
  <2>2. PICK to \in {"unrecorded", "delayed", "failed"} : jobs' = [jobs EXCEPT ![j].state = to]
    BY <1>6 DEF PublishFails
  <2>3. to \in JobStates /\ to # "recorded" /\ faults' > 0
    BY <1>1, <2>1
  <2>4. jobs[j].state \notin Closed /\ jobs[j].state # "recorded"
    BY <2>1 DEF Closed
  <2>5. JobsMove
    BY <2>2, <2>3, <2>4, OneJobMoves
  <2>6. QED
    BY <2>1, <2>5
<1>7. QED
  BY <1>2, <1>3, <1>4, <1>5, <1>6 DEF Worker

-----------------------------------------------------------------------------
\* What a step does: to the settings, the counters and the jobs, and to one request.

\* Settings stay; publications on record and faults only grow.
Onward ==
  setup' = setup /\ published \subseteq published' /\ faults' \in Nat /\ faults' >= faults

\* One request comes, goes on, publishes, saves or is lost with all others; or none moves.
Moved ==
  \/ \E r \in Requests : Comes(r) /\ jobs' = jobs /\ overrides' = overrides
  \/ \E r \in Requests : GoesOn(r) /\ JobsMove /\ overrides' = overrides
  \/ \E r \in Requests : PublicationMoves(r) /\ overrides' = overrides
  \/ \E r \in Requests : Configure(r)
  \/ Restart
  \/ request' = request /\ JobsMove /\ overrides' = overrides

\* What is known of requests, page and counters for the steps to be these.
Known ==
  /\ Shaped /\ PageOK /\ JobsTyped /\ faults \in Nat
  /\ \A r \in Requests : PubReq(request[r])

\* A handler.
LEMMA HandlerMoves ==
  ASSUME Known, NEW r \in Requests, Handler(r)
  PROVE  Onward /\ Moved
<1>1. Shaped /\ JobsTyped /\ faults \in Nat /\ PubReq(request[r])
  BY DEF Known
<1>2. CASE Configure(r)
  <2>1. Onward
    BY <1>1, <1>2 DEF Configure, Onward
  <2>2. QED
    BY <1>2, <2>1 DEF Moved
<1>3. CASE BeginPublish(r)
  <2>1. Onward /\ jobs' = jobs /\ overrides' = overrides
    BY <1>1, <1>3 DEF BeginPublish, OnlyRequest, Onward
  <2>2. JobsMove
    BY <1>1, <2>1, StillJobs
  <2>3. QED
    BY <1>1, <1>3, <2>1, <2>2, BeginMoves DEF Moved
<1>4. CASE LoadAsset(r) \/ CheckPair(r) \/ LookUp(r) \/ Enqueue(r) \/ EnqueueFails(r)
  <2>1. Onward /\ overrides' = overrides
    BY <1>1, <1>4 DEF LoadAsset, CheckPair, LookUp, Enqueue, EnqueueFails, OnlyRequest, Onward
  <2>2. PublicationMoves(r)
    BY <1>1, <1>4, LoadMoves, PairMoves
  <2>3. QED
    BY <2>1, <2>2 DEF Moved
<1>5. CASE ManageQueue(r) \/ RetryFound(r) \/ RemoveFound(r)
  <2>3. UNCHANGED <<setup, overrides, published, faults>>
    BY <1>5, Zenon DEF ManageQueue, RetryFound, RemoveFound
  <2>1. Onward /\ overrides' = overrides
    BY <1>1, <2>3 DEF Onward
  <2>2. GoesOn(r) /\ JobsMove
    BY <1>1, <1>5, OtherMoves, ManagedJobs
  <2>4. QED
    BY <2>1, <2>2 DEF Moved
<1>6. CASE Throws(r) \/ Validate(r) \/ FindJob(r) \/ CheckConfig(r) \/ CheckHealth(r)
  <2>1. Onward /\ overrides' = overrides /\ jobs' = jobs
    BY <1>1, <1>6 DEF Throws, Validate, FindJob, CheckConfig, CheckHealth, OnlyRequest, Onward
  <2>2. GoesOn(r) /\ JobsMove
    BY <1>1, <1>6, <2>1, OtherMoves, StillJobs
  <2>3. QED
    BY <2>1, <2>2 DEF Moved
<1>7. CASE \/ BeginCalendar(r) \/ ScanState(r) \/ ListEvents(r) \/ ReadHistory(r)
           \/ ReadNotices(r)
  <2>1. Onward /\ overrides' = overrides /\ jobs' = jobs
    BY <1>1, <1>7 DEF BeginCalendar, ScanState, ListEvents, ReadHistory, ReadNotices,
                      OnlyRequest, Onward
  <2>2. GoesOn(r) /\ JobsMove
    BY <1>1, <1>7, <2>1, ReadingMoves, StillJobs
  <2>3. QED
    BY <2>1, <2>2 DEF Moved
<1>8. QED
  BY <1>2, <1>3, <1>4, <1>5, <1>6, <1>7 DEF Handler

\* Any step.
LEMMA StepMoves ==
  ASSUME Known, [Next]_vars
  PROVE  Onward /\ Moved
<1>1. Shaped /\ PageOK /\ JobsTyped /\ faults \in Nat
  BY DEF Known
<1>2. ASSUME NEW r \in Requests, Arrive(r) \/ Confirm(r) \/ Press(r) PROVE Onward /\ Moved
  <2>1. Comes(r)
    BY <1>1, <1>2, ArrivingMoves
  <2>2. UNCHANGED <<setup, overrides, jobs, published, faults>>
    <3>1. CASE Arrive(r)
      BY <3>1 DEF Arrive
    <3>2. CASE Confirm(r)
      BY <3>2 DEF Confirm, Asks
    <3>3. ASSUME NEW call, Asks(r, call)
          PROVE  UNCHANGED <<setup, overrides, jobs, published, faults>>
      BY <3>3 DEF Asks
    <3>4. CASE Press(r)
      <4>1. \E call : Asks(r, call)
        BY <3>4, Zenon DEF Press
      <4>2. QED
        BY <3>3, <4>1
    <3>5. QED
      BY <1>2, <3>1, <3>2, <3>4
  <2>3. Onward
    BY <1>1, <2>2 DEF Onward
  <2>4. QED
    BY <2>1, <2>2, <2>3 DEF Moved
<1>3. ASSUME UNCHANGED <<setup, overrides, jobs, published, request, faults>>
      PROVE  Onward /\ Moved
  BY <1>1, <1>3, StillJobs DEF Onward, Moved
<1>4. ASSUME NEW at \in DOMAIN PageReads, Open(at) PROVE Onward /\ Moved
  BY <1>3, <1>4 DEF Open
<1>5. CASE Choose
  BY <1>3, <1>5 DEF Choose
<1>6. ASSUME NEW j \in DOMAIN jobs, Worker(j) PROVE Onward /\ Moved
  <2>1. UNCHANGED <<setup, overrides, request>>
    BY <1>6 DEF Worker, DelayEnds, Take, Skip, Moves, Publish, PublishFails
  <2>2. JobsMove /\ published \subseteq published' /\ faults' \in Nat /\ faults' >= faults
    BY <1>1, <1>6, WorkedJobs
  <2>3. QED
    BY <2>1, <2>2 DEF Onward, Moved
<1>7. ASSUME NEW a \in Assets, Process(a) PROVE Onward /\ Moved
  BY <1>3, <1>7 DEF Process
<1>8. CASE WindowPasses
  BY <1>3, <1>8 DEF WindowPasses
<1>9. CASE Restart
  <2>1. Onward
    BY <1>1, <1>9 DEF Restart, Onward
  <2>2. QED
    BY <1>9, <2>1 DEF Moved
<1>10. CASE UNCHANGED vars
  BY <1>3, <1>10 DEF vars
<1>11. ASSUME NEW r \in Requests, Handler(r) PROVE Onward /\ Moved
  BY <1>11, HandlerMoves
<1>12. QED
  BY <1>2, <1>4, <1>5, <1>6, <1>7, <1>8, <1>9, <1>10, <1>11 DEF Next

-----------------------------------------------------------------------------
\* The page.

\* No choice is one.
LEMMA NoChoiceIsOne ==
  ASSUME NEW V
  PROVE  OneEach(NoChoice, V)
<1>1. ASSUME NEW s, s = << >> PROVE s \in Seq(V) /\ Len(s) <= 1
  BY <1>1
<1>2. /\ DOMAIN NoChoice = {"assets", "publishers"}
      /\ \A list \in DOMAIN NoChoice : NoChoice[list] = << >>
  BY DEF NoChoice
<1>3. QED
  BY <1>1, <1>2 DEF OneEach

\* A page that offers nothing.
LEMMA NoViewIsFine ==
  ASSUME page' = NoView
  PROVE  PageOK'
<1>1. OneEach(NoChoice, Assets \cup Providers)
  BY NoChoiceIsOne
<1>2. NoView.at = "none" /\ NoView.asks = NoChoice
  BY DEF NoView, View
<1>3. QED
  BY <1>1, <1>2 DEF PageOK

\* Every step leaves a page of the console's.
LEMMA PageStays ==
  ASSUME PageOK, SoundOverlay(overrides), SoundBase(setup.base), [Next]_vars
  PROVE  PageOK'
<1>1. ASSUME page' = page PROVE PageOK'
  BY <1>1 DEF PageOK
<1>2. ASSUME NEW r \in Requests, Arrive(r) \/ Confirm(r) \/ Press(r) PROVE PageOK'
  <2>1. CASE Arrive(r)
    BY <1>1, <2>1 DEF Arrive
  <2>2. CASE Confirm(r)
    BY <2>2, NoViewIsFine DEF Confirm, Asks
  <2>3. CASE Press(r)
    <3>1. \E call : Asks(r, call)
      BY <2>3, Zenon DEF Press
    <3>2. page' = NoView
      BY <3>1 DEF Asks
    <3>3. QED
      BY <3>2, NoViewIsFine
  <2>4. QED
    BY <1>2, <2>1, <2>2, <2>3
<1>3. ASSUME NEW r \in Requests, Handler(r) PROVE PageOK'
  <2>1. page' = page
    <3>1. CASE \/ BeginPublish(r) \/ LoadAsset(r) \/ CheckPair(r) \/ LookUp(r) \/ Enqueue(r)
               \/ EnqueueFails(r) \/ Throws(r) \/ Validate(r)
      BY <3>1, Zenon DEF BeginPublish, LoadAsset, CheckPair, LookUp, Enqueue, EnqueueFails,
                         Throws, Validate, OnlyRequest
    <3>2. CASE ManageQueue(r) \/ FindJob(r) \/ RetryFound(r) \/ RemoveFound(r) \/ Configure(r)
      BY <3>2, Zenon DEF ManageQueue, FindJob, RetryFound, RemoveFound, Configure, OnlyRequest
    <3>3. CASE \/ CheckConfig(r) \/ CheckHealth(r) \/ ReadNotices(r) \/ BeginCalendar(r)
               \/ ListEvents(r) \/ ScanState(r) \/ ReadHistory(r)
      BY <3>3, Zenon DEF CheckConfig, CheckHealth, ReadNotices, BeginCalendar, ListEvents,
                         ScanState, ReadHistory, OnlyRequest
    <3>4. QED
      BY <1>3, <3>1, <3>2, <3>3 DEF Handler
  <2>2. QED
    BY <1>1, <2>1
<1>4. ASSUME NEW at \in DOMAIN PageReads, Open(at) PROVE PageOK'
  <2>1. PICK about \in Subjects(at) : \E loaded, items :
          /\ items \in {ItemsOf(at, about), {}}
          /\ page' \in {View(at, loaded, items), NoView}
    BY <1>4, Zenon DEF Open
  <2>2. PICK loaded, items : /\ items \in {ItemsOf(at, about), {}}
                             /\ page' \in {View(at, loaded, items), NoView}
    BY <2>1
  <2>3. CASE page' = NoView
    BY <2>3, NoViewIsFine
  <2>4. CASE page' = View(at, loaded, items)
    <3>1. /\ DOMAIN page' = DOMAIN NoView /\ page'.at = at /\ page'.items = items
          /\ page'.asks = NoChoice
      BY <2>4 DEF View, NoView
    <3>2. OneEach(NoChoice, Assets \cup Providers)
      BY NoChoiceIsOne
    <3>3. ASSUME at \in {"composer", "bulk"}, NEW item \in items
          PROVE  item[1] \in Assets /\ item[2] \in Providers
      <4>1. item \in ItemsOf(at, about)
        BY <2>2, <3>3
      <4>2. CASE at = "composer"
        <5>1. about \in Assets
          BY <4>2 DEF Subjects
        <5>2. \E p \in EnabledOnes : item = <<about, p>>
          BY <4>1, <4>2 DEF ItemsOf
        <5>3. QED
          BY <5>1, <5>2 DEF EnabledOnes
      <4>3. CASE at = "bulk"
        <5>1. item \in Eligible(assets) \X EnabledOnes
          BY <4>1, <4>3 DEF ItemsOf
        <5>2. item[1] \in Eligible(assets) /\ item[2] \in EnabledOnes
          BY <5>1
        <5>3. QED
          BY <5>2 DEF Eligible, EnabledOnes
      <4>4. QED
        BY <3>3, <4>2, <4>3
    <3>4. ASSUME at = "config", NEW item \in items
          PROVE  item[1] \in Providers /\ item[2] \in [FieldsOf(item[1]) -> Values]
      <4>1. item \in ItemsOf(at, about) /\ about \in Providers
        BY <2>2, <3>4 DEF Subjects
      <4>2. item = <<about, FormInput(about, Env)>>
        BY <3>4, <4>1 DEF ItemsOf
      <4>3. FormInput(about, Env) \in [FieldsOf(about) -> Values]
        BY <4>1, ConfigTypes DEF Env
      <4>4. QED
        BY <4>1, <4>2, <4>3
    <3>5. QED
      BY <3>1, <3>2, <3>3, <3>4 DEF PageOK
  <2>5. QED
    BY <2>2, <2>3, <2>4
<1>5. CASE Choose
  <2> DEFINE V == Assets \cup Providers
             A == {item[1] : item \in page.items}
             B == {item[2] : item \in page.items}
  <2>1. PICK as \in Lists(A) : \E ps \in Lists(B) :
          page' = [page EXCEPT !.chosen = [assets |-> as, publishers |-> ps],
                               !.asks = ChoiceOf(as, ps)]
    BY <1>5 DEF Choose
  <2>2. PICK ps \in Lists(B) :
          page' = [page EXCEPT !.chosen = [assets |-> as, publishers |-> ps],
                               !.asks = ChoiceOf(as, ps)]
    BY <2>1
  <2>3. page.at \in {"composer", "bulk"}
    BY <1>5 DEF Choose
  <2>4. A \subseteq V /\ B \subseteq V
    BY <2>3 DEF PageOK
  <2> HIDE DEF A, B, V
  <2>5. ASSUME NEW S, S \subseteq V, NEW s \in Lists(S) PROVE s \in Seq(V)
    <3>1. PICK n \in 1..2 : s \in [1..n -> S]
      BY Zenon DEF Lists
    <3>2. s \in [1..n -> V] /\ n \in Nat
      BY <2>5, <3>1
    <3>3. QED
      BY <3>2
  <2>6. OneEach(ChoiceOf(as, ps), V)
    BY <2>4, <2>5, ChoiceIsOne
  <2>7. DOMAIN page = {"at", "loaded", "items", "chosen", "asks"}
    BY DEF PageOK, NoView, View
  <2> DEFINE choice == ChoiceOf(as, ps)
  <2> HIDE DEF choice
  <2>8. /\ DOMAIN page' = DOMAIN page /\ page'.at = page.at /\ page'.items = page.items
        /\ page'.asks = ChoiceOf(as, ps)
    BY <2>2, <2>7
  <2>9. QED
    BY <2>6, <2>8 DEF PageOK, V
<1>6. ASSUME NEW j \in DOMAIN jobs, Worker(j) PROVE PageOK'
  BY <1>1, <1>6 DEF Worker, DelayEnds, Take, Skip, Moves, Publish, PublishFails
<1>7. ASSUME NEW a \in Assets, Process(a) PROVE PageOK'
  BY <1>1, <1>7 DEF Process
<1>8. CASE WindowPasses \/ Restart \/ UNCHANGED vars
  BY <1>1, <1>8 DEF WindowPasses, Restart, vars
<1>9. QED
  BY <1>2, <1>3, <1>4, <1>5, <1>6, <1>7, <1>8 DEF Next

-----------------------------------------------------------------------------
\* The same of every step, whatever becomes of the configuration.

\* A request goes on, and may have saved.
Proceeds(r) ==
  \E x : /\ request' = [request EXCEPT ![r] = x]
         /\ Whole(x) /\ Kept(x, request[r]) /\ PubReq(x) /\ Rest(x) \subseteq Rest(request[r])
         /\ Aside(x) /\ Learns(x, request[r])

Stepped ==
  \/ \E r \in Requests : Comes(r) /\ jobs' = jobs
  \/ \E r \in Requests : Proceeds(r) /\ JobsMove
  \/ \E r \in Requests : PublicationMoves(r)
  \/ Restart /\ jobs' = jobs
  \/ request' = request /\ JobsMove

\* A request to save is turned down, or what is left of it is an answer.
Saves(r) ==
  /\ request[r].call.op = "configure" /\ request[r].stage = "admitted"
  /\ request[r].call.about[1] \in Providers
  /\ UpdateIsValid(request[r].call.about[1], Env, request[r].call.input)
  /\ overrides' = MergeUpdate(request[r].call.about[1], overrides, Env, request[r].call.input)

\* A request to save goes on: turned down, or with what it saved in effect.
LEMMA ConfigureMoves ==
  ASSUME Shaped, NEW r \in Requests, Configure(r)
  PROVE  /\ Proceeds(r) /\ jobs' = jobs
         /\ (GoesOn(r) /\ overrides' = overrides) \/ Saves(r)
<1> DEFINE p == request[r].call.about[1]
           input == request[r].call.input
<1>1. /\ Whole(request[r]) /\ request[r].call.op = "configure" /\ jobs' = jobs
      /\ request[r].stage = "admitted"
  BY DEF Configure, At, Shaped
<1>2. CASE \E code \in {400, 404} : \E events : Ends(r, code, events) /\ overrides' = overrides
  <2>1. {400, 404} \subseteq Codes \ {0, 200, 202}
    BY DEF Codes
  <2>2. GoesOn(r) /\ overrides' = overrides
    BY <1>2, <2>1, EndsMoves
  <2>3. Proceeds(r)
    BY <2>2 DEF GoesOn, Quiet, Proceeds
  <2>4. QED
    BY <1>1, <2>2, <2>3
<1>3. CASE /\ p \in Providers
           /\ UpdateIsValid(p, Env, input)
           /\ overrides' = MergeUpdate(p, overrides, Env, input)
           /\ \E events : Ends(r, 200, events)
  <2> DEFINE x == Remains(request[r], "done", 200)
  <2>1. request' = [request EXCEPT ![r] = x]
    BY <1>3 DEF Ends
  <2>2. /\ Whole(x) /\ Kept(x, request[r]) /\ x.stage = "done" /\ x.code = 200
        /\ x.scanned = {} /\ x.entries = {}
    BY <1>1, RemainsFields DEF Codes
  <2> HIDE DEF x
  <2>3. PubReq(x) /\ Rest(x) = {} /\ Aside(x) /\ Dull(x, request[r])
    BY <2>2 DEF PubReq, Publishes, Rest, Aside, Dull
  <2>4. Proceeds(r)
    BY <2>1, <2>2, <2>3 DEF Proceeds, Learns
  <2>5. Saves(r)
    BY <1>1, <1>3 DEF Saves
  <2>6. QED
    BY <1>1, <2>4, <2>5
<1>4. QED
  BY <1>2, <1>3 DEF Configure

\* Every step is one of these.
LEMMA MovedStepped ==
  ASSUME Known, Moved
  PROVE  Stepped
<1>1. Shaped /\ JobsTyped
  BY DEF Known
<1>2. \A r : GoesOn(r) => Proceeds(r)
  BY DEF GoesOn, Quiet, Proceeds
<1>3. Restart => jobs' = jobs
  BY DEF Restart
<1>4. \A r \in Requests : Configure(r) => Proceeds(r) /\ JobsMove
  BY <1>1, ConfigureMoves, StillJobs
<1>5. QED
  BY <1>2, <1>3, <1>4, Zenon DEF Moved, Stepped

\* One request changes.
LEMMA OneRequest ==
  ASSUME Shaped, NEW r \in Requests, NEW x, request' = [request EXCEPT ![r] = x]
  PROVE  /\ DOMAIN request' = Requests /\ request'[r] = x
         /\ \A q \in Requests \ {r} : request'[q] = request[q]
  BY DEF Shaped

\* What a restart leaves of a request.
Survives(y, req) ==
  /\ Whole(y) /\ Kept(y, req) /\ ~Saved(y) /\ Rest(y) \subseteq Rest(req)
  /\ y.stage \in {"idle", "lost", "past"} /\ Dull(y, req)
  /\ y.stage = "idle" => req.stage = "idle" /\ y.answer = req.answer
  /\ y.code = 202 => req.code = 202 /\ y.answer = req.answer

\* A restart leaves that of every request.
LEMMA RestartLeaves ==
  ASSUME Shaped, Restart
  PROVE  DOMAIN request' = Requests /\ \A r \in Requests : Survives(request'[r], request[r])
<1>1. DOMAIN request' = Requests
  BY DEF Restart
<1>2. ASSUME NEW r \in Requests PROVE Survives(request'[r], request[r])
  <2> DEFINE req == request[r]
             y == request'[r]
  <2>1. Whole(req)
    BY DEF Shaped
  <2>2. CASE Running(req)
    <3>1. y = Remains(req, "lost", 0)
      BY <2>2 DEF Restart
    <3>2. /\ Whole(y) /\ Kept(y, req) /\ y.stage = "lost" /\ y.code = 0
          /\ y.scanned = {} /\ y.entries = {}
      BY <2>1, <3>1, RemainsFields DEF Codes
    <3> HIDE DEF y
    <3>3. Rest(y) = {}
      BY <3>2 DEF Rest
    <3>4. QED
      BY <3>2, <3>3 DEF Survives, Dull, Saved, y
  <2>3. CASE ~Running(req)
    <3>1. y = [req EXCEPT !.stage = IF req.stage = "done" THEN "past" ELSE req.stage]
      BY <2>3 DEF Restart
    <3>2. req.stage \in {"idle", "done", "lost", "past"}
      BY <2>3 DEF Running
    <3>3. DOMAIN req = {"stage", "call", "by", "caller", "todo", "left", "answer", "code",
                        "scanned", "entries", "state"}
      BY <2>1, RequestFields DEF Whole
    <3>4. /\ DOMAIN y = DOMAIN req /\ y.call = req.call /\ y.by = req.by
          /\ y.caller = req.caller /\ y.answer = req.answer /\ y.code = req.code
          /\ y.scanned = req.scanned /\ y.entries = req.entries
          /\ y.stage = IF req.stage = "done" THEN "past" ELSE req.stage
      BY <3>1, <3>3
    <3> HIDE DEF y
    <3>5. Whole(y) /\ Kept(y, req) /\ ~Saved(y)
      BY <2>1, <3>2, <3>4 DEF Whole, Coded, Kept, Saved
    <3>6. Rest(y) \subseteq Rest(req)
      BY <3>2, <3>4 DEF Rest, PairsAsked
    <3>7. QED
      BY <3>2, <3>4, <3>5, <3>6 DEF Survives, Dull, y
  <2>4. QED
    BY <2>2, <2>3
<1>3. QED
  BY <1>1, <1>2

-----------------------------------------------------------------------------
\* Requests stay whole, and who asks to publish may.

Fits(x) == Whole(x) /\ PubReq(x) /\ Allowed(x)

\* A request that goes on for the same call and stays whole goes on to fit.
LEMMA KeptFits ==
  ASSUME NEW x, NEW req, Kept(x, req), Whole(x), PubReq(x), Allowed(req)
  PROVE  Fits(x)
  BY DEF Kept, Fits, Allowed

\* After any step every request fits.
LEMMA RequestsFit ==
  ASSUME Known, \A r \in Requests : Allowed(request[r]), Onward, Stepped
  PROVE  DOMAIN request' = Requests /\ \A q \in Requests : Fits(request'[q])
<1>1. Shaped
  BY DEF Known
<1>2. \A q \in Requests : Fits(request[q])
  BY DEF Known, Shaped, Fits
<1>3. ASSUME NEW r \in Requests, NEW x, request' = [request EXCEPT ![r] = x], Fits(x)
      PROVE  DOMAIN request' = Requests /\ \A q \in Requests : Fits(request'[q])
  BY <1>1, <1>2, <1>3, OneRequest
<1>4. ASSUME NEW r \in Requests, Comes(r)
      PROVE  DOMAIN request' = Requests /\ \A q \in Requests : Fits(request'[q])
  <2>1. PICK x : /\ request' = [request EXCEPT ![r] = x]
                 /\ Whole(x) /\ PubReq(x)
                 /\ Allowed(x) \/ x.call = Call("none")
    BY <1>4 DEF Comes
  <2>2. x.call = Call("none") => Allowed(x)
    BY CallFields DEF Allowed, Publications
  <2>3. QED
    BY <1>3, <2>1, <2>2 DEF Fits
<1>5. ASSUME NEW r \in Requests, Proceeds(r)
      PROVE  DOMAIN request' = Requests /\ \A q \in Requests : Fits(request'[q])
  BY <1>3, <1>5, KeptFits DEF Proceeds
<1>6. ASSUME NEW r \in Requests, PublicationMoves(r)
      PROVE  DOMAIN request' = Requests /\ \A q \in Requests : Fits(request'[q])
  BY <1>3, <1>6, KeptFits DEF PublicationMoves, Quiet
<1>7. ASSUME Restart
      PROVE  DOMAIN request' = Requests /\ \A q \in Requests : Fits(request'[q])
  <2>1. DOMAIN request' = Requests /\ \A q \in Requests : Survives(request'[q], request[q])
    BY <1>1, <1>7, RestartLeaves
  <2>2. ASSUME NEW q \in Requests PROVE Fits(request'[q])
    <3>1. Whole(request'[q]) /\ Kept(request'[q], request[q])
          /\ request'[q].stage \in {"idle", "lost", "past"}
      BY <2>1 DEF Survives
    <3>2. PubReq(request'[q])
      BY <3>1 DEF PubReq, Publishes
    <3>3. QED
      BY <3>1, <3>2, KeptFits
  <2>3. QED
    BY <2>1, <2>2
<1>8. CASE request' = request
  BY <1>1, <1>2, <1>8 DEF Shaped
<1>9. QED
  BY <1>4, <1>5, <1>6, <1>7, <1>8 DEF Stepped

-----------------------------------------------------------------------------
\* What was saved.

ConfigOK ==
  /\ SoundOverlay(overrides)
  /\ SoundBase(setup.base)
  /\ \A r \in Requests : request[r].stage = "admitted" => Typing(request[r].call)
  /\ \A r \in Requests :
       Saved(request[r]) => /\ request[r].call.about[1] \in Providers
                            /\ Enabled(request[r].call.about[1], Env)

\* Whatever a step does, what was saved stays in effect and no secret is a placeholder.
LEMMA ConfigStays ==
  ASSUME Known, ConfigOK, Onward, Moved
  PROVE  ConfigOK'
<1>1. Shaped /\ setup' = setup /\ SoundBase(setup'.base)
  BY DEF Known, Onward, ConfigOK
<1>2. Env' = Merged(setup.base, overrides') /\ (overrides' = overrides => Env' = Env)
  BY <1>1 DEF Env
<1>3. ASSUME NEW r \in Requests, NEW x, request' = [request EXCEPT ![r] = x], ~Saved(x),
             x.stage = "admitted" => Typing(x.call), overrides' = overrides
      PROVE  ConfigOK'
  <2>1. request'[r] = x /\ \A q \in Requests \ {r} : request'[q] = request[q]
    BY <1>1, <1>3, OneRequest
  <2>2. QED
    BY <1>1, <1>2, <1>3, <2>1 DEF ConfigOK
<1>4. ASSUME NEW r \in Requests, Comes(r), overrides' = overrides PROVE ConfigOK'
  <2>1. PICK x : /\ request' = [request EXCEPT ![r] = x] /\ ~Saved(x)
                 /\ x.stage = "admitted" => Typing(x.call)
    BY <1>4 DEF Comes
  <2>2. QED
    BY <1>3, <1>4, <2>1
<1>5. ASSUME NEW r \in Requests, GoesOn(r), overrides' = overrides PROVE ConfigOK'
  BY <1>3, <1>5 DEF GoesOn, Quiet, Aside
<1>6. ASSUME NEW r \in Requests, PublicationMoves(r), overrides' = overrides PROVE ConfigOK'
  <2>1. PICK x : /\ request' = [request EXCEPT ![r] = x] /\ ~Saved(x)
                 /\ Kept(x, request[r]) /\ request[r].call.op \in Publications
    BY <1>6 DEF PublicationMoves, Quiet
  <2>2. Typing(x.call)
    BY <2>1 DEF Kept, Typing, Publications
  <2>3. QED
    BY <1>3, <1>6, <2>1, <2>2
<1>7. ASSUME NEW r \in Requests, Proceeds(r), Saves(r) PROVE ConfigOK'
  <2> DEFINE p == request[r].call.about[1]
             input == request[r].call.input
  <2>1. PICK x : /\ request' = [request EXCEPT ![r] = x]
                 /\ Kept(x, request[r]) /\ x.stage # "admitted"
    BY <1>7 DEF Proceeds, Aside
  <2>2. request'[r] = x /\ \A q \in Requests \ {r} : request'[q] = request[q]
    BY <1>1, <2>1, OneRequest
  <2>3. /\ p \in Providers /\ UpdateIsValid(p, Env, input)
        /\ overrides' = MergeUpdate(p, overrides, Env, input)
    BY <1>7 DEF Saves
  <2>4. input \in [FieldsOf(p) -> Values]
    BY <1>7, <2>3 DEF Saves, ConfigOK, Typing
  <2>5. x.call.about[1] = p
    BY <2>1 DEF Kept
  <2> HIDE DEF p, input
  <2>6. SoundOverlay(overrides')
    BY <2>3, <2>4, SavedFields DEF ConfigOK, Env
  <2>7. Enabled(p, Env')
    BY <1>2, <2>3, <2>4, SavedLoads DEF ConfigOK, Env
  <2>8. ASSUME NEW q \in Providers, q # p, Enabled(q, Env) PROVE Enabled(q, Env')
    BY <1>2, <2>3, <2>4, <2>8, OthersLoad DEF ConfigOK, Env
  <2>9. ASSUME NEW q \in Requests, Saved(request'[q])
        PROVE  /\ request'[q].call.about[1] \in Providers
               /\ Enabled(request'[q].call.about[1], Env')
    <3>1. CASE q = r
      BY <2>2, <2>3, <2>5, <2>7, <3>1
    <3>2. CASE q # r
      BY <2>2, <2>7, <2>8, <2>9, <3>2 DEF ConfigOK
    <3>3. QED
      BY <3>1, <3>2
  <2>10. ASSUME NEW q \in Requests, request'[q].stage = "admitted"
         PROVE  Typing(request'[q].call)
    BY <2>1, <2>2, <2>10 DEF ConfigOK
  <2>11. QED
    BY <1>1, <2>6, <2>9, <2>10 DEF ConfigOK
<1>8. ASSUME NEW r \in Requests, Configure(r) PROVE ConfigOK'
  BY <1>1, <1>5, <1>7, <1>8, ConfigureMoves
<1>9. CASE Restart
  <2>1. \A q \in Requests : Survives(request'[q], request[q])
    BY <1>1, <1>9, RestartLeaves
  <2>2. \A q \in Requests : ~Saved(request'[q]) /\ request'[q].stage # "admitted"
    BY <2>1 DEF Survives
  <2>3. overrides' = NoOverrides
    BY <1>9 DEF Restart
  <2>4. SoundOverlay(overrides')
    BY <2>3, ConfigTypes DEF ConfigOK
  <2>5. QED
    BY <1>1, <2>2, <2>4 DEF ConfigOK
<1>10. CASE request' = request /\ overrides' = overrides
  BY <1>1, <1>2, <1>10 DEF ConfigOK
<1>11. QED
  BY <1>4, <1>5, <1>6, <1>8, <1>9, <1>10 DEF Moved

-----------------------------------------------------------------------------
\* Jobs.

\* A job is of a request that asks to publish, for a pair that was asked for and is settled;
\* it keeps a time exactly when the request set one.
JobIsAsked(j) ==
  /\ j = JobId(j[1], PairOf(j)) /\ j[1] \in Requests
  /\ request[j[1]].call.op \in Publications
  /\ PairOf(j) \in PairsAsked(request[j[1]]) \ Rest(request[j[1]])
  /\ jobs[j].timed <=> request[j[1]].call.op = "schedule"
  /\ jobs[j].state = "recorded" => IsPublished(PairOf(j))
  /\ jobs[j].state = "delayed" => jobs[j].timed \/ faults > 0

JobsAsked == \A j \in DOMAIN jobs : JobIsAsked(j)

\* No job is lost.
JobsKeep == \A j \in DOMAIN jobs : j \in DOMAIN jobs' /\ JobMoves(j)

\* A job of which the request goes on and the state moves on is what was asked for still.
LEMMA StillAsked ==
  ASSUME NEW j, JobIsAsked(j), JobMoves(j), Onward, faults \in Nat,
         NEW y, request'[j[1]] = y, Kept(y, request[j[1]]), Rest(y) \subseteq Rest(request[j[1]])
  PROVE  JobIsAsked(j)'
<1> DEFINE req == request[j[1]]
<1>1. PairsAsked(y) = PairsAsked(req) /\ y.call.op = req.call.op
  BY DEF Kept, PairsAsked
<1>2. IsPublished(PairOf(j)) => IsPublished(PairOf(j))'
  BY DEF Onward, IsPublished, PairOf
<1>3. /\ j = JobId(j[1], PairOf(j)) /\ j[1] \in Requests /\ y.call.op \in Publications
      /\ PairOf(j) \in PairsAsked(y) \ Rest(y)
  BY <1>1 DEF JobIsAsked
<1>4. jobs'[j].timed <=> y.call.op = "schedule"
  BY <1>1 DEF JobIsAsked, JobMoves
<1>5. jobs'[j].state = "recorded" => IsPublished(PairOf(j))'
  BY <1>2 DEF JobIsAsked, JobMoves, IsPublished, PairOf
<1>6. jobs'[j].state = "delayed" => jobs'[j].timed \/ faults' > 0
  BY DEF JobIsAsked, JobMoves, Onward
<1>7. QED
  BY <1>3, <1>4, <1>5, <1>6 DEF JobIsAsked, PairOf, PairsAsked, Rest

\* Where the requests go on and the jobs move on, each is what it was asked to be.
LEMMA JobsStay ==
  ASSUME Known, JobsAsked, Onward, JobsMove, DOMAIN request' = Requests,
         \A j \in DOMAIN jobs : /\ Kept(request'[j[1]], request[j[1]])
                                /\ Rest(request'[j[1]]) \subseteq Rest(request[j[1]])
  PROVE  JobsAsked' /\ JobsKeep /\ JobsTyped'
<1>1. faults \in Nat /\ DOMAIN jobs' = DOMAIN jobs /\ \A j \in DOMAIN jobs : JobMoves(j)
  BY DEF Known, JobsMove
<1>2. ASSUME NEW j \in DOMAIN jobs PROVE JobIsAsked(j)'
  BY <1>1, StillAsked DEF JobsAsked
<1>3. JobsAsked'
  BY <1>1, <1>2 DEF JobsAsked
<1>4. JobsTyped'
  BY <1>1 DEF JobsTyped, JobMoves
<1>5. QED
  BY <1>1, <1>3, <1>4 DEF JobsKeep

\* A pair that is settled with a job has none before.
LEMMA EnqueuedStays ==
  ASSUME Known, JobsAsked, Onward, NEW r \in Requests,
         NEW x, request' = [request EXCEPT ![r] = x], Quiet(x, request[r]),
         request[r].call.op \in Publications,
         Settles(x, request[r], "accepted"), Enqueued(r)
  PROVE  /\ JobsAsked' /\ JobsKeep /\ JobsTyped'
         /\ DOMAIN jobs' = DOMAIN jobs \cup {JobId(r, Pair(request[r]))}
         /\ PairOf(JobId(r, Pair(request[r]))) = Pair(request[r])
<1> DEFINE req == request[r]
           pair == Pair(req)
<1>0. PICK new : new = JobId(r, pair)
  OBVIOUS
<1>1. Shaped /\ JobsTyped /\ faults \in Nat /\ Whole(req) /\ PubReq(req)
  BY DEF Known, Shaped
<1>2. /\ request'[r] = x /\ \A q \in Requests \ {r} : request'[q] = request[q]
  BY <1>1, OneRequest
<1>3. /\ Publishes(req) /\ pair \in Rest(req) /\ Rest(x) = Rest(req) \ {pair}
      /\ Kept(x, req)
  BY DEF Settles, Quiet
<1>4. pair \in PairsAsked(req) /\ pair = <<pair[1], pair[2]>>
  BY <1>1, <1>3, RestIsAsked
<1>5. new[1] = r /\ PairOf(new) = pair
  BY <1>0, <1>4 DEF JobId, PairOf
<1>6. jobs' = [j \in DOMAIN jobs \cup {new} |->
                 IF j = new THEN Entered(req.call) ELSE jobs[j]]
  BY <1>0 DEF Enqueued
<1> HIDE DEF pair
<1>7. new \notin DOMAIN jobs
  <2>1. SUFFICES ASSUME new \in DOMAIN jobs PROVE FALSE
    OBVIOUS
  <2>2. JobIsAsked(new)
    BY <2>1 DEF JobsAsked
  <2>3. pair \notin Rest(req)
    BY <1>5, <2>2 DEF JobIsAsked
  <2>4. QED
    BY <1>3, <2>3
<1>8. /\ DOMAIN jobs' = DOMAIN jobs \cup {new} /\ jobs'[new] = Entered(req.call)
      /\ \A j \in DOMAIN jobs : jobs'[j] = jobs[j]
  BY <1>6, <1>7
<1>9. ASSUME NEW j \in DOMAIN jobs PROVE JobMoves(j)
  <2>1. jobs[j] \in [state : JobStates, timed : BOOLEAN] /\ jobs'[j] = jobs[j]
    BY <1>1, <1>8 DEF JobsTyped
  <2>2. QED
    BY <2>1 DEF JobMoves
<1>10. ASSUME NEW j \in DOMAIN jobs PROVE JobIsAsked(j)'
  <2>1. JobIsAsked(j) /\ j[1] \in Requests
    BY DEF JobsAsked, JobIsAsked
  <2>2. Kept(request'[j[1]], request[j[1]]) /\ Rest(request'[j[1]]) \subseteq Rest(request[j[1]])
    <3>1. CASE j[1] = r
      BY <1>2, <1>3, <3>1
    <3>2. CASE j[1] # r
      BY <1>2, <2>1, <3>2 DEF Kept
    <3>3. QED
      BY <3>1, <3>2
  <2>3. QED
    BY <1>1, <1>9, <2>1, <2>2, StillAsked
<1>11. /\ Entered(req.call) \in [state : JobStates, timed : BOOLEAN]
       /\ Entered(req.call).timed <=> req.call.op = "schedule"
       /\ Entered(req.call).state # "recorded"
       /\ Entered(req.call).state = "delayed" => Entered(req.call).timed
  BY DEF Entered, JobStates
<1>12. JobIsAsked(new)'
  <2>1. PairsAsked(x) = PairsAsked(req) /\ x.call.op = req.call.op
    BY <1>3 DEF Kept, PairsAsked
  <2>2. /\ new = JobId(new[1], PairOf(new)) /\ new[1] \in Requests
        /\ x.call.op \in Publications /\ PairOf(new) \in PairsAsked(x) \ Rest(x)
    BY <1>0, <1>3, <1>4, <1>5, <2>1
  <2>3. jobs'[new].timed <=> x.call.op = "schedule"
    BY <1>8, <1>11, <2>1
  <2>4. QED
    BY <1>2, <1>5, <1>8, <1>11, <2>2, <2>3 DEF JobIsAsked, PairOf, PairsAsked, Rest
<1>13. JobsAsked'
  BY <1>8, <1>10, <1>12 DEF JobsAsked
<1>14. JobsTyped'
  BY <1>8, <1>9, <1>11 DEF JobsTyped, JobMoves
<1>15. QED
  BY <1>0, <1>5, <1>8, <1>9, <1>13, <1>14 DEF JobsKeep, pair

\* So every job stays what it was asked to be, and none is lost.
LEMMA JobsStayAsked ==
  ASSUME Known, JobsAsked, Onward, Stepped
  PROVE  JobsAsked' /\ JobsKeep /\ JobsTyped'
<1>1. Shaped /\ JobsTyped /\ faults \in Nat
  BY DEF Known
<1>2. \A j \in DOMAIN jobs : j[1] \in Requests /\ JobIsAsked(j)
  BY DEF JobsAsked, JobIsAsked
<1>3. \A q \in Requests : Kept(request[q], request[q])
  BY DEF Kept
<1>4. ASSUME NEW r \in Requests, NEW x, request' = [request EXCEPT ![r] = x], JobsMove,
             \A j \in DOMAIN jobs : j[1] = r =>
               Kept(x, request[r]) /\ Rest(x) \subseteq Rest(request[r])
      PROVE  JobsAsked' /\ JobsKeep /\ JobsTyped'
  <2>1. /\ DOMAIN request' = Requests
        /\ request'[r] = x /\ \A q \in Requests \ {r} : request'[q] = request[q]
    BY <1>1, <1>4, OneRequest
  <2>2. ASSUME NEW j \in DOMAIN jobs
        PROVE  /\ Kept(request'[j[1]], request[j[1]])
               /\ Rest(request'[j[1]]) \subseteq Rest(request[j[1]])
    <3>1. CASE j[1] = r
      BY <1>4, <2>1, <3>1
    <3>2. CASE j[1] # r
      BY <1>2, <1>3, <2>1, <3>2
    <3>3. QED
      BY <3>1, <3>2
  <2>3. QED
    BY <1>4, <2>1, <2>2, JobsStay
<1>5. ASSUME NEW r \in Requests, Comes(r), jobs' = jobs
      PROVE  JobsAsked' /\ JobsKeep /\ JobsTyped'
  <2>1. PICK x : request' = [request EXCEPT ![r] = x]
    BY <1>5 DEF Comes
  <2>2. Rest(request[r]) = PairsAsked(request[r])
    BY <1>5 DEF Comes, Rest
  <2>3. \A j \in DOMAIN jobs : j[1] # r
    BY <1>2, <2>2 DEF JobIsAsked
  <2>4. JobsMove
    BY <1>1, <1>5, StillJobs
  <2>5. QED
    BY <1>4, <2>1, <2>3, <2>4
<1>6. ASSUME NEW r \in Requests, Proceeds(r), JobsMove
      PROVE  JobsAsked' /\ JobsKeep /\ JobsTyped'
  BY <1>4, <1>6 DEF Proceeds
<1>7. ASSUME NEW r \in Requests, PublicationMoves(r)
      PROVE  JobsAsked' /\ JobsKeep /\ JobsTyped'
  <2>1. PICK x : /\ request' = [request EXCEPT ![r] = x]
                 /\ Quiet(x, request[r]) /\ Outcome(r, x)
    BY <1>7 DEF PublicationMoves
  <2>2. CASE jobs' = jobs
    <3>1. JobsMove
      BY <1>1, <2>2, StillJobs
    <3>2. QED
      BY <1>4, <2>1, <3>1 DEF Quiet
  <2>3. CASE Settles(x, request[r], "accepted") /\ Enqueued(r)
    <3>1. request[r].call.op \in Publications
      BY <1>7 DEF PublicationMoves
    <3>2. QED
      BY <2>1, <2>3, <3>1, EnqueuedStays
  <2>4. QED
    BY <2>1, <2>2, <2>3 DEF Outcome
<1>8. CASE Restart /\ jobs' = jobs
  <2>1. DOMAIN request' = Requests /\ \A q \in Requests : Survives(request'[q], request[q])
    BY <1>1, <1>8, RestartLeaves
  <2>2. JobsMove
    BY <1>1, <1>8, StillJobs
  <2>3. \A j \in DOMAIN jobs : /\ Kept(request'[j[1]], request[j[1]])
                               /\ Rest(request'[j[1]]) \subseteq Rest(request[j[1]])
    BY <1>2, <2>1 DEF Survives
  <2>4. QED
    BY <2>1, <2>2, <2>3, JobsStay
<1>9. CASE request' = request /\ JobsMove
  <2>1. DOMAIN request' = Requests
    BY <1>1, <1>9 DEF Shaped
  <2>2. QED
    BY <1>2, <1>3, <1>9, <2>1, JobsStay
<1>10. QED
  BY <1>5, <1>6, <1>7, <1>8, <1>9 DEF Stepped

-----------------------------------------------------------------------------
\* The trail: what is recorded of a correlation, and how many alarms there are.

\* A trail whose lists are lists, of notices that can be read.
TrailShape(t) ==
  /\ TrailOK(t)
  /\ DOMAIN t.events = Correlations
  /\ t.notices = [c \in Correlations |-> t.notices[c]]
  /\ \A c \in Correlations :
       /\ IsList(t.events[c]) /\ IsList(t.notices[c])
       /\ \A i \in DOMAIN t.notices[c] : DOMAIN t.notices[c][i] = {"type", "about", "read"}

\* The events and the notices that tell of an outcome, and the list it has in an answer.
Outcomes ==
  {[event |-> "publishing.queued", notice |-> "publish.completed", list |-> "accepted"],
   [event |-> "publishing.duplicate_skipped", notice |-> "publish.duplicate_skipped",
    list |-> "skipped"],
   [event |-> "publishing.failed", notice |-> "publish.failed", list |-> "failed"]}

\* What entries of a type are about.
About(list, type) == {list[i].about : i \in {k \in DOMAIN list : list[k].type = type}}

\* An event of an outcome has its notice, and no other event has it; an alarm is one.
LEMMA NoticeOfOutcome ==
  ASSUME NEW t, NEW event
  PROVE  /\ \A o \in Outcomes : NoticeType(t, event) = o.notice <=> event.type = o.event
         /\ NoticeType(t, event) = "security.auth_failures" => Alarms(t, event)
<1> DEFINE A == AlwaysNoticed
           types == {"publishing.queued", "publishing.failed", "publishing.duplicate_skipped",
             "queue.pause", "queue.resume", "system.startup", "system.shutdown",
             "auth.rbac_denied"}
<1>1. /\ DOMAIN A = types
      /\ A["publishing.queued"] = "publish.completed"
      /\ A["publishing.failed"] = "publish.failed"
      /\ A["publishing.duplicate_skipped"] = "publish.duplicate_skipped"
      /\ \A type \in types \ {p.event : p \in Outcomes} : A[type] \notin {p.notice : p \in Outcomes}
      /\ \A type \in types : A[type] # "security.auth_failures"
  <2>1. \A type \in types :
          /\ type = "publishing.queued" => A[type] = "publish.completed"
          /\ type = "publishing.failed" => A[type] = "publish.failed"
          /\ type = "publishing.duplicate_skipped" => A[type] = "publish.duplicate_skipped"
          /\ type = "queue.pause" => A[type] = "queue.paused"
          /\ type = "queue.resume" => A[type] = "queue.resumed"
          /\ type = "auth.rbac_denied" => A[type] = "security.rbac_denied"
          /\ type \in {"system.startup", "system.shutdown"} => A[type] = type
    BY DEF AlwaysNoticed
  <2>2. DOMAIN A = types
    BY DEF AlwaysNoticed
  <2> HIDE DEF A
  <2>3. QED
    <3>1. {p.event : p \in Outcomes} =
            {"publishing.queued", "publishing.duplicate_skipped", "publishing.failed"}
      BY DEF Outcomes
    <3>2. {p.notice : p \in Outcomes} =
            {"publish.completed", "publish.duplicate_skipped", "publish.failed"}
      BY DEF Outcomes
    <3>3. \A type \in types \ {p.event : p \in Outcomes} :
            A[type] \notin {p.notice : p \in Outcomes}
      BY <2>1, <3>1, <3>2
    <3>4. \A type \in types : A[type] # "security.auth_failures"
      BY <2>1
    <3>5. QED
      BY <2>1, <2>2, <3>3, <3>4
<1>2. \A type \in DOMAIN NoticedWhenBad :
        NoticedWhenBad[type] \notin {p.notice : p \in Outcomes} \cup {"security.auth_failures"}
  BY DEF NoticedWhenBad, Outcomes
<1>4. \/ event.type \in types /\ NoticeType(t, event) = A[event.type]
      \/ /\ event.type \notin types
         /\ \/ /\ event.type \in DOMAIN NoticedWhenBad
               /\ NoticeType(t, event) = NoticedWhenBad[event.type]
            \/ NoticeType(t, event) = "security.auth_failures" /\ Alarms(t, event)
            \/ NoticeType(t, event) = "none"
  <2>1. event.type \in types => event.type \notin DOMAIN NoticedWhenBad /\ ~Alarms(t, event)
    BY DEF NoticedWhenBad, Alarms
  <2>2. DOMAIN AlwaysNoticed = types
    BY <1>1
  <2> DEFINE bad == event.type \in DOMAIN NoticedWhenBad /\ ~event.good
  <2>3. NoticeType(t, event) =
          CASE event.type \in types -> A[event.type]
            [] bad -> NoticedWhenBad[event.type]
            [] Alarms(t, event) -> "security.auth_failures"
            [] OTHER -> "none"
    BY <2>2, Zenon DEF NoticeType
  <2>4. bad => event.type \in DOMAIN NoticedWhenBad
    BY Zenon
  <2> HIDE DEF bad, A, types
  <2>5. CASE event.type \in types
    BY <2>1, <2>3, <2>4, <2>5, Zenon
  <2>6. CASE event.type \notin types
    BY <2>3, <2>4, <2>6, Zenon
  <2>7. QED
    BY <2>5, <2>6
<1> HIDE DEF A
<1>5. {"security.auth_failures", "none"} \cap {p.notice : p \in Outcomes} = {}
  BY DEF Outcomes
<1>6. {p.event : p \in Outcomes} \subseteq types
  BY DEF Outcomes
<1>7. CASE event.type \in types /\ NoticeType(t, event) = A[event.type]
  BY <1>1, <1>7 DEF Outcomes
<1>8. CASE /\ event.type \notin types
           /\ NoticeType(t, event) \notin {p.notice : p \in Outcomes}
           /\ NoticeType(t, event) = "security.auth_failures" => Alarms(t, event)
  BY <1>6, <1>8
<1>9. QED
  BY <1>2, <1>4, <1>5, <1>7, <1>8

\* Where entries of a type stand.
Places(lists, type, s) == UNION {{c} \X {i \in DOMAIN lists[c] : lists[c][i].type = type} : c \in s}

\* Counting is counting the places.
LEMMA CountIs ==
  ASSUME NEW lists, \A c \in Correlations : IsList(lists[c]), NEW type
  PROVE  /\ IsFiniteSet(Places(lists, type, Correlations))
         /\ Count(lists, type) = Cardinality(Places(lists, type, Correlations))
<1> DEFINE S == Correlations
           At1(c) == {i \in DOMAIN lists[c] : lists[c][i].type = type}
           P(s) == Places(lists, type, s)
           N(g, s) == IF s = {} THEN 0
                      ELSE g[s \ {CHOOSE x \in s : TRUE}] + Cardinality(At1(CHOOSE x \in s : TRUE))
           iter[s \in SUBSET S] ==
             IF s = {} THEN 0
             ELSE iter[s \ {CHOOSE x \in s : TRUE}] + Cardinality(At1(CHOOSE x \in s : TRUE))
           g == [s \in SUBSET S |-> Cardinality(P(s))]
<1>1. Count(lists, type) = iter[S]
  BY DEF Count, FoldSet, MapThenFoldSet
<1>2. IsFiniteSet(S)
  <2>1. S = (Requests \cup {"page"}) \cup {"system"}
    BY DEF Correlations
  <2>2. QED
    BY <2>1, RequestsAreFinite, FS_AddElement
<1>3. ASSUME NEW c \in S PROVE IsFiniteSet(At1(c)) /\ IsFiniteSet({c} \X At1(c))
                               /\ Cardinality({c} \X At1(c)) = Cardinality(At1(c))
  <2>1. DOMAIN lists[c] = 1..Len(lists[c]) /\ Len(lists[c]) \in Nat
    BY <1>3, ListDomain DEF IsList
  <2>2. IsFiniteSet(DOMAIN lists[c])
    BY <2>1, FS_Interval
  <2>3. At1(c) \in SUBSET DOMAIN lists[c]
    OBVIOUS
  <2> HIDE DEF At1
  <2>4. IsFiniteSet(At1(c)) /\ Cardinality(At1(c)) \in Nat
    BY <2>2, <2>3, FS_Subset, FS_CardinalityType
  <2>5. /\ IsFiniteSet({c} \X At1(c))
        /\ Cardinality({c} \X At1(c)) = Cardinality({c}) * Cardinality(At1(c))
    BY <2>4, FS_Singleton, FS_Product
  <2>6. Cardinality({c}) = 1
    BY FS_Singleton
  <2>7. QED
    BY <2>4, <2>5, <2>6
<1>4. ASSUME NEW s \in SUBSET S PROVE IsFiniteSet(P(s))
  <2>1. s \in SUBSET S
    OBVIOUS
  <2>2. IsFiniteSet(s)
    BY <1>2, <2>1, FS_Subset
  <2>3. P(s) = UNION {{c} \X At1(c) : c \in s}
    BY DEF Places
  <2> DEFINE Q == {{c} \X At1(c) : c \in s}
  <2>4. IsFiniteSet(Q)
    <3> DEFINE f == [c \in s |-> {c} \X At1(c)]
    <3>1. f \in Surjection(s, Q)
      <4> DEFINE F(c) == {c} \X At1(c)
      <4>1. f = [c \in s |-> F(c)] /\ Q = {F(c) : c \in s}
        OBVIOUS
      <4> HIDE DEF F, f, Q
      <4>2. QED
        BY <4>1 DEF Surjection
    <3>2. QED
      BY <2>2, <3>1, FS_Surjection DEF ExistsSurjection
  <2>5. \A T \in Q : IsFiniteSet(T)
    BY <1>3
  <2> HIDE DEF Q
  <2>6. IsFiniteSet(UNION Q)
    BY <2>4, <2>5, FS_UNION
  <2>7. QED
    BY <2>3, <2>6 DEF Q
<1>5. ASSUME NEW s \in SUBSET S, s # {} PROVE g[s] = N(g, s)
  <2> DEFINE x == CHOOSE x \in s : TRUE
             u == s \ {x}
  <2>1. x \in s
    BY <1>5
  <2>2. x \in S /\ u \in SUBSET S /\ s \in SUBSET S
    BY <2>1
  <2>14. \A v, z : z \in P(v) <=> \E c \in v : z \in {c} \X At1(c)
    BY DEF Places
  <2>3. P(s) = P(u) \cup ({x} \X At1(x))
    <3> HIDE DEF P, At1, x
    <3>1. QED
      BY <2>1, <2>14
  <2>4. P(u) \cap ({x} \X At1(x)) = {}
    <3> HIDE DEF P, At1, x
    <3>1. QED
      BY <2>14
  <2>5. g[s] = Cardinality(P(s)) /\ g[u] = Cardinality(P(u)) /\ IsFiniteSet(P(u))
    BY <1>4, <2>2
  <2>6. IsFiniteSet({x} \X At1(x)) /\ Cardinality({x} \X At1(x)) = Cardinality(At1(x))
    BY <1>3, <2>2
  <2>7. N(g, s) = g[u] + Cardinality(At1(x))
    BY <1>5
  <2> HIDE DEF g, N, u, P, At1
  <2>8. Cardinality(P(s)) = Cardinality(P(u)) + Cardinality({x} \X At1(x)) - Cardinality({})
    <3> DEFINE here == {x} \X At1(x)
               there == P(u)
    <3>1. IsFiniteSet(here) /\ IsFiniteSet(there) /\ there \cap here = {} /\ P(s) = there \cup here
      BY <2>3, <2>4, <2>5, <2>6
    <3> HIDE DEF here, there
    <3>2. Cardinality(there \cup here) =
            Cardinality(there) + Cardinality(here) - Cardinality(there \cap here)
      BY <3>1, FS_Union
    <3>3. Cardinality(P(s)) = Cardinality(there) + Cardinality(here) - Cardinality({})
      BY <3>1, <3>2
    <3>4. QED
      BY <3>3 DEF here, there
  <2>9. Cardinality(P(u)) \in Nat /\ Cardinality({x} \X At1(x)) \in Nat
    BY <2>5, <2>6, FS_CardinalityType
  <2>10. QED
    BY <2>5, <2>6, <2>7, <2>8, <2>9, FS_EmptySet
<1>6. g = [s \in SUBSET S |-> N(g, s)]
  <2>1. P({}) = {}
    BY DEF Places
  <2>2. g[{}] = 0
    BY <2>1, FS_EmptySet
  <2>3. \A s \in SUBSET S : g[s] = N(g, s)
    BY <1>5, <2>2
  <2>4. g = [s \in SUBSET S |-> Cardinality(P(s))] /\ \A s \in SUBSET S : g[s] = Cardinality(P(s))
    OBVIOUS
  <2> HIDE DEF g, N, P
  <2>5. QED
    BY <2>3, <2>4
<1>7. iter = [s \in SUBSET S |-> 
             IF s = {} THEN 0
             ELSE iter[s \ {CHOOSE x \in s : TRUE}] + Cardinality(At1(CHOOSE x \in s : TRUE))]
  <2> HIDE DEF g, P
  <2>1. QED
    BY <1>6, Zenon
<1>8. \A s \in SUBSET S : iter[s] = N(iter, s)
  <2> DEFINE i == iter
  <2>1. i = [s \in SUBSET S |-> N(i, s)]
    BY <1>7
  <2> HIDE DEF i, N
  <2>2. \A s \in SUBSET S : i[s] = N(i, s)
    BY <2>1
  <2>3. QED
    BY <2>2 DEF i
<1> HIDE DEF iter
<1> DEFINE Good == {k \in Nat : \A s \in SUBSET S : Cardinality(s) = k => iter[s] = g[s]}
<1>9. 0 \in Good
  <2>1. \A s \in SUBSET S : Cardinality(s) = 0 => s = {}
    BY <1>2, FS_Subset, FS_EmptySet
  <2>2. {} \in SUBSET S /\ \A h : N(h, {}) = 0
    <3> HIDE DEF iter, g, P, At1
    <3>1. {} \in SUBSET S
      OBVIOUS
    <3>2. ASSUME NEW h PROVE N(h, {}) = 0
      BY Zenon
    <3> HIDE DEF N
    <3>3. QED
      BY <3>1, <3>2
  <2>3. g[{}] = N(g, {})
    <3> HIDE DEF N, P
    <3>1. QED
      BY <1>6, <2>2
  <2> HIDE DEF g, N
  <2>4. QED
    BY <1>8, <2>1, <2>2, <2>3
<1>10. ASSUME NEW k \in Nat, k \in Good PROVE k + 1 \in Good
  <2>0. ASSUME \A s \in SUBSET S : Cardinality(s) = k + 1 => iter[s] = g[s] PROVE k + 1 \in Good
    <3> HIDE DEF g, N, P
    <3>1. QED
      BY <1>10, <2>0
  <2>1. SUFFICES ASSUME NEW s \in SUBSET S, Cardinality(s) = k + 1 PROVE iter[s] = g[s]
    BY <2>0
  <2> DEFINE x == CHOOSE x \in s : TRUE
  <2>2. s # {}
    BY <2>1, FS_EmptySet
  <2>3. x \in s
    BY <2>2
  <2>4. s \ {x} \in SUBSET S
    OBVIOUS
  <2>5. IsFiniteSet(s)
    BY <1>2, FS_Subset
  <2>6. Cardinality(s \ {x}) = Cardinality(s) - 1
    BY <2>3, <2>5, FS_RemoveElement, Zenon
  <2>7. Cardinality(s \ {x}) = k
    BY <2>1, <2>6
  <2>8. iter[s \ {x}] = g[s \ {x}]
    BY <1>10, <2>4, <2>7
  <2>9. iter[s] = N(iter, s) /\ g[s] = N(g, s)
    BY <1>5, <1>8, <2>2
  <2>10. N(iter, s) = N(g, s)
    BY <2>2, <2>8
  <2> HIDE DEF g, N
  <2>11. QED
    BY <2>9, <2>10
<1>11. Cardinality(S) \in Good
  <2>1. 0 \in Good /\ \A k \in Nat : k \in Good => k + 1 \in Good
    BY <1>9, <1>10
  <2>2. Cardinality(S) \in Nat
    BY <1>2, FS_CardinalityType
  <2> HIDE DEF Good
  <2>3. QED
    BY <2>1, <2>2, Inductive
<1>12. iter[S] = g[S]
  BY <1>11
<1>13. g[S] = Cardinality(P(S))
  OBVIOUS
<1>14. QED
  BY <1>1, <1>4, <1>12, <1>13

-----------------------------------------------------------------------------
\* Many events, one after the other.

\* Recording events is recording one after the other.
OneByOne(w, t, c, events) ==
  /\ w[0] = t /\ w[Len(events)] = RecordedAll(t, c, events)
  /\ \A k \in 1..Len(events) : w[k] = Recorded(w[k - 1], c, events[k])

LEMMA RecordedOneByOne ==
  ASSUME NEW t, NEW c, NEW events, IsList(events)
  PROVE  \E w : OneByOne(w, t, c, events)
<1> DEFINE n == Len(events)
           Next1(g, s) == IF s = {} THEN t ELSE Recorded(g[s \ {Max(s)}], c, events[Max(s)])
           Found(k) == \E g : g = [s \in SUBSET (1..k) |-> Next1(g, s)]
           Have == {k \in Nat : Found(k)}
           iter[s \in SUBSET DOMAIN events] ==
             IF s = {} THEN t ELSE Recorded(iter[s \ {Max(s)}], c, events[Max(s)])
<1>1. RecordedAll(t, c, events) = iter[DOMAIN events]
  BY DEF RecordedAll, FoldLeft, MapThenFoldSet
<1>2. DOMAIN events = 1..n /\ n \in Nat
  BY ListDomain DEF IsList
<1> HIDE DEF Found, n
<1>3. 0 \in Have
  <2> DEFINE g == [s \in SUBSET (1..0) |-> t]
  <2>1. SUBSET (1..0) = {{}}
    OBVIOUS
  <2>2. g = [s \in SUBSET (1..0) |-> Next1(g, s)]
    BY <2>1
  <2> HIDE DEF g
  <2>3. Found(0)
    BY <2>2 DEF Found
  <2>4. QED
    BY <2>3
<1>4. ASSUME NEW k \in Nat, k \in Have PROVE k + 1 \in Have
  <2>1. Found(k)
    BY <1>4
  <2>2. PICK g : g = [s \in SUBSET (1..k) |-> Next1(g, s)]
    BY <2>1 DEF Found
  <2> DEFINE h == [s \in SUBSET (1..(k + 1)) |->
                     IF k + 1 \in s THEN Recorded(g[s \ {k + 1}], c, events[k + 1]) ELSE g[s]]
  <2>3. ASSUME NEW s \in SUBSET (1..(k + 1)) PROVE h[s] = Next1(h, s)
    <3>1. CASE k + 1 \in s
      <4>1. Max(s) = k + 1
        BY <3>1, MaxIs
      <4>2. s \ {k + 1} \in SUBSET (1..(k + 1)) /\ k + 1 \notin s \ {k + 1}
        OBVIOUS
      <4>3. /\ h[s \ {k + 1}] = g[s \ {k + 1}]
            /\ h[s] = Recorded(g[s \ {k + 1}], c, events[k + 1])
        BY <3>1, <4>2
      <4> HIDE DEF h
      <4>4. QED
        BY <3>1, <4>1, <4>3
    <3>2. CASE k + 1 \notin s
      <4>1. s \in SUBSET (1..k)
        BY <3>2
      <4>2. s \ {Max(s)} \in SUBSET (1..(k + 1))
        OBVIOUS
      <4>3. h[s] = g[s] /\ h[s \ {Max(s)}] = g[s \ {Max(s)}]
        BY <3>2, <4>1, <4>2
      <4>4. g[s] = Next1(g, s)
        BY <2>2, <4>1
      <4> HIDE DEF h
      <4>5. QED
        BY <4>3, <4>4
    <3>3. QED
      BY <3>1, <3>2
  <2>4. h = [s \in SUBSET (1..(k + 1)) |-> Next1(h, s)]
    <3> HIDE DEF Next1
    <3>1. QED
      BY <2>3
  <2> HIDE DEF h
  <2>5. Found(k + 1)
    BY <2>4 DEF Found
  <2>6. QED
    BY <2>5
<1>5. n \in Have
  <2>1. 0 \in Have /\ \A k \in Nat : k \in Have => k + 1 \in Have
    BY <1>3, <1>4
  <2> HIDE DEF Have
  <2>2. QED
    BY <1>2, <2>1, Inductive
<1>6. PICK g : g = [s \in SUBSET (1..n) |-> Next1(g, s)]
  BY <1>5 DEF Found
<1>7. iter = [s \in SUBSET (1..n) |->
             IF s = {} THEN t ELSE Recorded(iter[s \ {Max(s)}], c, events[Max(s)])]
  BY <1>2, <1>6, Zenon
<1> HIDE DEF iter
<1> DEFINE w == [k \in 0..n |-> iter[1..k]]
<1>8. \A k \in 0..n : 1..k \in SUBSET (1..n) /\ w[k] = iter[1..k]
  BY <1>2
<1>9. w[0] = t
  <2>1. 1..0 = {} /\ 0 \in 0..n
    BY <1>2
  <2> HIDE DEF w
  <2>2. QED
    BY <1>7, <1>8, <2>1
<1>10. ASSUME NEW k \in 1..n PROVE w[k] = Recorded(w[k - 1], c, events[k])
  <2>1. k \in Nat /\ k \in 0..n /\ k - 1 \in 0..n /\ k \in 1..k
    BY <1>2
  <2>2. (1..k) \ {k} = 1..(k - 1) /\ 1..k # {}
    BY <2>1
  <2>3. (\A y \in 1..k : k >= y) /\ 1..k \in SUBSET Nat
    BY <2>1
  <2>4. Max(1..k) = k
    BY <2>1, <2>3, MaxIs
  <2> HIDE DEF w
  <2>5. iter[1..k] = Recorded(iter[(1..k) \ {k}], c, events[k])
    BY <1>7, <1>8, <2>1, <2>2, <2>4
  <2>6. QED
    BY <1>8, <2>1, <2>2, <2>5
<1>11. w[n] = RecordedAll(t, c, events)
  <2>1. n \in 0..n
    BY <1>2
  <2> HIDE DEF w
  <2>2. QED
    BY <1>1, <1>2, <1>8, <2>1
<1> HIDE DEF w
<1>12. QED
  BY <1>9, <1>10, <1>11 DEF n, OneByOne

\* A list with one more entry.
LEMMA OneMore ==
  ASSUME NEW l, IsList(l), NEW e
  PROVE  /\ IsList(Append(l, e)) /\ Len(l) \in Nat /\ Len(l) + 1 \notin DOMAIN l
         /\ DOMAIN Append(l, e) = DOMAIN l \cup {Len(l) + 1}
         /\ Append(l, e)[Len(l) + 1] = e
         /\ \A i \in DOMAIN l : Append(l, e)[i] = l[i]
         /\ l \o <<e>> = Append(l, e) /\ l \o << >> = l
<1> DEFINE S == ToSet(l) \cup {e}
           T == ToSet(l)
<1>1. l \in Seq(T)
  BY DEF IsList
<1> HIDE DEF T
<1>2. l \in Seq(T \cup {e}) /\ e \in T \cup {e}
  BY <1>1
<1>3. Append(l, e) \in Seq(T \cup {e})
  BY <1>2
<1>4. IsList(Append(l, e))
  <2> DEFINE m == Append(l, e)
  <2> HIDE DEF m
  <2>1. m \in Seq(T \cup {e})
    BY <1>3 DEF m
  <2>2. IsList(m)
    BY <2>1, ListOfMembers DEF IsList
  <2>3. QED
    BY <2>2 DEF m
<1>5. QED
  BY <1>2, <1>4

\* What its entries are about.
LEMMA AboutMore ==
  ASSUME NEW l, IsList(l), NEW e, NEW type
  PROVE  About(Append(l, e), type) = IF e.type = type THEN About(l, type) \cup {e.about}
                                     ELSE About(l, type)
<1> DEFINE m == Append(l, e)
           n == Len(l) + 1
<1>1. /\ n \notin DOMAIN l /\ DOMAIN m = DOMAIN l \cup {n} /\ m[n] = e
      /\ \A i \in DOMAIN l : m[i] = l[i]
  BY OneMore
<1> HIDE DEF m, n
<1>2. QED
  BY <1>1 DEF About, m

\* Lists of which one has one more entry.
With(lists, c, e) == [lists EXCEPT ![c] = Append(lists[c], e)]

\* How many of its entries there are.
LEMMA CountMore ==
  ASSUME NEW lists, DOMAIN lists = Correlations, \A d \in Correlations : IsList(lists[d]),
         NEW c \in Correlations, NEW e, NEW type
  PROVE  /\ \A d \in Correlations : IsList(With(lists, c, e)[d])
         /\ Count(lists, type) \in Nat
         /\ Count(With(lists, c, e), type) =
              IF e.type = type THEN Count(lists, type) + 1 ELSE Count(lists, type)
<1> DEFINE more == With(lists, c, e)
           n == Len(lists[c]) + 1
           P == Places(lists, type, Correlations)
           M == Places(more, type, Correlations)
<1>1. IsList(lists[c])
  OBVIOUS
<1>2. /\ IsList(Append(lists[c], e)) /\ n \notin DOMAIN lists[c]
      /\ DOMAIN Append(lists[c], e) = DOMAIN lists[c] \cup {n} /\ Append(lists[c], e)[n] = e
      /\ \A i \in DOMAIN lists[c] : Append(lists[c], e)[i] = lists[c][i]
  BY <1>1, OneMore
<1>3. more[c] = Append(lists[c], e) /\ \A d \in Correlations \ {c} : more[d] = lists[d]
  BY DEF With
<1> HIDE DEF more, n
<1>4. /\ DOMAIN more[c] = DOMAIN lists[c] \cup {n} /\ more[c][n] = e
      /\ \A i \in DOMAIN lists[c] : more[c][i] = lists[c][i]
  BY <1>2, <1>3
<1>5. \A d \in Correlations : IsList(more[d])
  BY <1>2, <1>3
<1>6. \A l : Places(l, type, Correlations) =
               {p \in UNION {{d} \X DOMAIN l[d] : d \in Correlations} : l[p[1]][p[2]].type = type}
  BY DEF Places
<1>7. <<c, n>> \notin P
  BY <1>2 DEF Places
<1>8. M = IF e.type = type THEN P \cup {<<c, n>>} ELSE P
  <2>1. \A z : z \in M <=> \E d \in Correlations : \E i \in DOMAIN more[d] :
                             z = <<d, i>> /\ more[d][i].type = type
    BY DEF Places
  <2>2. \A z : z \in P <=> \E d \in Correlations : \E i \in DOMAIN lists[d] :
                             z = <<d, i>> /\ lists[d][i].type = type
    BY DEF Places
  <2> HIDE DEF P, M
  <2>3. \A z : z \in M <=> z \in P \/ (e.type = type /\ z = <<c, n>>)
    BY <1>2, <1>3, <1>4, <2>1, <2>2
  <2>4. QED
    BY <2>3
<1>9. /\ IsFiniteSet(P) /\ Count(lists, type) = Cardinality(P)
      /\ Count(more, type) = Cardinality(M)
  BY <1>5, CountIs
<1> HIDE DEF P, M
<1>10. Cardinality(P \cup {<<c, n>>}) = Cardinality(P) + 1 /\ Cardinality(P) \in Nat
  BY <1>7, <1>9, FS_AddElement, FS_CardinalityType
<1>11. QED
  BY <1>5, <1>8, <1>9, <1>10 DEF more

\* The alarms that are due.
Balance(t) ==
  AuthFailureThreshold * Count(t.notices, "security.auth_failures") + t.streak
    <= Count(t.events, "auth.login_failure")

\* What a recorded event makes of a trail.
LEMMA RecordedIs ==
  ASSUME NEW t, TrailShape(t), NEW c \in Correlations, NEW event
  PROVE  /\ Recorded(t, c, event).events = With(t.events, c, event)
         /\ Recorded(t, c, event).notices =
              IF NoticeType(t, event) = "none" THEN t.notices
              ELSE With(t.notices, c, Notice(NoticeType(t, event), event.about))
         /\ TrailShape(Recorded(t, c, event))
<1> DEFINE u == Recorded(t, c, event)
           type == NoticeType(t, event)
<1>0. /\ TrailOK(u) /\ DOMAIN t.events = Correlations
      /\ t.notices = [d \in Correlations |-> t.notices[d]]
      /\ \A d \in Correlations : IsList(t.events[d]) /\ IsList(t.notices[d])
      /\ \A d \in Correlations : \A i \in DOMAIN t.notices[d] :
           DOMAIN t.notices[d][i] = {"type", "about", "read"}
  BY RecordedCounts DEF TrailShape
<1>1. u.events = With(t.events, c, event)
  BY <1>0 DEF Recorded, With
<1>2. u.notices = [t.notices EXCEPT ![c] = t.notices[c] \o NoticesOf(t, event)]
  BY <1>0 DEF Recorded
<1>3. u.notices = IF type = "none" THEN t.notices
                  ELSE With(t.notices, c, Notice(type, event.about))
  <2>1. CASE type = "none"
    <3>1. NoticesOf(t, event) = << >>
      BY <2>1 DEF NoticesOf
    <3>2. t.notices[c] \o << >> = t.notices[c]
      BY <1>0, OneMore
    <3>3. [t.notices EXCEPT ![c] = t.notices[c]] = t.notices
      BY <1>0
    <3> HIDE DEF u, type
    <3>4. QED
      BY <1>2, <2>1, <3>1, <3>2, <3>3
  <2>2. CASE type # "none"
    <3>1. NoticesOf(t, event) = <<Notice(type, event.about)>>
      BY <2>2 DEF NoticesOf
    <3>2. t.notices[c] \o <<Notice(type, event.about)>> =
            Append(t.notices[c], Notice(type, event.about))
      BY <1>0, OneMore
    <3> HIDE DEF u, type
    <3>3. QED
      BY <1>2, <2>2, <3>1, <3>2 DEF With
  <2>3. QED
    BY <2>1, <2>2
<1>4. \A d \in Correlations : IsList(u.events[d])
  <2>1. IsList(Append(t.events[c], event))
    BY <1>0, OneMore
  <2> HIDE DEF u
  <2>2. QED
    BY <1>0, <1>1, <2>1 DEF With
<1>5. \A d \in Correlations :
        /\ IsList(u.notices[d])
        /\ \A i \in DOMAIN u.notices[d] : DOMAIN u.notices[d][i] = {"type", "about", "read"}
  <2> DEFINE notice == Notice(type, event.about)
             l == t.notices[c]
             m == Append(l, notice)
  <2>1. DOMAIN notice = {"type", "about", "read"}
    BY DEF Notice
  <2>2. IsList(l) /\ \A i \in DOMAIN l : DOMAIN l[i] = {"type", "about", "read"}
    BY <1>0
  <2>3. /\ IsList(m) /\ DOMAIN m = DOMAIN l \cup {Len(l) + 1} /\ m[Len(l) + 1] = notice
        /\ \A i \in DOMAIN l : m[i] = l[i]
    <3> HIDE DEF notice, l
    <3>1. QED
      BY <2>2, OneMore
  <2>4. \A i \in DOMAIN m : DOMAIN m[i] = {"type", "about", "read"}
    <3> HIDE DEF notice, l, m
    <3>1. QED
      BY <2>1, <2>2, <2>3
  <2>5. u.notices = t.notices \/ u.notices = [t.notices EXCEPT ![c] = m]
    BY <1>3 DEF With
  <2> HIDE DEF u, type, m, notice
  <2>6. CASE u.notices = t.notices
    BY <1>0, <2>6
  <2>7. CASE u.notices = [t.notices EXCEPT ![c] = m]
    BY <1>0, <2>3, <2>4, <2>7
  <2>8. QED
    BY <2>5, <2>6, <2>7
<1>6. DOMAIN u.events = Correlations /\ u.notices = [d \in Correlations |-> u.notices[d]]
  <2> HIDE DEF u, type
  <2>1. QED
    BY <1>0, <1>1, <1>3 DEF With
<1> HIDE DEF u, type
<1>7. TrailShape(u)
  BY <1>0, <1>4, <1>5, <1>6 DEF TrailShape
<1>8. QED
  BY <1>1, <1>3, <1>7 DEF u, type

\* An alarm is given when enough logins have failed, and then they count no more.
LEMMA RecordedBalances ==
  ASSUME NEW t, TrailShape(t), Balance(t), NEW c \in Correlations, NEW event
  PROVE  Balance(Recorded(t, c, event))
<1> DEFINE u == Recorded(t, c, event)
           type == NoticeType(t, event)
           alarm == "security.auth_failures"
           failure == "auth.login_failure"
<1>1. /\ u.events = With(t.events, c, event)
      /\ u.notices = IF type = "none" THEN t.notices
                     ELSE With(t.notices, c, Notice(type, event.about))
  BY RecordedIs
<1>2. /\ DOMAIN t.events = Correlations /\ DOMAIN t.notices = Correlations
      /\ \A d \in Correlations : IsList(t.events[d]) /\ IsList(t.notices[d])
      /\ t.streak \in 0..2
  BY DEF TrailShape, TrailOK, AuthFailureThreshold
<1>3. u.streak = StreakAfter(t, event)
  BY DEF Recorded
<1>4. type = alarm => Alarms(t, event)
  BY NoticeOfOutcome
<1>5. /\ Count(t.events, failure) \in Nat
      /\ Count(u.events, failure) =
           IF event.type = failure THEN Count(t.events, failure) + 1 ELSE Count(t.events, failure)
  <2> HIDE DEF u
  <2>1. QED
    BY <1>1, <1>2, CountMore
<1>6. Notice(type, event.about).type = type
  BY DEF Notice
<1>7. /\ Count(t.notices, alarm) \in Nat
      /\ Count(u.notices, alarm) =
           IF type = alarm THEN Count(t.notices, alarm) + 1 ELSE Count(t.notices, alarm)
  <2> DEFINE notice == Notice(type, event.about)
  <2> HIDE DEF u, notice, type
  <2>2. /\ Count(t.notices, alarm) \in Nat
        /\ Count(With(t.notices, c, notice), alarm) =
             IF notice.type = alarm THEN Count(t.notices, alarm) + 1 ELSE Count(t.notices, alarm)
    <3> DEFINE lists == t.notices
    <3>1. DOMAIN lists = Correlations /\ \A d \in Correlations : IsList(lists[d])
      BY <1>2
    <3> HIDE DEF lists, alarm
    <3>2. /\ Count(lists, alarm) \in Nat
          /\ Count(With(lists, c, notice), alarm) =
               IF notice.type = alarm THEN Count(lists, alarm) + 1 ELSE Count(lists, alarm)
      BY <3>1, CountMore
    <3>3. QED
      BY <3>2 DEF lists
  <2>3. alarm # "none"
    OBVIOUS
  <2> HIDE DEF alarm
  <2>4. QED
    BY <1>1, <1>6, <2>2, <2>3 DEF notice
<1> DEFINE N == Count(t.notices, alarm)
           N2 == Count(u.notices, alarm)
           E == Count(t.events, failure)
           E2 == Count(u.events, failure)
           s2 == u.streak
<1>8. 3 * N + t.streak <= E /\ N \in Nat /\ E \in Nat
  BY <1>5, <1>7 DEF Balance, AuthFailureThreshold
<1>9. \/ event.type # failure /\ ~Alarms(t, event) /\ s2 = t.streak
      \/ event.type = failure /\ ~Alarms(t, event) /\ s2 = t.streak + 1
      \/ event.type = failure /\ Alarms(t, event) /\ s2 = 0 /\ t.streak = 2
  BY <1>2, <1>3 DEF StreakAfter, Alarms, AuthFailureThreshold
<1>10. /\ N2 = IF type = alarm THEN N + 1 ELSE N
       /\ E2 = IF event.type = failure THEN E + 1 ELSE E
  BY <1>5, <1>7
<1> HIDE DEF N, N2, E, E2, s2, alarm, failure, type
<1>11. 3 * N2 + s2 <= E2
  BY <1>2, <1>4, <1>8, <1>9, <1>10
<1>12. QED
  BY <1>11 DEF Balance, AuthFailureThreshold, N2, E2, s2, alarm, failure

\* A trail of which one correlation has what was recorded of it, and the rest stays.
Adds(u, t, c, told) ==
  /\ TrailShape(u) /\ Balance(u)
  /\ \A d \in Correlations \ {c} : u.events[d] = t.events[d] /\ u.notices[d] = t.notices[d]
  /\ \A o \in Outcomes :
       /\ About(u.events[c], o.event) = About(t.events[c], o.event) \cup told[o]
       /\ About(u.notices[c], o.notice) = About(t.notices[c], o.notice) \cup told[o]

\* An outcome that is recorded is noticed, and nothing else is told of it.
LEMMA AddedOne ==
  ASSUME NEW t, TrailShape(t), Balance(t), NEW c \in Correlations, NEW event
  PROVE  Adds(Recorded(t, c, event), t, c,
              [o \in Outcomes |-> IF event.type = o.event THEN {event.about} ELSE {}])
<1> DEFINE u == Recorded(t, c, event)
           told == [o \in Outcomes |-> IF event.type = o.event THEN {event.about} ELSE {}]
           type == NoticeType(t, event)
           notice == Notice(type, event.about)
<1>1. /\ u.events = With(t.events, c, event)
      /\ u.notices = IF type = "none" THEN t.notices ELSE With(t.notices, c, notice)
      /\ TrailShape(u) /\ Balance(u)
  BY RecordedIs, RecordedBalances
<1>2. /\ DOMAIN t.events = Correlations /\ DOMAIN t.notices = Correlations
      /\ IsList(t.events[c]) /\ IsList(t.notices[c])
  BY DEF TrailShape
<1>3. \A d \in Correlations \ {c} : u.events[d] = t.events[d] /\ u.notices[d] = t.notices[d]
  <2> HIDE DEF u, type, notice
  <2>1. QED
    BY <1>1, <1>2 DEF With
<1>4. u.events[c] = Append(t.events[c], event)
  <2> HIDE DEF u
  <2>1. QED
    BY <1>1, <1>2 DEF With
<1>5. u.notices[c] = IF type = "none" THEN t.notices[c] ELSE Append(t.notices[c], notice)
  <2> HIDE DEF u, type, notice
  <2>1. QED
    BY <1>1, <1>2 DEF With
<1>6. ASSUME NEW o \in Outcomes
      PROVE  /\ About(u.events[c], o.event) = About(t.events[c], o.event) \cup told[o]
             /\ About(u.notices[c], o.notice) = About(t.notices[c], o.notice) \cup told[o]
  <2>1. told[o] = IF event.type = o.event THEN {event.about} ELSE {}
    OBVIOUS
  <2>2. type = o.notice <=> event.type = o.event
    BY NoticeOfOutcome
  <2>3. o.notice # "none"
    BY DEF Outcomes
  <2>4. notice.type = type /\ notice.about = event.about
    BY DEF Notice
  <2> HIDE DEF u, told, type, notice
  <2>5. About(u.events[c], o.event) =
          IF event.type = o.event THEN About(t.events[c], o.event) \cup {event.about}
          ELSE About(t.events[c], o.event)
    <3> DEFINE l == t.events[c]
               name == o.event
    <3>1. IsList(l)
      BY <1>2
    <3> HIDE DEF l, name
    <3>2. About(Append(l, event), name) =
            IF event.type = name THEN About(l, name) \cup {event.about} ELSE About(l, name)
      BY <3>1, AboutMore
    <3>3. QED
      BY <1>4, <3>2 DEF l, name
  <2>6. About(Append(t.notices[c], notice), o.notice) =
          IF notice.type = o.notice THEN About(t.notices[c], o.notice) \cup {notice.about}
          ELSE About(t.notices[c], o.notice)
    <3> DEFINE l == t.notices[c]
               name == o.notice
    <3>1. IsList(l)
      BY <1>2
    <3> HIDE DEF l, name
    <3>2. About(Append(l, notice), name) =
            IF notice.type = name THEN About(l, name) \cup {notice.about} ELSE About(l, name)
      BY <3>1, AboutMore
    <3>3. QED
      BY <3>2 DEF l, name
  <2>7. QED
    BY <1>5, <2>1, <2>2, <2>3, <2>4, <2>5, <2>6
<1> HIDE DEF u, told, type, notice
<1>7. QED
  BY <1>1, <1>3, <1>6 DEF Adds, u, told

\* What the events of a list say of the outcomes.
Says(events) == [o \in Outcomes |-> About(events, o.event)]

\* So it is when many events are recorded.
LEMMA Added ==
  ASSUME NEW t, TrailShape(t), Balance(t), NEW c \in Correlations, NEW events, IsList(events)
  PROVE  Adds(RecordedAll(t, c, events), t, c, Says(events))
<1> DEFINE n == Len(events)
           First(k) == [o \in Outcomes |->
                          {events[i].about : i \in {j \in 1..k : events[j].type = o.event}}]
<1>0. PICK w : OneByOne(w, t, c, events)
  BY RecordedOneByOne
<1>1. /\ w[0] = t /\ w[n] = RecordedAll(t, c, events)
      /\ \A k \in 1..n : w[k] = Recorded(w[k - 1], c, events[k])
  BY <1>0 DEF OneByOne
<1>2. DOMAIN events = 1..n /\ n \in Nat
  BY ListDomain DEF IsList
<1> DEFINE Good == {k \in Nat : k <= n => Adds(w[k], t, c, First(k))}
<1>3. 0 \in Good
  <2>1. \A o \in Outcomes : First(0)[o] = {}
    OBVIOUS
  <2> HIDE DEF First, n
  <2>2. Adds(t, t, c, First(0))
    BY <2>1 DEF Adds
  <2>3. Adds(w[0], t, c, First(0))
    BY <1>1, <2>2
  <2>4. QED
    BY <2>3
<1>4. ASSUME NEW k \in Nat, k \in Good PROVE k + 1 \in Good
  <2>1. ASSUME k + 1 <= n PROVE Adds(w[k + 1], t, c, First(k + 1))
    <3> DEFINE e == events[k + 1]
               one == [o \in Outcomes |-> IF e.type = o.event THEN {e.about} ELSE {}]
    <3>1. k + 1 \in 1..n /\ (k + 1) - 1 = k /\ k <= n /\ 1..(k + 1) = (1..k) \cup {k + 1}
      BY <1>2, <2>1
    <3>2. w[k + 1] = Recorded(w[k], c, e)
      BY <1>1, <3>1
    <3>3. Adds(w[k], t, c, First(k))
      BY <1>4, <3>1
    <3>4. TrailShape(w[k]) /\ Balance(w[k])
      BY <3>3 DEF Adds
    <3>5. Adds(Recorded(w[k], c, e), w[k], c, one)
      <4> HIDE DEF e
      <4>1. QED
        BY <3>4, AddedOne
    <3>6. \A o \in Outcomes : First(k + 1)[o] = First(k)[o] \cup one[o]
      <4> SUFFICES ASSUME NEW o \in Outcomes PROVE First(k + 1)[o] = First(k)[o] \cup one[o]
        OBVIOUS
      <4>1. /\ First(k + 1)[o] =
                 {events[i].about : i \in {j \in 1..(k + 1) : events[j].type = o.event}}
            /\ First(k)[o] = {events[i].about : i \in {j \in 1..k : events[j].type = o.event}}
            /\ one[o] = IF e.type = o.event THEN {e.about} ELSE {}
        OBVIOUS
      <4> HIDE DEF First, one
      <4>2. QED
        BY <3>1, <4>1
    <3> HIDE DEF First, one, e, n
    <3>7. QED
      BY <3>2, <3>3, <3>5, <3>6 DEF Adds
  <2> HIDE DEF First, n
  <2>2. QED
    BY <2>1
<1>5. n \in Good
  <2>1. 0 \in Good /\ \A k \in Nat : k \in Good => k + 1 \in Good
    BY <1>3, <1>4
  <2> HIDE DEF Good
  <2>2. QED
    BY <1>2, <2>1, Inductive
<1>6. First(n) = Says(events)
  BY <1>2 DEF Says, About
<1>7. Adds(w[n], t, c, First(n))
  <2> HIDE DEF First
  <2>1. QED
    BY <1>2, <1>5
<1> HIDE DEF First
<1>8. QED
  BY <1>1, <1>6, <1>7

-----------------------------------------------------------------------------
\* What leaves the outcomes alone.

\* A trail that tells of the outcomes what another one does.
Alike(u, t) ==
  /\ TrailShape(u) /\ Balance(u)
  /\ \A d \in Correlations, o \in Outcomes :
       /\ About(u.events[d], o.event) = About(t.events[d], o.event)
       /\ About(u.notices[d], o.notice) = About(t.notices[d], o.notice)

\* Events of no outcome.
Aloof(events) == IsList(events) /\ \A o \in Outcomes : About(events, o.event) = {}

\* Such events leave the outcomes alone.
LEMMA AloofAlike ==
  ASSUME NEW t, TrailShape(t), Balance(t), NEW c \in Correlations, NEW events, Aloof(events)
  PROVE  Alike(RecordedAll(t, c, events), t)
<1> DEFINE u == RecordedAll(t, c, events)
<1>1. Adds(u, t, c, Says(events)) /\ \A o \in Outcomes : Says(events)[o] = {}
  BY Added DEF Aloof, Says
<1> HIDE DEF u
<1>2. QED
  BY <1>1 DEF Adds, Alike, u

\* What a list of things that are no outcome says.
LEMMA AloofLists ==
  /\ \A events \in Seq(Guarded) : Aloof(events)
  /\ \A e : e.type \notin {o.event : o \in Outcomes} => Aloof(<<e>>)
  /\ Aloof(<< >>)
<1>1. ASSUME NEW events \in Seq(Guarded) PROVE Aloof(events)
  <2>1. IsList(events)
    BY ListOfMembers DEF IsList
  <2>2. \A i \in DOMAIN events : events[i] \in Guarded
    OBVIOUS
  <2>3. \A g \in Guarded, o \in Outcomes : g.type # o.event
    BY DEF Guarded, Outcomes, Plain, Event
  <2>4. QED
    BY <2>1, <2>2, <2>3 DEF Aloof, About
<1>2. ASSUME NEW e, e.type \notin {o.event : o \in Outcomes} PROVE Aloof(<<e>>)
  <2>1. DOMAIN <<e>> = {1} /\ <<e>>[1] = e
    OBVIOUS
  <2>2. QED
    BY <1>2, <2>1, ShortList DEF Aloof, About
<1>3. Aloof(<< >>)
  BY ShortList DEF Aloof, About
<1>4. QED
  BY <1>1, <1>2, <1>3

\* A function over the first numbers is a list.
LEMMA ListOver ==
  ASSUME NEW n \in Nat, NEW l, l = [i \in 1..n |-> l[i]]
  PROVE  IsList(l)
<1> DEFINE S == {l[i] : i \in 1..n}
<1>1. \A i \in 1..n : l[i] \in S
  OBVIOUS
<1> HIDE DEF S
<1>2. l \in [1..n -> S]
  BY <1>1
<1>3. l \in Seq(S)
  BY <1>2
<1>4. QED
  BY <1>3, ListOfMembers DEF IsList

\* A trail of which some notices were read, and logins forgotten.
Remarked(u, t) ==
  /\ TrailOK(u) /\ u.events = t.events /\ u.streak <= t.streak
  /\ u.notices = [c \in Correlations |-> u.notices[c]]
  /\ \A c \in Correlations :
       /\ IsList(u.notices[c]) /\ DOMAIN u.notices[c] = DOMAIN t.notices[c]
       /\ \A i \in DOMAIN t.notices[c] :
            /\ DOMAIN u.notices[c][i] = {"type", "about", "read"}
            /\ u.notices[c][i].type = t.notices[c][i].type
            /\ u.notices[c][i].about = t.notices[c][i].about

\* It tells the same.
LEMMA RemarkedAlike ==
  ASSUME NEW t, TrailShape(t), Balance(t), NEW u, Remarked(u, t)
  PROVE  Alike(u, t)
<1>1. TrailShape(u)
  BY DEF Remarked, TrailShape
<1>2. \A d \in Correlations, o \in Outcomes :
        /\ About(u.events[d], o.event) = About(t.events[d], o.event)
        /\ About(u.notices[d], o.notice) = About(t.notices[d], o.notice)
  BY DEF Remarked, About
<1>3. Count(u.notices, "security.auth_failures") = Count(t.notices, "security.auth_failures")
  <2> DEFINE a == "security.auth_failures"
  <2>1. \A c \in Correlations :
          {i \in DOMAIN u.notices[c] : u.notices[c][i].type = a}
            = {i \in DOMAIN t.notices[c] : t.notices[c][i].type = a}
    BY DEF Remarked
  <2>2. Places(u.notices, a, Correlations) = Places(t.notices, a, Correlations)
    BY <2>1 DEF Places
  <2>3. \A c \in Correlations : IsList(u.notices[c]) /\ IsList(t.notices[c])
    BY <1>1 DEF TrailShape
  <2> DEFINE x == u.notices
             y == t.notices
  <2>4. (\A c \in Correlations : IsList(x[c])) /\ \A c \in Correlations : IsList(y[c])
    BY <2>3
  <2> HIDE DEF x, y, a
  <2>5. /\ Count(x, a) = Cardinality(Places(x, a, Correlations))
        /\ Count(y, a) = Cardinality(Places(y, a, Correlations))
    BY <2>4, CountIs
  <2>6. QED
    BY <2>2, <2>5 DEF x, y, a
<1>4. u.streak <= t.streak /\ u.streak \in Int /\ t.streak \in Int /\ u.events = t.events
  BY <1>1 DEF Remarked, TrailShape, TrailOK, AuthFailureThreshold
<1>5. /\ Count(t.notices, "security.auth_failures") \in Nat
      /\ Count(t.events, "auth.login_failure") \in Nat
  <2> DEFINE x == t.events
             y == t.notices
  <2>1. (\A c \in Correlations : IsList(x[c])) /\ \A c \in Correlations : IsList(y[c])
    BY DEF TrailShape
  <2> HIDE DEF x, y
  <2>2. \A a : /\ Count(x, a) = Cardinality(Places(x, a, Correlations))
               /\ Count(y, a) = Cardinality(Places(y, a, Correlations))
               /\ IsFiniteSet(Places(x, a, Correlations))
               /\ IsFiniteSet(Places(y, a, Correlations))
    BY <2>1, CountIs
  <2>3. QED
    BY <2>2, FS_CardinalityType DEF x, y
<1>6. Balance(u)
  <2> DEFINE n == Count(t.notices, "security.auth_failures")
             e == Count(t.events, "auth.login_failure")
  <2>1. 3 * n + t.streak <= e /\ n \in Nat /\ e \in Nat
    BY <1>5 DEF Balance, AuthFailureThreshold
  <2> HIDE DEF n, e
  <2>2. 3 * n + u.streak <= e
    BY <1>4, <2>1
  <2>3. QED
    BY <1>3, <1>4, <2>2 DEF Balance, AuthFailureThreshold, n, e
<1>7. QED
  BY <1>1, <1>2, <1>6 DEF Alike

\* Notices that are read, and logins that are forgotten.
LEMMA MarksRemark ==
  ASSUME NEW t, TrailShape(t)
  PROVE  /\ Remarked(t, t) /\ Remarked(AllMarkedRead(t), t)
         /\ \A c, i : HasNotice(t, c, i) => Remarked(MarkedRead(t, c, i), t)
         /\ Remarked([t EXCEPT !.streak = 0], t)
<1>1. /\ DOMAIN t = {"events", "notices", "streak"} /\ t.streak \in 0..2
      /\ t.notices = [c \in Correlations |-> t.notices[c]]
      /\ \A c \in Correlations :
           /\ IsList(t.notices[c])
           /\ \A i \in DOMAIN t.notices[c] : DOMAIN t.notices[c][i] = {"type", "about", "read"}
  BY DEF TrailShape, TrailOK, AuthFailureThreshold
<1>2. TrailOK(t)
  BY DEF TrailShape
<1>3. Remarked(t, t)
  BY <1>1, <1>2 DEF Remarked
<1>4. Remarked([t EXCEPT !.streak = 0], t)
  BY <1>1 DEF Remarked, TrailOK, AuthFailureThreshold
<1>5. \A c \in Correlations :
        /\ DOMAIN t.notices[c] = 1..Len(t.notices[c]) /\ Len(t.notices[c]) \in Nat
        /\ t.notices[c] = [i \in 1..Len(t.notices[c]) |-> t.notices[c][i]]
  BY <1>1, ListDomain DEF IsList
<1>6. Remarked(AllMarkedRead(t), t)
  <2> DEFINE u == AllMarkedRead(t)
             Read(c) == [i \in DOMAIN t.notices[c] |-> [t.notices[c][i] EXCEPT !.read = TRUE]]
  <2>1. /\ DOMAIN u = DOMAIN t /\ u.events = t.events /\ u.streak = t.streak
        /\ u.notices = [c \in DOMAIN t.notices |-> Read(c)]
    BY <1>1 DEF AllMarkedRead
  <2>2. ASSUME NEW c \in Correlations
        PROVE  /\ IsList(Read(c)) /\ DOMAIN Read(c) = DOMAIN t.notices[c]
               /\ \A i \in DOMAIN t.notices[c] :
                    /\ DOMAIN Read(c)[i] = {"type", "about", "read"}
                    /\ Read(c)[i].type = t.notices[c][i].type
                    /\ Read(c)[i].about = t.notices[c][i].about
    <3> DEFINE l == Read(c)
               n == Len(t.notices[c])
    <3>1. l = [i \in 1..n |-> l[i]] /\ n \in Nat /\ DOMAIN l = DOMAIN t.notices[c]
      BY <1>5
    <3>2. \A i \in DOMAIN t.notices[c] : l[i] = [t.notices[c][i] EXCEPT !.read = TRUE]
      OBVIOUS
    <3> HIDE DEF l, n
    <3>3. IsList(l)
      BY <3>1, ListOver
    <3>4. \A i \in DOMAIN t.notices[c] :
            /\ DOMAIN l[i] = {"type", "about", "read"}
            /\ l[i].type = t.notices[c][i].type /\ l[i].about = t.notices[c][i].about
      <4> DEFINE m == t.notices[c]
      <4>1. \A i \in DOMAIN m : DOMAIN m[i] = {"type", "about", "read"}
        BY <1>1
      <4>2. \A i \in DOMAIN m : l[i] = [m[i] EXCEPT !.read = TRUE]
        BY <3>2
      <4> HIDE DEF m
      <4>3. \A i \in DOMAIN m : /\ DOMAIN l[i] = {"type", "about", "read"}
                                /\ l[i].type = m[i].type /\ l[i].about = m[i].about
        BY <4>1, <4>2
      <4>4. QED
        BY <4>3 DEF m
    <3>5. QED
      BY <3>1, <3>3, <3>4 DEF l
  <2> HIDE DEF u, Read
  <2>3. u.notices = [c \in Correlations |-> u.notices[c]]
        /\ \A c \in Correlations : u.notices[c] = Read(c)
    BY <1>1, <2>1
  <2>4. TrailOK(u)
    BY <1>2, <2>1 DEF TrailOK
  <2>5. QED
    BY <1>1, <2>1, <2>2, <2>3, <2>4 DEF Remarked, u
<1>7. ASSUME NEW c, NEW i, HasNotice(t, c, i) PROVE Remarked(MarkedRead(t, c, i), t)
  <2> DEFINE u == MarkedRead(t, c, i)
             l == [t.notices[c] EXCEPT ![i] = [t.notices[c][i] EXCEPT !.read = TRUE]]
             n == Len(t.notices[c])
  <2>0. c \in Correlations /\ i \in DOMAIN t.notices[c]
    BY <1>1, <1>7 DEF HasNotice
  <2>1. /\ DOMAIN u = DOMAIN t /\ u.events = t.events /\ u.streak = t.streak
        /\ u.notices = [t.notices EXCEPT ![c] = l]
    BY <1>1 DEF MarkedRead
  <2>2. /\ l = [k \in 1..n |-> l[k]] /\ n \in Nat /\ DOMAIN l = DOMAIN t.notices[c]
    BY <1>5, <2>0
  <2>3. \A k \in DOMAIN t.notices[c] :
          l[k] = IF k = i THEN [t.notices[c][k] EXCEPT !.read = TRUE] ELSE t.notices[c][k]
    BY <1>5, <2>0
  <2> HIDE DEF u, l, n
  <2>4. IsList(l)
    BY <2>2, ListOver
  <2>5. \A k \in DOMAIN t.notices[c] :
          /\ DOMAIN l[k] = {"type", "about", "read"}
          /\ l[k].type = t.notices[c][k].type /\ l[k].about = t.notices[c][k].about
    BY <1>1, <2>0, <2>3
  <2>6. TrailOK(u)
    BY <1>2, <2>1 DEF TrailOK
  <2>7. /\ u.notices = [d \in Correlations |-> u.notices[d]] /\ u.notices[c] = l
        /\ \A d \in Correlations \ {c} : u.notices[d] = t.notices[d]
    BY <1>1, <2>0, <2>1
  <2>8. ASSUME NEW d \in Correlations
        PROVE  /\ IsList(u.notices[d]) /\ DOMAIN u.notices[d] = DOMAIN t.notices[d]
               /\ \A k \in DOMAIN t.notices[d] :
                    /\ DOMAIN u.notices[d][k] = {"type", "about", "read"}
                    /\ u.notices[d][k].type = t.notices[d][k].type
                    /\ u.notices[d][k].about = t.notices[d][k].about
    <3>1. CASE d = c
      BY <2>2, <2>4, <2>5, <2>7, <3>1
    <3>2. CASE d # c
      BY <1>1, <2>7, <3>2
    <3>3. QED
      BY <3>1, <3>2
  <2>9. u.streak <= t.streak
    BY <1>1, <2>1
  <2>10. Remarked(u, t)
    BY <2>1, <2>6, <2>7, <2>8, <2>9 DEF Remarked
  <2>11. QED
    BY <2>10 DEF u
<1>8. QED
  BY <1>3, <1>4, <1>6, <1>7

-----------------------------------------------------------------------------
\* What a publication records.

\* Lists one after the other tell what both tell.
LEMMA AboutBoth ==
  ASSUME NEW s, IsList(s), NEW t, IsList(t), NEW type
  PROVE  About(s \o t, type) = About(s, type) \cup About(t, type)
<1> DEFINE both == s \o t
           m == Len(s)
           n == Len(t)
           A == ToSet(s)
           B == ToSet(t)
<1>1. s \in Seq(A) /\ t \in Seq(B)
  BY DEF IsList
<1> HIDE DEF A, B
<1>2. DOMAIN s = 1..m /\ DOMAIN t = 1..n /\ m \in Nat /\ n \in Nat
  BY <1>1
<1>3. s \in Seq(A \cup B) /\ t \in Seq(A \cup B)
  BY <1>1
<1>4. /\ DOMAIN both = 1..(m + n)
      /\ \A i \in 1..m : both[i] = s[i]
      /\ \A i \in 1..n : both[m + i] = t[i]
  BY <1>3
<1> HIDE DEF both, m, n
<1>5. \A k \in 1..(m + n) : k \in 1..m \/ (k - m \in 1..n /\ m + (k - m) = k)
  BY <1>2
<1>6. (\A i \in 1..m : i \in 1..(m + n)) /\ \A i \in 1..n : m + i \in 1..(m + n)
  BY <1>2
<1>7. About(both, type) \subseteq About(s, type) \cup About(t, type)
  <2>1. ASSUME NEW k \in DOMAIN both, both[k].type = type
        PROVE  both[k].about \in About(s, type) \cup About(t, type)
    <3>1. CASE k \in 1..m
      BY <1>2, <1>4, <2>1, <3>1 DEF About
    <3>2. CASE k - m \in 1..n /\ m + (k - m) = k
      <4>1. both[k] = t[k - m]
        BY <1>4, <3>2
      <4>2. QED
        BY <1>2, <2>1, <3>2, <4>1 DEF About
    <3>3. QED
      BY <1>4, <1>5, <3>1, <3>2
  <2>2. QED
    BY <2>1 DEF About
<1>8. About(s, type) \cup About(t, type) \subseteq About(both, type)
  BY <1>2, <1>4, <1>6 DEF About
<1>9. QED
  BY <1>7, <1>8 DEF both

\* Before events of no outcome come others, or after them, and nothing more is told.
LEMMA AloofFirst ==
  ASSUME NEW s, Aloof(s), NEW t, IsList(t)
  PROVE  /\ IsList(s \o t)
         /\ \A o \in Outcomes : About(s \o t, o.event) = About(t, o.event)
<1>1. IsList(s) /\ IsList(t)
  BY DEF Aloof
<1>2. IsList(s \o t)
  BY <1>1, ConcatList
<1>3. \A o \in Outcomes : About(s \o t, o.event) = About(s, o.event) \cup About(t, o.event)
  BY <1>1, AboutBoth
<1>4. \A o \in Outcomes : About(s, o.event) = {}
  BY DEF Aloof
<1>5. QED
  BY <1>2, <1>3, <1>4

\* Events about pairs are a list and tell of the pairs.
LEMMA EventsSay ==
  ASSUME NEW pairs, IsList(pairs), NEW type
  PROVE  /\ IsList(EventsAbout(type, pairs))
         /\ \A kind : About(EventsAbout(type, pairs), kind) =
                        IF kind = type THEN ToSet(pairs) ELSE {}
<1> DEFINE list == EventsAbout(type, pairs)
           n == Len(pairs)
<1>1. DOMAIN pairs = 1..n /\ n \in Nat
  BY ListDomain DEF IsList
<1>2. /\ list = [i \in 1..n |-> list[i]] /\ DOMAIN list = 1..n
      /\ \A i \in 1..n : list[i].type = type /\ list[i].about = pairs[i]
  BY <1>1 DEF EventsAbout, Event
<1> HIDE DEF list, n
<1>3. IsList(list)
  BY <1>1, <1>2, ListOver
<1>4. \A kind : About(list, kind) = IF kind = type THEN ToSet(pairs) ELSE {}
  BY <1>1, <1>2 DEF About, ToSet
<1>5. QED
  BY <1>3, <1>4 DEF list

\* What a publication records tells of its answer; of a schedule nothing is told.
LEMMA RecordSays ==
  ASSUME NEW req, AnswerOK(req.answer)
  PROVE  /\ IsList(Record(req))
         /\ req.call.op \in {"publish", "bulk"} =>
              \A o \in Outcomes : Says(Record(req))[o] = ToSet(req.answer[o.list])
<1> DEFINE answer == req.answer
           A == EventsAbout("publishing.queued", answer.accepted)
           B == EventsAbout("publishing.duplicate_skipped", answer.skipped)
           C == EventsAbout("publishing.failed", answer.failed)
           both == OutcomeEvents(answer)
<1>1. IsList(answer.accepted) /\ IsList(answer.skipped) /\ IsList(answer.failed)
  <2>1. \A list \in DOMAIN NoAnswer : IsList(answer[list])
    BY DEF AnswerOK, IsList
  <2>2. QED
    BY <2>1, RequestFields
<1>2. IsList(A) /\ IsList(B) /\ IsList(C)
  BY <1>1, EventsSay
<1>3. \A kind : /\ About(A, kind) = IF kind = "publishing.queued"
                                    THEN ToSet(answer.accepted) ELSE {}
                /\ About(B, kind) = IF kind = "publishing.duplicate_skipped"
                                    THEN ToSet(answer.skipped) ELSE {}
                /\ About(C, kind) = IF kind = "publishing.failed" THEN ToSet(answer.failed) ELSE {}
  BY <1>1, EventsSay
<1>4. both = A \o B \o C
  BY DEF OutcomeEvents
<1> HIDE DEF A, B, C, both
<1>5. IsList(A \o B) /\ IsList(both)
  BY <1>2, <1>4, ConcatList
<1>6. \A kind : About(both, kind) = About(A, kind) \cup About(B, kind) \cup About(C, kind)
  BY <1>2, <1>4, <1>5, AboutBoth
<1>7. \A o \in Outcomes : About(both, o.event) = ToSet(answer[o.list])
  <2>1. /\ About(both, "publishing.queued") = ToSet(answer.accepted)
        /\ About(both, "publishing.duplicate_skipped") = ToSet(answer.skipped)
        /\ About(both, "publishing.failed") = ToSet(answer.failed)
    BY <1>3, <1>6
  <2> HIDE DEF answer
  <2>2. QED
    BY <2>1 DEF Outcomes
<1>8. /\ Aloof(<<Plain("composer.bulk_publish")>>) /\ Aloof(<<Plain("composer.schedule")>>)
      /\ Aloof(<<Plain("publishing.requested")>>) /\ Aloof(<<Plain("composer.publish")>>)
  <2>1. \A type : Plain(type).type = type
    BY DEF Plain, Event
  <2>2. {"composer.bulk_publish", "composer.schedule", "publishing.requested", "composer.publish"}
          \cap {o.event : o \in Outcomes} = {}
    BY DEF Outcomes
  <2>3. QED
    BY <2>1, <2>2, AloofLists
<1>9. Aloof(<<Plain("publishing.requested"), Plain("composer.publish")>>)
  <2> DEFINE s == <<Plain("publishing.requested")>>
             t == <<Plain("composer.publish")>>
  <2>1. <<Plain("publishing.requested"), Plain("composer.publish")>> = s \o t
    OBVIOUS
  <2> HIDE DEF s, t
  <2>2. Aloof(s) /\ Aloof(t)
    BY <1>8 DEF s, t
  <2>3. IsList(t) /\ \A o \in Outcomes : About(t, o.event) = {}
    BY <2>2 DEF Aloof
  <2>4. Aloof(s \o t)
    BY <2>2, <2>3, AloofFirst DEF Aloof
  <2>5. QED
    BY <2>1, <2>4
<1>10. ASSUME NEW head, Aloof(head)
       PROVE  /\ IsList(head \o both)
              /\ \A o \in Outcomes : About(head \o both, o.event) = ToSet(answer[o.list])
  BY <1>5, <1>7, <1>10, AloofFirst
<1>11. /\ IsList(PublishEvents(answer)) /\ IsList(BulkPublishEvents(answer))
       /\ \A o \in Outcomes :
            /\ About(PublishEvents(answer), o.event) = ToSet(answer[o.list])
            /\ About(BulkPublishEvents(answer), o.event) = ToSet(answer[o.list])
  <2> DEFINE two == <<Plain("publishing.requested"), Plain("composer.publish")>>
             one == <<Plain("composer.bulk_publish")>>
  <2>1. PublishEvents(answer) = two \o both /\ BulkPublishEvents(answer) = one \o both
    BY DEF PublishEvents, BulkPublishEvents, both
  <2>2. Aloof(two) /\ Aloof(one)
    BY <1>8, <1>9
  <2> HIDE DEF two, one
  <2>3. QED
    BY <1>10, <2>1, <2>2
<1>12. IsList(<<Plain("composer.schedule")>>)
  BY ShortList
<1>13. /\ req.call.op = "publish" => Record(req) = PublishEvents(answer)
       /\ req.call.op = "bulk" => Record(req) = BulkPublishEvents(answer)
       /\ Record(req) \in {PublishEvents(answer), BulkPublishEvents(answer),
                           <<Plain("composer.schedule")>>}
  <2>1. "publish" # "bulk"
    OBVIOUS
  <2>2. QED
    BY <2>1, Zenon DEF Record
<1> HIDE DEF answer
<1>14. IsList(Record(req))
  BY <1>11, <1>12, <1>13
<1>15. ASSUME req.call.op \in {"publish", "bulk"}, NEW o \in Outcomes
       PROVE  Says(Record(req))[o] = ToSet(req.answer[o.list])
  BY <1>11, <1>13, <1>15 DEF Says, answer
<1>16. QED
  BY <1>14, <1>15

\* The trail tells of an answer's outcomes.
TellsAnswer(t, c, answer) ==
  \A o \in Outcomes : /\ About(t.events[c], o.event) = ToSet(answer[o.list])
                      /\ About(t.notices[c], o.notice) = ToSet(answer[o.list])

\* A request that is not answered and of which nothing was recorded.
Unanswered == {"idle", "admitted", "asset", "check", "look", "queue"}

\* What the trail tells of a request: nothing until it is answered, then its answer.
Recounts(t, r, req) ==
  /\ req.stage \in Unanswered => TellsAnswer(t, r, NoAnswer)
  /\ req.stage = "done" /\ req.code = 202 /\ req.call.op # "schedule"
       => TellsAnswer(t, r, req.answer)

TrailInv ==
  /\ TrailShape(trail) /\ Balance(trail)
  /\ \A r \in Requests : Recounts(trail, r, request[r])

-----------------------------------------------------------------------------
\* What a step does to the trail.

\* What is told of the outcomes alike is told alike of a request.
LEMMA RecountsAlike ==
  ASSUME NEW u, NEW t, Alike(u, t), NEW r \in Requests, NEW req, Recounts(t, r, req)
  PROVE  Recounts(u, r, req)
<1>1. r \in Correlations
  BY DEF Correlations
<1>2. \A answer : TellsAnswer(t, r, answer) => TellsAnswer(u, r, answer)
  BY <1>1 DEF Alike, TellsAnswer
<1>3. QED
  BY <1>2 DEF Recounts

\* A request that goes on with nothing told of it.
Hushes(r) ==
  \E x : /\ request' = [request EXCEPT ![r] = x]
         /\ x.stage \in Unanswered => request[r].stage \in Unanswered
         /\ x.stage = "done" => x.code # 202

\* Then the trail tells what it told.
LEMMA StillRecounted ==
  ASSUME Shaped, TrailInv, Alike(trail', trail),
         request' = request \/ \E r \in Requests : Hushes(r)
  PROVE  TrailInv'
<1>1. TrailShape(trail') /\ Balance(trail')
  BY DEF Alike
<1>2. \A q \in Requests : Recounts(trail', q, request[q])
  BY RecountsAlike DEF TrailInv
<1>3. ASSUME NEW r \in Requests, Hushes(r), NEW q \in Requests
      PROVE  Recounts(trail', q, request'[q])
  <2>1. PICK x : /\ request' = [request EXCEPT ![r] = x]
                 /\ x.stage \in Unanswered => request[r].stage \in Unanswered
                 /\ x.stage = "done" => x.code # 202
    BY <1>3 DEF Hushes
  <2>2. request'[r] = x /\ \A p \in Requests \ {r} : request'[p] = request[p]
    BY <2>1, OneRequest
  <2>3. CASE q # r
    BY <1>2, <2>2, <2>3
  <2>4. CASE q = r
    <3>1. Recounts(trail', r, request[r])
      BY <1>2
    <3>2. Recounts(trail', r, x)
      BY <2>1, <3>1 DEF Recounts
    <3>3. QED
      BY <2>2, <2>4, <3>2
  <2>5. QED
    BY <2>3, <2>4
<1>4. \A q \in Requests : Recounts(trail', q, request'[q])
  BY <1>2, <1>3
<1>5. QED
  BY <1>1, <1>4 DEF TrailInv

\* A publication that is answered is told of, as it is answered.
LEMMA AnswerRecounted ==
  ASSUME Shaped, Shaped', TrailInv, NEW r \in Requests, request[r].stage \in Unanswered, NEW y,
         Continues(r, y)
  PROVE  TrailInv'
<1>1. request' = [request EXCEPT ![r] = y]
  BY DEF Continues
<1>2. request'[r] = y /\ \A q \in Requests \ {r} : request'[q] = request[q]
  BY <1>1, OneRequest
<1>3. Whole(y)
  BY <1>2 DEF Shaped
<1>4. TrailShape(trail) /\ Balance(trail)
  BY DEF TrailInv
<1>5. CASE y.stage # "done"
  <2>1. trail' = trail
    BY <1>5 DEF Continues
  <2>2. Alike(trail', trail)
    BY <1>4, <2>1 DEF Alike
  <2>3. Hushes(r)
    BY <1>1, <1>5 DEF Hushes
  <2>4. QED
    BY <2>2, <2>3, StillRecounted
<1>6. CASE y.stage = "done"
  <2>1. trail' = RecordedAll(trail, r, Record(y))
    BY <1>6 DEF Continues
  <2>2. /\ IsList(Record(y))
        /\ y.call.op \in {"publish", "bulk"} =>
             \A o \in Outcomes : Says(Record(y))[o] = ToSet(y.answer[o.list])
    BY <1>3, RecordSays DEF Whole
  <2>3. r \in Correlations /\ \A q \in Requests : q \in Correlations
    BY DEF Correlations
  <2>4. Adds(trail', trail, r, Says(Record(y)))
    <3> DEFINE events == Record(y)
    <3> HIDE DEF events
    <3>1. IsList(events)
      BY <2>2 DEF events
    <3>2. Adds(RecordedAll(trail, r, events), trail, r, Says(events))
      BY <1>4, <2>3, <3>1, Added
    <3>3. QED
      BY <2>1, <3>2 DEF events
  <2>5. ASSUME NEW q \in Requests, q # r PROVE Recounts(trail', q, request'[q])
    <3>1. trail'.events[q] = trail.events[q] /\ trail'.notices[q] = trail.notices[q]
      BY <2>3, <2>4, <2>5 DEF Adds
    <3>2. Recounts(trail, q, request[q]) /\ request'[q] = request[q]
      BY <1>2, <2>5 DEF TrailInv
    <3>3. QED
      BY <3>1, <3>2 DEF Recounts, TellsAnswer
  <2>6. TellsAnswer(trail, r, NoAnswer)
    BY DEF TrailInv, Recounts
  <2>7. \A o \in Outcomes : ToSet(NoAnswer[o.list]) = {}
    <3>1. \A o \in Outcomes : o.list \in DOMAIN NoAnswer
      BY RequestFields DEF Outcomes
    <3>2. ToSet(<< >>) = {}
      BY DEF ToSet
    <3>3. QED
      BY <3>1, <3>2, RequestFields
  <2>8. ASSUME y.code = 202, y.call.op # "schedule" PROVE TellsAnswer(trail', r, y.answer)
    <3>1. y.call.op \in {"publish", "bulk"}
      BY <1>3, <2>8 DEF Whole, Coded, Publications
    <3>2. \A o \in Outcomes : Says(Record(y))[o] = ToSet(y.answer[o.list])
      BY <2>2, <3>1
    <3>3. \A o \in Outcomes :
            /\ About(trail'.events[r], o.event) =
                 About(trail.events[r], o.event) \cup Says(Record(y))[o]
            /\ About(trail'.notices[r], o.notice) =
                 About(trail.notices[r], o.notice) \cup Says(Record(y))[o]
      BY <2>4, Zenon DEF Adds
    <3>4. \A o \in Outcomes : /\ About(trail.events[r], o.event) = {}
                              /\ About(trail.notices[r], o.notice) = {}
      BY <2>6, <2>7 DEF TellsAnswer
    <3>5. \A o \in Outcomes : /\ About(trail'.events[r], o.event) = ToSet(y.answer[o.list])
                              /\ About(trail'.notices[r], o.notice) = ToSet(y.answer[o.list])
      BY <3>2, <3>3, <3>4
    <3>6. QED
      BY <3>5 DEF TellsAnswer
  <2>9. Recounts(trail', r, y)
    BY <1>6, <2>8 DEF Recounts, Unanswered
  <2>10. \A q \in Requests : Recounts(trail', q, request'[q])
    BY <1>2, <2>5, <2>9
  <2>11. TrailShape(trail') /\ Balance(trail')
    BY <2>4 DEF Adds
  <2>12. QED
    BY <2>10, <2>11 DEF TrailInv
<1>7. QED
  BY <1>5, <1>6

\* A trail of a process that just started.
LEMMA FreshTrail ==
  ASSUME NEW t, t = Recorded(NewTrail(Correlations), "system", Plain("system.startup"))
  PROVE  /\ TrailShape(t) /\ Balance(t)
         /\ \A c \in Correlations : TellsAnswer(t, c, NoAnswer)
<1> DEFINE n == NewTrail(Correlations)
           e == Plain("system.startup")
           noLists == [c \in Correlations |-> << >>]
           told == [o \in Outcomes |-> IF e.type = o.event THEN {e.about} ELSE {}]
<1>1. /\ DOMAIN n = {"events", "notices", "streak"} /\ n.streak = 0
      /\ n.events = noLists /\ n.notices = noLists
  BY DEF NewTrail
<1>2. \A c \in Correlations : noLists[c] = << >>
  OBVIOUS
<1> HIDE DEF n, noLists
<1>3. TrailShape(n)
  <2>1. IsList(<< >>) /\ DOMAIN << >> = {}
    BY ShortList
  <2>2. DOMAIN noLists = Correlations /\ noLists = [c \in Correlations |-> noLists[c]]
    BY DEF noLists
  <2>3. TrailOK(n)
    BY <1>1 DEF TrailOK, AuthFailureThreshold
  <2>4. QED
    BY <1>1, <1>2, <2>1, <2>2, <2>3 DEF TrailShape
<1>4. \A type : Count(noLists, type) = 0
  <2> SUFFICES ASSUME NEW type PROVE Count(noLists, type) = 0
    OBVIOUS
  <2>1. Places(noLists, type, Correlations) = {}
    BY <1>2 DEF Places
  <2>2. \A c \in Correlations : IsList(noLists[c])
    BY <1>2, ShortList
  <2>3. Count(noLists, type) = Cardinality(Places(noLists, type, Correlations))
    BY <2>2, CountIs
  <2>4. QED
    BY <2>1, <2>3, FS_EmptySet
<1>5. Balance(n)
  BY <1>1, <1>4 DEF Balance, AuthFailureThreshold
<1>6. "system" \in Correlations
  BY DEF Correlations
<1>7. e.type = "system.startup"
  BY DEF Plain, Event
<1>8. Adds(t, n, "system", told)
  <2> HIDE DEF e
  <2>1. Adds(Recorded(n, "system", e), n, "system",
             [o \in Outcomes |-> IF e.type = o.event THEN {e.about} ELSE {}])
    BY <1>3, <1>5, <1>6, AddedOne
  <2>2. QED
    BY <2>1 DEF e, n
<1>9. \A o \in Outcomes : told[o] = {}
  <2>1. \A o \in Outcomes : o.event # "system.startup"
    BY DEF Outcomes
  <2> HIDE DEF e
  <2>2. QED
    BY <1>7, <2>1
<1>10. \A c \in Correlations : \A type :
         About(n.events[c], type) = {} /\ About(n.notices[c], type) = {}
  <2>1. \A type : About(<< >>, type) = {}
    BY DEF About
  <2>2. QED
    BY <1>1, <1>2, <2>1
<1>11. \A o \in Outcomes : ToSet(NoAnswer[o.list]) = {}
  <2>1. \A o \in Outcomes : o.list \in DOMAIN NoAnswer
    BY RequestFields DEF Outcomes
  <2>2. ToSet(<< >>) = {}
    BY DEF ToSet
  <2>3. QED
    BY <2>1, <2>2, RequestFields
<1> HIDE DEF e, told
<1>12. ASSUME NEW c \in Correlations PROVE TellsAnswer(t, c, NoAnswer)
  <2>1. CASE c = "system"
    BY <1>6, <1>8, <1>9, <1>10, <1>11, <2>1 DEF Adds, TellsAnswer
  <2>2. CASE c # "system"
    BY <1>8, <1>10, <1>11, <2>2 DEF Adds, TellsAnswer
  <2>3. QED
    BY <2>1, <2>2
<1>13. QED
  BY <1>8, <1>12 DEF Adds

\* What the handlers answer but for a publication.
Replies == {200, 400, 404, 409, 500, 503}

\* What the single events of the handlers are of.
PlainTypes ==
  {"composer.validation", "queue.pause", "queue.resume", "queue.drain", "queue.retry",
   "queue.remove", "provider.config_updated", "provider.validation", "provider.health_check"}

\* An answer that records an event of no outcome, or none.
EndsAloof(r) ==
  \E code \in Replies :
    \/ Ends(r, code, << >>)
    \/ \E e : e.type \in PlainTypes /\ Ends(r, code, <<e>>)

\* The handlers that are no publication's end so.
LEMMA HandlersEndAloof ==
  ASSUME NEW r \in Requests,
         \/ Throws(r) \/ Validate(r) \/ ManageQueue(r) \/ RetryFound(r) \/ RemoveFound(r)
         \/ Configure(r) \/ CheckConfig(r) \/ CheckHealth(r)
  PROVE  EndsAloof(r)
<1> DEFINE call == request[r].call
           None(code) == Ends(r, code, << >>)
           One(code, e) == Ends(r, code, <<e>>)
<1>1. /\ \A code \in Replies : None(code) => EndsAloof(r)
      /\ \A code \in Replies : \A e : e.type \in PlainTypes /\ One(code, e) => EndsAloof(r)
  BY DEF EndsAloof
<1>2. /\ \A type, about, good : Event(type, about, good).type = type
      /\ \A type, about :
           Event(type, about, TRUE).type = type /\ Event(type, about, FALSE).type = type
      /\ \A type : Plain(type).type = type
  BY DEF Event, Plain
<1>3. {200, 400, 404, 409, 500, 503} \subseteq Replies
  BY DEF Replies
<1>4. /\ "composer.validation" \in PlainTypes /\ "queue.retry" \in PlainTypes
      /\ "queue.remove" \in PlainTypes /\ "provider.config_updated" \in PlainTypes
      /\ "provider.validation" \in PlainTypes /\ "provider.health_check" \in PlainTypes
      /\ "queue.pause" \in PlainTypes /\ "queue.resume" \in PlainTypes
      /\ "queue.drain" \in PlainTypes
  BY DEF PlainTypes
<1>5. CASE Throws(r)
  <2>1. None(500)
    BY <1>5 DEF Throws
  <2> HIDE DEF None, One
  <2>2. QED
    BY <1>1, <1>3, <2>1
<1>6. CASE Validate(r)
  <2>1. None(400) \/ \E about, good : One(200, Event("composer.validation", about, good))
    BY <1>6, Zenon DEF Validate
  <2> HIDE DEF None, One
  <2>2. QED
    BY <1>1, <1>2, <1>3, <1>4, <2>1
<1>7. CASE ManageQueue(r)
  <2> DEFINE type == QueueEvents[call.op]
  <2>1. call.op \in {"pause", "resume", "drain"} /\ (None(503) \/ One(200, Plain(type)))
    <3>1. At(r, {"pause", "resume", "drain"}, "admitted")
      BY <1>7 DEF ManageQueue
    <3>2. call.op \in {"pause", "resume", "drain"}
      BY <3>1 DEF At
    <3>3. None(503) \/ One(200, Plain(type))
      BY <1>7, Zenon DEF ManageQueue
    <3>4. QED
      BY <3>2, <3>3
  <2>2. type \in {"queue.pause", "queue.resume", "queue.drain"}
    <3> DEFINE op == call.op
    <3>1. op \in {"pause", "resume", "drain"}
      BY <2>1
    <3> HIDE DEF op
    <3>2. QueueEvents[op] \in {"queue.pause", "queue.resume", "queue.drain"}
      BY <3>1 DEF QueueEvents
    <3>3. QED
      BY <3>2 DEF op
  <2> HIDE DEF None, One, type
  <2>3. QED
    BY <1>1, <1>2, <1>3, <1>4, <2>1, <2>2
<1>8. CASE RetryFound(r) \/ RemoveFound(r)
  <2>1. \/ None(500)
        \/ \E about : One(200, Event("queue.retry", about, TRUE))
        \/ \E about : One(200, Event("queue.remove", about, TRUE))
    BY <1>8, Zenon DEF RetryFound, RemoveFound
  <2> HIDE DEF None, One
  <2>2. CASE None(500)
    BY <1>1, <1>3, <2>2
  <2>3. ASSUME NEW type \in PlainTypes, NEW about, NEW good, NEW code \in Replies,
               One(code, Event(type, about, good))
        PROVE  EndsAloof(r)
    BY <1>1, <1>2, <2>3
  <2>4. CASE \E about : One(200, Event("queue.retry", about, TRUE))
    <3>1. PICK about : One(200, Event("queue.retry", about, TRUE))
      BY <2>4
    <3>2. 200 \in Replies /\ "queue.retry" \in PlainTypes
      BY <1>3, <1>4
    <3>3. QED
      BY <2>3, <3>1, <3>2
  <2>5. CASE \E about : One(200, Event("queue.remove", about, TRUE))
    <3>1. PICK about : One(200, Event("queue.remove", about, TRUE))
      BY <2>5
    <3>2. 200 \in Replies /\ "queue.remove" \in PlainTypes
      BY <1>3, <1>4
    <3>3. QED
      BY <2>3, <3>1, <3>2
  <2>6. QED
    BY <2>1, <2>2, <2>4, <2>5
<1>9. CASE Configure(r)
  <2> DEFINE S(good) == Event("provider.config_updated", call.about[1], good)
  <2>1. None(404) \/ One(200, S(TRUE)) \/ One(400, S(FALSE))
    BY <1>9, Zenon DEF Configure
  <2> DEFINE good == S(TRUE)
             bad == S(FALSE)
  <2>2. good.type = "provider.config_updated" /\ bad.type = "provider.config_updated"
    BY <1>2
  <2>3. None(404) \/ One(200, good) \/ One(400, bad)
    BY <2>1
  <2> HIDE DEF None, One, good, bad
  <2>4. QED
    BY <1>1, <1>3, <1>4, <2>2, <2>3
<1>10. CASE CheckConfig(r) \/ CheckHealth(r)
  <2>1. \/ None(404)
        \/ \E about, good : One(200, Event("provider.validation", about, good))
        \/ \E about, good : One(200, Event("provider.health_check", about, good))
    BY <1>10, Zenon DEF CheckConfig, CheckHealth
  <2> HIDE DEF None, One
  <2>2. QED
    BY <1>1, <1>2, <1>3, <1>4, <2>1
<1>11. QED
  BY <1>5, <1>6, <1>7, <1>8, <1>9, <1>10

\* What hushes it is.
LEMMA HushesBy ==
  ASSUME NEW r, NEW x, request' = [request EXCEPT ![r] = x],
         x.stage \in Unanswered => request[r].stage \in Unanswered,
         x.stage = "done" => x.code # 202
  PROVE  Hushes(r)
<1> DEFINE Becomes(y) == request' = [request EXCEPT ![r] = y]
<1>1. Becomes(x)
  OBVIOUS
<1>2. Hushes(r) <=> \E y :
        /\ Becomes(y)
        /\ y.stage \in Unanswered => request[r].stage \in Unanswered
        /\ y.stage = "done" => y.code # 202
  BY DEF Hushes
<1> HIDE DEF Becomes
<1>3. QED
  BY <1>1, <1>2

\* Events of no outcome recorded, and a request that hushes.
LEMMA AloofRecounted ==
  ASSUME Shaped, TrailInv, NEW c \in Correlations, NEW events, Aloof(events),
         trail' = RecordedAll(trail, c, events),
         request' = request \/ \E r \in Requests : Hushes(r)
  PROVE  TrailInv'
<1>1. Alike(RecordedAll(trail, c, events), trail)
  BY AloofAlike DEF TrailInv
<1>2. Alike(trail', trail)
  BY <1>1
<1>3. QED
  BY <1>2, StillRecounted

\* A request that is answered without one.
LEMMA EndRecounted ==
  ASSUME Shaped, TrailInv, NEW r \in Requests, EndsAloof(r)
  PROVE  TrailInv'
<1>1. PICK code \in Replies :
        \/ Ends(r, code, << >>)
        \/ \E e : e.type \in PlainTypes /\ Ends(r, code, <<e>>)
  BY DEF EndsAloof
<1>2. PlainTypes \cap {o.event : o \in Outcomes} = {}
  BY DEF PlainTypes, Outcomes
<1>3. PICK events : Aloof(events) /\ Ends(r, code, events)
  BY <1>1, <1>2, AloofLists
<1>4. Hushes(r)
  <2> DEFINE x == Remains(request[r], "done", code)
  <2>1. request' = [request EXCEPT ![r] = x]
    BY <1>3 DEF Ends
  <2>2. code \in Codes /\ code # 202 /\ code # 0
    BY DEF Replies, Codes
  <2>3. x.stage = "done" /\ x.code = code
    BY <2>2, RemainsFields DEF Shaped
  <2> HIDE DEF x
  <2>4. QED
    BY <2>1, <2>2, <2>3 DEF Hushes, Unanswered
<1>5. r \in Correlations /\ trail' = RecordedAll(trail, r, events)
  BY <1>3 DEF Correlations, Ends
<1>6. QED
  BY <1>3, <1>4, <1>5, AloofRecounted

\* A request that comes, or is turned away.
LEMMA ArrivalRecounted ==
  ASSUME Shaped, TrailInv, NEW r \in Requests, NEW call, NEW by, NEW credential,
         Received(r, call, by, credential)
  PROVE  TrailInv'
<1> DEFINE verdict == Verdict(setup.auth, credential, PermissionOf(call.op))
           caller == IF setup.auth.enabled THEN Authenticated(setup.auth, credential) ELSE Nobody
           in == [NoRequest EXCEPT !.stage = "admitted", !.call = call, !.by = by,
                                   !.caller = caller]
           out == [NoRequest EXCEPT !.stage = "done", !.code = IF verdict = "401" THEN 401 ELSE 403]
           events == GuardEvents(credential, PermissionOf(call.op))
<1>1. /\ request[r].stage = "idle"
      /\ request' = [request EXCEPT ![r] = IF verdict = "pass" THEN in ELSE out]
      /\ trail' = RecordedAll(trail, r, events)
  BY DEF Received
<1>2. /\ in.stage = "admitted"
      /\ out.stage = "done" /\ out.code \in {401, 403}
  BY RequestFields
<1>3. Aloof(events)
  BY GuardLists, AloofLists
<1> HIDE DEF in, out, events, verdict
<1>4. Hushes(r)
  <2> DEFINE x == IF verdict = "pass" THEN in ELSE out
  <2>1. /\ request' = [request EXCEPT ![r] = x] /\ request[r].stage \in Unanswered
        /\ x.stage = "done" => x.code # 202
    BY <1>1, <1>2 DEF Unanswered
  <2> HIDE DEF x
  <2>2. QED
    BY <2>1, HushesBy
<1>5. r \in Correlations
  BY DEF Correlations
<1>6. QED
  BY <1>1, <1>3, <1>4, <1>5, AloofRecounted

\* A request that goes on without a word.
LEMMA GoneRecounted ==
  ASSUME Shaped, TrailInv, trail' = trail,
         request' = request \/ \E r \in Requests : Hushes(r)
  PROVE  TrailInv'
<1>1. Alike(trail', trail)
  BY DEF TrailInv, Alike
<1>2. QED
  BY <1>1, StillRecounted

\* An answer of which nothing is recorded.
LEMMA SilentEnd ==
  ASSUME NEW r, NEW code \in Replies, Ends(r, code, << >>)
  PROVE  EndsAloof(r)
<1>1. QED
  BY Zenon DEF EndsAloof

\* What goes on without a word.
LEMMA GoesHushed ==
  ASSUME Shaped, NEW r \in Requests,
         \/ FindJob(r) \/ BeginCalendar(r) \/ ListEvents(r) \/ ScanState(r) \/ ReadHistory(r)
  PROVE  EndsAloof(r) \/ (Hushes(r) /\ trail' = trail)
<1> DEFINE req == request[r]
<1>1. DOMAIN req = {"stage", "call", "by", "caller", "todo", "left", "answer", "code",
                    "scanned", "entries", "state"}
  BY RequestFields DEF Shaped, Whole
<1>2. ASSUME NEW x, Goes(r, x),
             x.stage \in {"act", "scan", "history"} \/ (x.stage = "done" /\ x.code = 200)
      PROVE  Hushes(r) /\ trail' = trail
  <2>1. /\ request' = [request EXCEPT ![r] = x] /\ trail' = trail
        /\ x.stage \notin Unanswered /\ (x.stage = "done" => x.code # 202)
    BY <1>2 DEF Goes, Unanswered
  <2>2. QED
    BY <2>1, HushesBy
<1>3. CASE FindJob(r)
  <2> DEFINE x == [req EXCEPT !.stage = "act"]
  <2>1. Ends(r, 503, << >>) \/ Ends(r, 404, << >>) \/ Ends(r, 409, << >>) \/ Goes(r, x)
    BY <1>3, Zenon DEF FindJob
  <2>2. x.stage = "act"
    BY <1>1
  <2> HIDE DEF x
  <2>3. QED
    BY <1>2, <2>1, <2>2, SilentEnd DEF Replies
<1>4. CASE BeginCalendar(r)
  <2> DEFINE x == [req EXCEPT !.stage = "scan"]
  <2>1. Ends(r, 503, << >>) \/ Goes(r, x)
    BY <1>4, Zenon DEF BeginCalendar
  <2>2. x.stage = "scan"
    BY <1>1
  <2> HIDE DEF x
  <2>3. QED
    BY <1>2, <2>1, <2>2, SilentEnd DEF Replies
<1>5. CASE ListEvents(r) \/ ReadHistory(r)
  <2>1. \E n : Goes(r, [req EXCEPT !.stage = "done", !.code = 200, !.scanned = {}, !.entries = n])
    BY <1>5, Zenon DEF ListEvents, ReadHistory
  <2>2. PICK n : Goes(r, [req EXCEPT !.stage = "done", !.code = 200, !.scanned = {}, !.entries = n])
    BY <2>1
  <2> DEFINE x == [req EXCEPT !.stage = "done", !.code = 200, !.scanned = {}, !.entries = n]
  <2>3. x.stage = "done" /\ x.code = 200
    BY <1>1
  <2>4. Goes(r, x)
    BY <2>2
  <2> HIDE DEF x
  <2>5. QED
    BY <1>2, <2>3, <2>4
<1>6. CASE ScanState(r)
  <2>1. PICK met : Goes(r, [req EXCEPT
                   !.state = @ + 1,
                   !.stage = IF req.state + 1 = Len(JobStatuses) THEN "history" ELSE "scan",
                   !.scanned = @ \cup met])
    BY <1>6, Zenon DEF ScanState
  <2> DEFINE x == [req EXCEPT
                   !.state = @ + 1,
                   !.stage = IF req.state + 1 = Len(JobStatuses) THEN "history" ELSE "scan",
                   !.scanned = @ \cup met]
  <2>2. x.stage \in {"history", "scan"}
    BY <1>1
  <2>3. Goes(r, x)
    BY <2>1
  <2> HIDE DEF x
  <2>4. QED
    BY <1>2, <2>2, <2>3
<1>7. QED
  BY <1>3, <1>4, <1>5, <1>6

\* Whatever is recorded or read, the trail goes on to tell what was answered, and alarms are due.
LEMMA TrailStays ==
  ASSUME Shaped, Shaped', TrailInv, [Next]_vars
  PROVE  TrailInv'
<1>1. ASSUME NEW r \in Requests, Arrive(r) \/ Confirm(r) \/ Press(r) PROVE TrailInv'
  <2>1. \E call, by, credential : Received(r, call, by, credential)
    <3>1. CASE Arrive(r)
      BY <3>1, Zenon DEF Arrive
    <3>2. CASE Confirm(r)
      BY <3>2, Zenon DEF Confirm, Asks
    <3>3. CASE Press(r)
      BY <3>3, Zenon DEF Press, Asks
    <3>4. QED
      BY <1>1, <3>1, <3>2, <3>3
  <2>2. QED
    BY <2>1, ArrivalRecounted
<1>2. ASSUME NEW r \in Requests, Handler(r) PROVE TrailInv'
  <2>1. CASE BeginPublish(r)
    <3>1. request[r].stage = "admitted"
      BY <2>1 DEF BeginPublish, At
    <3> DEFINE code == RefusalCode(request[r].call)
               x == [request[r] EXCEPT !.stage = "asset", !.todo = Unique(request[r].call.assets),
                                       !.left = Unique(request[r].call.publishers)]
    <3>2. \/ code # 0 /\ Ends(r, code, << >>)
          \/ \E y : Continues(r, y)
          \/ Goes(r, x)
      BY <2>1, Zenon DEF BeginPublish
    <3>3. code \in {503, 400, 0}
      BY DEF RefusalCode
    <3>4. x.stage = "asset"
      BY RequestFields DEF Shaped, Whole
    <3> HIDE DEF code, x
    <3>5. CASE code # 0 /\ Ends(r, code, << >>)
      BY <3>3, <3>5, EndRecounted, SilentEnd DEF Replies
    <3>6. CASE \E y : Continues(r, y)
      BY <3>1, <3>6, AnswerRecounted DEF Unanswered
    <3>7. CASE Goes(r, x)
      <4>1. Hushes(r) /\ trail' = trail
        BY <3>1, <3>4, <3>7 DEF Goes, Hushes, Unanswered
      <4>2. QED
        BY <4>1, GoneRecounted
    <3>8. QED
      BY <3>2, <3>5, <3>6, <3>7
  <2>2. CASE LoadAsset(r) \/ CheckPair(r) \/ LookUp(r) \/ Enqueue(r) \/ EnqueueFails(r)
    <3>1. request[r].stage \in Unanswered
      BY <2>2 DEF LoadAsset, CheckPair, LookUp, Enqueue, EnqueueFails, At, Unanswered
    <3>2. \E y : Continues(r, y)
      BY <2>2, Zenon DEF LoadAsset, CheckPair, LookUp, Enqueue, EnqueueFails
    <3>3. QED
      BY <3>1, <3>2, AnswerRecounted
  <2>3. CASE \/ Throws(r) \/ Validate(r) \/ ManageQueue(r) \/ RetryFound(r) \/ RemoveFound(r)
             \/ Configure(r) \/ CheckConfig(r) \/ CheckHealth(r)
    BY <2>3, HandlersEndAloof, EndRecounted
  <2>4. CASE \/ FindJob(r) \/ BeginCalendar(r) \/ ListEvents(r) \/ ScanState(r)
             \/ ReadHistory(r)
    BY <2>4, GoesHushed, EndRecounted, GoneRecounted
  <2>5. CASE ReadNotices(r)
    <3> DEFINE call == request[r].call
               found == call.op = "readAll" \/ HasNotice(trail, call.about[1], call.about[2])
               x == [request[r] EXCEPT !.stage = "done", !.code = IF found THEN 200 ELSE 404]
    <3>1. request' = [request EXCEPT ![r] = x]
      BY <2>5 DEF ReadNotices, Shaped
    <3>2. x.stage = "done" /\ x.code \in {200, 404}
      BY RequestFields DEF Shaped, Whole
    <3>3. \/ trail' = trail \/ trail' = AllMarkedRead(trail)
          \/ \E c, i : HasNotice(trail, c, i) /\ trail' = MarkedRead(trail, c, i)
      BY <2>5, Zenon DEF ReadNotices
    <3> HIDE DEF x
    <3>4. Hushes(r)
      <4>1. x.stage \notin Unanswered /\ (x.stage = "done" => x.code # 202)
        BY <3>2 DEF Unanswered
      <4>2. QED
        BY <3>1, <4>1, HushesBy
    <3>5. TrailShape(trail) /\ Balance(trail)
      BY DEF TrailInv
    <3>6. Remarked(trail', trail)
      BY <3>3, <3>5, MarksRemark
    <3>7. Alike(trail', trail)
      BY <3>5, <3>6, RemarkedAlike
    <3>8. QED
      BY <3>4, <3>7, StillRecounted
  <2>6. QED
    BY <1>2, <2>1, <2>2, <2>3, <2>4, <2>5 DEF Handler
<1>3. ASSUME NEW at \in DOMAIN PageReads, Open(at) PROVE TrailInv'
  <2>1. trail' = RecordedAll(trail, "page", ReadEvents(at)) /\ request' = request
    BY <1>3 DEF Open
  <2>2. Aloof(ReadEvents(at)) /\ "page" \in Correlations
    BY ReadLists, AloofLists DEF Correlations
  <2>3. QED
    BY <2>1, <2>2, AloofRecounted
<1>4. CASE Choose \/ UNCHANGED vars
  BY <1>4, GoneRecounted DEF Choose, vars
<1>5. ASSUME NEW j \in DOMAIN jobs, Worker(j) PROVE TrailInv'
  BY <1>5, GoneRecounted DEF Worker, DelayEnds, Take, Skip, Moves, Publish, PublishFails
<1>6. ASSUME NEW a \in Assets, Process(a) PROVE TrailInv'
  BY <1>6, GoneRecounted DEF Process
<1>7. CASE WindowPasses
  <2>1. trail' = [trail EXCEPT !.streak = 0] /\ request' = request
    BY <1>7 DEF WindowPasses
  <2>2. TrailShape(trail) /\ Balance(trail)
    BY DEF TrailInv
  <2>3. Remarked(trail', trail)
    BY <2>1, <2>2, MarksRemark
  <2>4. Alike(trail', trail)
    BY <2>2, <2>3, RemarkedAlike
  <2>5. QED
    BY <2>1, <2>4, StillRecounted
<1>8. CASE Restart
  <2>1. trail' = Recorded(NewTrail(Correlations), "system", Plain("system.startup"))
    BY <1>8 DEF Restart
  <2>2. /\ TrailShape(trail') /\ Balance(trail')
        /\ \A c \in Correlations : TellsAnswer(trail', c, NoAnswer)
    BY <2>1, FreshTrail
  <2>3. \A r \in Requests : request'[r].stage # "done" /\ r \in Correlations
    BY <1>8, RestartLeaves DEF Survives, Correlations
  <2>4. \A r \in Requests : Recounts(trail', r, request'[r])
    BY <2>2, <2>3 DEF Recounts
  <2>5. QED
    BY <2>2, <2>4 DEF TrailInv
<1>9. QED
  BY <1>1, <1>2, <1>3, <1>4, <1>5, <1>6, <1>7, <1>8 DEF Next

\* It holds at the start.
LEMMA TrailStarts ==
  ASSUME Init
  PROVE  TrailInv
<1>1. /\ trail = Recorded(NewTrail(Correlations), "system", Plain("system.startup"))
      /\ \A r \in Requests : request[r] = NoRequest
  BY DEF Init
<1>2. /\ TrailShape(trail) /\ Balance(trail)
      /\ \A c \in Correlations : TellsAnswer(trail, c, NoAnswer)
  BY <1>1, FreshTrail
<1>3. NoRequest.stage # "done"
  BY RequestFields
<1>4. \A r \in Requests : Recounts(trail, r, request[r])
  BY <1>1, <1>2, <1>3 DEF Recounts, Correlations
<1>5. QED
  BY <1>2, <1>4 DEF TrailInv

-----------------------------------------------------------------------------
\* The invariant, so far.

SetupOK ==
  setup.auth.jwtRole \in Roles /\ setup.auth.keyRole \in Roles /\ setup.desk.role \in Roles

ConsoleInv ==
  /\ Known /\ SetupOK /\ TrailInv /\ ConfigOK /\ JobsAsked
  /\ \A r \in Requests : Allowed(request[r])

\* It holds at the start.
LEMMA ConsoleInit ==
  ASSUME Init
  PROVE  ConsoleInv
<1>1. PICK d \in Deployments :
        setup = [auth |-> LoadedAuth(d.auth), desk |-> LoadedDesk(d.desk), redis |-> d.redis,
                 base |-> d.base]
  BY DEF Init
<1>2. /\ DOMAIN request = Requests /\ \A r \in Requests : request[r] = NoRequest
      /\ jobs = << >> /\ faults = 0 /\ overrides = NoOverrides /\ page = NoView
      /\ trail = Recorded(NewTrail(Correlations), "system", Plain("system.startup"))
  BY DEF Init
<1>3. SetupOK
  <2>1. \A raw : DefaultRole(raw, "operator") \in Roles /\ DefaultRole(raw, "admin") \in Roles
    BY DEF DefaultRole, Roles, RolePermissions
  <2>2. /\ setup.auth.jwtRole = DefaultRole(d.auth.jwtRole, "operator")
        /\ setup.auth.keyRole = DefaultRole(d.auth.keyRole, "admin")
        /\ setup.desk.role = DefaultRole(d.desk.role, "admin")
    BY <1>1 DEF LoadedAuth, LoadedDesk
  <2>3. QED
    BY <2>1, <2>2 DEF SetupOK
<1>4. SoundBase(setup.base)
  BY <1>1, EnvironmentsAreReal DEF SoundBase
<1>5. SoundOverlay(overrides)
  BY <1>2, FieldsApart DEF SoundOverlay, NoOverrides, NoVars, Values, Secrets
<1>6. PubReq(NoRequest) /\ NoRequest.stage # "admitted"
  BY RequestFields DEF PubReq, Publishes
<1>7. NoRequest.call.op = "none" /\ "none" \notin Publications
  BY RequestFields, CallFields DEF Publications
<1>8. \A r \in Requests : Allowed(request[r])
  BY <1>2, <1>7 DEF Allowed
<1>9. ConfigOK
  BY <1>2, <1>4, <1>5, <1>6, RequestFields DEF ConfigOK
<1>10. Shaped
  BY <1>2, RequestFields DEF Shaped
<1>11. DOMAIN jobs = {}
  BY <1>2
<1>12. JobsTyped /\ JobsAsked
  BY <1>11 DEF JobsTyped, JobsAsked
<1>13. TrailInv
  BY TrailStarts
<1>14. PageOK
  <2>1. NoView.at = "none" /\ NoView.asks = NoChoice
    BY DEF NoView, View
  <2>2. QED
    BY <1>2, <2>1, NoChoiceIsOne DEF PageOK
<1>15. Known
  BY <1>2, <1>6, <1>10, <1>12, <1>14 DEF Known
<1>16. QED
  BY <1>3, <1>8, <1>9, <1>12, <1>13, <1>15 DEF ConsoleInv

\* Every step preserves it.
LEMMA ConsoleStep ==
  ASSUME ConsoleInv, [Next]_vars
  PROVE  ConsoleInv'
<1>1. Known /\ Onward /\ Moved
  BY StepMoves DEF ConsoleInv
<1>2. Stepped
  BY <1>1, MovedStepped
<1>3. DOMAIN request' = Requests /\ \A q \in Requests : Fits(request'[q])
  BY <1>1, <1>2, RequestsFit DEF ConsoleInv
<1>4. Shaped'
  BY <1>3 DEF Shaped, Fits
<1>5. \A r \in Requests : PubReq(request'[r])
  BY <1>3 DEF Fits
<1>6. setup' = setup /\ faults' \in Nat
  BY <1>1 DEF Onward
<1>7. (\A r \in Requests : Allowed(request[r]))'
  BY <1>3, <1>6 DEF Fits, Allowed
<1>8. JobsAsked' /\ JobsTyped'
  BY <1>1, <1>2, JobsStayAsked DEF ConsoleInv
<1>9. ConfigOK'
  BY <1>1, ConfigStays DEF ConsoleInv
<1>10. PageOK'
  BY <1>1, PageStays DEF ConsoleInv, Known, ConfigOK
<1>11. TrailInv'
  BY <1>1, <1>4, TrailStays DEF ConsoleInv, Known
<1>12. SetupOK'
  BY <1>6 DEF ConsoleInv, SetupOK
<1>13. Known'
  BY <1>4, <1>5, <1>6, <1>8, <1>10 DEF Known
<1>14. QED
  BY <1>7, <1>8, <1>9, <1>11, <1>12, <1>13 DEF ConsoleInv

\* A configuration that an operator saved and was told of stays in effect until the process
\* restarts: what is then in effect is what was validated, saving for the other publisher does
\* not disturb it, and no secret is ever replaced by the placeholder it is shown as.
THEOREM SavedStays == Spec => []SavedConfigHolds
<1>1. Init => ConsoleInv
  BY ConsoleInit
<1>2. ConsoleInv /\ [Next]_vars => ConsoleInv'
  BY ConsoleStep
<1>3. ConsoleInv => SavedConfigHolds
  BY SecretsAreReal DEF ConsoleInv, ConfigOK, SavedConfigHolds, Saved, Env
<1>4. QED
  BY <1>1, <1>2, <1>3, PTL DEF Spec

\* Whatever is in the queue was asked for by someone who may: the role of the credential grants
\* the permission of the route that was called and, when the dashboard made the call, so does
\* the role of the dashboard, whose forms and whose handlers are not the same.
THEOREM QueueIsAsked == Spec => []OnlyWhatWasAsked
<1>1. Init => ConsoleInv
  BY ConsoleInit
<1>2. ConsoleInv /\ [Next]_vars => ConsoleInv'
  BY ConsoleStep
<1>3. ASSUME ConsoleInv PROVE OnlyWhatWasAsked
  <2>1. overrides \in [Providers -> [Vars -> Values]]
    BY <1>3 DEF ConsoleInv, ConfigOK, SoundOverlay
  <2>2. \A j \in DOMAIN jobs : jobs[j].state \in JobStates /\ jobs[j].timed \in BOOLEAN
    BY <1>3 DEF ConsoleInv, Known, JobsTyped
  <2>3. \A r \in Requests :
          /\ request[r].code \in {0, 200, 202, 400, 401, 403, 404, 409, 500, 503}
          /\ request[r].stage \in {"done", "past"} <=> request[r].code # 0
    BY <1>3 DEF ConsoleInv, Known, Shaped, Whole, Coded, Codes
  <2>4. TypeOK
    BY <1>3, <2>1, <2>2, <2>3 DEF ConsoleInv, SetupOK, TrailInv, TrailShape, TrailOK, TypeOK
  <2>5. ASSUME NEW j \in DOMAIN jobs
        PROVE  LET req == request[j[1]] IN
               /\ PairOf(j) \in PairsAsked(req)
               /\ setup.auth.enabled =>
                    Grants(req.caller.role,
                           IF req.call.op = "schedule" THEN "scheduling:write"
                           ELSE "publishing:write")
               /\ req.by = "desk" => Can(setup.desk, "publishing:write")
    <3> DEFINE req == request[j[1]]
    <3>1. JobIsAsked(j) /\ j[1] \in Requests
      BY <1>3 DEF ConsoleInv, JobsAsked, JobIsAsked
    <3>2. Allowed(req) /\ req.call.op \in Publications /\ PairOf(j) \in PairsAsked(req)
      BY <1>3, <3>1 DEF ConsoleInv, JobIsAsked
    <3>3. PermissionOf(req.call.op) = IF req.call.op = "schedule" THEN "scheduling:write"
                                      ELSE "publishing:write"
      BY <3>2, PublicationRoutes DEF Publications
    <3>4. QED
      BY <3>2, <3>3 DEF Allowed
  <2>6. QED
    BY <2>4, <2>5 DEF OnlyWhatWasAsked
<1>4. QED
  BY <1>1, <1>2, <1>3, PTL DEF Spec

-----------------------------------------------------------------------------
\* The timeline.

\* What a request has met of the jobs, and what it has made of them, still holds of them: the
\* state may have changed, but not back.
Tells(req) ==
  /\ \A e \in req.scanned :
       /\ e.job \in DOMAIN jobs
       /\ e.timed => jobs[e.job].timed
       /\ e.status = "delayed" => jobs[e.job].timed \/ faults > 0
       /\ e.status = "completed" => jobs[e.job].state \in Closed \cup {"recorded"}
  /\ \A n \in req.entries :
       /\ n[1] \in DOMAIN jobs
       /\ n[2] = "published" => IsPublished(PairOf(n[1]))
       /\ n[2] = "duplicate_skipped" => jobs[n[1]].state \in Closed
       /\ n[2] = "event" => jobs[n[1]].timed \/ faults > 0

TimelineInv == \A r \in Requests : Tells(request[r])

\* What holds of the jobs goes on to hold of them.
LEMMA StillTells ==
  ASSUME JobsKeep, Onward, faults \in Nat, NEW y, Tells(y)
  PROVE  Tells(y)'
<1>1. \A j \in DOMAIN jobs :
        /\ j \in DOMAIN jobs' /\ jobs'[j].timed = jobs[j].timed
        /\ jobs[j].state \in Closed => jobs'[j].state \in Closed
        /\ jobs[j].state = "recorded" => jobs'[j].state \in Closed \cup {"recorded"}
  BY DEF JobsKeep, JobMoves, Closed
<1>2. faults > 0 => faults' > 0
  BY DEF Onward
<1>3. \A j : IsPublished(PairOf(j)) => <<Slug[PairOf(j)[1]], PairOf(j)[2]>> \in published'
  BY DEF Onward, IsPublished
<1> HIDE DEF Closed
<1>4. ASSUME NEW e \in y.scanned
      PROVE  /\ e.job \in DOMAIN jobs'
             /\ e.timed => jobs'[e.job].timed
             /\ e.status = "delayed" => jobs'[e.job].timed \/ faults' > 0
             /\ e.status = "completed" => jobs'[e.job].state \in Closed \cup {"recorded"}
  BY <1>1, <1>2 DEF Tells
<1>5. ASSUME NEW n \in y.entries
      PROVE  /\ n[1] \in DOMAIN jobs'
             /\ n[2] = "published" => <<Slug[PairOf(n[1])[1]], PairOf(n[1])[2]>> \in published'
             /\ n[2] = "duplicate_skipped" => jobs'[n[1]].state \in Closed
             /\ n[2] = "event" => jobs'[n[1]].timed \/ faults' > 0
  BY <1>1, <1>2, <1>3 DEF Tells
<1>6. QED
  BY <1>4, <1>5 DEF Tells, IsPublished, PairOf, Closed

\* What a request learns is so when it learns it.
LEMMA LearnsTrue ==
  ASSUME JobsTyped, JobsAsked, NEW y, Tells(y), NEW x, Learns(x, y)
  PROVE  Tells(x)
<1>1. \A j \in DOMAIN jobs : jobs[j].state \in JobStates
  BY DEF JobsTyped
<1>2. CASE Dull(x, y)
  BY <1>2 DEF Dull, Tells
<1>3. CASE Scans(x, y)
  <2>1. ASSUME NEW e \in x.scanned, e \notin y.scanned
        PROVE  /\ e.job \in DOMAIN jobs
               /\ e.timed => jobs[e.job].timed
               /\ e.status = "delayed" => jobs[e.job].timed \/ faults > 0
               /\ e.status = "completed" => jobs[e.job].state \in Closed \cup {"recorded"}
    <3>1. /\ e.job \in DOMAIN jobs /\ e.status = Status(jobs[e.job].state)
          /\ e.timed = jobs[e.job].timed
      BY <1>3, <2>1 DEF Scans
    <3>2. jobs[e.job].state = "delayed" => jobs[e.job].timed \/ faults > 0
      BY <3>1 DEF JobsAsked, JobIsAsked
    <3>3. /\ e.status = "delayed" => jobs[e.job].state = "delayed"
          /\ e.status = "completed" => jobs[e.job].state \in Closed \cup {"recorded"}
      BY <1>1, <3>1 DEF Status, JobStates, Closed
    <3>4. QED
      BY <3>1, <3>2, <3>3
  <2>2. QED
    BY <1>3, <2>1 DEF Scans, Tells
<1>4. CASE Enters(x, y)
  <2>1. ASSUME NEW n \in x.entries
        PROVE  /\ n[1] \in DOMAIN jobs
               /\ n[2] = "published" => IsPublished(PairOf(n[1]))
               /\ n[2] = "duplicate_skipped" => jobs[n[1]].state \in Closed
               /\ n[2] = "event" => jobs[n[1]].timed \/ faults > 0
    <3>1. PICK e \in y.scanned :
            /\ n[1] = e.job
            /\ (n[2] = "event" /\ IsScheduled(e)) \/ n[2] = EntryType(e)
      BY <1>4 DEF Enters
    <3>2. /\ e.job \in DOMAIN jobs
          /\ IsScheduled(e) => jobs[e.job].timed \/ faults > 0
          /\ e.status = "completed" => jobs[e.job].state \in Closed \cup {"recorded"}
      BY DEF Tells, IsScheduled
    <3>3. jobs[e.job].state = "recorded" => IsPublished(PairOf(e.job))
      BY <3>2 DEF JobsAsked, JobIsAsked
    <3>4. \/ EntryType(e) = "published" /\ IsPublished(PairOf(e.job))
          \/ /\ EntryType(e) = "duplicate_skipped" /\ ~IsPublished(PairOf(e.job))
             /\ e.status = "completed"
          \/ EntryType(e) \in {"scheduled", "queued", "failed"}
      BY DEF EntryType
    <3>5. QED
      BY <3>1, <3>2, <3>3, <3>4
  <2>2. x.scanned = {}
    BY <1>4 DEF Enters
  <2>3. QED
    BY <2>1, <2>2 DEF Tells
<1>5. QED
  BY <1>2, <1>3, <1>4 DEF Learns

\* Every step preserves what the requests have met and made of it.
LEMMA TimelineStays ==
  ASSUME ConsoleInv, TimelineInv, [Next]_vars
  PROVE  TimelineInv'
<1>1. /\ Known /\ Onward /\ Moved /\ JobsAsked
      /\ Shaped /\ JobsTyped /\ faults \in Nat
  BY StepMoves DEF ConsoleInv, Known
<1>2. Stepped
  BY <1>1, MovedStepped
<1>3. JobsKeep
  BY <1>1, <1>2, JobsStayAsked
<1>4. ASSUME NEW q \in Requests, Learns(request'[q], request[q]) PROVE Tells(request[q])'
  <2>1. PICK x : x = request'[q]
    OBVIOUS
  <2>2. Tells(x)
    BY <1>1, <1>4, <2>1, LearnsTrue DEF TimelineInv
  <2>3. Tells(x)'
    BY <1>1, <1>3, <2>2, StillTells
  <2>4. QED
    BY <2>1, <2>3 DEF Tells
<1>5. ASSUME NEW y PROVE Learns(y, y) /\ \A x : Dull(x, y) => Learns(x, y)
  BY DEF Learns, Dull
<1>6. ASSUME NEW r \in Requests, NEW x, request' = [request EXCEPT ![r] = x],
             Learns(x, request[r]), NEW q \in Requests
      PROVE  Learns(request'[q], request[q])
  BY <1>1, <1>5, <1>6, OneRequest
<1>7. ASSUME NEW q \in Requests PROVE Learns(request'[q], request[q])
  <2>1. ASSUME NEW r \in Requests, Comes(r) PROVE Learns(request'[q], request[q])
    <3>1. PICK x : request' = [request EXCEPT ![r] = x] /\ x.scanned = {} /\ x.entries = {}
      BY <2>1 DEF Comes
    <3>2. Dull(x, request[r])
      BY <3>1 DEF Dull
    <3>3. QED
      BY <1>5, <1>6, <3>1, <3>2
  <2>2. ASSUME NEW r \in Requests, Proceeds(r) PROVE Learns(request'[q], request[q])
    BY <1>6, <2>2 DEF Proceeds
  <2>3. ASSUME NEW r \in Requests, PublicationMoves(r) PROVE Learns(request'[q], request[q])
    BY <1>5, <1>6, <2>3 DEF PublicationMoves
  <2>4. CASE Restart
    BY <1>1, <1>5, <2>4, RestartLeaves DEF Survives
  <2>5. CASE request' = request
    BY <1>5, <2>5
  <2>6. QED
    BY <1>2, <2>1, <2>2, <2>3, <2>4, <2>5 DEF Stepped
<1>8. QED
  BY <1>4, <1>7 DEF TimelineInv

\* The timeline of the calendar is made of the states the jobs were met in, one state after the
\* other, and of a history read later, while the workers go on: it never shows as published what
\* is not recorded, nor as a skipped duplicate a job that published, and its events are of jobs
\* that wait for a time or for another attempt.
THEOREM TimelineTellsTrue == Spec => []TimelineIsTrue
<1>1. Init => ConsoleInv /\ TimelineInv
  <2>1. ASSUME Init PROVE TimelineInv
    <3>1. \A r \in Requests : request[r] = NoRequest
      BY <2>1 DEF Init
    <3>2. QED
      BY <3>1, RequestFields DEF TimelineInv, Tells
  <2>2. QED
    BY <2>1, ConsoleInit
<1>2. ConsoleInv /\ TimelineInv /\ [Next]_vars => ConsoleInv' /\ TimelineInv'
  BY ConsoleStep, TimelineStays
<1>3. TimelineInv => TimelineIsTrue
  BY DEF TimelineInv, Tells, TimelineIsTrue, Closed
<1>4. QED
  BY <1>1, <1>2, <1>3, PTL DEF Spec

-----------------------------------------------------------------------------
\* The answers.

\* A request that may still publish, or has answered that it did.
Answering(req) ==
  req.stage \in {"idle", "admitted", "asset", "check", "look", "queue"} \/ req.code = 202

\* Of the pairs that were asked for those that are left are told nowhere, the others once.
TellsOnce(req) ==
  /\ \A q \in PairsAsked(req) : q \in Rest(req) => Told(req, q) = {}
  /\ \A q \in PairsAsked(req) : q \notin Rest(req) => \E list : Told(req, q) = {list}

\* Those told as queued are those with a job.
ToldSoFar(r, req) ==
  /\ TellsOnce(req)
  /\ JobsOf(r) = ToSet(req.answer.accepted)
  /\ \A q \in ToSet(req.answer.skipped) : IsPublished(q)

\* As long as the answer is being made, and once it is given.
AnswersInv ==
  \A r \in Requests : Answering(request[r]) => ToldSoFar(r, request[r])

\* An answer that tells nothing.
LEMMA NothingTold ==
  ASSUME NEW req, req.answer = NoAnswer
  PROVE  /\ \A q : Told(req, q) = {}
         /\ ToSet(req.answer.accepted) = {} /\ ToSet(req.answer.skipped) = {}
<1>1. \A list \in DOMAIN NoAnswer : req.answer[list] = << >>
  BY RequestFields
<1>2. ToSet(<< >>) = {}
  BY DEF ToSet
<1>3. /\ req.answer.accepted = << >> /\ req.answer.skipped = << >> /\ req.answer.failed = << >>
  BY <1>1, RequestFields
<1>4. \A q : Told(req, q) = {}
  BY <1>1, <1>2, <1>3 DEF Told
<1>5. QED
  BY <1>2, <1>3, <1>4

\* The jobs of a request are those there were.
LEMMA SameJobs ==
  ASSUME NEW r, DOMAIN jobs' = DOMAIN jobs
  PROVE  JobsOf(r)' = JobsOf(r)
  BY DEF JobsOf, PairOf

\* An answer goes on to tell what it told.
LEMMA StillSoFar ==
  ASSUME NEW r, NEW y, ToldSoFar(r, y), JobsOf(r)' = JobsOf(r), published \subseteq published'
  PROVE  ToldSoFar(r, y)'
<1>1. \A q : IsPublished(q) => <<Slug[q[1]], q[2]>> \in published'
  BY DEF IsPublished
<1>2. \A q \in ToSet(y.answer.skipped) : <<Slug[q[1]], q[2]>> \in published'
  BY <1>1 DEF ToldSoFar
<1>3. JobsOf(r)' = ToSet(y.answer.accepted)
  BY DEF ToldSoFar
<1>4. TellsOnce(y)
  BY DEF ToldSoFar
<1>5. QED
  BY <1>2, <1>3, <1>4 DEF ToldSoFar, IsPublished

\* The same of a request that is known by another name.
LEMMA ToldSame ==
  ASSUME NEW r, NEW y, ToldSoFar(r, y)', request'[r] = y
  PROVE  ToldSoFar(r, request[r])'
  BY DEF ToldSoFar, IsPublished

\* What a step of a publication tells, of its own jobs.
LEMMA OutcomeTells ==
  ASSUME NEW r, NEW req, NEW x, Whole(req), PubReq(req), Kept(x, req),
         ToldSoFar(r, req), NEW after,
         \/ FailsWhole(x, req) /\ after = JobsOf(r)
         \/ Drops(x, req) /\ after = JobsOf(r)
         \/ Carries(x, req) /\ after = JobsOf(r)
         \/ Settles(x, req, "failed") /\ after = JobsOf(r)
         \/ Settles(x, req, "skipped") /\ IsPublished(Pair(req)) /\ after = JobsOf(r)
         \/ Settles(x, req, "accepted") /\ after = JobsOf(r) \cup {Pair(req)}
  PROVE  /\ TellsOnce(x)
         /\ after = ToSet(x.answer.accepted)
         /\ \A q \in ToSet(x.answer.skipped) : IsPublished(q)
<1>1. PairsAsked(x) = PairsAsked(req)
  BY DEF Kept, PairsAsked
<1>2. \A q \in PairsAsked(req) : q = <<q[1], q[2]>> /\ q[1] # "*" /\ q[2] # "*"
  BY RestIsAsked
<1>3. AnswerOK(req.answer) /\ DOMAIN req.answer = DOMAIN NoAnswer
      /\ {"accepted", "skipped", "failed"} = DOMAIN NoAnswer
  BY RequestFields DEF Whole, AnswerOK
<1>4. /\ \A q \in PairsAsked(req) : q \in Rest(req) => Told(req, q) = {}
      /\ \A q \in PairsAsked(req) : q \notin Rest(req) => \E list : Told(req, q) = {list}
      /\ JobsOf(r) = ToSet(req.answer.accepted)
      /\ \A q \in ToSet(req.answer.skipped) : IsPublished(q)
  BY DEF ToldSoFar, TellsOnce
<1>5. CASE FailsWhole(x, req) /\ after = JobsOf(r)
  <2>1. Rest(req) = PairsAsked(req) /\ Rest(x) = {}
    BY <1>5 DEF FailsWhole
  <2>2. PICK e : /\ x.answer = [req.answer EXCEPT !.failed = <<e>>]
                 /\ \A q \in PairsAsked(req) : e \in {<<q[1], "*">>, <<"*", "*">>}
    BY <1>5 DEF FailsWhole
  <2>3. x.answer.accepted = req.answer.accepted /\ x.answer.skipped = req.answer.skipped
    BY <1>3, <2>2
  <2>4. \A q \in PairsAsked(req) : Told(x, q) = {"failed"}
    BY <1>3, <1>4, <2>1, <2>2, ToldOfAll
  <2>5. QED
    BY <1>1, <1>4, <1>5, <2>1, <2>3, <2>4 DEF TellsOnce
<1>6. CASE Drops(x, req) /\ after = JobsOf(r)
  <2>1. PICK a : /\ a # "*"
                 /\ x.answer = Noting(req.answer, "failed", <<a, "*">>)
                 /\ Rest(x) = {q \in Rest(req) : q[1] # a}
                 /\ \A q \in PairsAsked(req) : q[1] = a => q \in Rest(req)
    BY <1>6 DEF Drops
  <2>2. x.answer.accepted = req.answer.accepted /\ x.answer.skipped = req.answer.skipped
    BY <1>3, <2>1 DEF Noting
  <2>3. \A q \in PairsAsked(req) :
          Told(x, q) = IF q[1] = a THEN Told(req, q) \cup {"failed"} ELSE Told(req, q)
    BY <1>2, <1>3, <2>1, ToldOfAsset
  <2>4. \A q \in PairsAsked(req) : q[1] = a => Told(x, q) = {"failed"} /\ q \notin Rest(x)
    BY <1>4, <2>1, <2>3
  <2>5. \A q \in PairsAsked(req) :
          q[1] # a => Told(x, q) = Told(req, q) /\ (q \in Rest(x) <=> q \in Rest(req))
    BY <2>1, <2>3
  <2>6. QED
    BY <1>1, <1>4, <1>6, <2>2, <2>4, <2>5 DEF TellsOnce
<1>7. CASE Carries(x, req) /\ after = JobsOf(r)
  <2>1. Rest(x) = Rest(req) /\ x.answer = req.answer
    BY <1>7 DEF Carries
  <2>2. \A q : Told(x, q) = Told(req, q)
    BY <2>1 DEF Told
  <2>3. QED
    BY <1>1, <1>4, <1>7, <2>1, <2>2 DEF TellsOnce
<1>8. ASSUME NEW list \in DOMAIN NoAnswer, Settles(x, req, list)
      PROVE  /\ TellsOnce(x)
             /\ ToSet(x.answer[list]) = ToSet(req.answer[list]) \cup {Pair(req)}
             /\ \A other \in DOMAIN NoAnswer \ {list} : x.answer[other] = req.answer[other]
  <2> DEFINE pair == Pair(req)
  <2>1. /\ Publishes(req) /\ pair \in Rest(req) /\ Rest(x) = Rest(req) \ {pair}
        /\ x.answer = Noting(req.answer, list, pair)
    BY <1>8 DEF Settles
  <2>2. pair \in PairsAsked(req)
    BY <2>1, RestIsAsked
  <2> HIDE DEF pair
  <2>3. Single(pair)
    BY <1>2, <2>2 DEF Single
  <2>4. /\ Told(x, pair) = Told(req, pair) \cup {list}
        /\ \A q : q # pair => Told(x, q) = Told(req, q)
        /\ ToSet(x.answer[list]) = ToSet(req.answer[list]) \cup {pair}
        /\ \A other \in DOMAIN NoAnswer \ {list} : x.answer[other] = req.answer[other]
    <3>1. AnswerOK(req.answer)
      BY <1>3
    <3>2. x.answer = Noting(req.answer, list, pair)
      BY <2>1
    <3>3. TellsMore(x, req, list, pair)
      BY <2>3, <3>1, <3>2, ToldOfPair, Zenon
    <3>4. QED
      BY <3>3, Zenon DEF TellsMore
  <2>5. Told(x, pair) = {list}
    BY <1>4, <2>1, <2>2, <2>4
  <2>6. QED
    BY <1>1, <1>4, <2>1, <2>4, <2>5 DEF pair, TellsOnce, TellsMore
<1>9. CASE Settles(x, req, "failed") /\ after = JobsOf(r)
  <2>1. x.answer.accepted = req.answer.accepted /\ x.answer.skipped = req.answer.skipped
    BY <1>3, <1>8, <1>9
  <2>2. QED
    BY <1>3, <1>4, <1>8, <1>9, <2>1
<1>10. CASE Settles(x, req, "skipped") /\ IsPublished(Pair(req)) /\ after = JobsOf(r)
  <2>1. /\ x.answer.accepted = req.answer.accepted
        /\ ToSet(x.answer.skipped) = ToSet(req.answer.skipped) \cup {Pair(req)}
    BY <1>3, <1>8, <1>10
  <2>2. QED
    BY <1>3, <1>4, <1>8, <1>10, <2>1
<1>11. CASE Settles(x, req, "accepted") /\ after = JobsOf(r) \cup {Pair(req)}
  <2>1. /\ x.answer.skipped = req.answer.skipped
        /\ ToSet(x.answer.accepted) = ToSet(req.answer.accepted) \cup {Pair(req)}
    BY <1>3, <1>8, <1>11
  <2>2. QED
    BY <1>3, <1>4, <1>8, <1>11, <2>1
<1>12. QED
  BY <1>5, <1>6, <1>7, <1>9, <1>10, <1>11

\* A publication's step, and the answers.
LEMMA PublicationTells ==
  ASSUME ConsoleInv, AnswersInv, Onward, NEW r \in Requests, PublicationMoves(r)
  PROVE  AnswersInv'
<1> DEFINE req == request[r]
<1>1. /\ Known /\ Shaped /\ JobsTyped /\ JobsAsked /\ Whole(req) /\ PubReq(req)
      /\ req.call.op \in Publications /\ published \subseteq published'
  BY DEF ConsoleInv, Known, Shaped, PublicationMoves, Onward
<1>2. ToldSoFar(r, req)
  BY DEF PublicationMoves, AnswersInv, Answering
<1>3. PICK x : /\ request' = [request EXCEPT ![r] = x]
               /\ Quiet(x, req) /\ Outcome(r, x)
  BY DEF PublicationMoves
<1>4. request'[r] = x /\ \A q \in Requests \ {r} : request'[q] = request[q]
  BY <1>1, <1>3, OneRequest
<1>5. Kept(x, req)
  BY <1>3 DEF Quiet
<1>6. CASE jobs' = jobs
  <2>1. \A q : JobsOf(q)' = JobsOf(q)
    BY <1>6 DEF JobsOf, PairOf
  <2>2. /\ TellsOnce(x)
        /\ JobsOf(r) = ToSet(x.answer.accepted)
        /\ \A q \in ToSet(x.answer.skipped) : IsPublished(q)
    <3>1. \/ FailsWhole(x, req) \/ Drops(x, req) \/ Carries(x, req)
          \/ Settles(x, req, "failed")
          \/ Settles(x, req, "skipped") /\ IsPublished(Pair(req))
          \/ Settles(x, req, "accepted") /\ Enqueued(r)
      BY <1>3 DEF Outcome
    <3>2. CASE Settles(x, req, "accepted") /\ Enqueued(r)
      <4>1. /\ JobsAsked' /\ DOMAIN jobs' = DOMAIN jobs \cup {JobId(r, Pair(req))}
            /\ PairOf(JobId(r, Pair(req))) = Pair(req)
        BY <1>1, <1>3, <3>2, EnqueuedStays
      <4>2. JobsOf(r) = JobsOf(r) \cup {Pair(req)}
        <5>1. JobId(r, Pair(req)) \in DOMAIN jobs /\ JobId(r, Pair(req))[1] = r
          BY <1>6, <4>1 DEF JobId
        <5>2. Pair(req) \in JobsOf(r)
          BY <4>1, <5>1 DEF JobsOf
        <5>3. QED
          BY <5>2
      <4>3. QED
        BY <1>1, <1>2, <1>5, <3>2, <4>2, OutcomeTells
    <3>3. QED
      BY <1>1, <1>2, <1>5, <3>1, <3>2, OutcomeTells
  <2>3. ToldSoFar(r, x)
    BY <2>2 DEF ToldSoFar
  <2>4. ToldSoFar(r, x)'
    BY <1>1, <2>1, <2>3, StillSoFar
  <2>5. ASSUME NEW q \in Requests, q # r, Answering(request[q]) PROVE ToldSoFar(q, request[q])'
    <3>1. PICK y : y = request[q]
      OBVIOUS
    <3>2. ToldSoFar(q, y)
      BY <2>5, <3>1 DEF AnswersInv
    <3>3. ToldSoFar(q, y)'
      BY <1>1, <2>1, <3>2, StillSoFar
    <3>4. request'[q] = y
      BY <1>4, <2>5, <3>1
    <3>5. QED
      BY <3>3, <3>4, ToldSame
  <2>6. ToldSoFar(r, request[r])'
    BY <1>4, <2>4, ToldSame
  <2>7. \A q \in Requests : Answering(request'[q]) => ToldSoFar(q, request[q])'
    BY <1>4, <2>5, <2>6
  <2>8. QED
    BY <2>7 DEF AnswersInv, Answering
<1>7. CASE Settles(x, req, "accepted") /\ Enqueued(r)
  <2>1. /\ JobsAsked' /\ DOMAIN jobs' = DOMAIN jobs \cup {JobId(r, Pair(req))}
        /\ PairOf(JobId(r, Pair(req))) = Pair(req)
    BY <1>1, <1>3, <1>7, EnqueuedStays
  <2>2. PICK new : new = JobId(r, Pair(req))
    OBVIOUS
  <2>3. PICK pair : pair = Pair(req)
    OBVIOUS
  <2>4. /\ DOMAIN jobs' = DOMAIN jobs \cup {new} /\ new[1] = r /\ <<new[2], new[3]>> = pair
    BY <2>1, <2>2, <2>3 DEF JobId, PairOf
  <2>5. JobsOf(r)' = JobsOf(r) \cup {pair}
    BY <2>4 DEF JobsOf, PairOf
  <2>6. ASSUME NEW q, q # r PROVE JobsOf(q)' = JobsOf(q)
    BY <2>4, <2>6 DEF JobsOf, PairOf
  <2>7. PICK after : after = JobsOf(r) \cup {pair}
    OBVIOUS
  <2>8. /\ TellsOnce(x)
        /\ after = ToSet(x.answer.accepted)
        /\ \A q \in ToSet(x.answer.skipped) : IsPublished(q)
    BY <1>1, <1>2, <1>5, <1>7, <2>3, <2>7, OutcomeTells
  <2>9. \A q \in ToSet(x.answer.skipped) : <<Slug[q[1]], q[2]>> \in published'
    BY <1>1, <2>8 DEF IsPublished
  <2>10. JobsOf(r)' = ToSet(x.answer.accepted)
    BY <2>5, <2>7, <2>8
  <2>11. ToldSoFar(r, x)'
    BY <2>8, <2>9, <2>10 DEF ToldSoFar, IsPublished
  <2>12. ASSUME NEW q \in Requests, q # r, Answering(request[q])
         PROVE  ToldSoFar(q, request[q])'
    <3>1. PICK y : y = request[q]
      OBVIOUS
    <3>2. ToldSoFar(q, y)
      BY <2>12, <3>1 DEF AnswersInv
    <3>3. ToldSoFar(q, y)'
      BY <1>1, <2>6, <2>12, <3>2, StillSoFar
    <3>4. request'[q] = y
      BY <1>4, <2>12, <3>1
    <3>5. QED
      BY <3>3, <3>4, ToldSame
  <2>13. ToldSoFar(r, request[r])'
    BY <1>4, <2>11, ToldSame
  <2>14. \A q \in Requests : Answering(request'[q]) => ToldSoFar(q, request[q])'
    BY <1>4, <2>12, <2>13
  <2>15. QED
    BY <2>14 DEF AnswersInv, Answering
<1>8. QED
  BY <1>3, <1>6, <1>7 DEF Outcome

\* A request of the same call with the same answer and the same pairs left tells the same.
LEMMA AlikeTold ==
  ASSUME NEW r, NEW req, NEW y, ToldSoFar(r, req), Kept(y, req), y.answer = req.answer,
         Rest(y) = Rest(req)
  PROVE  ToldSoFar(r, y)
<1>1. PairsAsked(y) = PairsAsked(req)
  BY DEF Kept, PairsAsked
<1>2. \A q : Told(y, q) = Told(req, q)
  BY DEF Told
<1>3. QED
  BY <1>1, <1>2 DEF ToldSoFar, TellsOnce

\* A request that has not begun has no job.
LEMMA IdleHasNone ==
  ASSUME JobsAsked, NEW r, request[r].stage = "idle"
  PROVE  JobsOf(r) = {}
<1>1. Rest(request[r]) = PairsAsked(request[r])
  BY DEF Rest
<1>2. ASSUME NEW j \in DOMAIN jobs, j[1] = r PROVE FALSE
  BY <1>1, <1>2 DEF JobsAsked, JobIsAsked
<1>3. QED
  BY <1>2 DEF JobsOf

\* A request that comes has told nothing, and nothing is left of the one turned away.
LEMMA ArrivalTells ==
  ASSUME JobsAsked, NEW r, request[r].stage = "idle", NEW x, Whole(x), x.answer = NoAnswer,
         x.stage = "admitted" \/ (x.stage = "done" /\ x.call = Call("none")), Answering(x)
  PROVE  ToldSoFar(r, x)
<1>1. x.code = 202 => x.call.op \in Publications
  BY DEF Whole, Coded
<1>2. x.call = Call("none") => x.call.op = "none"
  BY CallFields
<1>3. x.stage = "admitted"
  BY <1>1, <1>2 DEF Answering, Publications
<1>4. Rest(x) = PairsAsked(x)
  BY <1>3 DEF Rest
<1>5. /\ \A q : Told(x, q) = {}
      /\ ToSet(x.answer.accepted) = {} /\ ToSet(x.answer.skipped) = {}
  BY NothingTold
<1>6. JobsOf(r) = {}
  BY IdleHasNone
<1>7. QED
  BY <1>4, <1>5, <1>6 DEF ToldSoFar, TellsOnce

\* What a restart leaves of a request.
LEMMA SurvivorTells ==
  ASSUME NEW r, NEW req, Whole(req), NEW y, Survives(y, req), Answering(y),
         Answering(req) => ToldSoFar(r, req)
  PROVE  ToldSoFar(r, y)
<1>1. /\ Whole(y) /\ Kept(y, req) /\ y.stage \in {"idle", "lost", "past"}
      /\ y.stage = "idle" => req.stage = "idle" /\ y.answer = req.answer
      /\ y.code = 202 => req.code = 202 /\ y.answer = req.answer
  BY DEF Survives
<1>2. PairsAsked(y) = PairsAsked(req)
  BY <1>1 DEF Kept, PairsAsked
<1>3. CASE y.stage = "idle"
  <2>1. Rest(y) = PairsAsked(y) /\ Rest(req) = PairsAsked(req)
    BY <1>1, <1>3 DEF Rest
  <2>2. Answering(req)
    BY <1>1, <1>3 DEF Answering
  <2>3. QED
    BY <1>1, <1>2, <1>3, <2>1, <2>2, AlikeTold
<1>4. CASE y.stage # "idle"
  <2>1. y.code = 202 /\ req.code = 202 /\ y.answer = req.answer
    BY <1>1, <1>4 DEF Answering
  <2>2. req.stage \in {"done", "past"}
    BY <2>1 DEF Whole, Coded
  <2>3. Rest(y) = {} /\ Rest(req) = {}
    BY <1>1, <1>4, <2>2 DEF Rest
  <2>4. Answering(req)
    BY <2>1 DEF Answering
  <2>5. QED
    BY <1>1, <2>1, <2>3, <2>4, AlikeTold
<1>5. QED
  BY <1>3, <1>4

\* Every step preserves what the answers tell.
LEMMA AnswersStay ==
  ASSUME ConsoleInv, AnswersInv, [Next]_vars
  PROVE  AnswersInv'
<1>1. /\ Known /\ Onward /\ Moved /\ JobsAsked /\ Shaped /\ published \subseteq published'
  BY StepMoves DEF ConsoleInv, Known, Onward
<1>2. Stepped
  BY <1>1, MovedStepped
<1>3. ASSUME DOMAIN jobs' = DOMAIN jobs, NEW q \in Requests, NEW y, request'[q] = y,
             Answering(y) => ToldSoFar(q, y)
      PROVE  (Answering(request[q]) => ToldSoFar(q, request[q]))'
  <2>1. JobsOf(q)' = JobsOf(q)
    BY <1>3, SameJobs
  <2>2. CASE ToldSoFar(q, y)
    <3>1. ToldSoFar(q, y)'
      BY <1>1, <2>1, <2>2, StillSoFar
    <3>2. QED
      BY <1>3, <3>1, ToldSame
  <2>3. CASE ~Answering(y)
    BY <1>3, <2>3 DEF Answering
  <2>4. QED
    BY <1>3, <2>2, <2>3
<1>4. ASSUME DOMAIN jobs' = DOMAIN jobs,
             \A q \in Requests : Answering(request'[q]) => ToldSoFar(q, request'[q])
      PROVE  AnswersInv'
  <2>1. ASSUME NEW q \in Requests
        PROVE  (Answering(request[q]) => ToldSoFar(q, request[q]))'
    <3>1. PICK y : y = request'[q]
      OBVIOUS
    <3>2. Answering(y) => ToldSoFar(q, y)
      BY <1>4, <3>1
    <3>3. QED
      BY <1>3, <1>4, <3>1, <3>2
  <2>2. QED
    BY <2>1 DEF AnswersInv
<1>5. ASSUME DOMAIN jobs' = DOMAIN jobs, NEW r \in Requests, NEW x,
             request' = [request EXCEPT ![r] = x], Answering(x) => ToldSoFar(r, x)
      PROVE  AnswersInv'
  <2>1. request'[r] = x /\ \A q \in Requests \ {r} : request'[q] = request[q]
    BY <1>1, <1>5, OneRequest
  <2>2. \A q \in Requests : Answering(request'[q]) => ToldSoFar(q, request'[q])
    BY <1>5, <2>1 DEF AnswersInv
  <2>3. QED
    BY <1>4, <1>5, <2>2
<1>6. ASSUME NEW r \in Requests, Comes(r), jobs' = jobs PROVE AnswersInv'
  <2>1. PICK x : /\ request' = [request EXCEPT ![r] = x] /\ Whole(x) /\ x.answer = NoAnswer
                 /\ x.stage = "admitted" \/ (x.stage = "done" /\ x.call = Call("none"))
    BY <1>6 DEF Comes
  <2>2. Answering(x) => ToldSoFar(r, x)
    BY <1>1, <1>6, <2>1, ArrivalTells DEF Comes
  <2>3. QED
    BY <1>5, <1>6, <2>1, <2>2
<1>7. ASSUME NEW r \in Requests, Proceeds(r), JobsMove PROVE AnswersInv'
  <2>1. PICK x : request' = [request EXCEPT ![r] = x] /\ Aside(x)
    BY <1>7 DEF Proceeds
  <2>2. ~Answering(x)
    BY <2>1 DEF Aside, Answering
  <2>3. QED
    BY <1>5, <1>7, <2>1, <2>2 DEF JobsMove
<1>8. ASSUME NEW r \in Requests, PublicationMoves(r) PROVE AnswersInv'
  BY <1>1, <1>8, PublicationTells
<1>9. ASSUME Restart, jobs' = jobs PROVE AnswersInv'
  <2>1. \A q \in Requests : Survives(request'[q], request[q])
    BY <1>1, <1>9, RestartLeaves
  <2>2. ASSUME NEW q \in Requests, Answering(request'[q])
        PROVE  ToldSoFar(q, request'[q])
    BY <1>1, <2>1, <2>2, SurvivorTells DEF Shaped, AnswersInv
  <2>3. QED
    BY <1>4, <1>9, <2>2
<1>10. ASSUME request' = request, JobsMove PROVE AnswersInv'
  <2>1. \A q \in Requests : Answering(request'[q]) => ToldSoFar(q, request'[q])
    BY <1>10 DEF AnswersInv
  <2>2. QED
    BY <1>4, <1>10, <2>1 DEF JobsMove
<1>11. QED
  BY <1>2, <1>6, <1>7, <1>8, <1>9, <1>10 DEF Stepped

\* At the start nothing was answered.
LEMMA AnswersStart ==
  ASSUME Init
  PROVE  AnswersInv
<1>1. DOMAIN jobs = {} /\ \A r \in Requests : request[r] = NoRequest
  BY DEF Init
<1>2. \A r : JobsOf(r) = {}
  BY <1>1 DEF JobsOf
<1>3. NoRequest.answer = NoAnswer /\ Rest(NoRequest) = PairsAsked(NoRequest)
  BY RequestFields DEF Rest
<1>4. /\ \A q : Told(NoRequest, q) = {}
      /\ ToSet(NoRequest.answer.accepted) = {} /\ ToSet(NoRequest.answer.skipped) = {}
  BY <1>3, NothingTold
<1>5. \A r : ToldSoFar(r, NoRequest)
  BY <1>2, <1>3, <1>4 DEF ToldSoFar, TellsOnce
<1>6. QED
  BY <1>1, <1>5 DEF AnswersInv

\* What a publication answers is what happened, however its pairs, the workers, the other
\* requests and the restarts interleave: every pair that was asked for is told once, as queued
\* exactly when there is a job for it, which keeps the time of a schedule, and as a duplicate
\* only when its slug is recorded as published.
THEOREM AnswersTellTrue == Spec => []AnswersAreTrue
<1>1. Init => ConsoleInv /\ AnswersInv
  BY ConsoleInit, AnswersStart
<1>2. ConsoleInv /\ AnswersInv /\ [Next]_vars => ConsoleInv' /\ AnswersInv'
  BY ConsoleStep, AnswersStay
<1>3. ASSUME ConsoleInv, AnswersInv PROVE AnswersAreTrue
  <2>1. ASSUME NEW r \in Requests, request[r].code = 202
        PROVE  /\ \A pair \in PairsAsked(request[r]) : Cardinality(Told(request[r], pair)) = 1
               /\ JobsOf(r) = ToSet(request[r].answer.accepted)
               /\ \A pair \in ToSet(request[r].answer.skipped) : IsPublished(pair)
               /\ \A j \in DOMAIN jobs :
                    j[1] = r => (jobs[j].timed <=> request[r].call.op = "schedule")
    <3>1. Whole(request[r])
      BY <1>3 DEF ConsoleInv, Known, Shaped
    <3>2. request[r].stage \in {"done", "past"}
      BY <2>1, <3>1 DEF Whole, Coded
    <3>3. Rest(request[r]) = {}
      BY <3>2 DEF Rest
    <3>4. ToldSoFar(r, request[r])
      BY <1>3, <2>1 DEF AnswersInv, Answering
    <3>5. \A pair \in PairsAsked(request[r]) : \E list : Told(request[r], pair) = {list}
      BY <3>3, <3>4 DEF ToldSoFar, TellsOnce
    <3>6. \A list : Cardinality({list}) = 1
      BY FS_Singleton
    <3>7. \A pair \in PairsAsked(request[r]) : Cardinality(Told(request[r], pair)) = 1
      BY <3>5, <3>6
    <3>8. \A j \in DOMAIN jobs : j[1] = r => (jobs[j].timed <=> request[r].call.op = "schedule")
      BY <1>3 DEF ConsoleInv, JobsAsked, JobIsAsked
    <3>9. QED
      BY <3>4, <3>7, <3>8 DEF ToldSoFar
  <2>2. QED
    BY <2>1 DEF AnswersAreTrue
<1>4. QED
  BY <1>1, <1>2, <1>3, PTL DEF Spec

-----------------------------------------------------------------------------
\* What the trail tells.

\* What the trail is to tell.
LEMMA TrailTold ==
  ASSUME ConsoleInv, AnswersInv
  PROVE  TrailTellsTrue
<1>1. ASSUME NEW r \in Requests,
             request[r].stage = "done", request[r].code = 202, request[r].call.op # "schedule"
      PROVE  OutcomesAreRecorded(r)
  <2>1. TellsAnswer(trail, r, request[r].answer)
    BY <1>1 DEF ConsoleInv, TrailInv, Recounts
  <2>2. JobsOf(r) = ToSet(request[r].answer.accepted)
    BY <1>1 DEF AnswersInv, Answering, ToldSoFar
  <2>3. \A type : EventsOf(r, type) = About(trail.events[r], type)
    BY DEF EventsOf, About
  <2>4. \A type : NoticesAbout(r, type) = About(trail.notices[r], type)
    BY DEF NoticesAbout, About
  <2> DEFINE answer == request[r].answer
             events == trail.events[r]
             notices == trail.notices[r]
  <2>5. \A o \in Outcomes : About(events, o.event) = ToSet(answer[o.list])
                            /\ About(notices, o.notice) = ToSet(answer[o.list])
    BY <2>1 DEF TellsAnswer
  <2> HIDE DEF answer, events, notices
  <2>6. /\ About(events, "publishing.queued") = ToSet(answer["accepted"])
        /\ About(notices, "publish.completed") = ToSet(answer["accepted"])
        /\ About(events, "publishing.duplicate_skipped") = ToSet(answer["skipped"])
        /\ About(notices, "publish.duplicate_skipped") = ToSet(answer["skipped"])
        /\ About(events, "publishing.failed") = ToSet(answer["failed"])
        /\ About(notices, "publish.failed") = ToSet(answer["failed"])
    <3>1. /\ [event |-> "publishing.queued", notice |-> "publish.completed",
              list |-> "accepted"] \in Outcomes
          /\ [event |-> "publishing.duplicate_skipped", notice |-> "publish.duplicate_skipped",
              list |-> "skipped"] \in Outcomes
          /\ [event |-> "publishing.failed", notice |-> "publish.failed", list |-> "failed"]
               \in Outcomes
      BY DEF Outcomes
    <3>2. QED
      BY <2>5, <3>1
  <2>7. QED
    BY <2>2, <2>3, <2>4, <2>6 DEF OutcomesAreRecorded, answer, events, notices
<1>2. Balance(trail)
  BY DEF ConsoleInv, TrailInv
<1> DEFINE n == Count(trail.notices, "security.auth_failures")
           e == Count(trail.events, "auth.login_failure")
<1>3. n \in Nat /\ e \in Nat /\ trail.streak \in Nat
  <2> DEFINE x == trail.events
             y == trail.notices
  <2>1. (\A c \in Correlations : IsList(x[c])) /\ \A c \in Correlations : IsList(y[c])
    BY DEF ConsoleInv, TrailInv, TrailShape
  <2>2. trail.streak \in Nat
    BY DEF ConsoleInv, TrailInv, TrailShape, TrailOK, AuthFailureThreshold
  <2> HIDE DEF x, y
  <2>3. \A a : /\ Count(x, a) = Cardinality(Places(x, a, Correlations))
               /\ Count(y, a) = Cardinality(Places(y, a, Correlations))
               /\ IsFiniteSet(Places(x, a, Correlations))
               /\ IsFiniteSet(Places(y, a, Correlations))
    BY <2>1, CountIs
  <2>4. QED
    BY <2>2, <2>3, FS_CardinalityType DEF x, y
<1>4. AuthFailureThreshold * n + trail.streak <= e
  BY <1>2 DEF Balance
<1> HIDE DEF n, e
<1>5. AuthFailureThreshold * n <= e
  BY <1>3, <1>4 DEF AuthFailureThreshold
<1>6. QED
  BY <1>1, <1>5 DEF TrailTellsTrue, n, e

\* What was answered of a publication is what the audit and the notices tell of it: the outcome
\* of each of its pairs, and of no other, whatever else is recorded, read or marked in between
\* and wherever the process restarts; and no alarm for repeated failures is given for fewer
\* failed logins than it takes, or for logins that an alarm was given for.
THEOREM TrailTells == Spec => []TrailTellsTrue
<1>1. Init => ConsoleInv /\ AnswersInv
  BY ConsoleInit, AnswersStart
<1>2. ConsoleInv /\ AnswersInv /\ [Next]_vars => ConsoleInv' /\ AnswersInv'
  BY ConsoleStep, AnswersStay
<1>3. ConsoleInv /\ AnswersInv => TrailTellsTrue
  BY TrailTold
<1>4. QED
  BY <1>1, <1>2, <1>3, PTL DEF Spec

=============================================================================
