-------------------------- MODULE WebPipeline_proofs -------------------------
(***************************************************************************)
(* Proofs about WebPipeline, for every set of tasks, requests and          *)
(* dashboards, any number of subtasks and any capacity of the channels.    *)
(***************************************************************************)
EXTENDS WebPipeline, FiniteSetTheorems, SequenceTheorems, TLAPS

-----------------------------------------------------------------------------
(* The two folds over a list: the analyzer's and the filter of aggregation. *)

\* Induction over the naturals, for a set of numbers.
LEMMA NatSetInduction ==
    ASSUME NEW T, 0 \in T, \A n \in Nat : n \in T => n + 1 \in T
    PROVE  Nat \subseteq T
<1> SUFFICES ASSUME Nat \ T # {} PROVE FALSE
  OBVIOUS
<1> DEFINE R == {ss \in Nat \X Nat : ss[1] < ss[2]}
<1>1. IsWellFoundedOn(R, Nat)
  <2>1. OpToRel(<, Nat) = R
    BY Zenon DEF OpToRel
  <2> QED BY <2>1, NatLessThanWellFounded, Zenon
<1>2. PICK x \in Nat \ T : \A y \in Nat \ T : <<y, x>> \notin R
  <2> HIDE DEF R
  <2> QED BY <1>1, WFMin
<1>3. x # 0 /\ x - 1 \in Nat
  OBVIOUS
<1>4. <<x - 1, x>> \in R
  BY <1>3
<1>5. x - 1 \in T
  <2> HIDE DEF R
  <2> QED BY <1>2, <1>3, <1>4
<1> QED BY <1>3, <1>5

LEMMA MaxInSet ==
    ASSUME NEW n \in Nat, NEW s, s \subseteq 1..n, s # {}
    PROVE  Max(s) \in s /\ \A y \in s : Max(s) >= y
<1> DEFINE T == {k \in Nat : \A y \in s : y + k < n + 1}
<1>1. \E x \in s : \A y \in s : x >= y
  <2> SUFFICES ASSUME \A x \in s : \E y \in s : ~(x >= y) PROVE FALSE
    OBVIOUS
  <2>1. 0 \in T
    OBVIOUS
  <2>2. ASSUME NEW k \in Nat, k \in T PROVE k + 1 \in T
    <3>1. ASSUME NEW y \in s, y + k = n PROVE FALSE
      <4>1. PICK z \in s : ~(y >= z)
        OBVIOUS
      <4>2. z + k < n + 1
        BY <2>2
      <4> QED BY <4>1, <4>2, <3>1
    <3>2. \A y \in s : y + k < n + 1
      BY <2>2
    <3> QED BY <3>1, <3>2
  <2>3. Nat \subseteq T
    <3> HIDE DEF T
    <3> QED BY <2>1, <2>2, NatSetInduction
  <2>4. n \in T
    <3> HIDE DEF T
    <3> QED BY <2>3
  <2>5. PICK y \in s : y + n < n + 1
    BY <2>4
  <2> QED BY <2>5
<1> QED BY <1>1 DEF Max

\* One step of either fold: a task is split, or a subtask of t is kept.
Step(kind, t, acc, x) ==
    IF kind = "split" THEN SplitInto(acc, x)
    ELSE IF x.task = t THEN Append(acc, x) ELSE acc

\* g folds seq over the indexes of every set of D.
Folds(g, kind, t, base, seq, D) ==
    g = [s \in D |-> IF s = {} THEN base
                     ELSE Step(kind, t, g[s \ {Max(s)}], seq[Max(s)])]

\* The function that the library chooses exists.
LEMMA FoldExists ==
    ASSUME NEW kind, NEW t, NEW base, NEW seq, NEW N \in Nat
    PROVE  \E g : Folds(g, kind, t, base, seq, SUBSET (1..N))
<1> DEFINE S == 1..N
           D(n) == {s \in SUBSET S : Cardinality(s) <= n}
           T == {n \in Nat : \E g : Folds(g, kind, t, base, seq, D(n))}
<1>a. IsFiniteSet(S)
  BY FS_Interval
<1>b. \A s \in SUBSET S : s # {} => Max(s) \in s
  BY MaxInSet
<1> HIDE DEF S
<1>0. \A s \in SUBSET S : IsFiniteSet(s) /\ Cardinality(s) \in Nat /\ Cardinality(s) <= Cardinality(S)
  BY <1>a, FS_Subset, FS_CardinalityType
<1>1. 0 \in T
  <2>1. D(0) = {{}}
    BY <1>0, FS_EmptySet
  <2>2. Folds([s \in {{}} |-> base], kind, t, base, seq, {{}})
    BY DEF Folds
  <2> QED BY <2>1, <2>2
<1>2. ASSUME NEW n \in Nat, n \in T PROVE n + 1 \in T
  <2>1. PICK g : Folds(g, kind, t, base, seq, D(n))
    BY <1>2
  <2> DEFINE h == [s \in D(n + 1) |-> IF s = {} THEN base
                                      ELSE Step(kind, t, g[s \ {Max(s)}], seq[Max(s)])]
  <2>2. ASSUME NEW s \in D(n + 1), s # {}
        PROVE  s \ {Max(s)} \in D(n) /\ s \ {Max(s)} \in D(n + 1)
    <3>1. Max(s) \in s
      BY <2>2, <1>b
    <3>2. Cardinality(s \ {Max(s)}) = Cardinality(s) - 1
      BY <3>1, <1>0, FS_RemoveElement
    <3>3. s \ {Max(s)} \in SUBSET S /\ Cardinality(s) \in Nat /\ Cardinality(s) <= n + 1
      BY <1>0
    <3> QED BY <3>2, <3>3
  <2>3. ASSUME NEW s \in D(n), s \in D(n + 1) PROVE h[s] = g[s]
    BY <2>1, <2>3 DEF Folds
  <2>4. ASSUME NEW s \in D(n + 1), s # {}
        PROVE  h[s \ {Max(s)}] = g[s \ {Max(s)}]
    <3> HIDE DEF h
    <3> QED BY <2>2, <2>3, <2>4
  <2>5. Folds(h, kind, t, base, seq, D(n + 1))
    BY <2>4 DEF Folds
  <2> HIDE DEF h
  <2>6. \E f : Folds(f, kind, t, base, seq, D(n + 1))
    BY <2>5
  <2>7. n + 1 \in Nat
    OBVIOUS
  <2> HIDE DEF D
  <2> QED BY <2>6, <2>7
<1>3. Cardinality(S) \in T
  <2> HIDE DEF T
  <2> QED BY <1>a, <1>1, <1>2, NatSetInduction, FS_CardinalityType
<1>4. D(Cardinality(S)) = SUBSET S
  BY <1>0
<1>5. \E g : Folds(g, kind, t, base, seq, SUBSET S)
  BY <1>3, <1>4
<1> QED BY <1>5 DEF S

FoldsList(g, kind, t, base, seq, N) == Folds(g, kind, t, base, seq, SUBSET (1..N))

\* Either fold goes through the list from its head: g[1..k] is the result of
\* its first k entries.
Chain(g, kind, t, base, seq, N) ==
    /\ g[1..0] = base
    /\ \A k \in 1..N : g[1..k] = Step(kind, t, g[1..k - 1], seq[k])

LEMMA FoldSteps ==
    ASSUME NEW kind, NEW t, NEW base, NEW seq, NEW N \in Nat,
           NEW g, FoldsList(g, kind, t, base, seq, N)
    PROVE  Chain(g, kind, t, base, seq, N)
<1>1. 1..0 = {} /\ {} \in SUBSET (1..N)
  OBVIOUS
<1>2. g[1..0] = base
  BY <1>1 DEF Folds, FoldsList
<1>3. ASSUME NEW k \in 1..N PROVE g[1..k] = Step(kind, t, g[1..k - 1], seq[k])
  <2>1. 1..k \in SUBSET (1..N) /\ k \in 1..k /\ 1..k # {}
    <3>1. 1..k \subseteq 1..N
      OBVIOUS
    <3>2. k \in 1..k
      OBVIOUS
    <3> QED BY <3>1, <3>2
  <2>2. Max(1..k) \in 1..k /\ Max(1..k) >= k
    BY <2>1, MaxInSet
  <2>3. Max(1..k) = k
    BY <2>2
  <2>4. 1..k \ {k} = 1..k - 1
    OBVIOUS
  <2>5. g[1..k] = Step(kind, t, g[1..k \ {Max(1..k)}], seq[Max(1..k)])
    BY <2>1 DEF Folds, FoldsList
  <2> QED BY <2>3, <2>4, <2>5
<1> QED BY <1>2, <1>3 DEF Chain

\* What the analyzer computes is chosen among such functions.
LEMMA SplitIsFold ==
    ASSUME NEW base, NEW seq, NEW N \in Nat, DOMAIN seq = 1..N
    PROVE  \E g : /\ Chain(g, "split", 0, base, seq, N)
                  /\ FoldLeft(SplitInto, base, seq) = g[1..N]
<1> DEFINE P(g) == g = [s \in SUBSET DOMAIN seq |-> IF s = {} THEN base
                             ELSE SplitInto(g[s \ {Max(s)}], seq[Max(s)])]
           G == CHOOSE g : P(g)
<1>1. FoldLeft(SplitInto, base, seq) = G[DOMAIN seq]
  BY Zenon DEF FoldLeft, MapThenFoldSet
<1>2. \A g : P(g) <=> FoldsList(g, "split", 0, base, seq, N)
  BY DEF Folds, FoldsList, Step
<1> HIDE DEF P
<1>3. \E g : P(g)
  BY <1>2, FoldExists DEF FoldsList
<1>4. P(G)
  BY <1>3, Zenon
<1> HIDE DEF G
<1>5. Chain(G, "split", 0, base, seq, N)
  BY <1>2, <1>4, FoldSteps
<1> QED BY <1>1, <1>5

\* So is what the filter of a completed task computes.
LEMMA FilterIsFold ==
    ASSUME NEW sts, NEW t, NEW N \in Nat, DOMAIN sts = 1..N
    PROVE  \E g : /\ Chain(g, "filter", t, <<>>, sts, N)
                  /\ FilterSubtasks(sts, t) = g[1..N]
<1> DEFINE P(g) == g = [s \in SUBSET DOMAIN sts |-> IF s = {} THEN <<>>
                             ELSE IF sts[Max(s)].task = t
                                  THEN Append(g[s \ {Max(s)}], sts[Max(s)])
                                  ELSE g[s \ {Max(s)}]]
           G == CHOOSE g : P(g)
<1>1. FilterSubtasks(sts, t) = G[DOMAIN sts]
  BY Zenon DEF FilterSubtasks, FoldLeft, MapThenFoldSet
<1>2. \A g : P(g) <=> FoldsList(g, "filter", t, <<>>, sts, N)
  BY DEF Folds, FoldsList, Step
<1> HIDE DEF P
<1>3. \E g : P(g)
  BY <1>2, FoldExists DEF FoldsList
<1>4. P(G)
  BY <1>3, Zenon
<1> HIDE DEF G
<1>5. Chain(G, "filter", t, <<>>, sts, N)
  BY <1>2, <1>4, FoldSteps
<1> QED BY <1>1, <1>5

-----------------------------------------------------------------------------
(* Lists of subtasks *)

Subtask == [task : Task, status : {"Pending", "Running"} \cup Ended]

\* The places of the subtasks of t, and how many there are.
Places(sts, t) == {i \in DOMAIN sts : sts[i].task = t}
Count(sts, t) == Cardinality(Places(sts, t))

LEMMA CountType ==
    ASSUME NEW sts \in Seq(Subtask), NEW t
    PROVE  /\ IsFiniteSet(Places(sts, t)) /\ Count(sts, t) \in Nat
           /\ Count(sts, t) = 0 <=> Places(sts, t) = {}
<1>1. IsFiniteSet(DOMAIN sts)
  <2>1. DOMAIN sts = 1..Len(sts) /\ Len(sts) \in Nat
    OBVIOUS
  <2> QED BY <2>1, FS_Interval
<1>2. Places(sts, t) \in SUBSET DOMAIN sts
  BY DEF Places
<1>3. IsFiniteSet(Places(sts, t))
  BY <1>1, <1>2, FS_Subset
<1> QED BY <1>3, FS_CardinalityType, FS_EmptySet DEF Count

LEMMA SplitTaskType ==
    ASSUME NEW u \in Task
    PROVE  /\ SplitTask(u) \in Seq(Subtask) /\ Len(SplitTask(u)) = Parts[u]
           /\ Parts[u] \in Nat \ {0}
           /\ \A i \in 1..Parts[u] : SplitTask(u)[i] = [task |-> u, status |-> "Pending"]
<1>1. Parts[u] \in Nat \ {0}
  BY WebAssumption
<1>2. SplitTask(u) \in [1..Parts[u] -> Subtask]
  BY <1>1 DEF SplitTask, Subtask
<1>3. SplitTask(u) \in Seq(Subtask) /\ Len(SplitTask(u)) = Parts[u]
  BY <1>1, <1>2
<1> QED BY <1>1, <1>3 DEF SplitTask

\* Splitting task u adds Parts[u] places to u, behind the others, and no other.
LEMMA CountConcat ==
    ASSUME NEW sts \in Seq(Subtask), NEW u \in Task
    PROVE  LET new == sts \o SplitTask(u) IN
           /\ new \in Seq(Subtask)
           /\ Len(new) >= Len(sts)
           /\ \A i \in 1..Len(sts) : new[i] = sts[i]
           /\ \A i \in 1..Len(new) : i > Len(sts) => new[i] = [task |-> u, status |-> "Pending"]
           /\ Count(new, u) = Count(sts, u) + Parts[u]
           /\ \A t \in Task \ {u} : Count(new, t) = Count(sts, t)
<1> DEFINE n == Len(sts)
           p == Parts[u]
           q == SplitTask(u)
           new == sts \o q
<1>0. /\ q \in Seq(Subtask) /\ Len(q) = p /\ p \in Nat \ {0}
      /\ \A i \in 1..p : q[i] = [task |-> u, status |-> "Pending"]
  BY SplitTaskType, Zenon
<1> HIDE DEF p, q
<1>1. n \in Nat /\ p \in Nat \ {0} /\ DOMAIN sts = 1..n
  BY <1>0
<1>2. new \in Seq(Subtask) /\ Len(new) = n + p /\ DOMAIN new = 1..n + p
  BY <1>0
<1>3. \A i \in 1..n : new[i] = sts[i]
  BY <1>0
<1>4. ASSUME NEW i \in 1..n + p, i > n PROVE new[i] = [task |-> u, status |-> "Pending"]
  <2>1. i - n \in 1..p
    BY <1>1, <1>4
  <2>2. new[i] = q[i - n]
    BY <1>0, <1>1, <1>4
  <2> QED BY <2>1, <2>2, <1>0
<1> HIDE DEF n, new
<1>5. Places(new, u) = Places(sts, u) \cup (n + 1..n + p)
  <2>1. \A i \in 1..n + p : i \in n + 1..n + p <=> i > n
    BY <1>1
  <2>2. n + 1..n + p \subseteq 1..n + p /\ 1..n \subseteq 1..n + p
    BY <1>1
  <2>3. \A i \in 1..n + p : i \in 1..n <=> ~(i > n)
    BY <1>1
  <2>4. \A i \in 1..n + p : i > n => new[i].task = u
    BY <1>4
  <2> QED BY <1>1, <1>2, <1>3, <2>1, <2>2, <2>3, <2>4 DEF Places
<1>6. ASSUME NEW t \in Task \ {u} PROVE Places(new, t) = Places(sts, t)
  <2>1. \A i \in 1..n + p : i > n => new[i].task = u
    BY <1>4
  <2>2. \A i \in 1..n + p : i \in 1..n <=> ~(i > n)
    BY <1>1
  <2>3. 1..n \subseteq 1..n + p
    BY <1>1
  <2> QED BY <1>1, <1>2, <1>3, <2>1, <2>2, <2>3 DEF Places
<1>7. Places(sts, u) \cap (n + 1..n + p) = {}
  BY <1>1 DEF Places
<1>8. IsFiniteSet(n + 1..n + p) /\ Cardinality(n + 1..n + p) = p
  <2>1. n + 1 \in Int /\ n + p \in Int /\ ~(n + 1 > n + p) /\ (n + p) - (n + 1) + 1 = p
    BY <1>1
  <2> QED BY <2>1, FS_Interval
<1>9. Count(new, u) = Count(sts, u) + p
  <2> DEFINE A == Places(sts, u)
             B == n + 1..n + p
  <2>1. IsFiniteSet(A) /\ Cardinality(A) \in Nat
    BY CountType DEF Count
  <2> HIDE DEF A, B
  <2>2. Cardinality(A \cup B) = Cardinality(A) + Cardinality(B) - Cardinality(A \cap B)
    BY <2>1, <1>8, FS_Union DEF B
  <2>3. Cardinality(A \cap B) = 0
    BY <1>7, FS_EmptySet DEF A, B
  <2>4. Cardinality(A \cup B) = Cardinality(A) + p
    BY <1>1, <1>8, <2>1, <2>2, <2>3 DEF B
  <2> QED BY <1>5, <2>4 DEF Count, A, B
<1>10. \A t \in Task \ {u} : Count(new, t) = Count(sts, t)
  BY <1>6 DEF Count
<1>11. Len(new) >= n
  BY <1>1, <1>2
<1> QED BY <1>2, <1>3, <1>4, <1>9, <1>10, <1>11 DEF new, n, p, q

LEMMA AppendEntries ==
    ASSUME NEW S, NEW r \in Seq(S), NEW e \in S
    PROVE  /\ Append(r, e) \in Seq(S)
           /\ Len(Append(r, e)) = Len(r) + 1
           /\ \A j \in DOMAIN Append(r, e) :
                 \/ Append(r, e)[j] = e
                 \/ j \in DOMAIN r /\ Append(r, e)[j] = r[j]
OBVIOUS

\* What is shown of t are its subtasks: as many, and of the same statuses.
Keeps(seen, sts, t) ==
    /\ seen \in Seq(Subtask)
    /\ Len(seen) = Count(sts, t)
    /\ \A j \in DOMAIN seen : \E i \in Places(sts, t) : seen[j] = sts[i]

LEMMA FilterKeeps ==
    ASSUME NEW sts \in Seq(Subtask), NEW t
    PROVE  Keeps(FilterSubtasks(sts, t), sts, t)
<1> DEFINE N == Len(sts)
           Kept(r, k) == /\ r \in Seq(Subtask)
                         /\ Len(r) = Cardinality(Places(sts, t) \cap 1..k)
                         /\ \A j \in DOMAIN r : \E i \in Places(sts, t) : r[j] = sts[i]
<1>1. N \in Nat /\ DOMAIN sts = 1..N
  OBVIOUS
<1>2. PICK g : Chain(g, "filter", t, <<>>, sts, N) /\ FilterSubtasks(sts, t) = g[1..N]
  <2> HIDE DEF N
  <2> QED BY <1>1, FilterIsFold
<1>3. /\ g[1..0] = <<>>
      /\ \A k \in 1..N : g[1..k] = Step("filter", t, g[1..k - 1], sts[k])
  BY <1>2, Zenon DEF Chain
<1> DEFINE T == {k \in Nat : k <= N => Kept(g[1..k], k)}
<1>4. 0 \in T
  <2>1. Places(sts, t) \cap 1..0 = {}
    OBVIOUS
  <2>2. Cardinality(Places(sts, t) \cap 1..0) = 0
    BY <2>1, FS_EmptySet
  <2>3. <<>> \in Seq(Subtask) /\ Len(<<>>) = 0 /\ DOMAIN <<>> = {}
    OBVIOUS
  <2>4. Kept(<<>>, 0)
    BY <2>2, <2>3
  <2> HIDE DEF Kept
  <2> QED BY <2>4, <1>3
<1>5. ASSUME NEW k \in Nat, k \in T PROVE k + 1 \in T
  <2> SUFFICES ASSUME k + 1 <= N PROVE Kept(g[1..k + 1], k + 1)
    BY <1>5
  <2> DEFINE r == g[1..k]
             C == Places(sts, t) \cap 1..k
  <2>1. Kept(r, k)
    BY <1>1, <1>5
  <2>2. g[1..k + 1] = IF sts[k + 1].task = t THEN Append(r, sts[k + 1]) ELSE r
    <3>1. k + 1 \in 1..N /\ (k + 1) - 1 = k
      BY <1>1
    <3> QED BY <3>1, <1>3 DEF Step
  <2>3. k + 1 \in DOMAIN sts /\ k + 1 \notin C /\ sts[k + 1] \in Subtask
    BY <1>1
  <2>4. IsFiniteSet(C)
    BY CountType, FS_Subset
  <2> HIDE DEF r, N
  <2>5. CASE sts[k + 1].task = t
    <3>1. Places(sts, t) \cap 1..k + 1 = C \cup {k + 1}
      BY <2>3, <2>5, 1..k + 1 = 1..k \cup {k + 1} DEF Places
    <3>2. Cardinality(Places(sts, t) \cap 1..k + 1) = Cardinality(C) + 1
      BY <3>1, <2>3, <2>4, FS_AddElement
    <3>3. k + 1 \in Places(sts, t)
      BY <2>3, <2>5 DEF Places
    <3> HIDE DEF C
    <3>4. /\ Append(r, sts[k + 1]) \in Seq(Subtask)
          /\ Len(Append(r, sts[k + 1])) = Len(r) + 1
          /\ \A j \in DOMAIN Append(r, sts[k + 1]) :
                \/ Append(r, sts[k + 1])[j] = sts[k + 1]
                \/ j \in DOMAIN r /\ Append(r, sts[k + 1])[j] = r[j]
      <4>1. r \in Seq(Subtask)
        BY <2>1
      <4> HIDE DEF Kept
      <4> QED BY <4>1, <2>3, AppendEntries
    <3>5. Kept(Append(r, sts[k + 1]), k + 1)
      <4>1. Len(r) = Cardinality(C)
        BY <2>1 DEF C
      <4> QED BY <2>1, <3>2, <3>3, <3>4, <4>1
    <3> QED BY <2>2, <2>5, <3>5
  <2>6. CASE sts[k + 1].task # t
    <3>1. Places(sts, t) \cap 1..k + 1 = C
      BY <2>6, 1..k + 1 = 1..k \cup {k + 1} DEF Places
    <3>2. Kept(r, k + 1)
      BY <2>1, <3>1
    <3> QED BY <2>2, <2>6, <3>2
  <2> QED BY <2>5, <2>6
<1>6. N \in T
  <2> HIDE DEF T, N
  <2> QED BY <1>1, <1>4, <1>5, NatSetInduction
<1>7. Kept(g[1..N], N)
  BY <1>1, <1>6
<1>8. Places(sts, t) \cap 1..N = Places(sts, t)
  BY <1>1 DEF Places
<1> QED BY <1>2, <1>7, <1>8 DEF Count, Keeps

\* A subtask takes another status in its place.
Changes(new, sts, i, st) ==
    /\ new \in Seq(Subtask)
    /\ DOMAIN new = DOMAIN sts
    /\ \A j \in DOMAIN sts : /\ new[j].task = sts[j].task
                             /\ new[j].status = IF j = i THEN st ELSE sts[j].status
    /\ \A t : Count(new, t) = Count(sts, t)

LEMMA StatusChange ==
    ASSUME NEW sts \in Seq(Subtask), NEW i \in DOMAIN sts,
           NEW st \in {"Pending", "Running"} \cup Ended,
           NEW new, new = [sts EXCEPT ![i].status = st]
    PROVE  Changes(new, sts, i, st)
<1>1. sts[i] \in Subtask
  OBVIOUS
<1>2. [sts[i] EXCEPT !.status = st] \in Subtask
  BY <1>1 DEF Subtask
<1>3. new = [sts EXCEPT ![i] = [sts[i] EXCEPT !.status = st]]
  OBVIOUS
<1>4. new \in Seq(Subtask) /\ DOMAIN new = DOMAIN sts
  BY <1>2, <1>3
<1>5. ASSUME NEW j \in DOMAIN sts
      PROVE  new[j].task = sts[j].task /\ new[j].status = IF j = i THEN st ELSE sts[j].status
  BY <1>1, <1>3 DEF Subtask
<1>6. \A t : Places(new, t) = Places(sts, t)
  BY <1>4, <1>5 DEF Places
<1> QED BY <1>4, <1>5, <1>6 DEF Count, Changes

-----------------------------------------------------------------------------
(* The inductive invariant *)

Marks == {"None", "Pending", "Mining", "Completed"}
Published == {t \in Task : status[t] # "None"}
Waiting == {t \in Task : status[t] \in {"Pending", "Mining"}}

PoolType ==
    /\ tasks \in Seq(Task)
    /\ status \in [Task -> Marks]
    /\ shown \in [Task -> Seq({"Pending"} \cup Ended)]
    /\ subtasks \in Seq(Subtask)
    /\ blocks \in Nat
    /\ transactions \in Seq(Task)
    /\ mempoolSize \in Nat

\* The list holds each published task once.
ListExact ==
    /\ IsInjective(tasks)
    /\ ToSet(tasks) = Published
    /\ IsFiniteSet(Published)

\* A task has its subtasks from the time it is split, and never gets others.
Counted ==
    \A t \in Task :
       Count(subtasks, t) = IF status[t] \in {"Mining", "Completed"} THEN Parts[t] ELSE 0

\* A task is completed in the critical section that ends its last subtask.
Settled ==
    \A t \in Task : /\ status[t] = "Mining" => ~AllDone(subtasks, t)
                    /\ status[t] = "Completed" => AllDone(subtasks, t)

ShownEnded ==
    \A t \in Task : status[t] = "Completed" =>
       Len(shown[t]) = Parts[t] /\ \A i \in 1..Parts[t] : shown[t][i] \in Ended

\* The work of the workers is what is running.
Working ==
    /\ work \in [Worker -> Nat]
    /\ \A w \in Worker : work[w] # 0 =>
          work[w] \in DOMAIN subtasks /\ subtasks[work[w]].status = "Running"
    /\ \A v, w \in Worker : work[v] # 0 /\ work[v] = work[w] => v = w
    /\ \A i \in DOMAIN subtasks : subtasks[i].status = "Running" => \E w \in Worker : work[w] = i

PoolInv ==
    /\ PoolType /\ ListExact /\ Counted /\ Settled /\ ShownEnded
    /\ PaidOnce /\ MempoolExact /\ Working

DashInv ==
    /\ owed \in [Actor -> Nat]
    /\ events \in [Client -> Nat]
    /\ clients \subseteq Client
    /\ stale \subseteq clients
    /\ ChangeReachesDashboard

IInv == PoolInv /\ DashInv

-----------------------------------------------------------------------------
(* Dashboards *)

LEMMA AnnounceDash ==
    ASSUME DashInv, NEW a \in Actor, NEW n \in Nat \ {0}, Announce(a, n)
    PROVE  DashInv'
<1>1. owed' \in [Actor -> Nat] /\ owed'[a] > 0
  BY DEF DashInv, Announce
<1> QED BY <1>1 DEF DashInv, Announce, ChangeReachesDashboard

LEMMA BroadcastDash ==
    ASSUME DashInv, NEW a \in Actor, Broadcast(a)
    PROVE  DashInv'
<1>1. Capacity \in Nat \ {0}
  BY WebAssumption
<1>2. owed' \in [Actor -> Nat] /\ events' \in [Client -> Nat]
  BY DEF DashInv, Broadcast
<1>3. \A c \in clients : events'[c] > 0
  BY <1>1 DEF DashInv, Broadcast, HasRoom
<1> QED BY <1>2, <1>3 DEF DashInv, Broadcast, ChangeReachesDashboard

LEMMA ClientDash ==
    ASSUME DashInv, NEW c \in Client, Connect(c) \/ Disconnect(c) \/ Deliver(c) \/ Load(c)
    PROVE  DashInv'
<1>1. CASE Connect(c)
  BY <1>1 DEF DashInv, Connect, ChangeReachesDashboard
<1>2. CASE Disconnect(c)
  BY <1>2 DEF DashInv, Disconnect, ChangeReachesDashboard
<1>3. CASE Deliver(c)
  BY <1>3 DEF DashInv, Deliver, ChangeReachesDashboard
<1>4. CASE Load(c)
  BY <1>4 DEF DashInv, Load, ChangeReachesDashboard
<1> QED BY <1>1, <1>2, <1>3, <1>4

\* Steps that leave the pool and the workers alone.
LEMMA PoolKept ==
    ASSUME PoolInv, UNCHANGED <<pool, work>>
    PROVE  PoolInv'
<1>1. /\ tasks' = tasks /\ status' = status /\ shown' = shown /\ subtasks' = subtasks
      /\ blocks' = blocks /\ transactions' = transactions /\ mempoolSize' = mempoolSize
      /\ work' = work
  BY DEF pool
<1> QED BY <1>1 DEF PoolInv, PoolType, ListExact, Published, Counted, Settled, ShownEnded,
                    PaidOnce, MempoolExact, Working, AllDone

-----------------------------------------------------------------------------
(* Publishing a task *)

LEMMA PublishPool ==
    ASSUME PoolInv, NEW t \in Task, HandlePublishTask(t)
    PROVE  PoolInv'
<1> USE DEF PoolInv
<1>0. /\ status \in [Task -> Marks] /\ status[t] = "None" /\ tasks \in Seq(Task)
      /\ status' = [status EXCEPT ![t] = "Pending"] /\ tasks' = <<t>> \o tasks
      /\ mempoolSize' = mempoolSize + 1
      /\ shown' = shown /\ subtasks' = subtasks /\ blocks' = blocks
      /\ transactions' = transactions /\ work' = work
  BY DEF HandlePublishTask, PoolType
<1>1. PoolType'
  BY <1>0 DEF PoolType, Marks
<1>2. \A u \in Task : status'[u] = IF u = t THEN "Pending" ELSE status[u]
  BY <1>0
<1>3. Published' = Published \cup {t} /\ t \notin Published
  BY <1>0, <1>2 DEF Published
<1>4. ListExact'
  <2>1. IsFiniteSet(Published')
    BY <1>3, FS_AddElement DEF ListExact
  <2>2. /\ DOMAIN tasks = 1..Len(tasks) /\ Len(tasks) \in Nat /\ DOMAIN tasks' = 1..Len(tasks) + 1
        /\ tasks'[1] = t /\ \A i \in 1..Len(tasks) + 1 : i # 1 => tasks'[i] = tasks[i - 1]
    BY <1>0
  <2>3. \A i \in 1..Len(tasks) : tasks[i] # t /\ tasks'[i + 1] = tasks[i]
    <3>1. \A i \in 1..Len(tasks) : tasks[i] # t
      BY <1>3, <2>2 DEF ListExact, ToSet
    <3>2. \A i \in 1..Len(tasks) : tasks'[i + 1] = tasks[i]
      BY <2>2
    <3> QED BY <3>1, <3>2
  <2>4. IsInjective(tasks')
    <3> SUFFICES ASSUME NEW i \in DOMAIN tasks', NEW j \in DOMAIN tasks', tasks'[i] = tasks'[j]
                 PROVE  i = j
      BY DEF IsInjective
    <3>1. CASE i = 1 \/ j = 1
      BY <3>1, <2>2, <2>3
    <3>2. CASE i # 1 /\ j # 1
      <4>1. i - 1 \in DOMAIN tasks /\ j - 1 \in DOMAIN tasks /\ tasks[i - 1] = tasks[j - 1]
        BY <3>2, <2>2
      <4>2. i - 1 = j - 1
        BY <4>1 DEF ListExact, IsInjective
      <4> QED BY <2>2, <4>2
    <3> QED BY <3>1, <3>2
  <2>5. ToSet(tasks') = ToSet(tasks) \cup {t}
    <3>1. \A x \in ToSet(tasks') : x \in ToSet(tasks) \cup {t}
      BY <2>2 DEF ToSet
    <3>2. \A x \in ToSet(tasks) : x \in ToSet(tasks')
      <4> SUFFICES ASSUME NEW i \in 1..Len(tasks) PROVE tasks[i] \in ToSet(tasks')
        BY <2>2 DEF ToSet
      <4>1. i + 1 \in DOMAIN tasks' /\ tasks'[i + 1] = tasks[i]
        BY <2>2, <2>3
      <4> QED BY <4>1 DEF ToSet
    <3>3. t \in ToSet(tasks')
      <4>1. 1 \in DOMAIN tasks' /\ tasks'[1] = t
        BY <2>2
      <4> QED BY <4>1 DEF ToSet
    <3> QED BY <3>1, <3>2, <3>3
  <2> QED BY <1>3, <2>1, <2>4, <2>5 DEF ListExact
<1>5. Counted' /\ Settled' /\ ShownEnded'
  BY <1>0, <1>2 DEF Counted, Settled, ShownEnded, AllDone
<1>6. PaidOnce'
  <2>1. {u \in Task : status'[u] = "Completed"} = {u \in Task : status[u] = "Completed"}
    BY <1>0, <1>2
  <2> QED BY <1>0, <2>1 DEF PaidOnce
<1>7. MempoolExact'
  <2>1. Waiting' = Waiting \cup {t} /\ t \notin Waiting
    BY <1>0, <1>2 DEF Waiting
  <2>2. Waiting \in SUBSET Published
    BY DEF Waiting, Published
  <2>3. IsFiniteSet(Waiting)
    BY <2>2, FS_Subset DEF ListExact
  <2>4. Cardinality(Waiting') = Cardinality(Waiting) + 1
    BY <2>1, <2>3, FS_AddElement
  <2> QED BY <1>0, <2>4 DEF MempoolExact, Waiting
<1>8. Working'
  BY <1>0 DEF Working
<1> QED BY <1>1, <1>4, <1>5, <1>6, <1>7, <1>8

-----------------------------------------------------------------------------
(* A round of the analyzer *)

\* The list r after the first k tasks: what was there keeps its place, what is
\* new is pending and belongs to a task that was pending.
SplitUpTo(r, k) ==
    /\ r \in Seq(Subtask)
    /\ Len(r) >= Len(subtasks)
    /\ \A i \in 1..Len(subtasks) : r[i] = subtasks[i]
    /\ \A i \in 1..Len(r) : i > Len(subtasks) =>
          r[i].status = "Pending" /\ status[r[i].task] = "Pending"
    /\ \A t \in Task : Count(r, t) = Count(subtasks, t)
          + (IF status[t] = "Pending" /\ (\E j \in 1..k : tasks[j] = t) THEN Parts[t] ELSE 0)

LEMMA SplitOne ==
    ASSUME PoolType, IsInjective(tasks), NEW k \in Nat, k + 1 \in DOMAIN tasks,
           NEW r, SplitUpTo(r, k)
    PROVE  SplitUpTo(SplitInto(r, tasks[k + 1]), k + 1)
<1> DEFINE u == tasks[k + 1]
<1>1. u \in Task /\ \A j \in 1..k : j \in DOMAIN tasks /\ tasks[j] # u
  <2>1. DOMAIN tasks = 1..Len(tasks) /\ Len(tasks) \in Nat
    BY DEF PoolType
  <2>2. \A j \in 1..k : j \in DOMAIN tasks /\ j # k + 1
    BY <2>1
  <2> QED BY <2>2 DEF PoolType, IsInjective
<1>2. 1..k + 1 = 1..k \cup {k + 1}
  OBVIOUS
<1>3. \A t \in Task : (\E j \in 1..k + 1 : tasks[j] = t) <=> (\E j \in 1..k : tasks[j] = t) \/ t = u
  BY <1>2
<1>4. CASE status[u] # "Pending"
  <2>1. SplitInto(r, u) = r
    BY <1>4 DEF SplitInto
  <2>2. \A t \in Task : (status[t] = "Pending" /\ \E j \in 1..k + 1 : tasks[j] = t)
                        <=> (status[t] = "Pending" /\ \E j \in 1..k : tasks[j] = t)
    BY <1>3, <1>4
  <2>3. SplitUpTo(r, k + 1)
    BY <2>2 DEF SplitUpTo
  <2> QED BY <2>1, <2>3
<1>5. CASE status[u] = "Pending"
  <2> DEFINE new == r \o SplitTask(u)
             n == Len(subtasks)
  <2>1. SplitInto(r, u) = new
    BY <1>5 DEF SplitInto
  <2>2. r \in Seq(Subtask) /\ Len(r) \in Nat /\ n \in Nat
    BY DEF SplitUpTo, PoolType
  <2>3. /\ new \in Seq(Subtask)
        /\ Len(new) >= Len(r)
        /\ \A i \in 1..Len(r) : new[i] = r[i]
        /\ \A i \in 1..Len(new) : i > Len(r) => new[i] = [task |-> u, status |-> "Pending"]
        /\ Count(new, u) = Count(r, u) + Parts[u]
        /\ \A t \in Task \ {u} : Count(new, t) = Count(r, t)
    BY <1>1, <2>2, CountConcat, Zenon
  <2> HIDE DEF new, u, n
  <2>4. Len(new) \in Nat
    BY <2>3
  <2>5. Len(r) >= n /\ \A i \in 1..n : i \in 1..Len(r) /\ r[i] = subtasks[i]
    BY <2>2 DEF SplitUpTo, n
  <2>6. Len(new) >= n /\ \A i \in 1..n : new[i] = subtasks[i]
    BY <2>2, <2>3, <2>4, <2>5
  <2>7. ASSUME NEW i \in 1..Len(new), i > n
        PROVE  new[i].status = "Pending" /\ status[new[i].task] = "Pending"
    <3>1. CASE i > Len(r)
      BY <3>1, <2>3, <1>5
    <3>2. CASE i \in 1..Len(r)
      <4>1. r[i].status = "Pending" /\ status[r[i].task] = "Pending"
        BY <2>7, <3>2 DEF SplitUpTo, n
      <4> QED BY <4>1, <3>2, <2>3
    <3> QED BY <2>2, <2>4, <3>1, <3>2
  <2>8. ASSUME NEW t \in Task
        PROVE  Count(new, t) = Count(subtasks, t)
                 + (IF status[t] = "Pending" /\ (\E j \in 1..k + 1 : tasks[j] = t) THEN Parts[t] ELSE 0)
    <3>1. Count(r, t) = Count(subtasks, t)
                 + (IF status[t] = "Pending" /\ (\E j \in 1..k : tasks[j] = t) THEN Parts[t] ELSE 0)
      BY DEF SplitUpTo
    <3>2. Count(subtasks, t) \in Nat /\ Parts[t] \in Nat
      BY CountType, WebAssumption DEF PoolType
    <3>3. CASE t = u
      <4>1. ~ \E j \in 1..k : tasks[j] = t
        BY <1>1, <3>3
      <4>2. Count(r, t) = Count(subtasks, t)
        BY <3>1, <3>2, <4>1
      <4>3. status[t] = "Pending" /\ \E j \in 1..k + 1 : tasks[j] = t
        BY <1>3, <1>5, <3>3
      <4> QED BY <2>3, <3>3, <4>2, <4>3
    <3>4. CASE t # u
      <4>1. (\E j \in 1..k + 1 : tasks[j] = t) <=> (\E j \in 1..k : tasks[j] = t)
        BY <1>3, <3>4
      <4>2. Count(new, t) = Count(r, t)
        BY <2>3, <3>4
      <4> QED BY <3>1, <4>1, <4>2
    <3> QED BY <3>3, <3>4
  <2>9. SplitUpTo(new, k + 1)
    BY <2>3, <2>6, <2>7, <2>8 DEF SplitUpTo, n
  <2> QED BY <2>1, <2>9 DEF u
<1> QED BY <1>4, <1>5

LEMMA SplitAll ==
    ASSUME PoolType, IsInjective(tasks)
    PROVE  SplitUpTo(FoldLeft(SplitInto, subtasks, tasks), Len(tasks))
<1> DEFINE N == Len(tasks)
<1>1. N \in Nat /\ DOMAIN tasks = 1..N
  BY DEF PoolType
<1> HIDE DEF N
<1>2. PICK g : /\ Chain(g, "split", 0, subtasks, tasks, N)
               /\ FoldLeft(SplitInto, subtasks, tasks) = g[1..N]
  BY <1>1, SplitIsFold
<1>3. /\ g[1..0] = subtasks
      /\ \A k \in 1..N : g[1..k] = SplitInto(g[1..k - 1], tasks[k])
  BY <1>2 DEF Chain, Step
<1> DEFINE T == {k \in Nat : k <= N => SplitUpTo(g[1..k], k)}
<1>4. 0 \in T
  <2>1. \A t \in Task : Count(subtasks, t) \in Nat
    BY CountType DEF PoolType
  <2>2. SplitUpTo(subtasks, 0)
    BY <2>1 DEF SplitUpTo, PoolType
  <2> QED BY <1>3, <2>2
<1>5. ASSUME NEW k \in Nat, k \in T PROVE k + 1 \in T
  <2> SUFFICES ASSUME k + 1 <= N PROVE SplitUpTo(g[1..k + 1], k + 1)
    OBVIOUS
  <2>1. SplitUpTo(g[1..k], k)
    BY <1>1, <1>5
  <2>2. k + 1 \in DOMAIN tasks /\ k + 1 \in 1..N /\ (k + 1) - 1 = k
    BY <1>1
  <2>3. SplitUpTo(SplitInto(g[1..k], tasks[k + 1]), k + 1)
    BY <2>1, <2>2, SplitOne
  <2>4. g[1..k + 1] = SplitInto(g[1..k], tasks[k + 1])
    BY <1>3, <2>2
  <2> QED BY <2>3, <2>4
<1>6. N \in T
  <2> HIDE DEF T
  <2> QED BY <1>1, <1>4, <1>5, NatSetInduction
<1>7. SplitUpTo(g[1..N], N)
  BY <1>1, <1>6
<1> QED BY <1>2, <1>7 DEF N

LEMMA AnalyzerPool ==
    ASSUME PoolInv, TaskAnalyzer
    PROVE  PoolInv'
<1> USE DEF PoolInv
<1> DEFINE r == FoldLeft(SplitInto, subtasks, tasks)
           n == Len(subtasks)
<1>0. /\ status' = [t \in Task |-> IF status[t] = "Pending" THEN "Mining" ELSE status[t]]
      /\ shown' = [t \in Task |-> IF status[t] = "Pending"
                                  THEN [i \in 1..Parts[t] |-> "Pending"] ELSE shown[t]]
      /\ subtasks' = r
      /\ tasks' = tasks /\ blocks' = blocks /\ transactions' = transactions
      /\ mempoolSize' = mempoolSize /\ work' = work
  BY DEF TaskAnalyzer
<1>1. SplitUpTo(r, Len(tasks))
  BY SplitAll DEF ListExact
<1> HIDE DEF r
<1>2. /\ r \in Seq(Subtask) /\ Len(r) \in Nat /\ n \in Nat /\ Len(r) >= n
      /\ DOMAIN r = 1..Len(r) /\ DOMAIN subtasks = 1..n
      /\ \A i \in 1..n : i \in 1..Len(r) /\ r[i] = subtasks[i]
      /\ \A i \in 1..Len(r) : i \in 1..n \/ i > n
  BY <1>1 DEF SplitUpTo, PoolType
<1>3. \A i \in 1..Len(r) : i > n => r[i].status = "Pending" /\ status[r[i].task] = "Pending"
  BY <1>1 DEF SplitUpTo
<1> HIDE DEF n
<1>4. \A t \in Task : status'[t] = IF status[t] = "Pending" THEN "Mining" ELSE status[t]
  BY <1>0
<1>5. PoolType'
  <2>1. status' \in [Task -> Marks]
    BY <1>0 DEF PoolType, Marks
  <2>2. ASSUME NEW t \in Task PROVE [i \in 1..Parts[t] |-> "Pending"] \in Seq({"Pending"} \cup Ended)
    BY WebAssumption
  <2>3. shown' \in [Task -> Seq({"Pending"} \cup Ended)]
    BY <1>0, <2>2 DEF PoolType
  <2> QED BY <1>0, <1>2, <2>1, <2>3 DEF PoolType
<1>6. Published' = Published
  BY <1>4 DEF Published
<1>7. ListExact'
  BY <1>0, <1>6 DEF ListExact
<1>8. Counted'
  <2> SUFFICES ASSUME NEW t \in Task
               PROVE  Count(r, t) = IF status'[t] \in {"Mining", "Completed"} THEN Parts[t] ELSE 0
    BY <1>0 DEF Counted
  <2>1. Count(r, t) = Count(subtasks, t)
          + (IF status[t] = "Pending" /\ (\E j \in 1..Len(tasks) : tasks[j] = t) THEN Parts[t] ELSE 0)
    BY <1>1 DEF SplitUpTo
  <2>2. Parts[t] \in Nat /\ Count(subtasks, t) = IF status[t] \in {"Mining", "Completed"} THEN Parts[t] ELSE 0
    BY WebAssumption DEF Counted
  <2>3. status[t] = "Pending" => \E j \in 1..Len(tasks) : tasks[j] = t
    <3>1. DOMAIN tasks = 1..Len(tasks)
      BY DEF PoolType
    <3> QED BY <3>1 DEF ListExact, Published, ToSet
  <2>4. CASE status[t] = "Pending"
    BY <2>1, <2>2, <2>3, <2>4, <1>4
  <2>5. CASE status[t] # "Pending"
    BY <2>1, <2>2, <2>5, <1>4
  <2> QED BY <2>4, <2>5
<1>9. Settled'
  <2> SUFFICES ASSUME NEW t \in Task
               PROVE  /\ status'[t] = "Mining" => ~AllDone(r, t)
                      /\ status'[t] = "Completed" => AllDone(r, t)
    BY <1>0 DEF Settled, AllDone
  <2>1. CASE status[t] = "Pending"
    <3>1. status'[t] = "Mining"
      BY <1>4, <2>1
    <3>2. Count(r, t) = Parts[t] /\ Count(subtasks, t) = 0 /\ Parts[t] # 0
      BY <1>0, <1>8, <2>1, <3>1, WebAssumption DEF Counted
    <3>3. Places(r, t) # {} /\ Places(subtasks, t) = {}
      BY <1>2, <3>2, CountType DEF PoolType
    <3>4. PICK i \in 1..Len(r) : r[i].task = t
      BY <1>2, <3>3 DEF Places
    <3>5. i > n
      BY <1>2, <3>3, <3>4 DEF Places
    <3>6. r[i].status = "Pending"
      BY <1>3, <3>5
    <3> QED BY <1>2, <3>1, <3>4, <3>6 DEF AllDone
  <2>2. CASE status[t] = "Mining"
    <3>1. PICK i \in 1..n : subtasks[i].task = t /\ subtasks[i].status \notin {"Completed", "Failed"}
      BY <1>2, <2>2 DEF Settled, AllDone
    <3> QED BY <1>2, <1>4, <2>2, <3>1 DEF AllDone
  <2>3. CASE status[t] = "Completed"
    <3>1. AllDone(subtasks, t)
      BY <2>3 DEF Settled
    <3>2. \A i \in 1..Len(r) : r[i].task = t => i \in 1..n
      BY <1>2, <1>3, <2>3
    <3>3. AllDone(r, t)
      BY <1>2, <3>1, <3>2 DEF AllDone
    <3> QED BY <1>4, <2>3, <3>3
  <2>4. CASE status[t] = "None"
    BY <1>4, <2>4
  <2> QED BY <2>1, <2>2, <2>3, <2>4 DEF PoolType, Marks
<1>10. ShownEnded'
  BY <1>0, <1>4 DEF ShownEnded
<1>11. PaidOnce'
  <2>1. {u \in Task : status'[u] = "Completed"} = {u \in Task : status[u] = "Completed"}
    BY <1>4
  <2> QED BY <1>0, <2>1 DEF PaidOnce
<1>12. MempoolExact'
  <2>1. {u \in Task : status'[u] \in {"Pending", "Mining"}} = {u \in Task : status[u] \in {"Pending", "Mining"}}
    BY <1>4
  <2> QED BY <1>0, <2>1 DEF MempoolExact
<1>13. Working'
  <2>1. ASSUME NEW i \in 1..Len(r), r[i].status = "Running"
        PROVE  i \in 1..n /\ subtasks[i].status = "Running"
    BY <1>2, <1>3, <2>1
  <2> QED BY <1>0, <1>2, <2>1 DEF Working
<1> QED BY <1>5, <1>7, <1>8, <1>9, <1>10, <1>11, <1>12, <1>13

-----------------------------------------------------------------------------
(* Claiming a subtask, and the end of an inference *)

LEMMA ClaimPool ==
    ASSUME PoolInv, NEW w \in Worker, NEW i \in DOMAIN subtasks, Claim(w, i)
    PROVE  PoolInv'
<1> USE DEF PoolInv
<1>0. /\ work[w] = 0 /\ subtasks[i].status = "Pending"
      /\ subtasks' = [subtasks EXCEPT ![i].status = "Running"]
      /\ work' = [work EXCEPT ![w] = i]
      /\ tasks' = tasks /\ status' = status /\ shown' = shown /\ blocks' = blocks
      /\ transactions' = transactions /\ mempoolSize' = mempoolSize
  BY DEF Claim, Claimable
<1>1. subtasks \in Seq(Subtask) /\ i \in Nat \ {0}
  BY DEF PoolType
<1>2. /\ subtasks' \in Seq(Subtask) /\ DOMAIN subtasks' = DOMAIN subtasks
      /\ \A j \in DOMAIN subtasks :
            /\ subtasks'[j].task = subtasks[j].task
            /\ subtasks'[j].status = IF j = i THEN "Running" ELSE subtasks[j].status
      /\ \A t : Count(subtasks', t) = Count(subtasks, t)
  <2>1. "Running" \in {"Pending", "Running"} \cup Ended
    OBVIOUS
  <2>2. Changes(subtasks', subtasks, i, "Running")
    BY <1>0, <1>1, <2>1, StatusChange
  <2> QED BY <2>2 DEF Changes
<1>3. PoolType' /\ ListExact' /\ ShownEnded' /\ PaidOnce' /\ MempoolExact'
  BY <1>0, <1>2 DEF PoolType, ListExact, Published, ShownEnded, PaidOnce, MempoolExact
<1>4. Counted'
  BY <1>0, <1>2 DEF Counted
<1>5. Settled'
  <2> SUFFICES ASSUME NEW t \in Task
               PROVE  AllDone(subtasks', t) <=> AllDone(subtasks, t)
    BY <1>0 DEF Settled
  <2> QED BY <1>0, <1>2 DEF AllDone
<1>6. Working'
  <2>1. work' \in [Worker -> Nat] /\ \A v \in Worker : work'[v] = IF v = w THEN i ELSE work[v]
    BY <1>0, <1>1 DEF Working
  <2>2. \A v \in Worker : work[v] # i
    BY <1>0, <1>1 DEF Working
  <2>3. \A v \in Worker : work'[v] # 0 =>
           work'[v] \in DOMAIN subtasks' /\ subtasks'[work'[v]].status = "Running"
    BY <1>2, <2>1 DEF Working
  <2>4. \A v, x \in Worker : work'[v] # 0 /\ work'[v] = work'[x] => v = x
    BY <2>1, <2>2 DEF Working
  <2>5. \A j \in DOMAIN subtasks' : subtasks'[j].status = "Running" => \E v \in Worker : work'[v] = j
    <3> SUFFICES ASSUME NEW j \in DOMAIN subtasks, subtasks'[j].status = "Running"
                 PROVE  \E v \in Worker : work'[v] = j
      BY <1>2
    <3>1. CASE j = i
      BY <2>1, <3>1
    <3>2. CASE j # i
      <4>1. PICK v \in Worker : work[v] = j
        BY <1>2, <3>2 DEF Working
      <4>2. v # w
        BY <1>0, <1>1, <4>1 DEF PoolType
      <4> QED BY <2>1, <4>1, <4>2
    <3> QED BY <3>1, <3>2
  <2> QED BY <2>1, <2>3, <2>4, <2>5 DEF Working
<1> QED BY <1>3, <1>4, <1>5, <1>6

LEMMA FinishPool ==
    ASSUME PoolInv, NEW w \in Worker, NEW ok \in BOOLEAN, Finish(w, ok)
    PROVE  PoolInv'
<1> USE DEF PoolInv
<1> DEFINE i == work[w]
           t == subtasks[i].task
           seen == FilterSubtasks(subtasks', t)
<1>0. /\ i # 0
      /\ subtasks' = [subtasks EXCEPT ![i].status = Outcome(ok)]
      /\ work' = [work EXCEPT ![w] = 0]
      /\ Aggregate(subtasks', t)
      /\ tasks' = tasks
  BY DEF Finish
<1>1. i \in DOMAIN subtasks /\ subtasks[i].status = "Running"
  BY <1>0 DEF Working
<1>2. subtasks \in Seq(Subtask) /\ i \in Nat \ {0} /\ t \in Task
  <2>1. subtasks \in Seq(Subtask)
    BY DEF PoolType
  <2> HIDE DEF i
  <2>2. i \in Nat \ {0} /\ subtasks[i] \in Subtask
    BY <1>1, <2>1
  <2> QED BY <2>1, <2>2 DEF Subtask
<1>3. Outcome(ok) \in Ended
  BY DEF Outcome, Ended
<1>4. /\ subtasks' \in Seq(Subtask) /\ DOMAIN subtasks' = DOMAIN subtasks
      /\ \A j \in DOMAIN subtasks :
            /\ subtasks'[j].task = subtasks[j].task
            /\ subtasks'[j].status = IF j = i THEN Outcome(ok) ELSE subtasks[j].status
      /\ \A u : Count(subtasks', u) = Count(subtasks, u)
  <2>1. Outcome(ok) \in {"Pending", "Running"} \cup Ended
    BY <1>3
  <2> HIDE DEF i
  <2>2. Changes(subtasks', subtasks, i, Outcome(ok))
    BY <1>0, <1>1, <1>2, <2>1, StatusChange
  <2> QED BY <2>2 DEF Changes
<1>5. status[t] = "Mining"
  <2>1. ~AllDone(subtasks, t)
    BY <1>1 DEF AllDone
  <2>2. i \in Places(subtasks, t)
    BY <1>1 DEF Places
  <2>3. Count(subtasks, t) # 0
    BY <1>2, <2>2, CountType
  <2> QED BY <1>2, <2>1, <2>3 DEF Counted, Settled
<1> HIDE DEF i, t
<1>6. Working'
  <2>1. work' \in [Worker -> Nat] /\ \A v \in Worker : work'[v] = IF v = w THEN 0 ELSE work[v]
    BY <1>0 DEF Working
  <2>2. \A v \in Worker : v # w => work[v] # i
    BY <1>0 DEF Working, i
  <2>3. ASSUME NEW v \in Worker, work'[v] # 0
        PROVE  work'[v] \in DOMAIN subtasks' /\ subtasks'[work'[v]].status = "Running"
    <3>1. v # w /\ work'[v] = work[v] /\ work[v] # i
      BY <2>1, <2>2, <2>3
    <3>2. work[v] \in DOMAIN subtasks /\ subtasks[work[v]].status = "Running"
      BY <2>3, <3>1 DEF Working
    <3> QED BY <1>4, <3>1, <3>2
  <2>4. \A v, x \in Worker : work'[v] # 0 /\ work'[v] = work'[x] => v = x
    BY <2>1 DEF Working
  <2>5. ASSUME NEW j \in DOMAIN subtasks', subtasks'[j].status = "Running"
        PROVE  \E v \in Worker : work'[v] = j
    <3>1. j # i /\ j \in DOMAIN subtasks /\ subtasks[j].status = "Running"
      BY <1>3, <1>4, <2>5 DEF Ended
    <3>2. PICK v \in Worker : work[v] = j
      BY <3>1 DEF Working
    <3>3. v # w
      BY <3>1, <3>2 DEF i
    <3> QED BY <2>1, <3>2, <3>3
  <2> QED BY <2>1, <2>3, <2>4, <2>5 DEF Working
<1>7. \A u \in Task \ {t} : AllDone(subtasks', u) <=> AllDone(subtasks, u)
  BY <1>4 DEF AllDone, t
<1>8. CASE ~AllDone(subtasks', t)
  <2>1. /\ status' = status /\ shown' = shown /\ blocks' = blocks
        /\ transactions' = transactions /\ mempoolSize' = mempoolSize
    BY <1>0, <1>8 DEF Aggregate
  <2>2. PoolType' /\ ListExact' /\ ShownEnded' /\ PaidOnce' /\ MempoolExact'
    BY <1>0, <1>4, <2>1 DEF PoolType, ListExact, Published, ShownEnded, PaidOnce, MempoolExact
  <2>3. Counted'
    BY <1>4, <2>1 DEF Counted
  <2>4. Settled'
    BY <1>5, <1>7, <1>8, <2>1 DEF Settled
  <2> QED BY <1>6, <2>2, <2>3, <2>4
<1>9. CASE AllDone(subtasks', t)
  <2>1. /\ status' = [status EXCEPT ![t] = "Completed"]
        /\ shown' = [shown EXCEPT ![t] = [j \in DOMAIN seen |-> seen[j].status]]
        /\ blocks' = blocks + 1
        /\ transactions' = Append(transactions, t)
        /\ mempoolSize' = IF mempoolSize > 0 THEN mempoolSize - 1 ELSE 0
    BY <1>0, <1>9 DEF Aggregate
  <2>2. \A u \in Task : status'[u] = IF u = t THEN "Completed" ELSE status[u]
    BY <1>2, <2>1 DEF PoolType
  <2>3. /\ seen \in Seq(Subtask) /\ Len(seen) = Parts[t]
        /\ \A j \in 1..Parts[t] : seen[j].status \in Ended
    <3>1. /\ seen \in Seq(Subtask) /\ Len(seen) = Count(subtasks', t)
          /\ \A j \in DOMAIN seen : \E k \in Places(subtasks', t) : seen[j] = subtasks'[k]
      <4>1. Keeps(seen, subtasks', t)
        BY <1>4, FilterKeeps
      <4> HIDE DEF seen
      <4> QED BY <4>1 DEF Keeps
    <3>2. Count(subtasks', t) = Parts[t]
      BY <1>2, <1>4, <1>5 DEF Counted
    <3>3. \A k \in Places(subtasks', t) : subtasks'[k].status \in Ended
      BY <1>9 DEF AllDone, Places, Ended
    <3>4. DOMAIN seen = 1..Len(seen)
      BY <3>1
    <3> HIDE DEF seen
    <3> QED BY <3>1, <3>2, <3>3, <3>4
  <2> HIDE DEF seen
  <2>4. /\ shown' \in [Task -> Seq({"Pending"} \cup Ended)]
        /\ Len(shown'[t]) = Parts[t] /\ \A j \in 1..Parts[t] : shown'[t][j] \in Ended
        /\ \A u \in Task \ {t} : shown'[u] = shown[u]
    <3> DEFINE sh == [j \in DOMAIN seen |-> seen[j].status]
    <3>1. Parts[t] \in Nat /\ DOMAIN seen = 1..Parts[t]
      BY <1>2, <2>3, WebAssumption
    <3>2. sh \in [1..Parts[t] -> Ended]
      BY <2>3, <3>1
    <3>3. sh \in Seq({"Pending"} \cup Ended) /\ Len(sh) = Parts[t] /\ \A j \in 1..Parts[t] : sh[j] \in Ended
      BY <3>1, <3>2
    <3> HIDE DEF sh
    <3>4. shown' = [shown EXCEPT ![t] = sh] /\ shown \in [Task -> Seq({"Pending"} \cup Ended)]
      BY <2>1 DEF sh, PoolType
    <3> QED BY <1>2, <3>3, <3>4
  <2>5. PoolType'
    <3>1. transactions' \in Seq(Task) /\ blocks' \in Nat /\ mempoolSize' \in Nat
      BY <1>2, <2>1 DEF PoolType
    <3>2. status' \in [Task -> Marks]
      BY <1>2, <2>1 DEF PoolType, Marks
    <3> QED BY <1>0, <1>4, <2>4, <3>1, <3>2 DEF PoolType
  <2>6. ListExact'
    <3>1. Published' = Published
      BY <1>2, <1>5, <2>2 DEF Published
    <3> QED BY <1>0, <3>1 DEF ListExact
  <2>7. Counted'
    BY <1>4, <1>5, <2>2 DEF Counted
  <2>8. Settled'
    BY <1>7, <1>9, <2>2 DEF Settled
  <2>9. ShownEnded'
    BY <2>2, <2>4 DEF ShownEnded
  <2>10. PaidOnce'
    <3>1. t \notin ToSet(transactions)
      BY <1>5 DEF PaidOnce
    <3>2. /\ transactions \in Seq(Task) /\ Len(transactions) \in Nat
          /\ DOMAIN transactions = 1..Len(transactions)
          /\ DOMAIN transactions' = 1..Len(transactions) + 1
          /\ Len(transactions') = Len(transactions) + 1
          /\ transactions'[Len(transactions) + 1] = t
          /\ \A j \in 1..Len(transactions) : transactions'[j] = transactions[j]
      BY <1>2, <2>1 DEF PoolType
    <3>3. \A j \in 1..Len(transactions) : transactions[j] # t
      BY <3>1, <3>2 DEF ToSet
    <3>4. 1..Len(transactions) + 1 = 1..Len(transactions) \cup {Len(transactions) + 1}
      BY <3>2
    <3>5. IsInjective(transactions')
      <4> SUFFICES ASSUME NEW j \in DOMAIN transactions', NEW k \in DOMAIN transactions',
                          transactions'[j] = transactions'[k]
                   PROVE  j = k
        BY DEF IsInjective
      <4>1. CASE j \in 1..Len(transactions) /\ k \in 1..Len(transactions)
        BY <4>1, <3>2 DEF PaidOnce, IsInjective
      <4>2. CASE ~(j \in 1..Len(transactions) /\ k \in 1..Len(transactions))
        BY <4>2, <3>2, <3>3, <3>4
      <4> QED BY <4>1, <4>2
    <3>6. ToSet(transactions') = ToSet(transactions) \cup {t}
      BY <3>2, <3>4 DEF ToSet
    <3>7. {u \in Task : status'[u] = "Completed"} = {u \in Task : status[u] = "Completed"} \cup {t}
      BY <1>2, <2>2
    <3>8. blocks' = 1 + Len(transactions')
      BY <2>1, <3>2 DEF PaidOnce
    <3> QED BY <3>5, <3>6, <3>7, <3>8 DEF PaidOnce
  <2>11. MempoolExact'
    <3>1. Waiting' = Waiting \ {t} /\ t \in Waiting
      BY <1>2, <1>5, <2>2 DEF Waiting
    <3>2. Waiting \in SUBSET Published
      BY DEF Waiting, Published
    <3>3. IsFiniteSet(Waiting)
      BY <3>2, FS_Subset DEF ListExact
    <3>4. Cardinality(Waiting') = Cardinality(Waiting) - 1
      BY <3>1, <3>3, FS_RemoveElement
    <3>5. Cardinality(Waiting) \in Nat /\ Cardinality(Waiting) # 0
      BY <3>1, <3>3, FS_CardinalityType, FS_EmptySet
    <3>6. mempoolSize = Cardinality(Waiting)
      BY DEF MempoolExact, Waiting
    <3>7. mempoolSize' = Cardinality(Waiting')
      BY <2>1, <3>4, <3>5, <3>6
    <3> QED BY <3>7 DEF MempoolExact, Waiting
  <2> QED BY <1>6, <2>5, <2>6, <2>7, <2>8, <2>9, <2>10, <2>11
<1> QED BY <1>8, <1>9

-----------------------------------------------------------------------------
(* The theorems *)

LEMMA InitIInv == Init => IInv
<1> SUFFICES ASSUME Init PROVE IInv
  OBVIOUS
<1> USE DEF Init
<1>1. \A t : Count(subtasks, t) = 0
  <2>1. \A t : Places(subtasks, t) = {}
    BY DEF Places
  <2> QED BY <2>1, FS_EmptySet DEF Count
<1>2. PoolType
  BY DEF PoolType, Marks
<1>3. Published = {} /\ {t \in Task : status[t] \in {"Pending", "Mining"}} = {}
      /\ {t \in Task : status[t] = "Completed"} = {}
  BY DEF Published
<1>4. ListExact /\ PaidOnce /\ MempoolExact
  <2>1. DOMAIN <<>> = {} /\ Len(<<>>) = 0
    OBVIOUS
  <2>2. IsInjective(<<>>) /\ ToSet(<<>>) = {}
    BY <2>1 DEF IsInjective, ToSet
  <2>3. ListExact
    BY <1>3, <2>2, FS_EmptySet DEF ListExact
  <2>4. PaidOnce
    BY <1>3, <2>1, <2>2 DEF PaidOnce
  <2>5. MempoolExact
    BY <1>3, FS_EmptySet DEF MempoolExact
  <2> QED BY <2>3, <2>4, <2>5
<1>5. Counted /\ Settled /\ ShownEnded
  BY <1>1 DEF Counted, Settled, ShownEnded
<1>6. Working
  BY DEF Working
<1>7. DashInv
  BY DEF DashInv, ChangeReachesDashboard
<1> QED BY <1>2, <1>4, <1>5, <1>6, <1>7 DEF IInv, PoolInv

LEMMA NextIInv == IInv /\ [Next]_vars => IInv'
<1> SUFFICES ASSUME IInv, [Next]_vars PROVE IInv'
  OBVIOUS
<1> USE DEF IInv
<1>0. AutoMiner \in Worker /\ Request \subseteq Worker /\ Worker \subseteq Actor
      /\ Task \subseteq Actor /\ Analyzer \in Actor
  BY DEF Worker, Actor
<1>1. CASE StartMiner
  BY <1>1, PoolKept DEF StartMiner, dashboards, DashInv, ChangeReachesDashboard
<1>2. ASSUME NEW t \in Task, HandlePublishTask(t) PROVE IInv'
  <2>1. Announce(t, 1) /\ t \in Actor
    BY <1>0, <1>2 DEF HandlePublishTask
  <2>2. DashInv'
    BY <2>1, AnnounceDash
  <2>3. PoolInv'
    BY <1>2, PublishPool
  <2> QED BY <2>2, <2>3
<1>3. CASE TaskAnalyzer
  BY <1>0, <1>3, AnalyzerPool, AnnounceDash DEF TaskAnalyzer
<1>4. ASSUME NEW w \in Worker, NEW i \in DOMAIN subtasks, Claim(w, i) PROVE IInv'
  <2>1. Announce(w, 1) /\ w \in Actor
    BY <1>0, <1>4 DEF Claim
  <2>2. DashInv'
    BY <2>1, AnnounceDash
  <2>3. PoolInv'
    BY <1>4, ClaimPool
  <2> QED BY <2>2, <2>3
<1>5. CASE ClaimFirst
  BY <1>0, <1>4, <1>5 DEF ClaimFirst
<1>6. ASSUME NEW r \in Request, ClaimNamed(r) PROVE IInv'
  BY <1>0, <1>4, <1>6 DEF ClaimNamed
<1>7. ASSUME NEW w \in Worker, NEW ok \in BOOLEAN, Finish(w, ok) PROVE IInv'
  <2>1. Announce(w, 2) /\ w \in Actor
    BY <1>0, <1>7 DEF Finish
  <2>2. DashInv'
    BY <2>1, AnnounceDash
  <2>3. PoolInv'
    BY <1>7, FinishPool
  <2> QED BY <2>2, <2>3
<1>8. ASSUME NEW a \in Actor, Broadcast(a) PROVE IInv'
  BY <1>8, BroadcastDash, PoolKept DEF Broadcast
<1>9. ASSUME NEW c \in Client, Connect(c) \/ Disconnect(c) \/ Deliver(c) \/ Load(c) PROVE IInv'
  BY <1>9, ClientDash, PoolKept DEF Connect, Disconnect, Deliver, Load
<1>10. CASE UNCHANGED vars
  BY <1>10, PoolKept DEF vars, dashboards, DashInv, ChangeReachesDashboard
<1> QED BY <1>1, <1>2, <1>3, <1>5, <1>6, <1>7, <1>8, <1>9, <1>10 DEF Next

LEMMA Invariance == Spec => []IInv
BY InitIInv, NextIInv, PTL DEF Spec

\* However the automatic miner and the requests interleave, a running subtask is
\* computed by exactly one of them, and nobody computes one that is not running.
THEOREM EveryRunHasOneWorker == Spec => []OneWorker
<1>1. IInv => OneWorker
  <2> SUFFICES ASSUME IInv, NEW i \in DOMAIN subtasks
               PROVE  Cardinality({w \in Worker : work[w] = i})
                        = IF subtasks[i].status = "Running" THEN 1 ELSE 0
    BY DEF OneWorker
  <2> USE DEF IInv, PoolInv
  <2>1. i # 0
    BY DEF PoolType
  <2>2. CASE subtasks[i].status = "Running"
    <3>1. PICK w \in Worker : work[w] = i
      BY <2>2 DEF Working
    <3>2. {v \in Worker : work[v] = i} = {w}
      BY <2>1, <3>1 DEF Working
    <3> QED BY <2>2, <3>2, FS_Singleton
  <2>3. CASE subtasks[i].status # "Running"
    <3>1. {v \in Worker : work[v] = i} = {}
      BY <2>1, <2>3 DEF Working
    <3> QED BY <2>3, <3>1, FS_EmptySet
  <2> QED BY <2>2, <2>3
<1> QED BY <1>1, Invariance, PTL

\* Events dropped at a full channel lose no news, whatever its capacity: a
\* dashboard that has not loaded the last change has an event or a load to come.
THEOREM NewsReachesDashboards == Spec => []ChangeReachesDashboard
<1>1. IInv => ChangeReachesDashboard
  BY DEF IInv, DashInv
<1> QED BY <1>1, Invariance, PTL

\* Between any two critical sections the statuses of tasks and subtasks, the
\* blocks, the payments and the mempool counter agree.
THEOREM BooksStayBalanced == Spec => []BooksBalance
<1>1. IInv => BooksBalance
  <2> SUFFICES ASSUME IInv PROVE BooksBalance
    OBVIOUS
  <2> USE DEF IInv, PoolInv
  <2>1. ASSUME NEW t \in Task
        PROVE  status[t] = "Completed" <=> Statuses(t) # {} /\ Statuses(t) \subseteq Ended
    <3>1. Statuses(t) \subseteq Ended <=> AllDone(subtasks, t)
      BY DEF Statuses, AllDone, Ended
    <3>2. Statuses(t) # {} <=> Places(subtasks, t) # {}
      BY DEF Statuses, Places
    <3>3. Statuses(t) # {} <=> status[t] \in {"Mining", "Completed"}
      <4>1. Statuses(t) # {} <=> Count(subtasks, t) # 0
        BY <3>2, CountType DEF PoolType
      <4>2. Parts[t] # 0
        BY WebAssumption
      <4> QED BY <4>1, <4>2 DEF Counted
    <3> QED BY <3>1, <3>3 DEF Settled
  <2>2. CompletedMeansAllEnded
    BY <2>1 DEF CompletedMeansAllEnded, ShownEnded
  <2> QED BY <2>2 DEF BooksBalance
<1> QED BY <1>1, Invariance, PTL

=============================================================================
