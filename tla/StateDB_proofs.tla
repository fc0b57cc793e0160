---------------------------- MODULE StateDB_proofs ---------------------------
(***************************************************************************)
(* Proofs about StateDB, for every set of addresses and slots, every bound *)
(* on balances and nonces, and journals and snapshots of any length.       *)
(***************************************************************************)
EXTENDS StateDB, FiniteSetTheorems, SequenceTheorems, TLAPS

-----------------------------------------------------------------------------
(* Undoing a journal.  FoldRight is a recursive function on sets of indexes *)
(* that the library defines by CHOOSE.  It exists, by induction on the size *)
(* of the set, and goes through the journal from its end.                   *)

\* Induction over the naturals, for a set of numbers.
LEMMA NatSetInduction ==
    ASSUME NEW T, 0 \in T, \A n \in Nat : n \in T => n + 1 \in T
    PROVE  Nat \subseteq T
<1> SUFFICES ASSUME Nat \ T # {} PROVE FALSE
  OBVIOUS
<1> DEFINE R == {ss \in Nat \X Nat : ss[1] < ss[2]}
<1>1. IsWellFoundedOn(R, Nat)
  <2>1. OpToRel(<, Nat) = R
    BY Zenon DEF OpToRel
  <2> QED BY <2>1, NatLessThanWellFounded, Zenon
<1>2. PICK x \in Nat \ T : \A y \in Nat \ T : <<y, x>> \notin R
  <2> HIDE DEF R
  <2> QED BY <1>1, WFMin
<1>3. x # 0 /\ x - 1 \in Nat
  OBVIOUS
<1>4. <<x - 1, x>> \in R
  BY <1>3
<1>5. x - 1 \in T
  <2> HIDE DEF R
  <2> QED BY <1>2, <1>3, <1>4
<1> QED BY <1>3, <1>5

\* The state once every entry of seq is undone.
AllUndone(seq, base) == FoldRight(Undo, seq, base)

\* g undoes the entries of seq at the indexes of every set of D.
Undoes(g, seq, base, D) ==
    g = [s \in D |-> IF s = {} THEN base ELSE Undo(seq[Min(s)], g[s \ {Min(s)}])]

\* The definition of the library, unfolded.
LEMMA FoldIsChosen ==
    ASSUME NEW seq, NEW base
    PROVE  AllUndone(seq, base)
             = (CHOOSE g : Undoes(g, seq, base, SUBSET DOMAIN seq))[DOMAIN seq]
BY Zenon DEF AllUndone, FoldRight, MapThenFoldSet, Undoes

LEMMA MinInSet ==
    ASSUME NEW s, s \subseteq Nat, s # {}
    PROVE  Min(s) \in s /\ \A y \in s : Min(s) <= y
<1> DEFINE T == {n \in Nat : \A y \in s : n <= y}
<1>1. \E x \in s : \A y \in s : x <= y
  <2> SUFFICES ASSUME \A x \in s : \E y \in s : ~(x <= y) PROVE FALSE
    OBVIOUS
  <2>1. 0 \in T
    OBVIOUS
  <2>2. ASSUME NEW n \in Nat, n \in T PROVE n + 1 \in T
    <3>1. n \notin s
      BY <2>2
    <3> QED BY <2>2, <3>1
  <2>3. Nat \subseteq T
    <3> HIDE DEF T
    <3> QED BY <2>1, <2>2, NatSetInduction
  <2>4. PICK x \in s : TRUE
    OBVIOUS
  <2>5. x + 1 \in T
    <3> HIDE DEF T
    <3> QED BY <2>3, <2>4
  <2> QED BY <2>5
<1> QED BY <1>1 DEF Min

\* The function that the library chooses exists.
LEMMA FoldExists ==
    ASSUME NEW seq, NEW base, NEW S \in SUBSET Nat, IsFiniteSet(S)
    PROVE  \E g : Undoes(g, seq, base, SUBSET S)
<1> DEFINE D(n) == {s \in SUBSET S : Cardinality(s) <= n}
           T == {n \in Nat : \E g : Undoes(g, seq, base, D(n))}
<1>0. \A s \in SUBSET S : IsFiniteSet(s) /\ Cardinality(s) \in Nat /\ Cardinality(s) <= Cardinality(S)
  BY FS_Subset, FS_CardinalityType
<1>1. 0 \in T
  <2>1. D(0) = {{}}
    BY <1>0, FS_EmptySet
  <2>2. Undoes([s \in {{}} |-> base], seq, base, {{}})
    BY DEF Undoes
  <2> QED BY <2>1, <2>2
<1>2. ASSUME NEW n \in Nat, n \in T PROVE n + 1 \in T
  <2>1. PICK g : Undoes(g, seq, base, D(n))
    BY <1>2
  <2> DEFINE h == [s \in D(n + 1) |-> IF s = {} THEN base
                                      ELSE Undo(seq[Min(s)], g[s \ {Min(s)}])]
  <2>2. ASSUME NEW s \in D(n + 1), s # {}
        PROVE  s \ {Min(s)} \in D(n) /\ s \ {Min(s)} \in D(n + 1)
    <3>1. Min(s) \in s
      BY <2>2, MinInSet
    <3>2. Cardinality(s \ {Min(s)}) = Cardinality(s) - 1
      BY <3>1, <1>0, FS_RemoveElement
    <3>3. s \ {Min(s)} \in SUBSET S /\ Cardinality(s) \in Nat /\ Cardinality(s) <= n + 1
      BY <1>0
    <3> QED BY <3>2, <3>3
  <2>3. ASSUME NEW s \in D(n), s \in D(n + 1) PROVE h[s] = g[s]
    BY <2>1, <2>3 DEF Undoes
  <2>4. ASSUME NEW s \in D(n + 1), s # {}
        PROVE  h[s \ {Min(s)}] = g[s \ {Min(s)}]
    <3> HIDE DEF h
    <3> QED BY <2>2, <2>3, <2>4
  <2>5. Undoes(h, seq, base, D(n + 1))
    BY <2>4 DEF Undoes
  <2> HIDE DEF h
  <2>6. \E f : Undoes(f, seq, base, D(n + 1))
    BY <2>5
  <2>7. n + 1 \in Nat
    OBVIOUS
  <2> HIDE DEF D
  <2> QED BY <2>6, <2>7
<1>3. Cardinality(S) \in T
  <2> HIDE DEF T
  <2> QED BY <1>1, <1>2, NatSetInduction, FS_CardinalityType
<1>4. D(Cardinality(S)) = SUBSET S
  BY <1>0
<1> QED BY <1>3, <1>4

\* R[k] is the state once the entries from k on are undone, the last one first.
Unfolding(R, seq, base, n) ==
    /\ R[n + 1] = base
    /\ \A k \in 1..n : R[k] = Undo(seq[k], R[k + 1])
    /\ AllUndone(seq, base) = R[1]

\* What RevertToSnapshot computes goes through such states.
LEMMA FoldUnfolds ==
    ASSUME NEW seq, NEW base, NEW n \in Nat, DOMAIN seq = 1..n
    PROVE  \E R : Unfolding(R, seq, base, n)
<1> DEFINE g == CHOOSE g : Undoes(g, seq, base, SUBSET (1..n))
           R == [k \in 1..n + 1 |-> g[k..n]]
<1>1. IsFiniteSet(1..n) /\ 1..n \in SUBSET Nat
  BY FS_Interval
<1>2. Undoes(g, seq, base, SUBSET (1..n))
  <2>1. \E f : Undoes(f, seq, base, SUBSET (1..n))
    <3> HIDE DEF R, g
    <3> QED BY <1>1, FoldExists, Zenon
  <2> QED BY <2>1, Zenon
<1>3. AllUndone(seq, base) = g[1..n]
  BY FoldIsChosen
<1> HIDE DEF g
<1>4. g[{}] = base
  BY <1>2 DEF Undoes
<1>5. ASSUME NEW k \in 1..n PROVE g[k..n] = Undo(seq[k], g[k + 1..n])
  <2>1. k..n \in SUBSET (1..n) /\ k..n # {} /\ k \in k..n /\ k..n \subseteq Nat
    <3> HIDE DEF R
    <3>1. k..n \subseteq 1..n
      OBVIOUS
    <3>2. k \in k..n
      OBVIOUS
    <3> QED BY <3>1, <3>2
  <2>2. Min(k..n) \in k..n /\ Min(k..n) <= k
    BY <2>1, MinInSet
  <2>3. Min(k..n) = k
    BY <2>2
  <2>4. k..n \ {k} = k + 1..n
    OBVIOUS
  <2>5. g[k..n] = Undo(seq[Min(k..n)], g[k..n \ {Min(k..n)}])
    BY <1>2, <2>1 DEF Undoes
  <2> QED BY <2>3, <2>4, <2>5
<1>6. n + 1..n = {}
  OBVIOUS
<1>7. R[n + 1] = base /\ R[1] = g[1..n]
  BY <1>4, <1>6
<1>8. \A k \in 1..n : R[k] = Undo(seq[k], R[k + 1])
  BY <1>5
<1> HIDE DEF R
<1>9. Unfolding(R, seq, base, n)
  BY <1>3, <1>7, <1>8 DEF Unfolding
<1> QED BY <1>9

-----------------------------------------------------------------------------
(* The store: the cached objects and the heap of their balances *)

\* No two balances of the objects share a cell.
Unshared(objs) ==
    \A a, b \in Addrs, x, y \in Tokens :
       objs[a] # Absent /\ objs[b] # Absent /\ objs[a].cell[x] = objs[b].cell[y]
          => a = b /\ x = y

\* A clean object is in the trie as it stands.
CleanIn(objs, h, tr) ==
    \A a \in Addrs : objs[a] # Absent /\ ~objs[a].dirty => Same(tr[a], objs[a], h)

\* Every balance has an allocated cell of its own, and clean objects need no write.
Store(objs, h, tr) ==
    /\ h \in Seq(0..MaxBalance)
    /\ objs \in [Addrs -> ObjectOver(1..Len(h)) \cup {Absent}]
    /\ Unshared(objs)
    /\ CleanIn(objs, h, tr)

LEMMA ObjectFields ==
    ASSUME NEW C, NEW o \in ObjectOver(C)
    PROVE  /\ o.nonce \in 0..MaxNonce /\ o.cell \in [Tokens -> C] /\ o.dirty \in BOOLEAN
           /\ o.root \in Slots \cup {Absent} /\ o.slot \in Slots \cup {Absent}
BY DEF ObjectOver

LEMMA ObjectWiden ==
    ASSUME NEW C, NEW D, C \subseteq D
    PROVE  ObjectOver(C) \subseteq ObjectOver(D)
BY DEF ObjectOver

\* Nil is no object, whatever the heap.
LEMMA ObjectNotAbsent ==
    ASSUME NEW n \in Nat, NEW o \in ObjectOver(1..n)
    PROVE  o # Absent
<1>1. ObjectOver(1..n) \subseteq ObjectOver(Nat)
  <2>1. 1..n \subseteq Nat
    OBVIOUS
  <2> QED BY <2>1, ObjectWiden
<1> QED BY <1>1, StateAssumption

LEMMA EntryFields ==
    ASSUME NEW C, NEW e \in EntryOver(C)
    PROVE  /\ e.addr \in Addrs /\ e.kind \in {"create", "balance", "nonce"}
           /\ e.kind = "nonce" => e.nonce \in 0..MaxNonce
           /\ e.kind = "balance" => e.cell \in [Tokens -> C]
BY DEF EntryOver

LEMMA EntryWiden ==
    ASSUME NEW C, NEW D, C \subseteq D
    PROVE  EntryOver(C) \subseteq EntryOver(D)
BY DEF EntryOver

\* What is common to the steps below: object o of account a takes its place.
LEMMA StoreOneObject ==
    ASSUME NEW objs, NEW h, NEW tr, Store(objs, h, tr), NEW a \in Addrs,
           NEW h2 \in Seq(0..MaxBalance), Len(h) <= Len(h2),
           NEW o \in ObjectOver(1..Len(h2)),
           \A x, y \in Tokens : o.cell[x] = o.cell[y] => x = y,
           \A b \in Addrs \ {a}, x, y \in Tokens :
              objs[b] # Absent => objs[b].cell[x] # o.cell[y],
           \A b \in Addrs \ {a}, x \in Tokens :
              objs[b] # Absent => h2[objs[b].cell[x]] = h[objs[b].cell[x]],
           ~o.dirty => Same(tr[a], o, h2)
    PROVE  Store([objs EXCEPT ![a] = o], h2, tr)
<1> DEFINE new == [objs EXCEPT ![a] = o]
<1>1. /\ h \in Seq(0..MaxBalance) /\ objs \in [Addrs -> ObjectOver(1..Len(h)) \cup {Absent}]
      /\ Unshared(objs) /\ CleanIn(objs, h, tr)
  BY DEF Store
<1>2. ObjectOver(1..Len(h)) \subseteq ObjectOver(1..Len(h2))
  <2>1. Len(h) \in Nat /\ Len(h2) \in Nat
    BY <1>1
  <2>2. 1..Len(h) \subseteq 1..Len(h2)
    BY <2>1
  <2> QED BY <2>2, ObjectWiden
<1>3. /\ new \in [Addrs -> ObjectOver(1..Len(h2)) \cup {Absent}]
      /\ new[a] = o /\ \A b \in Addrs \ {a} : new[b] = objs[b]
  BY <1>1, <1>2
<1> HIDE DEF new
<1>4. Unshared(new)
  <2> SUFFICES ASSUME NEW b \in Addrs, NEW c \in Addrs, NEW x \in Tokens, NEW y \in Tokens,
                      new[b] # Absent, new[c] # Absent, new[b].cell[x] = new[c].cell[y]
               PROVE  b = c /\ x = y
    BY DEF Unshared
  <2>1. CASE b = a /\ c = a
    BY <1>3, <2>1
  <2>2. CASE b # a /\ c # a
    BY <1>1, <1>3, <2>2 DEF Unshared
  <2>3. CASE b = a /\ c # a
    BY <1>3, <2>3
  <2>4. CASE b # a /\ c = a
    BY <1>3, <2>4
  <2> QED BY <2>1, <2>2, <2>3, <2>4
<1>5. CleanIn(new, h2, tr)
  <2> SUFFICES ASSUME NEW b \in Addrs, new[b] # Absent, ~new[b].dirty
               PROVE  Same(tr[b], new[b], h2)
    BY DEF CleanIn
  <2>1. CASE b = a
    BY <1>3, <2>1
  <2>2. CASE b # a
    <3>1. Same(tr[b], objs[b], h)
      BY <1>1, <1>3, <2>2 DEF CleanIn
    <3> QED BY <1>3, <2>2, <3>1 DEF Same
  <2> QED BY <2>1, <2>2
<1>6. Store(new, h2, tr)
  BY <1>3, <1>4, <1>5 DEF Store
<1> QED BY <1>6 DEF new

\* Heap h2 is heap h and two cells more.
Extends(h2, h) ==
    /\ h2 \in Seq(0..MaxBalance) /\ Len(h2) = Len(h) + 2
    /\ \A i \in 1..Len(h) : h2[i] = h[i]

LEMMA ConcatExtends ==
    ASSUME NEW h \in Seq(0..MaxBalance), NEW v \in 0..MaxBalance, NEW w \in 0..MaxBalance
    PROVE  /\ Extends(h \o <<v, w>>, h)
           /\ (h \o <<v, w>>)[Len(h) + 1] = v
           /\ (h \o <<v, w>>)[Len(h) + 2] = w
BY DEF Extends

\* An object on two fresh cells: a load, a creation, or the revert of a balance.
LEMMA StoreFresh ==
    ASSUME NEW objs, NEW h, NEW tr, Store(objs, h, tr), NEW a \in Addrs,
           NEW h2, Extends(h2, h), NEW o \in ObjectOver(1..Len(h) + 2),
           o.cell = FreshCells(h), ~o.dirty => Same(tr[a], o, h2)
    PROVE  Store([objs EXCEPT ![a] = o], h2, tr)
<1>1. /\ h \in Seq(0..MaxBalance) /\ objs \in [Addrs -> ObjectOver(1..Len(h)) \cup {Absent}]
      /\ Len(h) \in Nat
  BY DEF Store
<1>2. /\ h2 \in Seq(0..MaxBalance) /\ Len(h2) = Len(h) + 2
      /\ \A i \in 1..Len(h) : h2[i] = h[i]
  BY DEF Extends
<1>3. \A b \in Addrs, x \in Tokens : objs[b] # Absent => objs[b].cell[x] \in 1..Len(h)
  BY <1>1, ObjectFields
<1>4. /\ \A x \in Tokens : o.cell[x] \in {Len(h) + 1, Len(h) + 2}
      /\ \A x, y \in Tokens : o.cell[x] = o.cell[y] => x = y
  BY <1>1 DEF FreshCells, Tokens
<1>5. \A b \in Addrs \ {a}, x, y \in Tokens : objs[b] # Absent => objs[b].cell[x] # o.cell[y]
  BY <1>1, <1>3, <1>4
<1>6. \A b \in Addrs \ {a}, x \in Tokens :
         objs[b] # Absent => h2[objs[b].cell[x]] = h[objs[b].cell[x]]
  BY <1>2, <1>3
<1>7. o \in ObjectOver(1..Len(h2)) /\ Len(h) <= Len(h2)
  BY <1>1, <1>2
<1> QED BY <1>2, <1>4, <1>5, <1>6, <1>7, StoreOneObject

\* A dirty object on the cells it had.
LEMMA StoreTouched ==
    ASSUME NEW objs, NEW h, NEW tr, Store(objs, h, tr), NEW a \in Addrs,
           objs[a] # Absent, NEW o \in ObjectOver(1..Len(h)),
           o.cell = objs[a].cell, o.dirty
    PROVE  Store([objs EXCEPT ![a] = o], h, tr)
<1>1. h \in Seq(0..MaxBalance) /\ Unshared(objs)
  BY DEF Store
<1>2. Len(h) <= Len(h)
  BY <1>1
<1>3. \A x, y \in Tokens : o.cell[x] = o.cell[y] => x = y
  BY <1>1 DEF Unshared
<1>4. \A b \in Addrs \ {a}, x, y \in Tokens : objs[b] # Absent => objs[b].cell[x] # o.cell[y]
  BY <1>1 DEF Unshared
<1> QED BY <1>1, <1>2, <1>3, <1>4, StoreOneObject

\* A new value in a cell of a dirty object.
LEMMA StoreWritten ==
    ASSUME NEW objs, NEW h, NEW tr, Store(objs, h, tr), NEW a \in Addrs,
           objs[a] # Absent, objs[a].dirty, NEW tk \in Tokens, NEW v \in 0..MaxBalance
    PROVE  Store(objs, [h EXCEPT ![objs[a].cell[tk]] = v], tr)
<1> DEFINE o == objs[a]
           i == o.cell[tk]
           h2 == [h EXCEPT ![i] = v]
<1>1. /\ h \in Seq(0..MaxBalance) /\ Unshared(objs)
      /\ objs \in [Addrs -> ObjectOver(1..Len(h)) \cup {Absent}]
  BY DEF Store
<1>2. o \in ObjectOver(1..Len(h)) /\ o.dirty /\ i \in 1..Len(h)
  BY <1>1, ObjectFields
<1>3. /\ h2 \in Seq(0..MaxBalance) /\ Len(h2) = Len(h)
      /\ \A j \in 1..Len(h) : j # i => h2[j] = h[j]
  BY <1>1, <1>2
<1>4. \A b \in Addrs, x \in Tokens : objs[b] # Absent => objs[b].cell[x] \in 1..Len(h)
  BY <1>1, ObjectFields
<1>5. \A b \in Addrs \ {a}, x, y \in Tokens : objs[b] # Absent => objs[b].cell[x] # o.cell[y]
  BY <1>1 DEF Unshared
<1>6. \A x, y \in Tokens : o.cell[x] = o.cell[y] => x = y
  BY <1>1 DEF Unshared
<1>7. \A b \in Addrs \ {a}, x \in Tokens :
         objs[b] # Absent => h2[objs[b].cell[x]] = h[objs[b].cell[x]]
  <2> HIDE DEF h2
  <2> QED BY <1>3, <1>4, <1>5
<1>8. Len(h) <= Len(h2) /\ o \in ObjectOver(1..Len(h2))
  BY <1>1, <1>2, <1>3
<1> HIDE DEF h2, o
<1>9. Store([objs EXCEPT ![a] = o], h2, tr)
  BY <1>2, <1>3, <1>5, <1>6, <1>7, <1>8, StoreOneObject
<1>10. [objs EXCEPT ![a] = o] = objs
  BY <1>1 DEF o
<1> QED BY <1>9, <1>10 DEF h2, o

\* An object dropped from the cache.
LEMMA StoreDropped ==
    ASSUME NEW objs, NEW h, NEW tr, Store(objs, h, tr), NEW a \in Addrs
    PROVE  Store([objs EXCEPT ![a] = Absent], h, tr)
BY DEF Store, Unshared, CleanIn

-----------------------------------------------------------------------------
(* One entry undone *)

IsCreate(e, a) == e.kind = "create" /\ e.addr = a
IsNonce(e, a) == e.kind = "nonce" /\ e.addr = a

\* What undoing e makes of account a: a creation drops it, a nonce entry restores
\* its nonce, and everything else keeps its nonce and whether it is cached.
UndoneAt(e, objs, new, a) ==
    /\ new[a] # Absent <=> objs[a] # Absent /\ ~IsCreate(e, a)
    /\ new[a] # Absent => new[a].nonce = IF IsNonce(e, a) THEN e.nonce ELSE objs[a].nonce

LEMMA UndoStep ==
    ASSUME NEW objs, NEW h, NEW tr, Store(objs, h, tr), NEW e \in EntryOver(1..Len(h))
    PROVE  \E new, h2 : /\ Undo(e, [objs |-> objs, heap |-> h]) = [objs |-> new, heap |-> h2]
                        /\ Store(new, h2, tr)
                        /\ Len(h) <= Len(h2)
                        /\ \A a \in Addrs : UndoneAt(e, objs, new, a)
<1> DEFINE s == [objs |-> objs, heap |-> h]
           c == e.addr
<1>1. /\ h \in Seq(0..MaxBalance) /\ objs \in [Addrs -> ObjectOver(1..Len(h)) \cup {Absent}]
      /\ Len(h) \in Nat
  BY DEF Store
<1>2. /\ c \in Addrs /\ e.kind \in {"create", "balance", "nonce"}
      /\ e.kind = "nonce" => e.nonce \in 0..MaxNonce
      /\ e.kind = "balance" => e.cell \in [Tokens -> 1..Len(h)]
  BY EntryFields
<1>3. CASE e.kind = "create"
  <2> DEFINE new == [objs EXCEPT ![c] = Absent]
  <2>1. Undo(e, s) = [objs |-> new, heap |-> h]
    BY <1>3 DEF Undo
  <2>2. Store(new, h, tr)
    BY <1>2, StoreDropped
  <2>3. \A a \in Addrs : UndoneAt(e, objs, new, a)
    BY <1>1, <1>2, <1>3 DEF UndoneAt, IsCreate, IsNonce
  <2> HIDE DEF new
  <2> QED BY <1>1, <2>1, <2>2, <2>3
<1>4. CASE e.kind # "create" /\ objs[c] = Absent
  <2>1. Undo(e, s) = [objs |-> objs, heap |-> h]
    BY <1>4 DEF Undo
  <2>2. \A a \in Addrs : UndoneAt(e, objs, objs, a)
    BY <1>4 DEF UndoneAt, IsCreate, IsNonce
  <2> QED BY <1>1, <2>1, <2>2
<1>5. CASE e.kind = "nonce" /\ objs[c] # Absent
  <2> DEFINE o == [objs[c] EXCEPT !.nonce = e.nonce, !.dirty = TRUE]
             new == [objs EXCEPT ![c] = o]
  <2>1. Undo(e, s) = [objs |-> new, heap |-> h]
    BY <1>5 DEF Undo
  <2>2. objs[c] \in ObjectOver(1..Len(h))
    BY <1>1, <1>2, <1>5
  <2>3. /\ o \in ObjectOver(1..Len(h)) /\ o.cell = objs[c].cell /\ o.dirty = TRUE
        /\ o.nonce = e.nonce
    BY <1>2, <1>5, <2>2 DEF ObjectOver
  <2>4. o # Absent
    BY <1>1, <2>3, ObjectNotAbsent
  <2> HIDE DEF o
  <2>5. Store(new, h, tr)
    BY <1>2, <1>5, <2>3, StoreTouched
  <2>6. \A a \in Addrs : UndoneAt(e, objs, new, a)
    BY <1>1, <1>2, <1>5, <2>3, <2>4 DEF UndoneAt, IsCreate, IsNonce
  <2> HIDE DEF new
  <2> QED BY <1>1, <2>1, <2>5, <2>6
<1>6. CASE e.kind = "balance" /\ objs[c] # Absent
  <2> DEFINE o == [objs[c] EXCEPT !.cell = FreshCells(h), !.dirty = TRUE]
             new == [objs EXCEPT ![c] = o]
             v == h[e.cell["APT"]]
             w == h[e.cell["NPT"]]
             h2 == h \o <<v, w>>
  <2>1. Undo(e, s) = [objs |-> new, heap |-> h2]
    BY <1>6 DEF Undo
  <2>2. objs[c] \in ObjectOver(1..Len(h))
    BY <1>1, <1>2, <1>6
  <2>3. v \in 0..MaxBalance /\ w \in 0..MaxBalance
    <3>1. e.cell["APT"] \in 1..Len(h) /\ e.cell["NPT"] \in 1..Len(h)
      BY <1>2, <1>6 DEF Tokens
    <3> HIDE DEF o, new, h2
    <3> QED BY <1>1, <3>1, ElementOfSeq
  <2>4. FreshCells(h) \in [Tokens -> 1..Len(h) + 2]
    BY <1>1 DEF FreshCells
  <2>5. /\ o \in ObjectOver(1..Len(h) + 2) /\ o.cell = FreshCells(h) /\ o.dirty = TRUE
        /\ o.nonce = objs[c].nonce
    BY <2>2, <2>4 DEF ObjectOver
  <2>6. o # Absent
    BY <1>1, <2>5, ObjectNotAbsent
  <2> HIDE DEF o, v, w
  <2>7. Store(new, h2, tr) /\ Len(h2) = Len(h) + 2
    <3>1. Extends(h2, h)
      BY <1>1, <2>3, ConcatExtends
    <3> HIDE DEF h2
    <3>2. Store(new, h2, tr)
      BY <1>2, <2>5, <3>1, StoreFresh
    <3> QED BY <3>1, <3>2 DEF Extends
  <2>8. \A a \in Addrs : UndoneAt(e, objs, new, a)
    BY <1>1, <1>2, <1>6, <2>5, <2>6 DEF UndoneAt, IsCreate, IsNonce
  <2>9. Len(h) <= Len(h2)
    BY <1>1, <2>7
  <2> HIDE DEF new, h2
  <2> QED BY <2>1, <2>7, <2>8, <2>9
<1> QED BY <1>2, <1>3, <1>4, <1>5, <1>6

-----------------------------------------------------------------------------
(* A suffix of the journal undone *)

\* Entry j is the first nonce entry of a from k on.
FirstNonce(seq, k, j, a) ==
    IsNonce(seq[j], a) /\ \A i \in k..j - 1 : ~IsNonce(seq[i], a)

\* What undoing the entries k..n of seq makes of account a: it stays cached unless
\* one of them created it, and the first nonce among them is restored.
RevertedAt(seq, k, n, objs, new, a) ==
    /\ new[a] # Absent <=> objs[a] # Absent /\ \A j \in k..n : ~IsCreate(seq[j], a)
    /\ new[a] # Absent =>
          /\ (\A j \in k..n : ~IsNonce(seq[j], a)) => new[a].nonce = objs[a].nonce
          /\ \A j \in k..n : FirstNonce(seq, k, j, a) => new[a].nonce = seq[j].nonce

LEMMA RevertedStep ==
    ASSUME NEW seq, NEW n \in Nat, NEW k \in 1..n, NEW objs, NEW mid, NEW new, NEW a,
           RevertedAt(seq, k + 1, n, objs, mid, a), UndoneAt(seq[k], mid, new, a)
    PROVE  RevertedAt(seq, k, n, objs, new, a)
<1>1. k..n = {k} \cup (k + 1..n) /\ k \notin k + 1..n
  OBVIOUS
<1>2. new[a] # Absent <=> objs[a] # Absent /\ \A j \in k..n : ~IsCreate(seq[j], a)
  BY <1>1 DEF RevertedAt, UndoneAt
<1>3. ASSUME new[a] # Absent, \A j \in k..n : ~IsNonce(seq[j], a)
      PROVE  new[a].nonce = objs[a].nonce
  BY <1>1, <1>3 DEF RevertedAt, UndoneAt
<1>4. ASSUME new[a] # Absent, NEW j \in k..n, FirstNonce(seq, k, j, a)
      PROVE  new[a].nonce = seq[j].nonce
  <2>1. CASE j = k
    BY <1>4, <2>1 DEF FirstNonce, UndoneAt
  <2>2. CASE j # k
    <3>1. j \in k + 1..n /\ k \in k..j - 1 /\ k + 1..j - 1 \subseteq k..j - 1
      BY <2>2
    <3>2. ~IsNonce(seq[k], a) /\ FirstNonce(seq, k + 1, j, a)
      BY <1>4, <3>1 DEF FirstNonce
    <3> QED BY <1>4, <3>1, <3>2 DEF RevertedAt, UndoneAt
  <2> QED BY <2>1, <2>2
<1> QED BY <1>2, <1>3, <1>4 DEF RevertedAt

\* Undoing a sequence of entries, in full.
LEMMA RevertResult ==
    ASSUME NEW objs, NEW h, NEW tr, Store(objs, h, tr), NEW n \in Nat,
           NEW seq \in [1..n -> EntryOver(1..Len(h))]
    PROVE  \E new, h2 :
              /\ AllUndone(seq, [objs |-> objs, heap |-> h]) = [objs |-> new, heap |-> h2]
              /\ Store(new, h2, tr)
              /\ Len(h) <= Len(h2)
              /\ \A a \in Addrs : RevertedAt(seq, 1, n, objs, new, a)
<1> DEFINE base == [objs |-> objs, heap |-> h]
<1>0. PICK R : Unfolding(R, seq, base, n)
  <2>1. DOMAIN seq = 1..n
    OBVIOUS
  <2> HIDE DEF base
  <2>2. \E R : Unfolding(R, seq, base, n)
    BY <2>1, FoldUnfolds
  <2> QED BY <2>2
<1>1. /\ R[n + 1] = base
      /\ \A k \in 1..n : R[k] = Undo(seq[k], R[k + 1])
      /\ AllUndone(seq, base) = R[1]
  BY <1>0 DEF Unfolding
<1> DEFINE P(k) == \E new, h2 : /\ R[k] = [objs |-> new, heap |-> h2]
                                /\ Store(new, h2, tr)
                                /\ Len(h) <= Len(h2)
                                /\ \A a \in Addrs : RevertedAt(seq, k, n, objs, new, a)
           T == {i \in Nat : i <= n => P(n + 1 - i)}
<1>2. h \in Seq(0..MaxBalance) /\ Len(h) \in Nat
  BY DEF Store
<1>3. P(n + 1)
  <2>1. n + 1..n = {}
    OBVIOUS
  <2>2. \A a \in Addrs : RevertedAt(seq, n + 1, n, objs, objs, a)
    BY <2>1 DEF RevertedAt
  <2> QED BY <1>1, <1>2, <2>2
<1>4. ASSUME NEW k \in 1..n, P(k + 1) PROVE P(k)
  <2>1. PICK mid, hm : /\ R[k + 1] = [objs |-> mid, heap |-> hm]
                       /\ Store(mid, hm, tr)
                       /\ Len(h) <= Len(hm)
                       /\ \A a \in Addrs : RevertedAt(seq, k + 1, n, objs, mid, a)
    BY <1>4
  <2>2. hm \in Seq(0..MaxBalance) /\ Len(hm) \in Nat
    BY <2>1 DEF Store
  <2>3. seq[k] \in EntryOver(1..Len(hm))
    <3>1. 1..Len(h) \subseteq 1..Len(hm)
      BY <1>2, <2>1, <2>2
    <3> QED BY <3>1, EntryWiden
  <2>4. PICK new, h2 : /\ Undo(seq[k], [objs |-> mid, heap |-> hm]) = [objs |-> new, heap |-> h2]
                       /\ Store(new, h2, tr)
                       /\ Len(hm) <= Len(h2)
                       /\ \A a \in Addrs : UndoneAt(seq[k], mid, new, a)
    BY <2>1, <2>3, UndoStep
  <2>5. R[k] = [objs |-> new, heap |-> h2]
    BY <1>1, <2>1, <2>4
  <2>6. Len(h) <= Len(h2)
    <3>1. h2 \in Seq(0..MaxBalance) /\ Len(h2) \in Nat
      BY <2>4 DEF Store
    <3> QED BY <1>2, <2>1, <2>2, <2>4, <3>1
  <2>7. \A a \in Addrs : RevertedAt(seq, k, n, objs, new, a)
    BY <2>1, <2>4, RevertedStep
  <2> QED BY <2>4, <2>5, <2>6, <2>7
<1>5. 0 \in T
  BY <1>3
<1>6. ASSUME NEW i \in Nat, i \in T PROVE i + 1 \in T
  <2> SUFFICES ASSUME i + 1 <= n PROVE P(n + 1 - (i + 1))
    <3> HIDE DEF P
    <3> QED OBVIOUS
  <2>1. n - i \in 1..n /\ n + 1 - (i + 1) = n - i /\ n + 1 - i = (n - i) + 1
    OBVIOUS
  <2>2. P(n - i + 1)
    <3> HIDE DEF P
    <3> QED BY <1>6, <2>1
  <2> HIDE DEF P
  <2> QED BY <1>4, <2>1, <2>2
<1>7. n \in T
  <2> HIDE DEF T
  <2> QED BY <1>5, <1>6, NatSetInduction
<1>8. P(1)
  <2>1. n + 1 - n = 1
    OBVIOUS
  <2> HIDE DEF P
  <2> QED BY <1>7, <2>1
<1> QED BY <1>1, <1>8

-----------------------------------------------------------------------------
(* The inductive invariant *)

Seen == [cached : SUBSET Addrs, view : [Addrs -> Account \cup {Absent}]]

\* A revert to the mark idx restores account a as the snapshot sv saw it: an
\* account that was cached is, was not created since, and the first nonce
\* journaled since (or, with none, the present one) is the one seen; an account
\* that was not cached was created since or comes from the trie.
Restorable(objs, jrn, tr, idx, sv, a) ==
    /\ a \in sv.cached =>
          /\ objs[a] # Absent
          /\ \A k \in idx + 1..Len(jrn) : ~IsCreate(jrn[k], a)
          /\ (\A k \in idx + 1..Len(jrn) : ~IsNonce(jrn[k], a))
                => objs[a].nonce = sv.view[a].nonce
          /\ \A k \in idx + 1..Len(jrn) :
                FirstNonce(jrn, idx + 1, k, a) => jrn[k].nonce = sv.view[a].nonce
    /\ (a \notin sv.cached /\ objs[a] # Absent) =>
          (tr[a] # Absent \/ \E k \in idx + 1..Len(jrn) : IsCreate(jrn[k], a))

\* The marks of the valid revisions point into the journal, in order.
Marks(jrn, revs) ==
    /\ revs \in Seq(Nat)
    /\ \A i \in 1..Len(revs) : revs[i] <= Len(jrn)
    /\ \A i \in 1..Len(revs) : \A j \in i..Len(revs) : revs[i] <= revs[j]

Core(objs, h, jrn, tr, revs, svd) ==
    /\ Store(objs, h, tr)
    /\ Len(h) <= MaxCells
    /\ jrn \in Seq(EntryOver(1..Len(h)))
    /\ Marks(jrn, revs)
    /\ svd \in Seq(Seen) /\ Len(svd) = Len(revs)
    /\ \A i \in 1..Len(revs) : \A a \in Addrs : Restorable(objs, jrn, tr, revs[i], svd[i], a)

IInv ==
    /\ Core(objects, heap, journal, trie, validRevisions, saved)
    /\ trie \in [Addrs -> Account \cup {Absent}]
    /\ disk \in [Addrs -> Account \cup {Absent}]
    /\ panicked \in BOOLEAN

\* What a step without a journal entry may do to account a.
KeptAt(objs, new, tr, a) ==
    /\ objs[a] # Absent => new[a] # Absent /\ new[a].nonce = objs[a].nonce
    /\ new[a] # Absent => objs[a] # Absent \/ tr[a] # Absent

\* What a step that journals e may do to account a.
JournaledAt(e, objs, new, a) ==
    /\ IsCreate(e, a) => objs[a] = Absent
    /\ IsNonce(e, a) => objs[a] # Absent /\ e.nonce = objs[a].nonce
    /\ objs[a] # Absent => new[a] # Absent
    /\ new[a] # Absent => objs[a] # Absent \/ IsCreate(e, a)
    /\ (objs[a] # Absent /\ ~IsNonce(e, a)) => new[a].nonce = objs[a].nonce

LEMMA RestorableKept ==
    ASSUME NEW objs, NEW new, NEW jrn, NEW tr, NEW idx, NEW sv, NEW a,
           Restorable(objs, jrn, tr, idx, sv, a), KeptAt(objs, new, tr, a)
    PROVE  Restorable(new, jrn, tr, idx, sv, a)
BY DEF Restorable, KeptAt

LEMMA RestorableJournaled ==
    ASSUME NEW objs, NEW new, NEW S, NEW jrn \in Seq(S), NEW e \in S, NEW tr,
           NEW idx \in 0..Len(jrn), NEW sv, NEW a,
           Restorable(objs, jrn, tr, idx, sv, a), JournaledAt(e, objs, new, a)
    PROVE  Restorable(new, Append(jrn, e), tr, idx, sv, a)
<1> DEFINE j2 == Append(jrn, e)
           n == Len(jrn)
<1>1. /\ n \in Nat /\ Len(j2) = n + 1 /\ j2[n + 1] = e
      /\ \A k \in 1..n : j2[k] = jrn[k]
  OBVIOUS
<1>2. idx + 1..n + 1 = (idx + 1..n) \cup {n + 1} /\ idx + 1..n \subseteq 1..n
  BY <1>1
<1> HIDE DEF j2, n
<1>3. \A k \in idx + 1..n : j2[k] = jrn[k]
  BY <1>1, <1>2
<1>4. ASSUME a \in sv.cached
      PROVE  /\ new[a] # Absent
             /\ \A k \in idx + 1..Len(j2) : ~IsCreate(j2[k], a)
             /\ (\A k \in idx + 1..Len(j2) : ~IsNonce(j2[k], a))
                   => new[a].nonce = sv.view[a].nonce
             /\ \A k \in idx + 1..Len(j2) :
                   FirstNonce(j2, idx + 1, k, a) => j2[k].nonce = sv.view[a].nonce
  <2>1. /\ objs[a] # Absent
        /\ \A k \in idx + 1..n : ~IsCreate(jrn[k], a)
        /\ (\A k \in idx + 1..n : ~IsNonce(jrn[k], a)) => objs[a].nonce = sv.view[a].nonce
        /\ \A k \in idx + 1..n : FirstNonce(jrn, idx + 1, k, a) => jrn[k].nonce = sv.view[a].nonce
    BY <1>4 DEF Restorable, n
  <2>2. new[a] # Absent /\ ~IsCreate(e, a)
    BY <2>1 DEF JournaledAt
  <2>3. \A k \in idx + 1..Len(j2) : ~IsCreate(j2[k], a)
    BY <1>1, <1>2, <1>3, <2>1, <2>2
  <2>4. ASSUME \A k \in idx + 1..Len(j2) : ~IsNonce(j2[k], a)
        PROVE  new[a].nonce = sv.view[a].nonce
    <3>1. ~IsNonce(e, a) /\ \A k \in idx + 1..n : ~IsNonce(jrn[k], a)
      BY <1>1, <1>2, <1>3, <2>4
    <3> QED BY <2>1, <3>1 DEF JournaledAt
  <2>5. ASSUME NEW k \in idx + 1..Len(j2), FirstNonce(j2, idx + 1, k, a)
        PROVE  j2[k].nonce = sv.view[a].nonce
    <3>1. CASE k = n + 1
      <4>1. idx + 1..k - 1 = idx + 1..n
        BY <1>1, <3>1
      <4>2. \A i \in idx + 1..n : ~IsNonce(jrn[i], a)
        BY <1>3, <2>5, <4>1 DEF FirstNonce
      <4>3. IsNonce(e, a) /\ j2[k] = e
        BY <1>1, <2>5, <3>1 DEF FirstNonce
      <4> QED BY <2>1, <4>2, <4>3 DEF JournaledAt
    <3>2. CASE k \in idx + 1..n
      <4>1. idx + 1..k - 1 \subseteq idx + 1..n
        BY <1>1, <3>2
      <4>2. FirstNonce(jrn, idx + 1, k, a)
        BY <1>3, <2>5, <3>2, <4>1 DEF FirstNonce
      <4> QED BY <1>3, <2>1, <3>2, <4>2
    <3> QED BY <1>1, <1>2, <3>1, <3>2
  <2> QED BY <2>2, <2>3, <2>4, <2>5
<1>5. ASSUME a \notin sv.cached, new[a] # Absent
      PROVE  tr[a] # Absent \/ \E k \in idx + 1..Len(j2) : IsCreate(j2[k], a)
  <2>1. CASE IsCreate(e, a)
    BY <1>1, <1>2, <2>1
  <2>2. CASE ~IsCreate(e, a)
    <3>1. objs[a] # Absent
      BY <1>5, <2>2 DEF JournaledAt
    <3>2. tr[a] # Absent \/ \E k \in idx + 1..n : IsCreate(jrn[k], a)
      BY <1>5, <3>1 DEF Restorable, n
    <3> QED BY <1>1, <1>2, <1>3, <3>2
  <2> QED BY <2>1, <2>2
<1>6. Restorable(new, j2, tr, idx, sv, a)
  BY <1>4, <1>5 DEF Restorable
<1> QED BY <1>6 DEF j2

\* A step that journals nothing.
LEMMA CoreKept ==
    ASSUME NEW objs, NEW h, NEW jrn, NEW tr, NEW revs, NEW svd,
           Core(objs, h, jrn, tr, revs, svd), NEW new, NEW h2, Store(new, h2, tr),
           Len(h) <= Len(h2), Len(h2) <= MaxCells,
           \A a \in Addrs : KeptAt(objs, new, tr, a)
    PROVE  Core(new, h2, jrn, tr, revs, svd)
<1>1. Len(h) \in Nat /\ Len(h2) \in Nat
  BY DEF Core, Store
<1>2. jrn \in Seq(EntryOver(1..Len(h2)))
  <2>1. 1..Len(h) \subseteq 1..Len(h2)
    BY <1>1
  <2>2. EntryOver(1..Len(h)) \subseteq EntryOver(1..Len(h2))
    BY <2>1, EntryWiden
  <2>3. jrn \in Seq(EntryOver(1..Len(h)))
    BY DEF Core
  <2> QED BY <2>2, <2>3, SeqMonotonic
<1>3. \A i \in 1..Len(revs) : \A a \in Addrs : Restorable(new, jrn, tr, revs[i], svd[i], a)
  BY RestorableKept DEF Core
<1> QED BY <1>2, <1>3 DEF Core

\* A step that journals e.
LEMMA CoreJournaled ==
    ASSUME NEW objs, NEW h, NEW jrn, NEW tr, NEW revs, NEW svd,
           Core(objs, h, jrn, tr, revs, svd), NEW new, NEW h2, Store(new, h2, tr),
           Len(h) <= Len(h2), Len(h2) <= MaxCells, NEW e \in EntryOver(1..Len(h2)),
           \A a \in Addrs : JournaledAt(e, objs, new, a)
    PROVE  Core(new, h2, Append(jrn, e), tr, revs, svd)
<1> DEFINE S == EntryOver(1..Len(h2))
<1>1. Len(h) \in Nat /\ Len(h2) \in Nat
  BY DEF Core, Store
<1>2. jrn \in Seq(S)
  <2>1. 1..Len(h) \subseteq 1..Len(h2)
    BY <1>1
  <2>2. EntryOver(1..Len(h)) \subseteq EntryOver(1..Len(h2))
    BY <2>1, EntryWiden
  <2>3. jrn \in Seq(EntryOver(1..Len(h)))
    BY DEF Core
  <2> QED BY <2>2, <2>3, SeqMonotonic
<1> HIDE DEF S
<1>3. Append(jrn, e) \in Seq(S) /\ Len(Append(jrn, e)) = Len(jrn) + 1 /\ Len(jrn) \in Nat
  BY <1>2 DEF S
<1>4. \A i \in 1..Len(revs) : revs[i] \in 0..Len(jrn)
  BY <1>3 DEF Core, Marks
<1>5. Marks(Append(jrn, e), revs)
  <2>1. \A i \in 1..Len(revs) : revs[i] <= Len(Append(jrn, e))
    BY <1>3, <1>4
  <2> QED BY <2>1 DEF Core, Marks
<1>6. ASSUME NEW i \in 1..Len(revs), NEW a \in Addrs
      PROVE  Restorable(new, Append(jrn, e), tr, revs[i], svd[i], a)
  <2>1. Restorable(objs, jrn, tr, revs[i], svd[i], a) /\ e \in S
    BY DEF Core, S
  <2> QED BY <1>2, <1>4, <2>1, RestorableJournaled
<1> QED BY <1>3, <1>5, <1>6 DEF Core, S

-----------------------------------------------------------------------------
(* Operations on one account *)

\* The account is cached, loaded from the trie, or created and journaled.
LEMMA GetOrNewCore ==
    ASSUME IInv, NEW a \in Addrs, Alive(a)
    PROVE  /\ Core(GetOrNew(a).objs, GetOrNew(a).heap, GetOrNew(a).jrn, trie, validRevisions, saved)
           /\ GetOrNew(a).objs[a] # Absent
<1>1. /\ Core(objects, heap, journal, trie, validRevisions, saved)
      /\ trie \in [Addrs -> Account \cup {Absent}]
  BY DEF IInv
<1>2. /\ Store(objects, heap, trie) /\ heap \in Seq(0..MaxBalance) /\ Len(heap) \in Nat
      /\ objects \in [Addrs -> ObjectOver(1..Len(heap)) \cup {Absent}]
  BY <1>1 DEF Core, Store
<1>3. CASE Cached(a)
  BY <1>1, <1>3 DEF GetOrNew, Cached
<1>4. CASE ~Cached(a) /\ trie[a] # Absent
  <2> DEFINE o == LoadedObject(a)
             v == trie[a].bal["APT"]
             w == trie[a].bal["NPT"]
             h2 == heap \o <<v, w>>
             new == [objects EXCEPT ![a] = o]
  <2>1. trie[a] \in Account
    BY <1>1, <1>4
  <2>2. /\ v \in 0..MaxBalance /\ w \in 0..MaxBalance /\ trie[a].nonce \in 0..MaxNonce
        /\ trie[a].root \in Slots \cup {Absent}
    BY <2>1 DEF Account, Tokens
  <2>3. FreshCells(heap) \in [Tokens -> 1..Len(heap) + 2]
    BY <1>2 DEF FreshCells
  <2>4. /\ o \in ObjectOver(1..Len(heap) + 2) /\ o.cell = FreshCells(heap)
        /\ o.dirty = FALSE /\ o.nonce = trie[a].nonce
    BY <2>2, <2>3 DEF LoadedObject, ObjectOver
  <2>5. o # Absent
    BY <1>2, <2>4, ObjectNotAbsent
  <2>6. h2[Len(heap) + 1] = v /\ h2[Len(heap) + 2] = w
    BY <1>2, <2>2
  <2>7. Same(trie[a], o, h2)
    <3> HIDE DEF o, h2
    <3>1. \A tk \in Tokens : trie[a].bal[tk] = h2[o.cell[tk]]
      BY <1>2, <2>4, <2>6 DEF FreshCells, Tokens
    <3> QED BY <1>4, <2>4, <3>1 DEF Same
  <2>8. GetOrNew(a) = [objs |-> new, heap |-> h2, jrn |-> journal]
    BY <1>4 DEF GetOrNew
  <2> HIDE DEF o, v, w
  <2>9. Store(new, h2, trie) /\ Len(h2) = Len(heap) + 2
    <3>1. Extends(h2, heap)
      BY <1>2, <2>2, ConcatExtends
    <3> HIDE DEF h2
    <3>2. Store(new, h2, trie)
      BY <1>2, <2>4, <2>7, <3>1, StoreFresh
    <3> QED BY <3>1, <3>2 DEF Extends
  <2>10. Len(heap) <= Len(h2) /\ Len(h2) <= MaxCells
    BY <1>2, <1>4, <2>9 DEF Alive, Room
  <2>11. \A b \in Addrs : KeptAt(objects, new, trie, b)
    BY <1>2, <1>4, <2>5 DEF KeptAt, Cached
  <2>12. new[a] # Absent
    BY <1>2, <2>5
  <2> HIDE DEF new, h2
  <2>13. Core(new, h2, journal, trie, validRevisions, saved)
    BY <1>1, <2>9, <2>10, <2>11, CoreKept
  <2> QED BY <2>8, <2>12, <2>13
<1>5. CASE ~Cached(a) /\ trie[a] = Absent
  <2> DEFINE o == NewObject
             h2 == heap \o <<0, 0>>
             new == [objects EXCEPT ![a] = o]
             e == [kind |-> "create", addr |-> a]
  <2>1. 0 \in 0..MaxBalance /\ 0 \in 0..MaxNonce
    BY StateAssumption
  <2>3. FreshCells(heap) \in [Tokens -> 1..Len(heap) + 2]
    BY <1>2 DEF FreshCells
  <2>4. /\ o \in ObjectOver(1..Len(heap) + 2) /\ o.cell = FreshCells(heap)
        /\ o.dirty = FALSE /\ o.nonce = 0
    BY <2>1, <2>3 DEF NewObject, ObjectOver
  <2>5. o # Absent
    BY <1>2, <2>4, ObjectNotAbsent
  <2>6. h2[Len(heap) + 1] = 0 /\ h2[Len(heap) + 2] = 0
    BY <1>2, <2>1
  <2>7. Same(trie[a], o, h2)
    <3> HIDE DEF o, h2
    <3>1. \A tk \in Tokens : h2[o.cell[tk]] = 0
      BY <1>2, <2>4, <2>6 DEF FreshCells, Tokens
    <3> QED BY <1>5, <2>4, <3>1 DEF Same
  <2>8. GetOrNew(a) = [objs |-> new, heap |-> h2, jrn |-> Append(journal, e)]
    BY <1>5 DEF GetOrNew
  <2> HIDE DEF o
  <2>9. Store(new, h2, trie) /\ Len(h2) = Len(heap) + 2
    <3>1. Extends(h2, heap)
      BY <1>2, <2>1, ConcatExtends
    <3> HIDE DEF h2
    <3>2. Store(new, h2, trie)
      BY <1>2, <2>4, <2>7, <3>1, StoreFresh
    <3> QED BY <3>1, <3>2 DEF Extends
  <2>10. Len(heap) <= Len(h2) /\ Len(h2) <= MaxCells
    BY <1>2, <1>5, <2>9 DEF Alive, Room
  <2>11. \A b \in Addrs : JournaledAt(e, objects, new, b)
    BY <1>2, <1>5, <2>5 DEF JournaledAt, Cached, IsCreate, IsNonce
  <2>12. new[a] # Absent
    BY <1>2, <2>5
  <2>13. e \in EntryOver(1..Len(h2))
    BY DEF EntryOver
  <2> HIDE DEF new, h2, e
  <2>14. Core(new, h2, Append(journal, e), trie, validRevisions, saved)
    BY <1>1, <2>9, <2>10, <2>11, <2>13, CoreJournaled
  <2> QED BY <2>8, <2>12, <2>14
<1> QED BY <1>3, <1>4, <1>5

\* A dirty object with the cells it had, and the nonce or with that nonce journaled.
LEMMA CoreTouched ==
    ASSUME NEW objs, NEW h, NEW jrn, NEW revs, NEW svd,
           Core(objs, h, jrn, trie, revs, svd), NEW a \in Addrs, objs[a] # Absent,
           NEW o \in ObjectOver(1..Len(h)), o.cell = objs[a].cell, o.dirty
    PROVE  /\ o.nonce = objs[a].nonce => Core([objs EXCEPT ![a] = o], h, jrn, trie, revs, svd)
           /\ Core([objs EXCEPT ![a] = o], h,
                   Append(jrn, [kind |-> "nonce", addr |-> a, nonce |-> objs[a].nonce]),
                   trie, revs, svd)
<1> DEFINE new == [objs EXCEPT ![a] = o]
           e == [kind |-> "nonce", addr |-> a, nonce |-> objs[a].nonce]
<1>1. /\ Store(objs, h, trie) /\ Len(h) <= MaxCells /\ Len(h) \in Nat
      /\ objs \in [Addrs -> ObjectOver(1..Len(h)) \cup {Absent}]
  BY DEF Core, Store
<1>2. Store(new, h, trie)
  BY <1>1, StoreTouched
<1>3. o # Absent
  BY <1>1, ObjectNotAbsent
<1>4. new[a] = o /\ \A b \in Addrs : b # a => new[b] = objs[b]
  BY <1>1
<1>5. objs[a].nonce \in 0..MaxNonce
  BY <1>1, ObjectFields
<1>6. e \in EntryOver(1..Len(h)) /\ e.kind = "nonce" /\ e.addr = a /\ e.nonce = objs[a].nonce
  BY <1>5 DEF EntryOver
<1> HIDE DEF new, e
<1>7. Len(h) <= Len(h)
  BY <1>1
<1>8. ASSUME o.nonce = objs[a].nonce PROVE Core(new, h, jrn, trie, revs, svd)
  <2>1. \A b \in Addrs : KeptAt(objs, new, trie, b)
    BY <1>3, <1>4, <1>8 DEF KeptAt
  <2> QED BY <1>1, <1>2, <1>7, <2>1, CoreKept
<1>9. Core(new, h, Append(jrn, e), trie, revs, svd)
  <2>1. \A b \in Addrs : JournaledAt(e, objs, new, b)
    BY <1>3, <1>4, <1>6 DEF JournaledAt, IsCreate, IsNonce
  <2> QED BY <1>1, <1>2, <1>6, <1>7, <2>1, CoreJournaled
<1> QED BY <1>8, <1>9 DEF new, e

LEMMA ChangeBalanceStep ==
    ASSUME IInv, NEW a \in Addrs, NEW tk \in Tokens, NEW delta \in {1, -1},
           ChangeBalance(a, tk, delta)
    PROVE  IInv'
<1> DEFINE g == GetOrNew(a)
           c == g.objs[a].cell
           v == g.heap[c[tk]] + delta
           o == Touched(g.objs[a])
           objs == [g.objs EXCEPT ![a] = o]
           h2 == [g.heap EXCEPT ![c[tk]] = v]
           e == [kind |-> "balance", addr |-> a, cell |-> c]
<1>1. /\ Alive(a) /\ v \in 0..MaxBalance /\ heap' = h2 /\ objects' = objs
      /\ journal' = Append(g.jrn, e)
      /\ UNCHANGED <<trie, disk, validRevisions, saved, panicked>>
  BY DEF ChangeBalance
<1>2. Core(g.objs, g.heap, g.jrn, trie, validRevisions, saved) /\ g.objs[a] # Absent
  BY <1>1, GetOrNewCore
<1> HIDE DEF g, v
<1>3. /\ g.objs \in [Addrs -> ObjectOver(1..Len(g.heap)) \cup {Absent}]
      /\ g.heap \in Seq(0..MaxBalance) /\ Len(g.heap) \in Nat
      /\ g.objs[a] \in ObjectOver(1..Len(g.heap))
  BY <1>2 DEF Core, Store
<1>4. /\ o \in ObjectOver(1..Len(g.heap)) /\ o.cell = c /\ o.dirty = TRUE
      /\ o.nonce = g.objs[a].nonce /\ c \in [Tokens -> 1..Len(g.heap)]
  BY <1>3 DEF Touched, ObjectOver
<1>5. o # Absent
  BY <1>3, <1>4, ObjectNotAbsent
<1> HIDE DEF o
<1>6. Core(objs, g.heap, g.jrn, trie, validRevisions, saved)
  BY <1>2, <1>4, CoreTouched
<1>7. objs[a] = o
  BY <1>3
<1> HIDE DEF objs
<1>8. Store(objs, g.heap, trie) /\ Len(g.heap) <= MaxCells
  BY <1>6 DEF Core
<1>9. Store(objs, h2, trie)
  BY <1>1, <1>4, <1>5, <1>7, <1>8, StoreWritten
<1>10. Len(h2) = Len(g.heap) /\ Len(g.heap) <= Len(h2) /\ Len(h2) <= MaxCells
  BY <1>1, <1>3, <1>4, <1>8
<1>11. e \in EntryOver(1..Len(h2)) /\ e.kind = "balance"
  BY <1>4, <1>10 DEF EntryOver
<1> HIDE DEF h2, e
<1>12. \A b \in Addrs : JournaledAt(e, objs, objs, b)
  BY <1>11 DEF JournaledAt, IsCreate, IsNonce
<1>13. Core(objs, h2, Append(g.jrn, e), trie, validRevisions, saved)
  BY <1>6, <1>9, <1>10, <1>11, <1>12, CoreJournaled
<1> QED BY <1>1, <1>13 DEF IInv

LEMMA SetNonceStep ==
    ASSUME IInv, NEW a \in Addrs, SetNonce(a)
    PROVE  IInv'
<1> DEFINE g == GetOrNew(a)
           n == g.objs[a].nonce
           o == Touched([g.objs[a] EXCEPT !.nonce = n + 1])
           objs == [g.objs EXCEPT ![a] = o]
<1>1. /\ Alive(a) /\ n < MaxNonce /\ heap' = g.heap /\ objects' = objs
      /\ journal' = Append(g.jrn, [kind |-> "nonce", addr |-> a, nonce |-> n])
      /\ UNCHANGED <<trie, disk, validRevisions, saved, panicked>>
  BY DEF SetNonce, NonceEntry
<1>2. Core(g.objs, g.heap, g.jrn, trie, validRevisions, saved) /\ g.objs[a] # Absent
  BY <1>1, GetOrNewCore
<1> HIDE DEF g
<1>3. g.objs[a] \in ObjectOver(1..Len(g.heap))
  BY <1>2 DEF Core, Store
<1>4. n + 1 \in 0..MaxNonce
  BY <1>1, <1>3, ObjectFields, StateAssumption
<1>5. o \in ObjectOver(1..Len(g.heap)) /\ o.cell = g.objs[a].cell /\ o.dirty = TRUE
  BY <1>3, <1>4 DEF Touched, ObjectOver
<1> HIDE DEF o
<1>6. Core(objs, g.heap, Append(g.jrn, [kind |-> "nonce", addr |-> a, nonce |-> n]),
           trie, validRevisions, saved)
  BY <1>2, <1>5, CoreTouched
<1> HIDE DEF objs, n
<1> QED BY <1>1, <1>6 DEF IInv

LEMMA SetStorageStep ==
    ASSUME IInv, NEW a \in Addrs, NEW v \in Slots, SetStorage(a, v)
    PROVE  IInv'
<1> DEFINE g == GetOrNew(a)
           o == Touched([g.objs[a] EXCEPT !.slot = v])
           objs == [g.objs EXCEPT ![a] = o]
<1>1. /\ Alive(a) /\ heap' = g.heap /\ objects' = objs /\ journal' = g.jrn
      /\ UNCHANGED <<trie, disk, validRevisions, saved, panicked>>
  BY DEF SetStorage
<1>2. Core(g.objs, g.heap, g.jrn, trie, validRevisions, saved) /\ g.objs[a] # Absent
  BY <1>1, GetOrNewCore
<1> HIDE DEF g
<1>3. g.objs[a] \in ObjectOver(1..Len(g.heap))
  BY <1>2 DEF Core, Store
<1>4. /\ o \in ObjectOver(1..Len(g.heap)) /\ o.cell = g.objs[a].cell /\ o.dirty = TRUE
      /\ o.nonce = g.objs[a].nonce
  BY <1>3 DEF Touched, ObjectOver
<1> HIDE DEF o
<1>5. Core(objs, g.heap, g.jrn, trie, validRevisions, saved)
  BY <1>2, <1>4, CoreTouched
<1> HIDE DEF objs
<1> QED BY <1>1, <1>5 DEF IInv

-----------------------------------------------------------------------------
(* Snapshots and reverts *)

\* What the getters report is an account, or nothing.
LEMMA ViewType ==
    ASSUME IInv
    PROVE  \A a \in Addrs : /\ View(a) \in Account \cup {Absent}
                            /\ Cached(a) => View(a).nonce = objects[a].nonce
<1> SUFFICES ASSUME NEW a \in Addrs
             PROVE  /\ View(a) \in Account \cup {Absent}
                    /\ Cached(a) => View(a).nonce = objects[a].nonce
  OBVIOUS
<1>1. /\ heap \in Seq(0..MaxBalance) /\ objects \in [Addrs -> ObjectOver(1..Len(heap)) \cup {Absent}]
      /\ trie \in [Addrs -> Account \cup {Absent}]
  BY DEF IInv, Core, Store
<1>2. CASE Cached(a)
  <2>1. /\ objects[a].nonce \in 0..MaxNonce /\ objects[a].cell \in [Tokens -> 1..Len(heap)]
        /\ objects[a].root \in Slots \cup {Absent}
    BY <1>1, <1>2, ObjectFields DEF Cached
  <2>2. \A tk \in Tokens : heap[objects[a].cell[tk]] \in 0..MaxBalance
    BY <1>1, <2>1, ElementOfSeq
  <2>3. View(a) = [nonce |-> objects[a].nonce,
                   bal |-> [tk \in Tokens |-> heap[objects[a].cell[tk]]],
                   root |-> objects[a].root]
    BY <1>2 DEF View, Encode
  <2> QED BY <2>1, <2>2, <2>3 DEF Account
<1>3. CASE ~Cached(a)
  BY <1>1, <1>3 DEF View
<1> QED BY <1>2, <1>3

LEMMA SnapshotStep == IInv /\ Snapshot => IInv'
<1> SUFFICES ASSUME IInv, Snapshot PROVE IInv'
  OBVIOUS
<1> DEFINE sv == [cached |-> {a \in Addrs : Cached(a)}, view |-> [a \in Addrs |-> View(a)]]
           n == Len(validRevisions)
           m == Len(journal)
           revs == Append(validRevisions, m)
           svd == Append(saved, sv)
<1>1. /\ validRevisions' = revs /\ saved' = svd
      /\ UNCHANGED <<objects, heap, trie, disk, journal, panicked>>
  BY DEF Snapshot
<1>2. /\ Marks(journal, validRevisions) /\ saved \in Seq(Seen) /\ Len(saved) = n
      /\ journal \in Seq(EntryOver(1..Len(heap))) /\ m \in Nat /\ n \in Nat
      /\ validRevisions \in Seq(Nat)
      /\ \A i \in 1..n : \A a \in Addrs :
            Restorable(objects, journal, trie, validRevisions[i], saved[i], a)
  BY DEF IInv, Core, Marks
<1>3. sv \in Seen
  BY ViewType DEF Seen
<1>4. /\ sv.cached = {a \in Addrs : Cached(a)}
      /\ \A a \in Addrs : Cached(a) => sv.view[a].nonce = objects[a].nonce
  BY ViewType
<1> HIDE DEF sv
<1>5. /\ svd \in Seq(Seen) /\ Len(svd) = n + 1 /\ svd[n + 1] = sv
      /\ \A i \in 1..n : svd[i] = saved[i]
  BY <1>2, <1>3
<1> HIDE DEF m
<1>6. /\ revs \in Seq(Nat) /\ Len(revs) = n + 1 /\ revs[n + 1] = m
      /\ \A i \in 1..n : revs[i] = validRevisions[i]
  BY <1>2
<1>7. \A i \in 1..n + 1 : i \in 1..n \/ i = n + 1
  BY <1>2
<1> HIDE DEF revs, svd, n
<1>8. \A i \in 1..n + 1 : revs[i] <= m
  BY <1>2, <1>6, <1>7 DEF Marks, m, n
<1>9. \A i \in 1..n + 1 : \A j \in i..n + 1 : revs[i] <= revs[j]
  <2> SUFFICES ASSUME NEW i \in 1..n + 1, NEW j \in i..n + 1 PROVE revs[i] <= revs[j]
    OBVIOUS
  <2>1. CASE j = n + 1
    BY <1>6, <1>8, <2>1
  <2>2. CASE j # n + 1
    <3>1. i \in 1..n /\ j \in i..n /\ j \in 1..n
      BY <1>2, <2>2
    <3> QED BY <1>2, <1>6, <3>1 DEF Marks, n
  <2> QED BY <2>1, <2>2
<1>10. \A a \in Addrs : Restorable(objects, journal, trie, m, sv, a)
  <2>1. m + 1..Len(journal) = {}
    BY <1>2 DEF m
  <2> QED BY <1>4, <2>1 DEF Restorable, Cached
<1>11. \A i \in 1..n + 1 : \A a \in Addrs : Restorable(objects, journal, trie, revs[i], svd[i], a)
  BY <1>2, <1>5, <1>6, <1>7, <1>10
<1>12. Marks(journal, revs)
  BY <1>6, <1>8, <1>9 DEF Marks, m
<1>13. Core(objects, heap, journal, trie, revs, svd)
  BY <1>5, <1>6, <1>11, <1>12 DEF IInv, Core
<1> QED BY <1>1, <1>13 DEF IInv

\* The journal as an interval of entries: what a mark cuts off.
LEMMA CutOff ==
    ASSUME NEW S, NEW jrn \in Seq(S), NEW idx \in 0..Len(jrn)
    PROVE  /\ SubSeq(jrn, 1, idx) \in Seq(S) /\ Len(SubSeq(jrn, 1, idx)) = idx
           /\ \A k \in 1..idx : SubSeq(jrn, 1, idx)[k] = jrn[k]
           /\ SubSeq(jrn, idx + 1, Len(jrn)) \in [1..Len(jrn) - idx -> S]
           /\ \A k \in 1..Len(jrn) - idx : SubSeq(jrn, idx + 1, Len(jrn))[k] = jrn[idx + k]
           /\ Len(jrn) - idx \in Nat
<1>1. Len(jrn) \in Nat /\ \A i \in 1..Len(jrn) : jrn[i] \in S
  BY ElementOfSeq
<1>2. /\ SubSeq(jrn, 1, idx) \in Seq(S)
      /\ Len(SubSeq(jrn, 1, idx)) = IF 1 <= idx THEN idx - 1 + 1 ELSE 0
      /\ \A i \in 1..idx - 1 + 1 : SubSeq(jrn, 1, idx)[i] = jrn[1 + i - 1]
  <2>1. 1 \in Int /\ idx \in Int /\ \A i \in 1..idx : jrn[i] \in S
    BY <1>1
  <2> QED BY <2>1, SubSeqProperties
<1>3. /\ Len(SubSeq(jrn, 1, idx)) = idx
      /\ \A k \in 1..idx : SubSeq(jrn, 1, idx)[k] = jrn[k]
  BY <1>1, <1>2
<1> DEFINE t == SubSeq(jrn, idx + 1, Len(jrn))
           n == Len(jrn) - idx
<1>4. /\ t \in Seq(S)
      /\ Len(t) = IF idx + 1 <= Len(jrn) THEN Len(jrn) - (idx + 1) + 1 ELSE 0
      /\ \A i \in 1..Len(jrn) - (idx + 1) + 1 : t[i] = jrn[(idx + 1) + i - 1]
  <2>1. idx + 1 \in Int /\ Len(jrn) \in Int /\ \A i \in idx + 1..Len(jrn) : jrn[i] \in S
    BY <1>1
  <2> QED BY <2>1, SubSeqProperties
<1> HIDE DEF t
<1>5. n \in Nat /\ Len(t) = n /\ \A k \in 1..n : t[k] = jrn[idx + k]
  BY <1>1, <1>4
<1>6. t \in [1..n -> S]
  BY <1>4, <1>5, LenProperties
<1> QED BY <1>2, <1>3, <1>5, <1>6 DEF t

\* Every revert undoes exactly the entries since the mark.
LEMMA RevertUndoes ==
    ASSUME IInv, NEW id, RevertToSnapshot(id)
    PROVE  /\ id \in 1..Len(validRevisions)
           /\ validRevisions[id] \in 0..Len(journal)
           /\ Store(objects', heap', trie)
           /\ Len(heap) <= Len(heap') /\ Len(heap') <= MaxCells
           /\ journal' = SubSeq(journal, 1, validRevisions[id])
           /\ \A a \in Addrs :
                 RevertedAt(journal, validRevisions[id] + 1, Len(journal), objects, objects', a)
<1> DEFINE idx == validRevisions[id]
           seq == SubSeq(journal, idx + 1, Len(journal))
           n == Len(journal) - idx
           S == EntryOver(1..Len(heap))
           res == AllUndone(seq, [objs |-> objects, heap |-> heap])
<1>1. /\ id \in 1..Len(validRevisions) /\ objects' = res.objs /\ heap' = res.heap
      /\ Len(res.heap) <= MaxCells /\ journal' = SubSeq(journal, 1, idx)
  BY Zenon DEF RevertToSnapshot, AllUndone
<1>2. journal \in Seq(S) /\ Store(objects, heap, trie) /\ Len(journal) \in Nat
  BY DEF IInv, Core
<1>3. idx \in 0..Len(journal)
  BY <1>1, <1>2 DEF IInv, Core, Marks
<1> HIDE DEF idx, S
<1>4. seq \in [1..n -> S] /\ n \in Nat /\ \A k \in 1..n : seq[k] = journal[idx + k]
  BY <1>2, <1>3, CutOff
<1> HIDE DEF seq, n
<1>5. PICK new, h2 :
          /\ res = [objs |-> new, heap |-> h2]
          /\ Store(new, h2, trie)
          /\ Len(heap) <= Len(h2)
          /\ \A a \in Addrs : RevertedAt(seq, 1, n, objects, new, a)
  BY <1>2, <1>4, RevertResult DEF S
<1> HIDE DEF res
<1>6. objects' = new /\ heap' = h2
  BY <1>1, <1>5
<1>7. ASSUME NEW a \in Addrs
      PROVE  RevertedAt(journal, idx + 1, Len(journal), objects, new, a)
  <2>1. RevertedAt(seq, 1, n, objects, new, a)
    BY <1>5
  <2>2. idx \in Nat /\ Len(journal) = idx + n
    BY <1>2, <1>3 DEF n
  <2>3. \A j \in idx + 1..Len(journal) : /\ j - idx \in 1..n
                                         /\ journal[j] = seq[j - idx]
    BY <1>4, <2>2
  <2>4. \A k \in 1..n : idx + k \in idx + 1..Len(journal) /\ seq[k] = journal[idx + k]
    BY <1>4, <2>2
  <2>5. (\A j \in idx + 1..Len(journal) : ~IsCreate(journal[j], a))
          <=> (\A k \in 1..n : ~IsCreate(seq[k], a))
    BY <2>3, <2>4
  <2>6. (\A j \in idx + 1..Len(journal) : ~IsNonce(journal[j], a))
          => (\A k \in 1..n : ~IsNonce(seq[k], a))
    BY <2>4
  <2>7. ASSUME NEW j \in idx + 1..Len(journal), FirstNonce(journal, idx + 1, j, a)
        PROVE  FirstNonce(seq, 1, j - idx, a)
    <3>1. ASSUME NEW i \in 1..(j - idx) - 1 PROVE ~IsNonce(seq[i], a)
      <4>1. i \in 1..n /\ idx + i \in idx + 1..j - 1
        <5>1. n \in Nat /\ idx \in Nat /\ j \in idx + 1..idx + n
          BY <1>4, <2>2
        <5> QED BY <5>1
      <4> QED BY <1>4, <2>7, <4>1 DEF FirstNonce
    <3> QED BY <2>3, <2>7, <3>1 DEF FirstNonce
  <2> QED BY <2>1, <2>3, <2>5, <2>6, <2>7 DEF RevertedAt
<1> QED BY <1>1, <1>3, <1>5, <1>6, <1>7 DEF idx

\* An older snapshot is as restorable after a revert to a younger one as before.
LEMMA RestorableCut ==
    ASSUME NEW objs, NEW new, NEW S, NEW jrn \in Seq(S), NEW tr, NEW a,
           NEW idx \in 0..Len(jrn), NEW old \in 0..idx, NEW sv,
           Restorable(objs, jrn, tr, old, sv, a),
           RevertedAt(jrn, idx + 1, Len(jrn), objs, new, a)
    PROVE  Restorable(new, SubSeq(jrn, 1, idx), tr, old, sv, a)
<1> DEFINE n == Len(jrn)
           cut == SubSeq(jrn, 1, idx)
<1>1. /\ n \in Nat /\ Len(cut) = idx /\ \A k \in 1..idx : cut[k] = jrn[k]
  BY CutOff
<1> HIDE DEF cut, n
<1>2. /\ old + 1..n = (old + 1..idx) \cup (idx + 1..n)
      /\ old + 1..idx \subseteq 1..idx /\ old + 1..idx \subseteq old + 1..n
      /\ idx + 1..n \subseteq old + 1..n
  BY <1>1 DEF n
<1>3. \A k \in old + 1..idx : cut[k] = jrn[k]
  BY <1>1, <1>2
<1>4. ASSUME a \in sv.cached
      PROVE  /\ new[a] # Absent
             /\ \A k \in old + 1..idx : ~IsCreate(cut[k], a)
             /\ (\A k \in old + 1..idx : ~IsNonce(cut[k], a)) => new[a].nonce = sv.view[a].nonce
             /\ \A k \in old + 1..idx :
                   FirstNonce(cut, old + 1, k, a) => cut[k].nonce = sv.view[a].nonce
  <2>1. /\ objs[a] # Absent
        /\ \A k \in old + 1..n : ~IsCreate(jrn[k], a)
        /\ (\A k \in old + 1..n : ~IsNonce(jrn[k], a)) => objs[a].nonce = sv.view[a].nonce
        /\ \A k \in old + 1..n : FirstNonce(jrn, old + 1, k, a) => jrn[k].nonce = sv.view[a].nonce
    BY <1>4 DEF Restorable, n
  <2>2. new[a] # Absent
    BY <1>2, <2>1 DEF RevertedAt, n
  <2>3. \A k \in old + 1..idx : ~IsCreate(cut[k], a)
    BY <1>2, <1>3, <2>1
  <2>4. ASSUME \A k \in old + 1..idx : ~IsNonce(cut[k], a)
        PROVE  new[a].nonce = sv.view[a].nonce
    <3>1. \A k \in old + 1..idx : ~IsNonce(jrn[k], a)
      BY <1>3, <2>4
    <3>2. CASE \A k \in idx + 1..n : ~IsNonce(jrn[k], a)
      <4>1. new[a].nonce = objs[a].nonce
        BY <2>2, <3>2 DEF RevertedAt, n
      <4>2. \A k \in old + 1..n : ~IsNonce(jrn[k], a)
        BY <1>2, <3>1, <3>2
      <4> QED BY <2>1, <4>1, <4>2
    <3>3. CASE ~ \A k \in idx + 1..n : ~IsNonce(jrn[k], a)
      <4> DEFINE N == {k \in idx + 1..n : IsNonce(jrn[k], a)}
      <4>1. N \subseteq Nat /\ N # {}
        BY <3>3
      <4>2. PICK k \in N : \A y \in N : k <= y
        <5> HIDE DEF N
        <5> QED BY <4>1, MinInSet
      <4>3. k \in idx + 1..n /\ IsNonce(jrn[k], a)
        BY <4>2
      <4>4. \A i \in idx + 1..k - 1 : ~IsNonce(jrn[i], a)
        <5> SUFFICES ASSUME NEW i \in idx + 1..k - 1, IsNonce(jrn[i], a) PROVE FALSE
          OBVIOUS
        <5>1. i \in idx + 1..n /\ ~(k <= i)
          BY <1>1, <4>3
        <5> QED BY <4>2, <5>1
      <4>5. FirstNonce(jrn, idx + 1, k, a)
        BY <4>3, <4>4 DEF FirstNonce
      <4>6. \A i \in old + 1..k - 1 : i \in old + 1..idx \/ i \in idx + 1..k - 1
        BY <1>1, <4>3
      <4>7. FirstNonce(jrn, old + 1, k, a)
        BY <3>1, <4>3, <4>4, <4>6 DEF FirstNonce
      <4>8. new[a].nonce = jrn[k].nonce
        BY <2>2, <4>3, <4>5 DEF RevertedAt, n
      <4> QED BY <1>2, <2>1, <4>3, <4>7, <4>8
    <3> QED BY <3>2, <3>3
  <2>5. ASSUME NEW k \in old + 1..idx, FirstNonce(cut, old + 1, k, a)
        PROVE  cut[k].nonce = sv.view[a].nonce
    <3>1. old + 1..k - 1 \subseteq old + 1..idx
      BY <1>1
    <3>2. FirstNonce(jrn, old + 1, k, a)
      BY <1>3, <2>5, <3>1 DEF FirstNonce
    <3> QED BY <1>2, <1>3, <2>1, <3>2
  <2> QED BY <2>2, <2>3, <2>4, <2>5
<1>5. ASSUME a \notin sv.cached, new[a] # Absent
      PROVE  tr[a] # Absent \/ \E k \in old + 1..idx : IsCreate(cut[k], a)
  <2>1. objs[a] # Absent /\ \A j \in idx + 1..n : ~IsCreate(jrn[j], a)
    BY <1>5 DEF RevertedAt, n
  <2>2. tr[a] # Absent \/ \E k \in old + 1..n : IsCreate(jrn[k], a)
    BY <1>5, <2>1 DEF Restorable, n
  <2> QED BY <1>2, <1>3, <2>1, <2>2
<1>6. Restorable(new, cut, tr, old, sv, a)
  BY <1>1, <1>4, <1>5 DEF Restorable
<1> QED BY <1>6 DEF cut

LEMMA RevertStep ==
    ASSUME IInv, NEW id, RevertToSnapshot(id)
    PROVE  IInv'
<1> DEFINE idx == validRevisions[id]
           revs == SubSeq(validRevisions, 1, id - 1)
           svd == SubSeq(saved, 1, id - 1)
           S == EntryOver(1..Len(heap))
           n == Len(validRevisions)
<1>1. /\ id \in 1..n /\ idx \in 0..Len(journal)
      /\ Store(objects', heap', trie) /\ Len(heap) <= Len(heap') /\ Len(heap') <= MaxCells
      /\ journal' = SubSeq(journal, 1, idx)
      /\ \A a \in Addrs : RevertedAt(journal, idx + 1, Len(journal), objects, objects', a)
  BY RevertUndoes
<1>2. validRevisions' = revs /\ saved' = svd /\ UNCHANGED <<trie, disk, panicked>>
  BY DEF RevertToSnapshot, Below
<1>3. /\ journal \in Seq(S) /\ validRevisions \in Seq(Nat) /\ saved \in Seq(Seen)
      /\ Len(saved) = n /\ n \in Nat /\ Len(heap) \in Nat
      /\ \A i \in 1..n : \A j \in i..n : validRevisions[i] <= validRevisions[j]
      /\ \A i \in 1..n : \A a \in Addrs :
            Restorable(objects, journal, trie, validRevisions[i], saved[i], a)
  BY DEF IInv, Core, Marks, Store
<1>4. /\ revs \in Seq(Nat) /\ Len(revs) = id - 1
      /\ \A i \in 1..id - 1 : revs[i] = validRevisions[i]
      /\ svd \in Seq(Seen) /\ Len(svd) = id - 1 /\ \A i \in 1..id - 1 : svd[i] = saved[i]
  <2>1. id - 1 \in 0..n
    BY <1>1, <1>3
  <2>2. /\ revs \in Seq(Nat) /\ Len(revs) = id - 1
        /\ \A i \in 1..id - 1 : revs[i] = validRevisions[i]
    BY <1>3, <2>1, CutOff
  <2>3. svd \in Seq(Seen) /\ Len(svd) = id - 1 /\ \A i \in 1..id - 1 : svd[i] = saved[i]
    BY <1>3, <2>1, CutOff
  <2> QED BY <2>2, <2>3
<1> HIDE DEF idx, revs, svd, S
<1>5. /\ journal' \in Seq(S) /\ Len(journal') = idx
  BY <1>1, <1>3, CutOff
<1>6. \A i \in 1..id - 1 : revs[i] \in 0..idx
  <2> SUFFICES ASSUME NEW i \in 1..id - 1 PROVE validRevisions[i] \in 0..idx
    BY <1>4
  <2>1. i \in 1..n /\ id \in i..n
    BY <1>1, <1>3
  <2>2. validRevisions[i] <= validRevisions[id] /\ validRevisions[i] \in Nat
    BY <1>3, <2>1
  <2> QED BY <1>1, <2>2 DEF idx
<1>7. \A i \in 1..id - 1 : \A j \in i..id - 1 : revs[i] <= revs[j]
  <2> SUFFICES ASSUME NEW i \in 1..id - 1, NEW j \in i..id - 1 PROVE revs[i] <= revs[j]
    OBVIOUS
  <2>1. i \in 1..n /\ j \in i..n /\ j \in 1..id - 1
    BY <1>1, <1>3
  <2> QED BY <1>3, <1>4, <2>1
<1>8. Marks(journal', revs)
  BY <1>1, <1>4, <1>5, <1>6, <1>7 DEF Marks
<1>9. ASSUME NEW i \in 1..id - 1, NEW a \in Addrs
      PROVE  Restorable(objects', journal', trie, revs[i], svd[i], a)
  <2>1. i \in 1..n
    BY <1>1, <1>3
  <2>2. Restorable(objects, journal, trie, revs[i], svd[i], a)
    BY <1>3, <1>4, <2>1
  <2> QED BY <1>1, <1>3, <1>6, <2>2, RestorableCut
<1>10. journal' \in Seq(EntryOver(1..Len(heap')))
  <2>1. Len(heap') \in Nat
    BY <1>1 DEF Store
  <2>2. 1..Len(heap) \subseteq 1..Len(heap')
    BY <1>1, <1>3, <2>1
  <2>3. S \subseteq EntryOver(1..Len(heap'))
    BY <2>2, EntryWiden DEF S
  <2> QED BY <1>5, <2>3, SeqMonotonic
<1>11. Core(objects', heap', journal', trie, revs, svd)
  BY <1>1, <1>4, <1>8, <1>9, <1>10 DEF Core
<1> QED BY <1>2, <1>11 DEF IInv

-----------------------------------------------------------------------------
(* Persistence *)

\* Objects may get another storage root, and the trie more accounts, as long as
\* what the trie holds of clean objects stays.
LEMMA CoreWritten ==
    ASSUME IInv, NEW objs \in [Addrs -> ObjectOver(1..Len(heap)) \cup {Absent}], NEW tr,
           \A a \in Addrs : objs[a] # Absent <=> Cached(a),
           \A a \in Addrs : Cached(a) => /\ objs[a].nonce = objects[a].nonce
                                         /\ objs[a].cell = objects[a].cell
                                         /\ objs[a].dirty = objects[a].dirty,
           \A a \in Addrs : Cached(a) /\ ~objects[a].dirty => tr[a] = trie[a],
           \A a \in Addrs : trie[a] # Absent => tr[a] # Absent
    PROVE  Core(objs, heap, journal, tr, validRevisions, saved)
<1>1. Store(objects, heap, trie)
  BY DEF IInv, Core
<1>2. Unshared(objs)
  BY <1>1 DEF Store, Unshared, Cached
<1>3. CleanIn(objs, heap, tr)
  <2> SUFFICES ASSUME NEW a \in Addrs, objs[a] # Absent, ~objs[a].dirty
               PROVE  Same(tr[a], objs[a], heap)
    BY DEF CleanIn
  <2>1. Same(trie[a], objects[a], heap) /\ tr[a] = trie[a]
    BY <1>1 DEF Store, CleanIn, Cached
  <2> QED BY <2>1 DEF Same
<1>4. Store(objs, heap, tr)
  BY <1>1, <1>2, <1>3 DEF Store
<1>5. \A i \in 1..Len(validRevisions) : \A a \in Addrs :
         Restorable(objs, journal, tr, validRevisions[i], saved[i], a)
  <2> SUFFICES ASSUME NEW i \in 1..Len(validRevisions), NEW a \in Addrs
               PROVE  Restorable(objs, journal, tr, validRevisions[i], saved[i], a)
    OBVIOUS
  <2>1. Restorable(objects, journal, trie, validRevisions[i], saved[i], a)
    BY DEF IInv, Core
  <2> QED BY <2>1 DEF Restorable, Cached
<1> QED BY <1>4, <1>5 DEF IInv, Core

\* Written keeps the accounts of the trie and writes accounts.
LEMMA WrittenTrie ==
    ASSUME IInv, NEW objs \in [Addrs -> ObjectOver(1..Len(heap)) \cup {Absent}]
    PROVE  /\ Written(objs) \in [Addrs -> Account \cup {Absent}]
           /\ \A a \in Addrs : trie[a] # Absent => Written(objs)[a] # Absent
           /\ \A a \in Addrs : objs[a] # Absent /\ ~objs[a].dirty => Written(objs)[a] = trie[a]
<1>1. heap \in Seq(0..MaxBalance) /\ trie \in [Addrs -> Account \cup {Absent}]
  BY DEF IInv, Core, Store
<1>2. ASSUME NEW a \in Addrs, objs[a] # Absent PROVE Encode(objs[a], heap) \in Account
  <2>1. /\ objs[a].nonce \in 0..MaxNonce /\ objs[a].cell \in [Tokens -> 1..Len(heap)]
        /\ objs[a].root \in Slots \cup {Absent}
    BY <1>2, ObjectFields
  <2>2. \A tk \in Tokens : heap[objs[a].cell[tk]] \in 0..MaxBalance
    BY <1>1, <2>1, ElementOfSeq
  <2> QED BY <2>1, <2>2 DEF Encode, Account
<1>3. \A a \in Addrs : Written(objs)[a] = IF objs[a] # Absent /\ objs[a].dirty
                                          THEN Encode(objs[a], heap) ELSE trie[a]
  BY DEF Written
<1>4. Written(objs) \in [Addrs -> Account \cup {Absent}]
  BY <1>1, <1>2 DEF Written
<1> QED BY <1>2, <1>3, <1>4, StateAssumption

LEMMA IntermediateRootStep == IInv /\ IntermediateRoot => IInv'
<1> SUFFICES ASSUME IInv, IntermediateRoot PROVE IInv'
  OBVIOUS
<1>1. objects \in [Addrs -> ObjectOver(1..Len(heap)) \cup {Absent}]
  BY DEF IInv, Core, Store
<1>2. Core(objects, heap, journal, Written(objects), validRevisions, saved)
  BY <1>1, WrittenTrie, CoreWritten DEF Cached
<1>3. Written(objects) \in [Addrs -> Account \cup {Absent}]
  BY <1>1, WrittenTrie
<1> QED BY <1>2, <1>3 DEF IInv, IntermediateRoot

LEMMA CommitStep == IInv /\ Commit => IInv'
<1> SUFFICES ASSUME IInv, Commit PROVE IInv'
  OBVIOUS
<1> DEFINE objs == [a \in Addrs |->
                      IF Cached(a) /\ objects[a].dirty /\ objects[a].slot # Absent
                      THEN [objects[a] EXCEPT !.root = objects[a].slot]
                      ELSE objects[a]]
<1>1. /\ objects' = objs /\ trie' = Written(objs) /\ disk' = Written(objs)
      /\ UNCHANGED <<heap, journal, validRevisions, saved, panicked>>
  BY DEF Commit
<1>2. objects \in [Addrs -> ObjectOver(1..Len(heap)) \cup {Absent}] /\ Len(heap) \in Nat
  BY DEF IInv, Core, Store
<1>3. ASSUME NEW a \in Addrs
      PROVE  /\ objs[a] \in ObjectOver(1..Len(heap)) \cup {Absent}
             /\ objs[a] # Absent <=> Cached(a)
             /\ Cached(a) => /\ objs[a].nonce = objects[a].nonce
                             /\ objs[a].cell = objects[a].cell
                             /\ objs[a].dirty = objects[a].dirty
  <2> DEFINE o == [objects[a] EXCEPT !.root = objects[a].slot]
  <2>1. CASE Cached(a) /\ objects[a].dirty /\ objects[a].slot # Absent
    <3>1. objects[a] \in ObjectOver(1..Len(heap))
      BY <1>2, <2>1 DEF Cached
    <3>2. /\ o \in ObjectOver(1..Len(heap)) /\ o.nonce = objects[a].nonce
          /\ o.cell = objects[a].cell /\ o.dirty = objects[a].dirty
      BY <3>1 DEF ObjectOver
    <3>3. o # Absent
      BY <1>2, <3>2, ObjectNotAbsent
    <3>4. objs[a] = o
      BY <2>1
    <3> QED BY <2>1, <3>2, <3>3, <3>4
  <2>2. CASE ~(Cached(a) /\ objects[a].dirty /\ objects[a].slot # Absent)
    <3>1. objs[a] = objects[a]
      BY <2>2
    <3> QED BY <1>2, <3>1 DEF Cached
  <2> QED BY <2>1, <2>2
<1>4. objs \in [Addrs -> ObjectOver(1..Len(heap)) \cup {Absent}]
  <2>1. objs = [a \in Addrs |-> objs[a]]
    OBVIOUS
  <2> HIDE DEF objs
  <2> QED BY <1>3, <2>1
<1> HIDE DEF objs
<1>5. /\ Written(objs) \in [Addrs -> Account \cup {Absent}]
      /\ \A a \in Addrs : trie[a] # Absent => Written(objs)[a] # Absent
      /\ \A a \in Addrs : objs[a] # Absent /\ ~objs[a].dirty => Written(objs)[a] = trie[a]
  BY <1>4, WrittenTrie
<1>6. \A a \in Addrs : Cached(a) /\ ~objects[a].dirty => Written(objs)[a] = trie[a]
  BY <1>3, <1>5
<1>7. Core(objs, heap, journal, Written(objs), validRevisions, saved)
  BY <1>3, <1>4, <1>5, <1>6, CoreWritten
<1> QED BY <1>1, <1>5, <1>7 DEF IInv

\* The cache of a fresh process.
LEMMA CoreEmpty ==
    ASSUME NEW tr
    PROVE  Core([a \in Addrs |-> Absent], <<>>, <<>>, tr, <<>>, <<>>)
<1>1. Len(<<>>) = 0 /\ Len(<<>>) <= MaxCells
  BY StateAssumption
<1>2. Store([a \in Addrs |-> Absent], <<>>, tr)
  BY DEF Store, Unshared, CleanIn
<1>3. Marks(<<>>, <<>>)
  BY DEF Marks
<1>4. <<>> \in Seq(EntryOver(1..Len(<<>>))) /\ <<>> \in Seq(Seen)
  BY EmptySeq
<1> QED BY <1>1, <1>2, <1>3, <1>4 DEF Core

-----------------------------------------------------------------------------
(* The invariant *)

LEMMA InitIInv == Init => IInv
<1> SUFFICES ASSUME Init PROVE IInv
  OBVIOUS
<1>1. Core(objects, heap, journal, trie, validRevisions, saved)
  BY CoreEmpty DEF Init
<1> QED BY <1>1 DEF Init, IInv

LEMMA NextIInv == IInv /\ [Next]_vars => IInv'
<1> SUFFICES ASSUME IInv, [Next]_vars PROVE IInv'
  OBVIOUS
<1>1. CASE UNCHANGED vars
  BY <1>1 DEF vars, IInv
<1>2. ASSUME NEW a \in Addrs, PanicOnLoad(a) PROVE IInv'
  BY <1>2 DEF PanicOnLoad, IInv
<1>3. ASSUME NEW a \in Addrs, GetStateObject(a) PROVE IInv'
  <2>1. /\ Alive(a) /\ objects' = GetOrNew(a).objs /\ heap' = GetOrNew(a).heap
        /\ UNCHANGED <<trie, disk, journal, validRevisions, saved, panicked>>
    BY <1>3 DEF GetStateObject
  <2>2. GetOrNew(a).jrn = journal
    BY <1>3 DEF GetStateObject, GetOrNew
  <2>3. Core(GetOrNew(a).objs, GetOrNew(a).heap, journal, trie, validRevisions, saved)
    BY <2>1, <2>2, GetOrNewCore
  <2> QED BY <2>1, <2>3 DEF IInv
<1>4. ASSUME NEW a \in Addrs, CreateAccount(a) PROVE IInv'
  <2>1. /\ Alive(a) /\ objects' = GetOrNew(a).objs /\ heap' = GetOrNew(a).heap
        /\ journal' = GetOrNew(a).jrn
        /\ UNCHANGED <<trie, disk, validRevisions, saved, panicked>>
    BY <1>4 DEF CreateAccount
  <2>2. Core(GetOrNew(a).objs, GetOrNew(a).heap, GetOrNew(a).jrn, trie, validRevisions, saved)
    BY <2>1, GetOrNewCore
  <2> QED BY <2>1, <2>2 DEF IInv
<1>5. ASSUME NEW a \in Addrs, SetNonce(a) PROVE IInv'
  BY <1>5, SetNonceStep
<1>6. ASSUME NEW a \in Addrs, NEW tk \in Tokens, NEW delta \in {1, -1},
             ChangeBalance(a, tk, delta)
      PROVE  IInv'
  BY <1>6, ChangeBalanceStep
<1>7. ASSUME NEW a \in Addrs, NEW v \in Slots, SetStorage(a, v) PROVE IInv'
  BY <1>7, SetStorageStep
<1>8. CASE Snapshot
  BY <1>8, SnapshotStep
<1>9. ASSUME NEW id \in 1..MaxRevisions, RevertToSnapshot(id) PROVE IInv'
  BY <1>9, RevertStep
<1>10. CASE IntermediateRoot
  BY <1>10, IntermediateRootStep
<1>11. CASE Commit
  BY <1>11, CommitStep
<1>12. CASE Restart
  <2>1. Core(objects', heap', journal', trie', validRevisions', saved')
    BY <1>12, CoreEmpty DEF Restart
  <2> QED BY <1>12, <2>1 DEF Restart, IInv
<1> QED BY <1>1, <1>2, <1>3, <1>4, <1>5, <1>6, <1>7, <1>8, <1>9, <1>10, <1>11, <1>12 DEF Next

LEMMA Invariance == Spec => []IInv
BY InitIInv, NextIInv, PTL DEF Spec

LEMMA IInvImplies == IInv => SnapshotsSound /\ NoSharedCells /\ CommitIsComplete
<1> SUFFICES ASSUME IInv PROVE SnapshotsSound /\ NoSharedCells /\ CommitIsComplete
  OBVIOUS
<1>1. /\ Store(objects, heap, trie) /\ Len(heap) <= MaxCells /\ Len(heap) \in Nat
      /\ heap \in Seq(0..MaxBalance)
      /\ objects \in [Addrs -> ObjectOver(1..Len(heap)) \cup {Absent}]
      /\ journal \in Seq(EntryOver(1..Len(heap)))
      /\ Marks(journal, validRevisions) /\ Len(saved) = Len(validRevisions)
  BY DEF IInv, Core, Store
<1>2. TypeOK
  <2>1. 1..Len(heap) \subseteq 1..MaxCells
    BY <1>1, StateAssumption
  <2>2. ObjectOver(1..Len(heap)) \subseteq Object /\ EntryOver(1..Len(heap)) \subseteq Entry
    BY <2>1, ObjectWiden, EntryWiden DEF Object, Entry
  <2>3. objects \in [Addrs -> Object \cup {Absent}]
    BY <1>1, <2>2
  <2>4. journal \in Seq(Entry)
    BY <1>1, <2>2, SeqMonotonic
  <2> QED BY <1>1, <2>3, <2>4 DEF TypeOK, IInv, Marks
<1>3. RevisionsNest
  <2> SUFFICES ASSUME NEW i \in 1..Len(validRevisions), i > 1
               PROVE  validRevisions[i - 1] <= validRevisions[i]
    BY <1>1 DEF RevisionsNest, Marks
  <2>1. i - 1 \in 1..Len(validRevisions) /\ i \in i - 1..Len(validRevisions)
    BY <1>1 DEF Marks
  <2> QED BY <1>1, <2>1 DEF Marks
<1>4. NoSharedCells
  BY <1>1 DEF NoSharedCells, Store, Unshared, Cached
<1>5. CommitIsComplete
  <2> SUFFICES ASSUME NEW a \in Addrs, Cached(a)
               PROVE  Same(Written(objects)[a], objects[a], heap)
    BY DEF CommitIsComplete
  <2>1. CASE objects[a].dirty
    <3>1. Written(objects)[a] = Encode(objects[a], heap)
      BY <2>1 DEF Written, Cached
    <3>2. Written(objects) \in [Addrs -> Account \cup {Absent}]
      BY <1>1, WrittenTrie
    <3>3. /\ Encode(objects[a], heap).nonce = objects[a].nonce
          /\ \A tk \in Tokens : Encode(objects[a], heap).bal[tk] = heap[objects[a].cell[tk]]
      BY DEF Encode
    <3>4. Encode(objects[a], heap) # Absent
      <4>1. View(a) = Encode(objects[a], heap)
        BY DEF View
      <4>2. /\ objects[a].nonce \in 0..MaxNonce /\ objects[a].cell \in [Tokens -> 1..Len(heap)]
            /\ objects[a].root \in Slots \cup {Absent}
        BY <1>1, ObjectFields DEF Cached
      <4>3. \A tk \in Tokens : heap[objects[a].cell[tk]] \in 0..MaxBalance
        BY <1>1, <4>2, ElementOfSeq
      <4>4. Encode(objects[a], heap) \in Account
        BY <4>2, <4>3 DEF Encode, Account
      <4> QED BY <4>4, StateAssumption
    <3> QED BY <3>1, <3>3, <3>4 DEF Same
  <2>2. CASE ~objects[a].dirty
    <3>1. Written(objects)[a] = trie[a]
      BY <2>2 DEF Written
    <3> QED BY <1>1, <2>2, <3>1 DEF Store, CleanIn, Cached
  <2> QED BY <2>1, <2>2
<1> QED BY <1>2, <1>3, <1>4, <1>5 DEF SnapshotsSound

\* The cache, the journal and the revisions keep their types and the valid
\* revisions point into the journal in order, so that no revert slices past it.
THEOREM SnapshotsStaySound == Spec => []SnapshotsSound
BY Invariance, IInvImplies, PTL

\* No two balances ever share a big.Int, for any number of accounts, loads,
\* reverts and clones.
THEOREM CellsStayApart == Spec => []NoSharedCells
BY Invariance, IInvImplies, PTL

\* What Commit skips is already in the trie: no change of a nonce or a balance
\* is lost by the dirty marks.
THEOREM CommitStaysComplete == Spec => []CommitIsComplete
BY Invariance, IInvImplies, PTL

\* A revert, to any revision and over any journal, restores the nonces of the
\* accounts the snapshot saw and drops those created since.
THEOREM RevertRestores == Spec => RevertRestoresNonces
<1> DEFINE A == \A id \in 1..MaxRevisions : RevertToSnapshot(id) =>
          \A a \in Addrs :
             /\ a \in saved[id].cached => /\ objects'[a] # Absent
                                          /\ objects'[a].nonce = saved[id].view[a].nonce
             /\ a \notin saved[id].cached /\ trie[a] = Absent => objects'[a] = Absent
<1>1. ASSUME IInv PROVE A
  <2> SUFFICES ASSUME NEW id \in 1..MaxRevisions, RevertToSnapshot(id), NEW a \in Addrs
               PROVE  /\ a \in saved[id].cached =>
                            /\ objects'[a] # Absent
                            /\ objects'[a].nonce = saved[id].view[a].nonce
                      /\ a \notin saved[id].cached /\ trie[a] = Absent => objects'[a] = Absent
    OBVIOUS
  <2> DEFINE idx == validRevisions[id]
             cut == SubSeq(journal, 1, idx)
  <2>1. /\ id \in 1..Len(validRevisions) /\ idx \in 0..Len(journal)
        /\ RevertedAt(journal, idx + 1, Len(journal), objects, objects', a)
    BY <1>1, RevertUndoes
  <2>2. journal \in Seq(EntryOver(1..Len(heap)))
        /\ Restorable(objects, journal, trie, idx, saved[id], a)
    BY <1>1, <2>1 DEF IInv, Core
  <2>3. Restorable(objects', cut, trie, idx, saved[id], a) /\ Len(cut) = idx
    <3>1. idx \in 0..idx
      BY <2>1
    <3> HIDE DEF idx
    <3> QED BY <2>1, <2>2, <3>1, RestorableCut, CutOff
  <2>4. idx + 1..Len(cut) = {}
    BY <2>1, <2>3
  <2> HIDE DEF idx, cut
  <2> QED BY <2>3, <2>4 DEF Restorable
<1>2. [][A]_vars <=> RevertRestoresNonces
  BY DEF RevertRestoresNonces
<1> HIDE DEF A
<1>3. IInv /\ [Next]_vars => [A]_vars
  BY <1>1
<1> QED BY <1>2, <1>3, Invariance, PTL DEF Spec

=============================================================================
