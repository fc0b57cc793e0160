------------------------------ MODULE StateTrie ------------------------------
(***************************************************************************)
(* The Merkle-Patricia trie under StateDB (internal/state/mpt): nodes in   *)
(* memory, blobs in storage and the cache of decoded nodes between them.   *)
(*                                                                         *)
(* The hash of a blob is the blob itself, so equal hashes mean equal       *)
(* content and storage is the set of blobs written.  GetNode hands out the *)
(* cached node itself, not a copy, and insert, delete and commit change    *)
(* nodes in place; a cached node is therefore an object, named by the hash *)
(* it was loaded under, and the tree points at it.  A node that was never  *)
(* in the cache has one owner and is part of its owner.                    *)
(***************************************************************************)
EXTENDS Naturals, Sequences, FiniteSets, SequencesExt

CONSTANTS Keys,        \* byte strings
          Values,
          NoValue,      \* nil, as a value
          MaxCommits   \* bound of the model: calls of Commit

VARIABLES root,       \* Trie.root
          dirty,      \* Trie.dirty
          cache,      \* Database.cache: hash -> decoded node
          storage,    \* blobs on disk
          committed,  \* the root hash Commit returned last
          commits,
          fresh       \* history: nothing was read or committed yet

trieVars == <<root, dirty, cache, storage, committed, commits, fresh>>

-----------------------------------------------------------------------------
(* Nodes.  A field cached = Empty is hashValid = false. *)

Empty == [blob |-> "none"]

Nil == [kind |-> "nil"]
HashNode(h) == [kind |-> "hash", at |-> h]
NodeObject(h) == [kind |-> "object", at |-> h]

Leaf(suffix, v) ==
    [kind |-> "leaf", key |-> suffix, val |-> v, dirty |-> TRUE, cached |-> Empty]

Extension(prefix, next) ==
    [kind |-> "ext", key |-> prefix, next |-> next, dirty |-> TRUE, cached |-> Empty]

Branch(children, v) ==
    [kind |-> "branch", children |-> children, val |-> v, dirty |-> TRUE, cached |-> Empty]

(* Both a missing child and a nilNode count as no child. *)
SetChild(b, i, n) ==
    [b EXCEPT !.children = IF n = Nil THEN Restrict(@, DOMAIN @ \ {i}) ELSE (i :> n) @@ @]

KeyToNibbles(key) ==
    [i \in 1..2 * Len(key) |->
        IF i % 2 = 1 THEN key[(i + 1) \div 2] \div 16 ELSE key[i \div 2] % 16]

CommonPrefix(a, b) ==
    CHOOSE n \in 0..Len(a) :
        /\ IsPrefix(SubSeq(a, 1, n), b)
        /\ n = Len(a) \/ ~IsPrefix(SubSeq(a, 1, n + 1), b)

From(s, n) == SubSeq(s, n + 1, Len(s))

-----------------------------------------------------------------------------
(* The database.  A world w is the cache and the disk while an operation   *)
(* runs, with the blobs the operation wrote, in order.                     *)

World == [cache |-> cache, disk |-> storage, log |-> <<>>]

Deref(w, p) == IF p.kind = "object" THEN w.cache[p.at] ELSE p

(* An assignment to the fields of the node p points at. *)
Update(w, p, n) ==
    IF p.kind = "object" THEN [w |-> [w EXCEPT !.cache[p.at] = n], node |-> p]
                         ELSE [w |-> w, node |-> n]

CachedHash(w, p) ==
    CASE p.kind = "nil" -> Empty
      [] p.kind = "hash" -> p.at
      [] OTHER -> Deref(w, p).cached

EncodeNode(w, n) ==
    CASE n.kind = "leaf" -> [blob |-> "leaf", key |-> n.key, val |-> n.val]
      [] n.kind = "ext" -> [blob |-> "ext", key |-> n.key, next |-> CachedHash(w, n.next)]
      [] n.kind = "branch" ->
            [blob |-> "branch", val |-> n.val,
             children |-> [i \in DOMAIN n.children |-> CachedHash(w, n.children[i])]]

Clean(n) == [n EXCEPT !.dirty = FALSE]

Decode(b) ==
    CASE b.blob = "leaf" -> Clean(Leaf(b.key, b.val))
      [] b.blob = "ext" -> Clean(Extension(b.key, HashNode(b.next)))
      [] b.blob = "branch" ->
            LET set == {i \in DOMAIN b.children : b.children[i] # Empty}
            IN  Clean(Branch([i \in set |-> HashNode(b.children[i])], b.val))


PutNode(w, b) == [w EXCEPT !.disk = @ \cup {b}, !.log = Append(@, b)]

GetNode(w, h) ==
    CASE h = Empty -> [ok |-> TRUE, w |-> w, node |-> Nil]
      [] h \in DOMAIN w.cache -> [ok |-> TRUE, w |-> w, node |-> NodeObject(h)]
      [] h \notin DOMAIN w.cache /\ h \in w.disk ->
            [ok |-> TRUE, w |-> [w EXCEPT !.cache = (h :> Decode(h)) @@ @], node |-> NodeObject(h)]
      [] OTHER -> [ok |-> FALSE, w |-> w, node |-> Nil]

-----------------------------------------------------------------------------
(* insert *)

Extend(prefix, n) == IF prefix = <<>> THEN n ELSE Extension(prefix, n)

Place(b, rest, v) ==
    IF rest = <<>> THEN [b EXCEPT !.val = v]
                   ELSE SetChild(b, Head(rest), Leaf(Tail(rest), v))

EmptyBranch == Branch(<<>>, NoValue)

SplitLeaf(n, key, v) ==
    LET m == CommonPrefix(n.key, key)
        b == Place(EmptyBranch, From(n.key, m), n.val)
    IN  Extend(SubSeq(key, 1, m), Place(b, From(key, m), v))

SplitExtension(n, key, v) ==
    LET m == CommonPrefix(n.key, key)
        rest == From(n.key, m)
        b == SetChild(EmptyBranch, Head(rest), Extend(Tail(rest), n.next))
    IN  Extend(SubSeq(key, 1, m), Place(b, From(key, m), v))

RECURSIVE Insert(_, _, _, _)
Insert(w, p, key, v) ==
    LET n == Deref(w, p) IN
    CASE n.kind = "nil" -> [w |-> w, node |-> Leaf(key, v)]
      [] n.kind = "hash" ->
            LET r == GetNode(w, n.at) IN Insert(r.w, r.node, key, v)
      [] n.kind = "leaf" ->
            [w |-> w, node |-> IF n.key = key THEN Leaf(key, v) ELSE SplitLeaf(n, key, v)]
      [] n.kind = "ext" /\ ~IsPrefix(n.key, key) ->
            [w |-> w, node |-> SplitExtension(n, key, v)]
      [] n.kind = "ext" /\ IsPrefix(n.key, key) ->
            LET r == Insert(w, n.next, From(key, Len(n.key)), v)
            IN  Update(r.w, p, [n EXCEPT !.next = r.node, !.dirty = TRUE])
      [] n.kind = "branch" /\ key = <<>> ->
            Update(w, p, [n EXCEPT !.val = v, !.dirty = TRUE])
      [] n.kind = "branch" /\ key # <<>> ->
            LET i == Head(key)
                child == IF i \in DOMAIN n.children THEN n.children[i] ELSE Nil
                r == Insert(w, child, Tail(key), v)
            IN  Update(r.w, p, [SetChild(n, i, r.node) EXCEPT !.dirty = TRUE])

-----------------------------------------------------------------------------
(* get, in two parts: the value it returns, and what it does to the nodes  *)
(* on its way.  It answers with the node it reached as well, and a branch  *)
(* takes that node as its child; an extension answers with what the search *)
(* below it answers.  Reached.self is the node searched, after the changes *)
(* made in place.                                                          *)

RECURSIVE Found(_, _, _)
Found(w, nodes, key) ==
    UNION {
        CASE n.kind = "object" -> Found(w, {w.cache[n.at]}, key)
          [] n.kind = "hash" /\ n.at \in DOMAIN w.cache -> Found(w, {w.cache[n.at]}, key)
          [] n.kind = "hash" /\ n.at \in w.disk \ DOMAIN w.cache -> Found(w, {Decode(n.at)}, key)
          [] n.kind = "leaf" /\ n.key = key -> {n.val}
          [] n.kind = "ext" /\ IsPrefix(n.key, key) -> Found(w, {n.next}, From(key, Len(n.key)))
          [] n.kind = "branch" /\ key = <<>> -> {n.val}
          [] n.kind = "branch" /\ key # <<>> /\ Head(key) \in DOMAIN n.children ->
                Found(w, {n.children[Head(key)]}, Tail(key))
          [] OTHER -> {} : n \in nodes }

Value(w, n, key) ==
    LET found == Found(w, {n}, KeyToNibbles(key))
    IN  IF found = {} THEN NoValue ELSE CHOOSE v \in found : TRUE

RECURSIVE Reached(_, _, _)
Reached(w, p, key) ==
    LET n == Deref(w, p)
        stop == [w |-> w, self |-> p, node |-> p] IN
    CASE n.kind = "hash" ->
            LET r == GetNode(w, n.at)
            IN  IF r.ok THEN [Reached(r.w, r.node, key) EXCEPT !.self = p] ELSE stop
      [] n.kind = "ext" /\ IsPrefix(n.key, key) ->
            LET r == Reached(w, n.next, From(key, Len(n.key)))
                u == Update(r.w, p, [n EXCEPT !.next = r.self])
            IN  [r EXCEPT !.w = u.w, !.self = u.node]
      [] n.kind = "branch" /\ key # <<>> /\ Head(key) \in DOMAIN n.children ->
            LET r == Reached(w, n.children[Head(key)], Tail(key))
                u == Update(r.w, p, SetChild(n, Head(key), r.node))
            IN  [w |-> u.w, self |-> u.node, node |-> u.node]
      [] OTHER -> stop

-----------------------------------------------------------------------------
(* delete *)

MergeExtension(w, p, n) ==
    LET child == Deref(w, n.next)
        kept == Update(w, p, n) IN
    CASE child.kind = "ext" ->
            Update(w, p, [n EXCEPT !.key = @ \o child.key, !.next = child.next])
      [] child.kind = "leaf" -> [w |-> kept.w, node |-> Leaf(n.key \o child.key, child.val)]
      [] child.kind = "nil" -> [w |-> kept.w, node |-> Nil]
      [] OTHER -> kept

(* Mutant of Reduce: the merged leaf loses the branch's nibble. *)
ReduceLosingNibble(i, p, child, n) ==
    IF child.kind = "leaf" THEN Leaf(child.key, child.val) ELSE n

(* A branch with one child left; a child that is still a hash stays put. *)
Reduce(i, p, child, n) ==
    CASE child.kind = "leaf" -> Leaf(<<i>> \o child.key, child.val)
      [] child.kind = "ext" -> Extension(<<i>> \o child.key, child.next)
      [] child.kind = "branch" -> Extension(<<i>>, p)
      [] OTHER -> n

CompactBranch(w, p, n) ==
    LET kept == Update(w, p, n) IN
    CASE n.children = <<>> /\ n.val = NoValue -> [w |-> kept.w, node |-> Nil]
      [] Cardinality(DOMAIN n.children) = 1 /\ n.val = NoValue ->
            LET i == CHOOSE j \in DOMAIN n.children : TRUE
                c == n.children[i]
            IN  [w |-> kept.w, node |-> Reduce(i, c, Deref(w, c), kept.node)]
      [] OTHER -> kept

RECURSIVE Erase(_, _, _)
Erase(w, p, key) ==
    LET n == Deref(w, p)
        same == [w |-> w, node |-> p] IN
    CASE n.kind = "nil" -> same
      [] n.kind = "hash" ->
            LET r == GetNode(w, n.at) IN IF r.ok THEN Erase(r.w, r.node, key) ELSE same
      [] n.kind = "leaf" -> IF n.key = key THEN [same EXCEPT !.node = Nil] ELSE same
      [] n.kind = "ext" ->
            IF ~IsPrefix(n.key, key) THEN same
            ELSE LET r == Erase(w, n.next, From(key, Len(n.key)))
                 IN  MergeExtension(r.w, p, [n EXCEPT !.next = r.node, !.dirty = TRUE])
      [] n.kind = "branch" /\ key = <<>> ->
            CompactBranch(w, p, [n EXCEPT !.val = NoValue, !.dirty = TRUE])
      [] n.kind = "branch" /\ key # <<>> ->
            IF Head(key) \notin DOMAIN n.children
            THEN CompactBranch(w, p, [n EXCEPT !.dirty = TRUE])
            ELSE LET r == Erase(w, n.children[Head(key)], Tail(key))
                 IN  CompactBranch(r.w, p, [SetChild(n, Head(key), r.node) EXCEPT !.dirty = TRUE])

-----------------------------------------------------------------------------
(* commitNode: children first; a node that is clean and hashed is skipped. *)

Write(w, p, n) ==
    IF ~n.dirty /\ n.cached # Empty THEN Update(w, p, n)
    ELSE LET b == EncodeNode(w, n)
         IN  Update(PutNode(w, b), p, [n EXCEPT !.cached = b, !.dirty = FALSE])

RECURSIVE CommitNode(_, _)
CommitNode(w, p) ==
    LET n == Deref(w, p)
        CommitChild(r, i) ==
            LET c == CommitNode(r.w, r.node.children[i])
            IN  [w |-> c.w, node |-> SetChild(r.node, i, HashNode(CachedHash(c.w, c.node)))]
    IN
    CASE n.kind \in {"nil", "hash"} -> [w |-> w, node |-> p]
      [] n.kind = "leaf" -> Write(w, p, n)
      [] n.kind = "ext" ->
            LET r == CommitNode(w, n.next) IN Write(r.w, p, [n EXCEPT !.next = r.node])
      [] n.kind = "branch" ->
            LET r == FoldLeft(CommitChild, [w |-> w, node |-> n],
                                SetToSortSeq(DOMAIN n.children, <))
            IN  Write(r.w, p, r.node)

-----------------------------------------------------------------------------
(* Operations *)

TrieInit ==
    /\ root = Nil
    /\ dirty = FALSE
    /\ cache = <<>>
    /\ storage = {}
    /\ committed = Empty
    /\ commits = 0
    /\ fresh = TRUE

RootHash == CachedHash(World, root)

Put(k, v) ==
    LET r == Insert(World, root, KeyToNibbles(k), v) IN
    /\ dirty' = TRUE
    /\ root' = r.node
    /\ cache' = r.w.cache
    /\ UNCHANGED <<storage, committed, commits, fresh>>

Get(k) ==
    LET r == Reached(World, root, KeyToNibbles(k)) IN
    /\ root' = r.self
    /\ cache' = r.w.cache
    /\ fresh' = FALSE
    /\ UNCHANGED <<dirty, storage, committed, commits>>

Delete(k) ==
    LET r == Erase(World, root, KeyToNibbles(k)) IN
    /\ dirty' = TRUE
    /\ root' = r.node
    /\ cache' = r.w.cache
    /\ UNCHANGED <<storage, committed, commits, fresh>>

NothingToCommit == ~dirty /\ (root = Nil \/ RootHash # Empty)

CommitTrie ==
    LET r == CommitNode(World, root) IN
    /\ commits < MaxCommits
    /\ ~NothingToCommit
    /\ root' = r.node
    /\ cache' = r.w.cache
    /\ storage' = r.w.disk
    /\ committed' = CachedHash(r.w, r.node)
    /\ dirty' = FALSE
    /\ commits' = commits + 1
    /\ fresh' = FALSE

(* Commit finds nothing to do and returns the root's hash. *)
CommitClean ==
    /\ NothingToCommit
    /\ committed' = RootHash
    /\ UNCHANGED <<root, dirty, cache, storage, commits, fresh>>

(* NewTrie at the last root over a new Database. *)
Reopen ==
    /\ root' = IF committed = Empty THEN Nil ELSE HashNode(committed)
    /\ dirty' = FALSE
    /\ cache' = <<>>
    /\ fresh' = (committed = Empty)

RestartTrie == Reopen /\ UNCHANGED <<storage, committed, commits>>

(* The process stops after some of the writes of a commit. *)
CrashInCommit ==
    LET log == CommitNode(World, root).w.log IN
    /\ commits < MaxCommits
    /\ ~NothingToCommit
    /\ \E n \in 1..Len(log) : storage' = storage \cup ToSet(SubSeq(log, 1, n))
    /\ Reopen
    /\ commits' = commits + 1
    /\ UNCHANGED committed

TrieNext ==
    \/ \E k \in Keys : Get(k) \/ Delete(k) \/ \E v \in Values : Put(k, v)
    \/ CommitTrie
    \/ CommitClean
    \/ RestartTrie
    \/ CrashInCommit

TrieSpec == TrieInit /\ [][TrieNext]_trieVars

-----------------------------------------------------------------------------
(* Properties *)

OnDisk == [cache |-> <<>>, disk |-> storage, log |-> <<>>]

(* What Get would answer, in memory and from the committed root alone. *)
Contents == [k \in Keys |-> Value(World, root, k)]
Persisted == [k \in Keys |-> Value(OnDisk, HashNode(committed), k)]

Map == INSTANCE DurableMap WITH map <- Contents, durable <- Persisted

(* "Get retrieves a value by key" and "Put inserts or updates a key-value  *)
(* pair" (trie.go:56,67), so the trie is a map: Put and Delete change one  *)
(* key and Get none, Commit makes exactly the current map durable, and a   *)
(* restart or a crash in a commit goes back to the last committed map.     *)
ImplementsMap == Map!Spec

(* As long as nothing was read back, through every split and merge of      *)
(* nodes, Put and Delete change exactly their key and Commit writes a root *)
(* from which exactly the current map is read.                             *)
FreshTrieIsMap ==
    [][trieVars' # trieVars /\ fresh =>
        /\ \A k \in Keys : Delete(k) => Contents' = [Contents EXCEPT ![k] = NoValue]
        /\ \A k \in Keys, v \in Values : Put(k, v) => Contents' = [Contents EXCEPT ![k] = v]
        /\ CommitTrie => Contents' = Contents /\ Persisted' = Contents]_trieVars

RECURSIVE Blobs(_)
Blobs(h) ==
    CASE h = Empty -> {}
      [] h.blob = "leaf" -> {h}
      [] h.blob = "ext" -> {h} \cup Blobs(h.next)
      [] h.blob = "branch" -> {h} \cup UNION {Blobs(h.children[i]) : i \in DOMAIN h.children}

(* Every blob below the committed root is on disk: commitNode skips a node *)
(* that is clean, and an earlier commit must then have written it.         *)
RootIsComplete == Blobs(committed) \subseteq storage


=============================================================================
