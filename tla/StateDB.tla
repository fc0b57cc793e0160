------------------------------- MODULE StateDB ------------------------------
(***************************************************************************)
(* The account state of internal/state/account: the object cache, the      *)
(* journal with its snapshots, and the account trie the objects are        *)
(* written to and reloaded from.                                           *)
(*                                                                         *)
(* A types.TokenAmount is a pointer to a big.Int, and AddTo/SubTo mutate   *)
(* the integer behind it.  Balances are therefore cells of a heap: a       *)
(* journal entry holds cells, not numbers.  The account trie and the disk  *)
(* are the maps they promise to be (StateTrie looks inside).  A contract's *)
(* storage trie is one slot.  StateDB has no lock: its callers serialise.  *)
(***************************************************************************)
EXTENDS Integers, Sequences, FiniteSets, SequencesExt

CONSTANTS
    Addrs,          \* account addresses
    Slots,          \* values of the storage slot
    Absent,         \* a missing map entry, an empty slot, an empty root
    MaxBalance,     \* bound on a balance
    MaxNonce,       \* bound on a nonce
    MaxJournal,     \* bound on the journal's length
    MaxRevisions,   \* bound on nested snapshots
    MaxCells        \* bound on allocated balance cells

Tokens == {"APT", "NPT"}

VARIABLES
    objects,         \* s.stateObjects: the cached StateObject of each address
    heap,            \* the big.Int values, by cell number
    trie,            \* the account trie in memory
    disk,            \* the account trie at the last committed root
    journal,         \* s.journal.entries
    validRevisions,  \* s.validRevisions; its length is s.nextRevisionID
    saved,           \* history: what each snapshot saw
    panicked         \* a nil big.Int was dereferenced; the process is gone

vars == <<objects, heap, trie, disk, journal, validRevisions, saved, panicked>>

\* An account as encodeAccount writes it; root is the committed storage root.
Account == [nonce : 0..MaxNonce, bal : [Tokens -> 0..MaxBalance],
            root : Slots \cup {Absent}]

\* A StateObject with its balances in the given cells: slot is the open storage
\* trie, dirty is Dirty().
ObjectOver(cells) ==
    [nonce : 0..MaxNonce, cell : [Tokens -> cells], root : Slots \cup {Absent},
     slot : Slots \cup {Absent}, dirty : BOOLEAN]

EntryOver(cells) ==
    [kind : {"create"}, addr : Addrs]
       \cup [kind : {"balance"}, addr : Addrs, cell : [Tokens -> cells]]
       \cup [kind : {"nonce"}, addr : Addrs, nonce : 0..MaxNonce]

Object == ObjectOver(1..MaxCells)
Entry == EntryOver(1..MaxCells)

\* Absent is nil, no object and no account; the bounds are numbers.
ASSUME StateAssumption ==
    /\ Absent \notin ObjectOver(Nat) /\ Absent \notin Account
    /\ MaxBalance \in Nat /\ MaxNonce \in Nat /\ MaxCells \in Nat

Cached(a) == objects[a] # Absent

Encode(obj, h) ==
    [nonce |-> obj.nonce, bal |-> [tk \in Tokens |-> h[obj.cell[tk]]],
     root |-> obj.root]

\* What GetNonce, GetBalanceAPT/NPT and Exist report for an address.
View(a) ==
    IF Cached(a) THEN Encode(objects[a], heap) ELSE trie[a]

TypeOK ==
    /\ objects \in [Addrs -> Object \cup {Absent}]
    /\ heap \in Seq(0..MaxBalance)
    /\ trie \in [Addrs -> Account \cup {Absent}]
    /\ disk \in [Addrs -> Account \cup {Absent}]
    /\ journal \in Seq(Entry)
    /\ validRevisions \in Seq(Nat)
    /\ Len(saved) = Len(validRevisions)
    /\ panicked \in BOOLEAN

Init ==
    /\ objects = [a \in Addrs |-> Absent]
    /\ heap = <<>>
    /\ trie = [a \in Addrs |-> Absent]
    /\ disk = [a \in Addrs |-> Absent]
    /\ journal = <<>>
    /\ validRevisions = <<>>
    /\ saved = <<>>
    /\ panicked = FALSE

-----------------------------------------------------------------------------
(* Looking an account up *)

\* decodeAccount leaves the big.Int of an empty balance nil, and newStateObject
\* copies the account: loading an account with a zero balance panics.
LoadPanics(a) ==
    ~Cached(a) /\ trie[a] # Absent /\ \E tk \in Tokens : trie[a].bal[tk] = 0

\* Two fresh cells at the end of heap h.
FreshCells(h) == [tk \in Tokens |-> IF tk = "APT" THEN Len(h) + 1 ELSE Len(h) + 2]

\* The object of an account read back from the trie.  Its storage trie is not
\* reopened from the storage root.
LoadedObject(a) ==
    [nonce |-> trie[a].nonce, cell |-> FreshCells(heap), root |-> trie[a].root,
     slot |-> Absent, dirty |-> FALSE]

\* A mutation: both balances of a new account are ZeroAmount itself, uncloned.
SharedZeroObject ==
    [nonce |-> 0, cell |-> [tk \in Tokens |-> Len(heap) + 1], root |-> Absent,
     slot |-> Absent, dirty |-> FALSE]

\* createObject clones ZeroAmount for both balances.
NewObject ==
    [nonce |-> 0, cell |-> FreshCells(heap), root |-> Absent,
     slot |-> Absent, dirty |-> FALSE]

\* GetOrNewStateObject: the cache, heap and journal once the object is cached.
GetOrNew(a) ==
    IF Cached(a) THEN [objs |-> objects, heap |-> heap, jrn |-> journal]
    ELSE IF trie[a] # Absent
    THEN [objs |-> [objects EXCEPT ![a] = LoadedObject(a)],
          heap |-> heap \o <<trie[a].bal["APT"], trie[a].bal["NPT"]>>,
          jrn  |-> journal]
    ELSE [objs |-> [objects EXCEPT ![a] = NewObject],
          heap |-> heap \o <<0, 0>>,
          jrn  |-> Append(journal, [kind |-> "create", addr |-> a])]

\* The bounds of the model: an operation journals one entry, after the entry
\* and the cells of the account's creation when it is not cached.
Room(a) ==
    LET new == IF Cached(a) THEN 0 ELSE 1
    IN  Len(journal) + new < MaxJournal /\ Len(heap) + 2 * new <= MaxCells

Alive(a) == ~panicked /\ ~LoadPanics(a) /\ Room(a)

\* Any lookup of an account whose decoded balance is nil.
PanicOnLoad(a) ==
    /\ ~panicked
    /\ LoadPanics(a)
    /\ panicked' = TRUE
    /\ UNCHANGED <<objects, heap, trie, disk, journal, validRevisions, saved>>

\* getStateObject on a miss: a read caches the object.
GetStateObject(a) ==
    /\ Alive(a)
    /\ ~Cached(a) /\ trie[a] # Absent
    /\ objects' = GetOrNew(a).objs
    /\ heap' = GetOrNew(a).heap
    /\ UNCHANGED <<trie, disk, journal, validRevisions, saved, panicked>>

CreateAccount(a) ==
    /\ Alive(a)
    /\ ~Cached(a) /\ trie[a] = Absent
    /\ objects' = GetOrNew(a).objs
    /\ heap' = GetOrNew(a).heap
    /\ journal' = GetOrNew(a).jrn
    /\ UNCHANGED <<trie, disk, validRevisions, saved, panicked>>

-----------------------------------------------------------------------------
(* Changing an account *)

\* A mutation: the change is not marked.
Untouched(obj) == obj

\* An object once one of its fields is set.
Touched(obj) == [obj EXCEPT !.dirty = TRUE]

\* AddBalanceAPT/NPT (delta > 0) and SubBalanceAPT/NPT (delta < 0; every caller
\* has checked the balance): the entry keeps the cells of both balances, then
\* the integer in the cell changes.
ChangeBalance(a, tk, delta) ==
    /\ Alive(a)
    /\ LET g   == GetOrNew(a)
           c   == g.objs[a].cell
           new == g.heap[c[tk]] + delta
       IN  /\ new \in 0..MaxBalance
           /\ heap' = [g.heap EXCEPT ![c[tk]] = new]
           /\ objects' = [g.objs EXCEPT ![a] = Touched(@)]
           /\ journal' = Append(g.jrn, [kind |-> "balance", addr |-> a, cell |-> c])
    /\ UNCHANGED <<trie, disk, validRevisions, saved, panicked>>

\* A mutation: the entry keeps the new nonce.
NonceEntryNew(a, old, new) == [kind |-> "nonce", addr |-> a, nonce |-> new]

\* journalNonceChange keeps the nonce to restore.
NonceEntry(a, old, new) == [kind |-> "nonce", addr |-> a, nonce |-> old]

\* The executor raises nonces; by one is enough to tell them apart.
SetNonce(a) ==
    /\ Alive(a)
    /\ LET g == GetOrNew(a)
           n == g.objs[a].nonce
       IN  /\ n < MaxNonce
           /\ objects' = [g.objs EXCEPT ![a] = Touched([@ EXCEPT !.nonce = n + 1])]
           /\ heap' = g.heap
           /\ journal' = Append(g.jrn, NonceEntry(a, n, n + 1))
    /\ UNCHANGED <<trie, disk, validRevisions, saved, panicked>>

\* SetStorage writes the storage trie at once and journals nothing.
SetStorage(a, v) ==
    /\ Alive(a)
    /\ LET g == GetOrNew(a)
       IN  /\ objects' = [g.objs EXCEPT ![a] = Touched([@ EXCEPT !.slot = v])]
           /\ heap' = g.heap
           /\ journal' = g.jrn
    /\ UNCHANGED <<trie, disk, validRevisions, saved, panicked>>

-----------------------------------------------------------------------------
(* Snapshots *)

Snapshot ==
    /\ ~panicked
    /\ Len(validRevisions) < MaxRevisions
    /\ validRevisions' = Append(validRevisions, Len(journal))
    /\ saved' = Append(saved, [cached |-> {a \in Addrs : Cached(a)},
                               view   |-> [a \in Addrs |-> View(a)]])
    /\ UNCHANGED <<objects, heap, trie, disk, journal, panicked>>

\* One entry's revert, on a cache-and-heap pair.  A balance entry clones what
\* its cells hold now.
Undo(e, s) ==
    IF e.kind = "create" THEN [s EXCEPT !.objs[e.addr] = Absent]
    ELSE IF s.objs[e.addr] = Absent THEN s
    ELSE IF e.kind = "nonce"
    THEN [s EXCEPT !.objs[e.addr].nonce = e.nonce, !.objs[e.addr].dirty = TRUE]
    ELSE [objs |-> [s.objs EXCEPT ![e.addr].cell = FreshCells(s.heap),
                                  ![e.addr].dirty = TRUE],
          heap |-> s.heap \o <<s.heap[e.cell["APT"]], s.heap[e.cell["NPT"]]>>]

\* A mutation: the restored revision and those above it stay valid.
BelowAll(revisions, id) == revisions

\* The revisions a revert to id leaves valid.
Below(revisions, id) == SubSeq(revisions, 1, id - 1)

\* Revision ids are counted from 1 here; an id that was not handed out, or is
\* no longer valid, panics in the code and is never passed by its callers.
RevertToSnapshot(id) ==
    /\ ~panicked
    /\ id \in 1..Len(validRevisions)
    /\ LET idx == validRevisions[id]
           s == FoldRight(Undo, SubSeq(journal, idx + 1, Len(journal)),
                          [objs |-> objects, heap |-> heap])
       IN  /\ Len(s.heap) <= MaxCells
           /\ objects' = s.objs
           /\ heap' = s.heap
           /\ journal' = SubSeq(journal, 1, idx)
    /\ validRevisions' = Below(validRevisions, id)
    /\ saved' = Below(saved, id)
    /\ UNCHANGED <<trie, disk, panicked>>

-----------------------------------------------------------------------------
(* Persistence *)

\* The trie after every dirty object's account has been put into it.
Written(objs) ==
    [a \in Addrs |->
       IF objs[a] # Absent /\ objs[a].dirty THEN Encode(objs[a], heap) ELSE trie[a]]

\* Called after every transaction: writes accounts, but not storage tries.
IntermediateRoot ==
    /\ ~panicked
    /\ trie' = Written(objects)
    /\ UNCHANGED <<objects, heap, disk, journal, validRevisions, saved, panicked>>

\* Commit sets the storage root of dirty objects with a storage trie, writes
\* the accounts and flushes the trie.  It clears neither the journal nor the
\* dirty marks.
Commit ==
    /\ ~panicked
    /\ LET objs == [a \in Addrs |->
                      IF Cached(a) /\ objects[a].dirty /\ objects[a].slot # Absent
                      THEN [objects[a] EXCEPT !.root = objects[a].slot]
                      ELSE objects[a]]
       IN  /\ objects' = objs
           /\ trie' = Written(objs)
           /\ disk' = Written(objs)
    /\ UNCHANGED <<heap, journal, validRevisions, saved, panicked>>

\* The process stops, or has panicked, and NewStateDBWithRoot opens the
\* committed root.
Restart ==
    /\ objects' = [a \in Addrs |-> Absent]
    /\ heap' = <<>>
    /\ trie' = disk
    /\ journal' = <<>>
    /\ validRevisions' = <<>>
    /\ saved' = <<>>
    /\ panicked' = FALSE
    /\ UNCHANGED disk

Next ==
    \/ \E a \in Addrs : \/ PanicOnLoad(a)
                        \/ GetStateObject(a)
                        \/ CreateAccount(a)
                        \/ SetNonce(a)
    \/ \E a \in Addrs, tk \in Tokens, delta \in {1, -1} : ChangeBalance(a, tk, delta)
    \/ \E a \in Addrs, v \in Slots : SetStorage(a, v)
    \/ Snapshot
    \/ \E id \in 1..MaxRevisions : RevertToSnapshot(id)
    \/ IntermediateRoot
    \/ Commit
    \/ Restart

Spec == Init /\ [][Next]_vars

-----------------------------------------------------------------------------
(* Properties *)

\* Snapshots nest: each valid revision points into the journal, at or after the
\* one before it, so that a revert never slices past the journal's end
\* (entries[:idx] in RevertToSnapshot) however reverts and changes alternate.
RevisionsNest ==
    \A i \in 1..Len(validRevisions) :
       /\ validRevisions[i] <= Len(journal)
       /\ i > 1 => validRevisions[i - 1] <= validRevisions[i]

\* The cache, the journal and the revisions keep their types, and snapshots nest:
\* what Snapshot and RevertToSnapshot rely on.
SnapshotsSound == TypeOK /\ RevisionsNest

\* No two live balances share a big.Int, whatever was created, loaded, reverted
\* and cloned: a credit to one account never shows in another, or in the other
\* token.
NoSharedCells ==
    \A a, b \in Addrs, x, y \in Tokens :
       Cached(a) /\ Cached(b) /\ objects[a].cell[x] = objects[b].cell[y]
          => a = b /\ x = y

\* A revert restores the nonce of every account that was cached when the
\* snapshot was taken, and drops every account created since that the trie did
\* not hold: a transaction that is rolled back can be sent again.
RevertRestoresNonces ==
    [][\A id \in 1..MaxRevisions : RevertToSnapshot(id) =>
          \A a \in Addrs :
             /\ a \in saved[id].cached => /\ objects'[a] # Absent
                                          /\ objects'[a].nonce = saved[id].view[a].nonce
             /\ a \notin saved[id].cached /\ trie[a] = Absent => objects'[a] = Absent
      ]_vars

\* The account acct holds the nonce and balances of obj; a created account that
\* stayed empty may be missing.
Same(acct, obj, h) ==
    IF acct = Absent THEN obj.nonce = 0 /\ \A tk \in Tokens : h[obj.cell[tk]] = 0
                     ELSE /\ acct.nonce = obj.nonce
                          /\ \A tk \in Tokens : acct.bal[tk] = h[obj.cell[tk]]

\* Commit and IntermediateRoot skip clean objects, so whatever was created,
\* changed, reverted, written and reloaded before, a clean object's account is
\* already in the trie as it stands: what Commit would write now (Written) holds
\* every cached nonce and balance.
CommitIsComplete ==
    \A a \in Addrs : Cached(a) => Same(Written(objects)[a], objects[a], heap)
=============================================================================
