----------------------------- MODULE MCStateDB ------------------------------
(* Model-checking instance of StateDB. *)
EXTENDS StateDB

Symmetry == Permutations(Addrs)

\* Bound: while a snapshot is open, one account exists and has no storage, whose
\* changes the journal does not see.  Accounts do not interact in a revert.
SnapshotsOfOneAccount ==
    validRevisions = <<>>
        \/ /\ Cardinality({a \in Addrs : Cached(a) \/ trie[a] # Absent}) <= 1
           /\ \A a \in Addrs : Cached(a) => objects[a].slot = Absent
=============================================================================
