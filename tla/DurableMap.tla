------------------------------ MODULE DurableMap ------------------------------
(***************************************************************************)
(* What a state trie promises to StateDB: a map from keys to values whose  *)
(* last committed version, and nothing else, survives a restart.  Reading  *)
(* leaves it as it is.                                                     *)
(***************************************************************************)
CONSTANTS Keys, Values, NoValue

VARIABLES map,      \* the map as readers see it
          durable   \* the version last committed

vars == <<map, durable>>

Init ==
    /\ map = [k \in Keys |-> NoValue]
    /\ durable = map

\* In Put and Delete the first conjunct follows from the second, and is cheaper
\* to evaluate under a refinement mapping.
Put(k, v) ==
    /\ map'[k] = v
    /\ map' = [map EXCEPT ![k] = v]
    /\ UNCHANGED durable

Delete(k) ==
    /\ map'[k] = NoValue
    /\ map' = [map EXCEPT ![k] = NoValue]
    /\ UNCHANGED durable

Commit ==
    /\ durable' = map
    /\ UNCHANGED map

Restart ==
    /\ map' = durable
    /\ UNCHANGED durable

Next ==
    \/ \E k \in Keys : Delete(k) \/ \E v \in Values : Put(k, v)
    \/ Commit
    \/ Restart

Spec == Init /\ [][Next]_vars
=============================================================================
