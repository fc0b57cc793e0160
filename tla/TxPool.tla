------------------------------- MODULE TxPool -------------------------------
(***************************************************************************)
(* The transaction pool, internal/txpool.                                  *)
(*                                                                         *)
(* Every operation runs under p.mu, so it is one step of the goroutine     *)
(* that called it, taken when the mutex is free.  The mutex matters        *)
(* because evictLowest, which runs with p.mu held, calls Remove, which     *)
(* locks p.mu again.  A txSortedMap holds one transaction per nonce and is *)
(* the set of its transactions; a transaction's hash is its identity.      *)
(***************************************************************************)
EXTENDS Integers, FiniteSets

CONSTANTS
    Senders,           \* senders
    Clients,         \* goroutines that use the pool
    Free,            \* the mutex has no owner
    Txs,             \* the transactions that exist
    MaxTxs,          \* config.MaxTxs
    MaxAccountTxs,   \* config.MaxAccountTxs
    MaxQueuedNonce,  \* config.MaxQueuedNonce
    MaxNonce         \* bound on on-chain nonces

\* ok stands for a signature, the pool's chain ID and a gas limit above zero.
Transaction == [from : Senders, nonce : Nat, price : Nat, ok : BOOLEAN]

Prices == {tx.price : tx \in Txs}

ASSUME TxsAssumption == \A tx \in Txs : tx \in Transaction
ASSUME FiniteAssumption == IsFiniteSet(Txs)
ASSUME OwnerAssumption == Free \notin Clients
ASSUME BoundsAssumption ==
    /\ MaxTxs \in Nat /\ MaxAccountTxs \in Nat \ {0}
    /\ MaxQueuedNonce \in Nat /\ MaxNonce \in Nat

VARIABLES
    pending,       \* p.pending, per sender
    queued,        \* p.queued, per sender
    all,           \* p.all
    currentNonces, \* p.currentNonces
    baseGasPrice,  \* p.baseGasPrice
    waiting,       \* the clients inside a call
    mu             \* the client that keeps p.mu, or Free between operations

poolVars == <<pending, queued, all, currentNonces, baseGasPrice>>
txVars == <<poolVars, waiting, mu>>

\* A txSortedMap of sender a: its own transactions, one per nonce.
SortedMap(a) ==
    {m \in SUBSET Txs :
        /\ \A t \in m : t.from = a
        /\ \A t, u \in m : t.nonce = u.nonce => t = u}

TypeOK ==
    /\ DOMAIN pending = Senders /\ DOMAIN queued = Senders
    /\ \A a \in Senders : pending[a] \in SortedMap(a) /\ queued[a] \in SortedMap(a)
    /\ all \in SUBSET Txs
    /\ currentNonces \in [Senders -> 0..MaxNonce]
    /\ baseGasPrice \in Prices \cup {0}
    /\ waiting \in SUBSET Clients
    /\ mu \in Clients \cup {Free}

TxInit ==
    /\ pending = [a \in Senders |-> {}]
    /\ queued = [a \in Senders |-> {}]
    /\ all = {}
    /\ currentNonces = [a \in Senders |-> 0]
    /\ baseGasPrice = 0
    /\ waiting = {}
    /\ mu = Free

-----------------------------------------------------------------------------
(* The txSortedMap *)

Put(m, tx) == {t \in m : t.nonce # tx.nonce} \cup {tx}

Without(m, nonce) == {t \in m : t.nonce # nonce}

\* What enqueuePending drops from a full account: the lowest nonce.
Dropped(m) ==
    IF Cardinality(m) < MaxAccountTxs THEN {}
    ELSE {t \in m : \A u \in m : t.nonce <= u.nonce}

EnqueuePending(m, tx) == Put(m \ Dropped(m), tx)

-----------------------------------------------------------------------------
(* Calls *)

\* A client calls an operation of the pool and waits for the mutex.
Call(c) ==
    /\ c \notin waiting
    /\ waiting' = waiting \cup {c}
    /\ UNCHANGED <<poolVars, mu>>

\* Client c has the mutex, runs its operation and returns.
Runs(c) ==
    /\ c \in waiting /\ mu = Free
    /\ waiting' = waiting \ {c}
    /\ UNCHANGED mu

AtCapacity == Cardinality(all) >= MaxTxs

\* The checks of Add before the capacity check.
Acceptable(tx) == tx \notin all /\ tx.ok /\ tx.price >= baseGasPrice

\* The checks of Add after it.
InNonceRange(tx) ==
    tx.nonce \in currentNonces[tx.from]..(currentNonces[tx.from] + MaxQueuedNonce)

AddPending(c, tx) ==
    /\ Runs(c)
    /\ Acceptable(tx) /\ ~AtCapacity
    /\ InNonceRange(tx) /\ tx.nonce = currentNonces[tx.from]
    /\ pending' = [pending EXCEPT ![tx.from] = EnqueuePending(@, tx)]
    /\ all' = (all \ Dropped(pending[tx.from])) \cup {tx}
    /\ UNCHANGED <<queued, currentNonces, baseGasPrice>>

AddQueued(c, tx) ==
    /\ Runs(c)
    /\ Acceptable(tx) /\ ~AtCapacity
    /\ InNonceRange(tx) /\ tx.nonce > currentNonces[tx.from]
    /\ queued' = [queued EXCEPT ![tx.from] = Put(@, tx)]
    /\ all' = all \cup {tx}
    /\ UNCHANGED <<pending, currentNonces, baseGasPrice>>

\* A mutation: the early returns leave the mutex locked.
AddRefusedLocked(c, tx) ==
    /\ c \in waiting /\ mu = Free
    /\ ~Acceptable(tx)
    /\ mu' = c
    /\ UNCHANGED <<poolVars, waiting>>

\* Known, malformed, underpriced, or out of the nonce range; or the pool is full
\* with nothing to evict.
AddRefused(c, tx) ==
    /\ Runs(c)
    /\ \/ ~Acceptable(tx)
       \/ AtCapacity /\ all = {}
       \/ ~AtCapacity /\ ~InNonceRange(tx)
    /\ UNCHANGED poolVars

\* At capacity Add calls evictLowest, and that Remove, which waits for the mutex
\* its own caller holds: the call does not return and the mutex is not released.
AddEvicts(c, tx) ==
    /\ c \in waiting /\ mu = Free
    /\ Acceptable(tx) /\ AtCapacity /\ all # {}
    /\ mu' = c
    /\ UNCHANGED <<poolVars, waiting>>

\* A mutation: only the pending map is searched.
RemovePendingOnly(c, tx) ==
    /\ Runs(c)
    /\ tx \in all
    /\ pending' = [pending EXCEPT ![tx.from] = Without(@, tx.nonce)]
    /\ all' = all \ {tx}
    /\ UNCHANGED <<queued, currentNonces, baseGasPrice>>

\* Remove: by hash in p.all, but by nonce in the two maps.
Remove(c, tx) ==
    /\ Runs(c)
    /\ tx \in all
    /\ pending' = [pending EXCEPT ![tx.from] = Without(@, tx.nonce)]
    /\ queued' = [queued EXCEPT ![tx.from] = Without(@, tx.nonce)]
    /\ all' = all \ {tx}
    /\ UNCHANGED <<currentNonces, baseGasPrice>>

SetGasPrice(c, price) ==
    /\ Runs(c)
    /\ baseGasPrice' = price
    /\ UNCHANGED <<pending, queued, all, currentNonces>>

\* Pending, Get, Nonce, Stats, and Remove of an unknown transaction.
Read(c) ==
    /\ Runs(c)
    /\ UNCHANGED poolVars

-----------------------------------------------------------------------------
(* Reset, after a block is finalized *)

\* A mutation: nothing is promoted for a sender that has pending transactions.
PromotedIfIdle(a, nonce) == {t \in queued[a] : t.nonce = nonce /\ pending[a] = {}}

\* The queued transaction that has the sender's new nonce, if there is one.
Promoted(a, nonce) == {t \in queued[a] : t.nonce = nonce}

\* The pending map of a once the promoted transaction is enqueued.
WithPromoted(a, nonce) ==
    IF Promoted(a, nonce) = {} THEN pending[a]
    ELSE EnqueuePending(pending[a], CHOOSE t \in Promoted(a, nonce) : TRUE)

\* A mutation: the transaction just executed counts as current.
StaleLate(m, nonce) == {t \in m : t.nonce < nonce - 1}

\* The last loop of Reset: what it takes out of a pending map.
Stale(m, nonce) == {t \in m : t.nonce < nonce}

\* What Reset deletes from p.all on account of sender a.
Forgotten(a, nonce) ==
    (IF Promoted(a, nonce) = {} THEN {} ELSE Dropped(pending[a]))
        \cup Stale(WithPromoted(a, nonce), nonce)

\* Finalized nonces never go down.
Reset(c, newNonces) ==
    /\ Runs(c)
    /\ \A a \in Senders : newNonces[a] >= currentNonces[a]
    /\ currentNonces' = newNonces
    /\ queued' = [a \in Senders |-> queued[a] \ Promoted(a, newNonces[a])]
    /\ pending' = [a \in Senders |->
           WithPromoted(a, newNonces[a]) \ Stale(WithPromoted(a, newNonces[a]), newNonces[a])]
    /\ all' = all \ UNION {Forgotten(a, newNonces[a]) : a \in Senders}
    /\ UNCHANGED baseGasPrice

-----------------------------------------------------------------------------

Operation(c) ==
    \/ \E tx \in Txs :
           \/ AddPending(c, tx)
           \/ AddQueued(c, tx)
           \/ AddRefused(c, tx)
           \/ AddEvicts(c, tx)
           \/ Remove(c, tx)
    \/ \E price \in Prices : SetGasPrice(c, price)
    \/ \E newNonces \in [Senders -> 0..MaxNonce] : Reset(c, newNonces)
    \/ Read(c)

TxNext == \E c \in Clients : Call(c) \/ Operation(c)

\* sync.RWMutex hands a free lock to every goroutine that waits for it.
TxFairness == \A c \in Clients : WF_txVars(Operation(c))

TxSpec == TxInit /\ [][TxNext]_txVars
FairTxSpec == TxSpec /\ TxFairness

-----------------------------------------------------------------------------
(* Properties *)

\* Whatever a block producer is offered or may be offered later is known by its
\* hash, so that Get finds it and Add refuses it a second time.
MapsAreIndexed == \A a \in Senders : pending[a] \cup queued[a] \subseteq all

\* The pool never holds more than MaxTxs transactions.
WithinCapacity == Cardinality(all) <= MaxTxs

\* Pending only offers transactions the next block can execute: each has its
\* sender's current nonce, through Adds, replacements and Resets.
PendingIsCurrent ==
    \A a \in Senders : \A t \in pending[a] : t.nonce = currentNonces[a]

\* No transaction is left in the queue once its nonce is due.
DueIsNotQueued ==
    \A a \in Senders : \A t \in queued[a] : t.nonce # currentNonces[a]

\* Only a full pool, whose Add waits for the mutex it holds, can keep a caller
\* waiting: every other call gets the mutex and returns.
CallsReturnUnlessFull ==
    \A c \in Clients : c \in waiting ~> c \notin waiting \/ AtCapacity
=============================================================================
