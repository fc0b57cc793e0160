------------------------------ MODULE PeerSync ------------------------------
(***************************************************************************)
(* A node's peers and its block synchronization: the peer manager of       *)
(* internal/p2p/peer/manager.go, the dialling of internal/p2p/discovery    *)
(* and the status and block protocols of internal/p2p/protocol/handler.go. *)
(*                                                                         *)
(* The network (libp2p, external) opens and closes connections and tells   *)
(* the manager of a new one some time later; closings the manager leaves   *)
(* to a goroutine happen some time later too.  Both are separate steps     *)
(* here.  A remote peer runs the same protocol handlers; its chain, kept   *)
(* in memory, is gone when it restarts.  Any exchange with a peer may      *)
(* fail, and since the streams have no deadline a peer that falls silent   *)
(* is waited for until its connection is lost.                             *)
(*                                                                         *)
(* SyncToBestChain counts the blocks it receives and drops them (the       *)
(* insertion is a TODO in the code), so a synchronization leaves the chain *)
(* as it was.  The counts and latencies of a peer's messages decide        *)
(* nothing but its validity, which decides nothing but whether prune may   *)
(* close it; a peer's validity may be anything here.                       *)
(***************************************************************************)
EXTENDS Integers, Sequences, FiniteSets, FiniteSetsExt

CONSTANTS
    Peers,         \* remote peers
    MaxPeers,      \* Config.MaxPeers
    Protected,     \* peers the connection manager protects from pruning
    Batch,         \* blocks asked for at a time, 64 in the code
    RequestMax,    \* MaxBlocks of a synchronization's request, 128 in the code
    HeightWord,    \* heights wrap at this, 2^64 in the code
    Outsiders,     \* peers that may have another genesis block
    Suspects,      \* peers that may be banned
    Unreliable,    \* peers that may restart or fall silent
    Requests,      \* block requests the node may be sent
    MaxHeight      \* bound on heights

ASSUME SizesAssumption ==
    /\ MaxPeers \in Nat /\ Protected \subseteq Peers /\ Outsiders \subseteq Peers
    /\ Suspects \subseteq Peers /\ Unreliable \subseteq Peers
    /\ Batch \in Nat \ {0} /\ RequestMax \in Nat /\ Batch < RequestMax
ASSUME HeightsAssumption == MaxHeight \in Nat /\ HeightWord \in Nat /\ MaxHeight + 1 < HeightWord
ASSUME RequestsAssumption == Requests \subseteq [start : Nat, end : Nat, max : Nat]

VARIABLES
    connected,  \* the peers the network has a connection to
    notices,    \* connections the manager has not been told of yet
    blacklist,  \* the keys of m.blacklist; nothing deletes one
    expired,    \* those whose time is over
    closing,    \* goroutines that are about to close a peer
    silent,     \* peers that accept requests and do not answer
    foreign,    \* peers with another genesis block
    heights,    \* the height of each peer's chain
    height,     \* the height of the node's own chain
    sync        \* the call of SyncToBestChain in progress, or the last one

manager == <<connected, notices, blacklist, expired, closing>>
chains == <<silent, foreign, heights, height>>
syncVars == <<connected, notices, blacklist, expired, closing, silent, foreign, heights,
              height, sync>>

\* A synchronization: todo are the peers still to be asked for their status; base
\* is the height it started from; best, from and ch are bestHeight, bestPeer and
\* ch; got are the heights received, in order.
Idle == [phase |-> "idle", todo |-> {}, base |-> 0, best |-> 0, from |-> "none",
         ch |-> 0, got |-> <<>>]

SyncInit ==
    /\ connected = {} /\ notices = {} /\ blacklist = {} /\ expired = {} /\ closing = {}
    /\ silent = {}
    /\ foreign \in SUBSET Outsiders
    /\ heights = [p \in Peers |-> 0] /\ height = 0
    /\ sync = Idle

-----------------------------------------------------------------------------
(* The network and the discovery *)

Opened(p) == connected' = connected \cup {p} /\ notices' = notices \cup {p}

Closed(p) == connected' = connected \ {p}

\* A peer connects by itself, or the discovery dials one it has found and has no
\* connection to, banned or not.
Connect(p) ==
    /\ p \notin connected
    /\ Opened(p)
    /\ UNCHANGED <<blacklist, expired, closing, chains, sync>>

\* A connection is lost.  onDisconnected only notes the time.
Lose(p) ==
    /\ p \in connected
    /\ Closed(p)
    /\ UNCHANGED <<notices, blacklist, expired, closing, chains, sync>>

-----------------------------------------------------------------------------
(* The peer manager *)

\* A mutation: the blacklist is not consulted.
OnConnectedUnchecked(p) ==
    /\ p \in notices
    /\ notices' = notices \ {p}
    /\ UNCHANGED <<connected, closing, blacklist, expired, chains, sync>>

\* Whether the ban has expired is not looked at.
OnConnected(p) ==
    /\ p \in notices
    /\ notices' = notices \ {p}
    /\ closing' = IF p \in blacklist THEN closing \cup {p} ELSE closing
    /\ UNCHANGED <<connected, blacklist, expired, chains, sync>>

\* The goroutine onConnected or prune started.
ClosePeer(p) ==
    /\ p \in closing
    /\ closing' = closing \ {p}
    /\ Closed(p)
    /\ UNCHANGED <<notices, blacklist, expired, chains, sync>>

\* Ban starts the time anew and closes the peer's connections itself.
Ban(p) ==
    /\ p \in Suspects
    /\ blacklist' = blacklist \cup {p}
    /\ expired' = expired \ {p}
    /\ Closed(p)
    /\ UNCHANGED <<notices, closing, chains, sync>>

\* The ban's time is over.
Expire(p) ==
    /\ p \in blacklist \ expired
    /\ expired' = expired \cup {p}
    /\ UNCHANGED <<connected, notices, blacklist, closing, chains, sync>>

IsBlacklisted(p) == p \in blacklist \ expired

\* prune hands the first candidates, in no particular order, to goroutines: what
\* it closes are unprotected peers of low validity, as many as are in excess.
Prune ==
    /\ Cardinality(connected) > MaxPeers
    /\ \E out \in SUBSET (connected \ Protected) :
          /\ Cardinality(out) <= Cardinality(connected) - MaxPeers
          /\ closing' = closing \cup out
    /\ UNCHANGED <<connected, notices, blacklist, expired, chains, sync>>

-----------------------------------------------------------------------------
(* Synchronization *)

\* The chains grow.
OwnBlock ==
    /\ height < MaxHeight
    /\ height' = height + 1
    /\ UNCHANGED <<manager, silent, foreign, heights, sync>>

\* How far the chain of a foreign peer is decides nothing.
PeerBlock(p) ==
    /\ p \notin foreign /\ heights[p] < MaxHeight
    /\ heights' = [heights EXCEPT ![p] = @ + 1]
    /\ UNCHANGED <<manager, silent, foreign, height, sync>>

\* A peer restarts: its connection is lost and its chain back at the genesis block.
PeerRestarts(p) ==
    /\ p \in Unreliable
    /\ Closed(p)
    /\ heights' = [heights EXCEPT ![p] = 0] /\ silent' = silent \ {p}
    /\ UNCHANGED <<notices, blacklist, expired, closing, foreign, height, sync>>

FallSilent(p) ==
    /\ p \in Unreliable \ silent
    /\ silent' = silent \cup {p}
    /\ UNCHANGED <<manager, foreign, heights, height, sync>>

\* A mutation: a range that is not cut is one block short too.
LastServedShort(start, end, max) ==
    IF end - start > max THEN (start + max - 1) % HeightWord ELSE end - 1

\* The last height handleBlockSync looks for.  A range of max + 1 blocks is not
\* cut, and a request for zero blocks from height zero wraps around.
LastServed(start, end, max) ==
    IF end - start > max THEN (start + max - 1) % HeightWord ELSE end

\* The heights handleBlockSync sends from a chain of height h: the loop ends at
\* the first height that has no block.
HandleBlockSync(start, end, max, h) ==
    LET last == Min({LastServed(start, end, max), h})
    IN  IF end < start THEN <<>> ELSE [i \in 1..(last - start + 1) |-> start + i - 1]

SyncToBestChain ==
    /\ sync.phase = "idle"
    /\ connected # {}
    /\ sync' = [phase |-> "status", todo |-> connected, base |-> height, best |-> height,
                from |-> "none", ch |-> height, got |-> <<>>]
    /\ UNCHANGED <<manager, chains>>

\* handleStatus answers only a request that names its own genesis block.
HandleStatus(p) == p \in connected /\ p \notin foreign

\* A request to p returns: with an answer, or because there is no connection.
Returns(p) == p \notin connected \/ p \notin silent

\* What follows the last status: nothing to do, or the first request.
Surveyed(s) ==
    [s EXCEPT !.phase = IF s.todo # {} THEN "status"
                        ELSE IF s.best <= s.base THEN "done" ELSE "blocks"]

RequestStatus(p) ==
    /\ sync.phase = "status"
    /\ p \in sync.todo /\ Returns(p)
    /\ \/ /\ HandleStatus(p)
          /\ heights[p] > sync.best
          /\ sync' = Surveyed([sync EXCEPT !.todo = @ \ {p}, !.best = heights[p], !.from = p])
       \/ sync' = Surveyed([sync EXCEPT !.todo = @ \ {p}])
    /\ UNCHANGED <<manager, chains>>

\* A mutation: the block already held is asked for again.
FirstWantedAgain == sync.ch

FirstWanted == sync.ch + 1

LastWanted == Min({sync.ch + Batch, sync.best})

\* One turn of the download loop.  An answer of no blocks is no error, and the same
\* request follows.
RequestBlocks ==
    /\ sync.phase = "blocks"
    /\ sync.from \in connected \ silent
    /\ LET blocks == HandleBlockSync(FirstWanted, LastWanted, RequestMax, heights[sync.from])
           ch     == sync.ch + Len(blocks)
       IN  sync' = [sync EXCEPT !.ch = ch, !.got = @ \o blocks,
                                !.phase = IF ch < sync.best THEN "blocks" ELSE "done"]
    /\ UNCHANGED <<manager, chains>>

\* The request fails and SyncToBestChain returns the error.
RequestFails ==
    /\ sync.phase = "blocks"
    /\ sync' = [sync EXCEPT !.phase = "done"]
    /\ UNCHANGED <<manager, chains>>

\* SyncToBestChain returns the number of blocks received.
Return ==
    /\ sync.phase = "done"
    /\ sync' = Idle
    /\ UNCHANGED <<manager, chains>>

SyncNext ==
    \/ \E p \in Peers : Connect(p) \/ Lose(p) \/ OnConnected(p)
                          \/ ClosePeer(p) \/ Ban(p) \/ PeerBlock(p) \/ RequestStatus(p)
                          \/ Expire(p) \/ PeerRestarts(p) \/ FallSilent(p)
    \/ Prune \/ OwnBlock \/ SyncToBestChain \/ RequestBlocks \/ RequestFails \/ Return

SyncSpec == SyncInit /\ [][SyncNext]_syncVars

\* The peer a synchronization waits for does not answer; which peer is asked next
\* is open, so any silent one may be it.
WaitsForSilent ==
    \/ sync.phase = "status" /\ \E p \in sync.todo : ~Returns(p)
    \/ sync.phase = "blocks" /\ sync.from \in connected /\ ~Returns(sync.from)

\* The network delivers its notices and started goroutines run; a synchronization
\* goes on while nobody it may be waiting for is silent, and no request need fail
\* while its peer is connected.
SyncFairness ==
    /\ \A p \in Peers : WF_syncVars(OnConnected(p)) /\ WF_syncVars(ClosePeer(p))
    /\ WF_syncVars(~WaitsForSilent /\ (\/ \E p \in Peers : RequestStatus(p)
                                       \/ RequestBlocks
                                       \/ sync.from \notin connected /\ RequestFails
                                       \/ Return))

FairSyncSpec == SyncSpec /\ SyncFairness

-----------------------------------------------------------------------------
(* Properties *)

\* However connections, notices, dials and the ban interleave, a banned peer is
\* cut off again, by Ban or by the goroutine its next connection starts, unless
\* its ban expires first.
BannedIsCutOff ==
    \A p \in Peers : p \in connected /\ IsBlacklisted(p)
                        ~> p \notin connected \/ ~IsBlacklisted(p)

\* "Ban bans a peer for the configured duration" (manager.go:186), and
\* IsBlacklisted says no once it is over: a new connection of a peer whose ban has
\* expired is not closed for it.
ExpiredIsNoBan ==
    [][\A p \in Peers : p \in notices \ notices' /\ p \in expired
                            => p \notin closing' \ closing]_syncVars

\* The peer chosen as the source no longer has the next block it reported.
SourceFellBack ==
    sync.phase = "blocks" /\ sync.from \in connected /\ heights[sync.from] <= sync.ch

\* A synchronization ends, though the peer it reads from may grow, fail or go,
\* unless it waits for a silent peer or asks a source that fell back again and again:
\* there is no other way for the two loops not to end.
SyncEnds ==
    sync.phase # "idle" ~> sync.phase = "idle" \/ WaitsForSilent \/ SourceFellBack

\* However short the answers are, the heights received are those after the node's
\* own, each once and in order, up to the best height reported, and the source is a
\* peer with the node's genesis block that was ahead of it.
BlocksInOrder ==
    /\ sync.got = [i \in 1..(sync.ch - sync.base) |-> sync.base + i]
    /\ sync.ch <= sync.best
    /\ sync.from # "none" => sync.from \notin foreign /\ sync.best > sync.base

\* What the node answers to a request, whatever range it asks for, is heights it has,
\* in order from the first one asked for; and unless none are asked for from the
\* genesis block on, they end with the range and are at most one more than asked for.
AnswersFit ==
    \A r \in Requests :
        LET blocks == HandleBlockSync(r.start, r.end, r.max, height)
        IN  /\ \A i \in DOMAIN blocks : blocks[i] = r.start + i - 1 /\ blocks[i] <= height
            /\ r.start + r.max > 0 => /\ Len(blocks) <= r.max + 1
                                      /\ \A i \in DOMAIN blocks : blocks[i] <= r.end

\* Both ends of the block protocol keep to the heights asked for.
SyncSound == BlocksInOrder /\ AnswersFit

=============================================================================
