\* Two peers, one protected, one of them possibly of another chain; room for one.
\* A word of 8 lets the range arithmetic wrap without being reached by a height.
CONSTANTS
    Peers = {p1, p2}
    MaxPeers = 1
    Protected = {p2}
    Batch = 1
    RequestMax = 2
    HeightWord = 8
    MaxHeight = 2
    Outsiders = {p1}
    Suspects = {p1}
    Unreliable = {p2}
    Requests <- MCRequests
SPECIFICATION FairSyncSpec
INVARIANT SyncSound
PROPERTIES
    BannedIsCutOff
    SyncEnds
