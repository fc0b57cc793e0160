--------------------------------- MODULE Chain ---------------------------------
(***************************************************************************)
(* The block index and the fork tracker (internal/blockchain): blocks that *)
(* arrive in any order, more than once, from several branches, and the     *)
(* canonical chain they become.                                            *)
(*                                                                         *)
(* A block's header is completed when it is inserted: InsertBlock writes   *)
(* the state root into it, and with the root its hash changes.  A root is  *)
(* the list of the blocks whose transactions went into the state, so the   *)
(* hash of a block is its name with its root.  Every delivery is an object *)
(* of its own; objects are numbered in the order they arrive.              *)
(***************************************************************************)
EXTENDS Naturals, Sequences, SequencesExt

CONSTANTS Block,      \* blocks that proposers of the network produce
          Genesis,
          Parent,     \* Block -> Block or Genesis
          Failing,    \* blocks with a transaction, not the first, that is invalid
          MaxObjects  \* bound of the model: objects, genesis included

(* A block holds its parent's hash, so no blocks are each other's ancestors. *)
ASSUME ChainAssumption ==
    /\ Genesis \notin Block
    /\ Parent \in [Block -> Block \cup {Genesis}]
    /\ \A S \in SUBSET Block : S # {} => \E b \in S : Parent[b] \notin S
    /\ Failing \subseteq Block
    /\ MaxObjects \in Nat

VARIABLES chain,        \* the Blockchain, a record (see ChainInit)
          allBlocks,    \* ForkTracker.allBlocks: hash -> object
          alternatives  \* ForkTracker.alternatives: hash -> ForkBranch

chainVars == <<chain, allBlocks, alternatives>>

(* The blocks from the first above genesis to b. *)
Path[b \in Block \cup {Genesis}] ==
    IF b = Genesis THEN <<>> ELSE Append(Path[Parent[b]], b)

(* The hash a block has once it is inserted, and before, with the root of  *)
(* its parent in the header.                                               *)
Sealed(b) == [id |-> b, root |-> Path[b]]
Unsealed(b) == [id |-> b, root |-> Path[Parent[b]]]

Hash(c, o) == [id |-> c.objects[o].id, root |-> c.objects[o].root]
ParentHash(c, o) == c.objects[o].parent
Height(c, o) == Len(Path[c.objects[o].id])

NoHash == [id |-> "none", root |-> <<>>]

(* The map f with v stored under k. *)
Stored(f, k, v) == [x \in DOMAIN f \cup {k} |-> IF x = k THEN v ELSE f[x]]

(* InitGenesis.  objects: the blocks in memory; current, blocks, heights:  *)
(* the fields of Blockchain; state: the blocks executed on statedb.        *)
ChainInit ==
    /\ chain = [objects |-> <<[id |-> Genesis, root |-> <<>>, parent |-> NoHash]>>,
                current |-> 1, blocks |-> [h \in {Sealed(Genesis)} |-> 1], heights |-> [h \in {0} |-> 1],
                state |-> <<>>]
    /\ allBlocks = <<>>
    /\ alternatives = <<>>

New(c, id, root, parent) ==
    [c EXCEPT !.objects = Append(@, [id |-> id, root |-> root, parent |-> parent])]

-----------------------------------------------------------------------------
(* Blockchain *)

ValidateBlock(c, o) ==
    /\ Height(c, o) = Height(c, c.current) + 1
    /\ ParentHash(c, o) = Hash(c, c.current)

(* Mutant of Executed: the header is completed after the block is indexed. *)
ExecutedIndexedFirst(c, o) ==
    LET s == Append(c.state, c.objects[o].id)
    IN  [c EXCEPT !.state = s, !.objects[o].root = s,
                  !.blocks = Stored(@, Hash(c, o), o),
                  !.heights = Stored(@, Height(c, o), o), !.current = o]

(* The block executed, committed, its header completed, and indexed. *)
Executed(c, o) ==
    LET s == Append(c.state, c.objects[o].id)
        d == [c EXCEPT !.state = s, !.objects[o].root = s]
    IN  [d EXCEPT !.blocks = Stored(@, Hash(d, o), o),
                  !.heights = Stored(@, Height(c, o), o), !.current = o]

(* A block that fails leaves the effects of its first transactions in the  *)
(* state: Process reverts the failing one only.                            *)
InsertBlock(c, o) ==
    CASE ~ValidateBlock(c, o) -> [ok |-> FALSE, chain |-> c]
      [] ValidateBlock(c, o) /\ c.objects[o].id \in Failing ->
            [ok |-> FALSE, chain |-> [c EXCEPT !.state = Append(@, c.objects[o].id)]]
      [] OTHER -> [ok |-> TRUE, chain |-> Executed(c, o)]

-----------------------------------------------------------------------------
(* ForkTracker *)

(* The objects a walk along allBlocks meets that starts at hash h. *)
Ancestry(all, h) ==
    LET p == Path[h.id]
        met == {i \in 1..Len(p) : \A j \in i..Len(p) : Sealed(p[j]) \in DOMAIN all}
    IN  IF h # Sealed(h.id) THEN {} ELSE {all[Sealed(p[i])] : i \in met}

FindCommonAncestor(c, all, o) ==
    LET fork == {Hash(c, a) : a \in Ancestry(all, ParentHash(c, o))}
        walk == {c.current} \cup IF c.current = 1 THEN {} ELSE Ancestry(all, ParentHash(c, c.current))
        common == {a \in walk : /\ Hash(c, a) = ParentHash(c, o) \/ Height(c, a) <= Height(c, o)
                                /\ Hash(c, a) \in fork}
    IN  IF common = {} THEN c.heights[0]
        ELSE CHOOSE a \in common : \A b \in common : Height(c, b) <= Height(c, a)

ChainWeight(c) == Height(c, c.current) + 1

(* Keys of the branches that hold a block with this hash. *)
FindForkBranch(c, h) ==
    {k \in DOMAIN alternatives :
        \E i \in DOMAIN alternatives[k].blocks : Hash(c, alternatives[k].blocks[i]) = h}

(* The blocks of the branch inserted in order, up to the first refused. *)
ApplyBlocks(c, bs, ancestor) ==
    LET Apply(r, o) == IF ~r.ok \/ Height(c, o) <= Height(c, ancestor) THEN r
                       ELSE InsertBlock(r.chain, o)
    IN  FoldLeft(Apply, [ok |-> TRUE, chain |-> c], bs)

(* rollbackBlock only logs. *)
Reorganize(c, all, k, branch) ==
    LET r == ApplyBlocks(c, branch.blocks, FindCommonAncestor(c, all, branch.blocks[1])) IN
    /\ chain' = r.chain
    /\ alternatives' = IF r.ok THEN <<>> ELSE Stored(alternatives, k, branch)

ExtendBranch(c, all, k, o) ==
    LET branch == [alternatives[k] EXCEPT !.blocks = Append(@, o), !.weight = @ + 1] IN
    IF branch.weight > ChainWeight(c) THEN Reorganize(c, all, k, branch)
    ELSE /\ chain' = c
         /\ alternatives' = Stored(alternatives, k, branch)

NewBranch(c, all, o) ==
    LET ancestor == Hash(c, FindCommonAncestor(c, all, o))
        line == Ancestry(all, ParentHash(c, o))
        above == {a \in line : \A b \in line : Height(c, b) >= Height(c, a) => Hash(c, b) # ancestor}
    IN  /\ chain' = c
        /\ alternatives' = Stored(alternatives, Hash(c, o),
                               [blocks |-> <<o>>, weight |-> 1 + Cardinality(above)])

(* ProcessBlock on the object o, the last of c. *)
Process(c, o) ==
    LET all == Stored(allBlocks, Hash(c, o), o) IN
    /\ allBlocks' = all
    /\ \/ /\ ParentHash(c, o) = Hash(c, c.current)
          /\ chain' = InsertBlock(c, o).chain
          /\ UNCHANGED alternatives
       \/ /\ ParentHash(c, o) # Hash(c, c.current)
          /\ \E k \in FindForkBranch(c, ParentHash(c, o)) : ExtendBranch(c, all, k, o)
       \/ /\ ParentHash(c, o) # Hash(c, c.current)
          /\ FindForkBranch(c, ParentHash(c, o)) = {}
          /\ NewBranch(c, all, o)

-----------------------------------------------------------------------------
(* Actions *)

Room == Len(chain.objects) < MaxObjects

(* A block arrives as its proposer sent it, or as a node that executed it  *)
(* sends it.                                                               *)
Receive(b) ==
    /\ Room
    /\ \E h \in {Sealed(b), Unsealed(b)} :
          LET c == New(chain, b, h.root, Sealed(Parent[b])) IN Process(c, Len(c.objects))

(* This node prepares a block on its own tip and inserts it itself. *)
Propose(b) ==
    LET tip == chain.objects[chain.current]
        c == New(chain, b, tip.root, Hash(chain, chain.current))
    IN  /\ Room
        /\ Parent[b] = tip.id
        /\ chain' = InsertBlock(c, Len(c.objects)).chain
        /\ UNCHANGED <<allBlocks, alternatives>>

ChainNext == \E b \in Block : Receive(b) \/ Propose(b)

ChainSpec == ChainInit /\ [][ChainNext]_chainVars

-----------------------------------------------------------------------------
(* Properties *)

Tip == Height(chain, chain.current)

(* Heights are filled without a gap up to the current block. *)
HeightsDense ==
    /\ DOMAIN chain.heights = 0..Tip
    /\ chain.heights[Tip] = chain.current

(* The canonical blocks form a hash chain, although insertion changes the  *)
(* header of a block and with it the hash its child must name.             *)
Linked ==
    \A h \in 1..Tip :
        ParentHash(chain, chain.heights[h]) = Hash(chain, chain.heights[h - 1])

(* GetBlock finds every canonical block under the hash it has now. *)
FoundByHash ==
    \A h \in 0..Tip : LET o == chain.heights[h] IN
        /\ Hash(chain, o) \in DOMAIN chain.blocks
        /\ chain.blocks[Hash(chain, o)] = o

(* The blocks of a list that were executed to the end. *)
Succeeded(s) ==
    FoldLeft(LAMBDA done, b : IF b \in Failing THEN done ELSE Append(done, b), <<>>, s)

(* Every canonical block was executed once, in the order of the chain, and *)
(* no other block was, whatever reorganizations stopped half way.          *)
ExecutedOnce ==
    Succeeded(chain.state) = [h \in 1..Tip |-> chain.objects[chain.heights[h]].id]

(* The block index, the height index and the state agree on one canonical  *)
(* chain, in whatever order blocks and branches arrive at ProcessBlock.    *)
ChainIntact == HeightsDense /\ Linked /\ FoundByHash /\ ExecutedOnce

(* reorganize "switches the canonical chain to a heavier fork"             *)
(* (fork_choice.go:109).  What the code does: rollbackBlock only logs, so  *)
(* InsertBlock refuses the fork's first block, and no canonical block is   *)
(* ever replaced, nor its header changed.                                  *)
CanonicalNeverReplaced ==
    [][\A h \in DOMAIN chain.heights :
          /\ chain'.heights[h] = chain.heights[h]
          /\ chain'.objects[chain.heights[h]] = chain.objects[chain.heights[h]]]_chainVars
=============================================================================
