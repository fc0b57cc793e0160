----------------------------- MODULE Consensus -----------------------------
(***************************************************************************)
(* The BFT engine of internal/consensus/engine/tendermint.go with its      *)
(* validator set, as far as a program that uses it can get: NewEngine,     *)
(* Start, Stop, ReceiveProposal, ReceiveVote and the loop.                 *)
(*                                                                         *)
(* The loop's select has cases for steps and timeouts too, but its timer   *)
(* is created stopped and only a step sends on newStepCh; nothing takes    *)
(* the first one.  So the engine stays at its initial height and round in  *)
(* StepNewHeight, which are left out, and enterStep, handleTimeout,        *)
(* castVote and the four step handlers never run.  What remains is the     *)
(* counting of other validators' votes.  The height and round of a vote    *)
(* are never read: a vote is its type, block and validator.                *)
(***************************************************************************)
EXTENDS Integers, Sequences, FiniteSets, FiniteSetsExt

CONSTANTS
    Validators,   \* the addresses in the validator set
    Strangers,    \* addresses that are not in it
    Active,       \* the validators with IsActive
    ComputePower, \* ComputePower of each validator
    Stake,        \* NPStake of each validator
    Truncated(_, _), \* uint64(float64(x) * n/10) for x and n
    Blocks,       \* block hashes
    Sent,         \* the votes that may arrive
    Proposed,     \* the proposals that may arrive
    WordSize,     \* unsigned integers wrap at this, 2^64 in the code
    VoteBuffer,   \* capacity of voteCh, 256 in the code
    ProposalBuffer, \* capacity of proposalCh, 8 in the code
    None          \* no vote, no block, no proposal

ASSUME SetsAssumption ==
    IsFiniteSet(Validators) /\ Active \subseteq Validators /\ Validators \cap Strangers = {}
ASSUME BuffersAssumption == VoteBuffer \in Nat /\ ProposalBuffer \in Nat /\ WordSize \in Nat \ {0}

\* Powers are words.  A stake is a big integer, but Uint64 panics on a larger one, in
\* NewValidatorSet, before there is an engine.
Word == 0..(WordSize - 1)

ASSUME PowersAssumption ==
    ComputePower \in [Validators -> Word] /\ Stake \in [Validators -> Word]
ASSUME TruncatedAssumption == \A x \in Word : Truncated(x, 4) \in Word /\ Truncated(x, 6) \in Word

\* The block of a proposal stands for it, None for one that is not valid.
Vote == [type : {"prevote", "precommit", "commit"}, block : Blocks,
         validator : Validators \cup Strangers]

ASSUME MessagesAssumption ==
    Sent \subseteq Vote /\ Proposed \subseteq Blocks \cup {None} /\ None \notin Blocks

VARIABLES
    loop,        \* "new", "running" or "returned"
    stopped,     \* e.ctx is cancelled
    crashed,     \* a goroutine panicked and took the process with it
    voteCh,      \* e.voteCh
    proposalCh,  \* e.proposalCh
    prevotes,    \* e.prevotes: the block of each validator's vote, or None
    precommits,  \* e.precommits
    validBlock,  \* e.validBlock
    proposal,    \* e.proposal
    commits      \* whether a goroutine advanceToStep(StepCommit, nil) was started

votes == <<prevotes, precommits, validBlock, proposal, commits>>
vars == <<loop, stopped, crashed, voteCh, proposalCh, votes>>

-----------------------------------------------------------------------------
(* The validator set *)

\* Both weights are computed in floating point and cut to a word, and so is their sum.
VotingPower(v) == (Truncated(ComputePower[v], 4) + Truncated(Stake[v], 6)) % WordSize

SumPower(addrs) == MapThenSumSet(VotingPower, addrs) % WordSize

TotalPower == SumPower(Validators)

\* A mutation: two thirds are enough.
HasQuorumWeak(power) == power >= ((TotalPower * 2) % WordSize) \div 3

HasQuorum(power) == power > ((TotalPower * 2) % WordSize) \div 3

\* The validators that have a vote in map m.
Addrs(m) == {v \in Validators : m[v] # None}

-----------------------------------------------------------------------------

Init ==
    /\ loop = "new" /\ stopped = FALSE /\ crashed = FALSE
    /\ voteCh = <<>> /\ proposalCh = <<>>
    /\ prevotes = [v \in Validators |-> None]
    /\ precommits = [v \in Validators |-> None]
    /\ validBlock = None /\ proposal = None /\ commits = FALSE

Start ==
    /\ loop = "new" /\ ~crashed
    /\ loop' = "running"
    /\ UNCHANGED <<stopped, crashed, voteCh, proposalCh, votes>>

Stop ==
    /\ ~stopped /\ ~crashed
    /\ stopped' = TRUE
    /\ UNCHANGED <<loop, crashed, voteCh, proposalCh, votes>>

\* A full channel drops the message.
ReceiveVote(v) ==
    /\ ~crashed
    /\ voteCh' = IF Len(voteCh) < VoteBuffer THEN Append(voteCh, v) ELSE voteCh
    /\ UNCHANGED <<loop, stopped, crashed, proposalCh, votes>>

ReceiveProposal(p) ==
    /\ ~crashed
    /\ proposalCh' = IF Len(proposalCh) < ProposalBuffer THEN Append(proposalCh, p) ELSE proposalCh
    /\ UNCHANGED <<loop, stopped, crashed, voteCh, votes>>

-----------------------------------------------------------------------------
(* The loop *)

Looping == loop = "running" /\ ~crashed

\* The select takes any case that is ready.
Leave ==
    /\ Looping /\ stopped
    /\ loop' = "returned"
    /\ UNCHANGED <<stopped, crashed, voteCh, proposalCh, votes>>

HandleProposal ==
    /\ Looping /\ proposalCh # <<>>
    /\ proposalCh' = Tail(proposalCh)
    /\ proposal' = IF Head(proposalCh) # None THEN Head(proposalCh) ELSE proposal
    /\ UNCHANGED <<loop, stopped, crashed, voteCh, prevotes, precommits, validBlock, commits>>

\* A mutation: the power is summed before the vote is in.
CountPrevoteLate(v) ==
    /\ prevotes' = [prevotes EXCEPT ![v.validator] = v.block]
    /\ validBlock' = IF HasQuorum(SumPower(Addrs(prevotes))) THEN v.block ELSE validBlock
    /\ UNCHANGED <<precommits, commits>>

\* The vote that completes the power of two thirds, or comes after it, names the
\* valid block, whatever the others voted for.
CountPrevote(v) ==
    /\ prevotes' = [prevotes EXCEPT ![v.validator] = v.block]
    /\ validBlock' = IF HasQuorum(SumPower(Addrs(prevotes'))) THEN v.block ELSE validBlock
    /\ UNCHANGED <<precommits, commits>>

\* A mutation: the first precommit starts the commit.
CountPrecommitAlone(v) ==
    /\ precommits' = [precommits EXCEPT ![v.validator] = v.block]
    /\ commits' = TRUE
    /\ UNCHANGED <<prevotes, validBlock>>

CountPrecommit(v) ==
    /\ precommits' = [precommits EXCEPT ![v.validator] = v.block]
    /\ commits' = (commits \/ HasQuorum(SumPower(Addrs(precommits'))))
    /\ UNCHANGED <<prevotes, validBlock>>

HandleVote ==
    LET v == Head(voteCh)
    IN  /\ Looping /\ voteCh # <<>> /\ v.validator \in Validators
        /\ voteCh' = Tail(voteCh)
        /\ \/ v.validator \in Active /\ v.type = "prevote" /\ CountPrevote(v)
           \/ v.validator \in Active /\ v.type = "precommit" /\ CountPrecommit(v)
           \/ /\ v.validator \notin Active \/ v.type = "commit"
              /\ UNCHANGED <<prevotes, precommits, validBlock, commits>>
        /\ UNCHANGED <<loop, stopped, crashed, proposalCh, proposal>>

\* Get answers nil for an unknown validator, and handleVote reads its IsActive.
HandleStrangersVote ==
    /\ Looping /\ voteCh # <<>> /\ Head(voteCh).validator \in Strangers
    /\ crashed' = TRUE
    /\ UNCHANGED <<loop, stopped, voteCh, proposalCh, votes>>

\* The goroutine a precommit quorum starts stops a nil timer.
AdvanceToCommit ==
    /\ commits /\ ~crashed
    /\ crashed' = TRUE
    /\ UNCHANGED <<loop, stopped, voteCh, proposalCh, votes>>

Next ==
    \/ Start \/ Stop \/ Leave
    \/ \E v \in Sent : ReceiveVote(v)
    \/ \E p \in Proposed : ReceiveProposal(p)
    \/ HandleProposal \/ HandleVote \/ HandleStrangersVote \/ AdvanceToCommit

Spec == Init /\ [][Next]_vars

\* The loop's goroutine runs, and its select, which chooses at random, passes over
\* no case for ever.
Fairness == WF_vars(HandleProposal) /\ WF_vars(HandleVote \/ HandleStrangersVote)

FairSpec == Spec /\ Fairness

-----------------------------------------------------------------------------
(* Properties *)

\* The sets of validators with more than two thirds of all power, computed without
\* rounding and wrapping.
TwoThirds ==
    {who \in SUBSET Validators :
        3 * MapThenSumSet(VotingPower, who) > 2 * MapThenSumSet(VotingPower, Validators)}

\* The doubled total HasQuorum divides fits in a word.  A stake counts in units of
\* 10^-18 NPT, so with 2^64 this ends at about 15 NPT staked by all together.
DoubleFits == 2 * MapThenSumSet(VotingPower, Validators) < WordSize

\* Active validators, with more than two thirds of the power if the arithmetic fits.
QuorumOf(who) == who # {} /\ who \subseteq Active /\ (DoubleFits => who \in TwoThirds)

\* However votes repeat, change their block, overflow the channel or come from
\* inactive validators, a block is valid only when active validators have prevoted,
\* and as long as the doubled total fits in a word, distinct ones with more than two
\* thirds of the power, and one of them for it.
ValidHasQuorum ==
    validBlock # None => /\ QuorumOf(Addrs(prevotes))
                         /\ DoubleFits => \E v \in Validators : prevotes[v] = validBlock

\* What validator.go says of HasQuorum, "exceeds 2/3 of total", and tendermint.go of
\* validBlock, "block with +2/3 prevotes", whatever the stakes are.
ValidHasTwoThirds == validBlock # None => Addrs(prevotes) \in TwoThirds

\* The process is lost only to a quorum of precommits or to the vote of a stranger,
\* which is then the next in the channel.
CrashHasCause ==
    crashed => \/ QuorumOf(Addrs(precommits))
               \/ voteCh # <<>> /\ Head(voteCh).validator \in Strangers

\* Active validators whose prevote is counted or waits in the channel.
Heard ==
    Active \cap (Addrs(prevotes) \cup
        {voteCh[i].validator : i \in {j \in DOMAIN voteCh : voteCh[j].type = "prevote"}})

\* Once the channel has taken prevotes of more than two thirds of the power, and the
\* doubled total fits in a word, the engine has a valid block in the end, unless it
\* is stopped or lost before.
QuorumIsSeen ==
    loop = "running" /\ DoubleFits /\ Heard \in TwoThirds
        ~> validBlock # None \/ stopped \/ crashed
=============================================================================
