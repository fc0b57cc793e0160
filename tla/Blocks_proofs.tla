---------------------------- MODULE Blocks_proofs ---------------------------
(***************************************************************************)
(* Proofs about the way of a block into the chain: Consensus counts the    *)
(* votes on it, PeerSync fetches it from a peer, and Chain inserts it or   *)
(* keeps it on a branch.  The three modules share no state; their theorems *)
(* are about their own specifications, for every value of their constants. *)
(***************************************************************************)
EXTENDS Consensus, PeerSync, Chain, FiniteSetTheorems, SequenceTheorems, TLAPS

-----------------------------------------------------------------------------
(* Sums of voting power.  MapThenSumSet is a fold: a recursive function that *)
(* the library defines by CHOOSE.  Its existence and what it computes are    *)
(* shown by induction on the cardinality of the set.                         *)

\* Induction over the naturals, for a set of numbers.
LEMMA NatSetInduction ==
    ASSUME NEW T, 0 \in T, \A n \in Nat : n \in T => n + 1 \in T
    PROVE  Nat \subseteq T
<1> SUFFICES ASSUME Nat \ T # {} PROVE FALSE
  OBVIOUS
<1> DEFINE R == {ss \in Nat \X Nat : ss[1] < ss[2]}
<1>1. IsWellFoundedOn(R, Nat)
  <2>1. OpToRel(<, Nat) = R
    BY Zenon DEF OpToRel
  <2> QED BY <2>1, NatLessThanWellFounded, Zenon
<1>2. PICK x \in Nat \ T : \A y \in Nat \ T : <<y, x>> \notin R
  <2> HIDE DEF R
  <2> QED BY <1>1, WFMin
<1>3. x # 0 /\ x - 1 \in Nat
  OBVIOUS
<1>4. <<x - 1, x>> \in R
  BY <1>3
<1>5. x - 1 \in T
  <2> HIDE DEF R
  <2> QED BY <1>2, <1>3, <1>4
<1> QED BY <1>3, <1>5

\* The element the fold takes next, and the fold itself.
Taken(s) == CHOOSE x \in s : TRUE

Sum(who) == MapThenSumSet(VotingPower, who)

\* g adds up the powers of every set of D, which is closed under removal.
Adds(g, D) ==
    g = [s \in D |-> IF s = {} THEN 0 ELSE VotingPower(Taken(s)) + g[s \ {Taken(s)}]]

\* The definition of the library, unfolded.
LEMMA SumIsChosen ==
    ASSUME NEW S
    PROVE  Sum(S) = (CHOOSE g : Adds(g, SUBSET S))[S]
BY Zenon DEF Sum, MapThenSumSet, MapThenFoldSet, Adds, Taken

\* The function that the library chooses exists.
LEMMA SumExists ==
    ASSUME NEW S, IsFiniteSet(S)
    PROVE  \E g : Adds(g, SUBSET S)
<1> DEFINE D(n) == {s \in SUBSET S : Cardinality(s) <= n}
           T == {n \in Nat : \E g : Adds(g, D(n))}
<1>0. \A s \in SUBSET S : IsFiniteSet(s) /\ Cardinality(s) \in Nat /\ Cardinality(s) <= Cardinality(S)
  BY FS_Subset, FS_CardinalityType
<1>1. 0 \in T
  <2>1. D(0) = {{}}
    BY <1>0, FS_EmptySet
  <2>2. Adds([s \in {{}} |-> 0], {{}})
    BY DEF Adds
  <2> QED BY <2>1, <2>2
<1>2. ASSUME NEW n \in Nat, n \in T PROVE n + 1 \in T
  <2>1. PICK g : Adds(g, D(n))
    BY <1>2
  <2> DEFINE h == [s \in D(n + 1) |-> IF s = {} THEN 0
                                      ELSE VotingPower(Taken(s)) + g[s \ {Taken(s)}]]
  <2>2. ASSUME NEW s \in D(n + 1), s # {}
        PROVE  s \ {Taken(s)} \in D(n) /\ s \ {Taken(s)} \in D(n + 1)
    <3>1. Taken(s) \in s
      BY <2>2 DEF Taken
    <3>2. Cardinality(s \ {Taken(s)}) = Cardinality(s) - 1
      BY <3>1, <1>0, FS_RemoveElement
    <3>3. s \ {Taken(s)} \in SUBSET S /\ Cardinality(s) \in Nat /\ Cardinality(s) <= n + 1
      BY <1>0
    <3> QED BY <3>2, <3>3
  <2>3. ASSUME NEW s \in D(n), s \in D(n + 1) PROVE h[s] = g[s]
    BY <2>1, <2>3 DEF Adds
  <2>4. ASSUME NEW s \in D(n + 1), s # {}
        PROVE  h[s \ {Taken(s)}] = g[s \ {Taken(s)}]
    <3> HIDE DEF h
    <3> QED BY <2>2, <2>3, <2>4
  <2>5. Adds(h, D(n + 1))
    BY <2>4 DEF Adds
  <2> QED BY <2>5
<1>3. Cardinality(S) \in T
  <2> HIDE DEF T
  <2> QED BY <1>1, <1>2, NatSetInduction, FS_CardinalityType
<1>4. D(Cardinality(S)) = SUBSET S
  BY <1>0
<1> QED BY <1>3, <1>4

LEMMA SumUnfolds ==
    ASSUME NEW S, IsFiniteSet(S)
    PROVE  \E g : Adds(g, SUBSET S) /\ Sum(S) = g[S]
<1>1. Adds(CHOOSE g : Adds(g, SUBSET S), SUBSET S)
  BY SumExists, Zenon
<1> QED BY <1>1, SumIsChosen

\* All sets of validators, and their sizes, are finite.
LEMMA FiniteSubsets ==
    \A S \in SUBSET Validators : IsFiniteSet(S) /\ Cardinality(S) \in Nat
BY SetsAssumption, FS_Subset, FS_CardinalityType

LEMMA AnyRemoves ==
    ASSUME NEW S \in SUBSET Validators, S # {}
    PROVE  /\ Taken(S) \in S /\ S \ {Taken(S)} \in SUBSET Validators
           /\ \A x \in S : Cardinality(S \ {x}) = Cardinality(S) - 1
<1>1. Taken(S) \in S
  BY DEF Taken
<1> QED BY <1>1, FiniteSubsets, FS_RemoveElement

\* Two folds agree on every set they both reach.
LEMMA AddsUnique ==
    ASSUME NEW D \in SUBSET Validators, NEW S \in SUBSET D,
           NEW g, Adds(g, SUBSET D), NEW h, Adds(h, SUBSET S)
    PROVE  g[S] = h[S]
<1> DEFINE T == {n \in Nat : \A R \in SUBSET S : Cardinality(R) = n => g[R] = h[R]}
<1>1. \A R \in SUBSET S : R \in SUBSET D /\ R \in SUBSET Validators
  OBVIOUS
<1>2. 0 \in T
  <2> SUFFICES ASSUME NEW R \in SUBSET S, Cardinality(R) = 0 PROVE g[R] = h[R]
    OBVIOUS
  <2>1. R = {}
    BY <1>1, FiniteSubsets, FS_EmptySet
  <2> QED BY <2>1 DEF Adds
<1>3. ASSUME NEW n \in Nat, n \in T PROVE n + 1 \in T
  <2> SUFFICES ASSUME NEW R \in SUBSET S, Cardinality(R) = n + 1 PROVE g[R] = h[R]
    OBVIOUS
  <2> DEFINE Q == R \ {Taken(R)}
  <2>1. R # {}
    BY FS_EmptySet
  <2>2. Q \in SUBSET S /\ Cardinality(Q) = n
    BY <2>1, <1>1, AnyRemoves
  <2>3. g[Q] = h[Q]
    BY <2>2, <1>3
  <2>4. g[R] = VotingPower(Taken(R)) + g[Q] /\ h[R] = VotingPower(Taken(R)) + h[Q]
    BY <2>1, <1>1 DEF Adds
  <2> QED BY <2>3, <2>4
<1>4. Cardinality(S) \in T
  <2> HIDE DEF T
  <2> QED BY <1>2, <1>3, NatSetInduction, FiniteSubsets
<1> QED BY <1>4

\* The fold of the library, one step at a time.
LEMMA SumStep ==
    ASSUME NEW S \in SUBSET Validators
    PROVE  Sum(S) = IF S = {} THEN 0 ELSE VotingPower(Taken(S)) + Sum(S \ {Taken(S)})
<1>1. PICK g : Adds(g, SUBSET S) /\ Sum(S) = g[S]
  BY SumUnfolds, FiniteSubsets
<1>2. CASE S = {}
  BY <1>1, <1>2 DEF Adds
<1>3. CASE S # {}
  <2> DEFINE R == S \ {Taken(S)}
  <2>1. R \in SUBSET Validators
    OBVIOUS
  <2>2. PICK h : Adds(h, SUBSET R) /\ Sum(R) = h[R]
    BY <2>1, SumUnfolds, FiniteSubsets
  <2>3. g[R] = h[R]
    <3>1. R \in SUBSET S
      OBVIOUS
    <3> HIDE DEF R
    <3> QED BY <1>1, <2>2, <3>1, AddsUnique
  <2>4. g[S] = VotingPower(Taken(S)) + g[R]
    BY <1>1, <1>3 DEF Adds
  <2> QED BY <1>1, <1>3, <2>2, <2>3, <2>4
<1> QED BY <1>2, <1>3

LEMMA PowerType == \A v \in Validators : VotingPower(v) \in Nat
<1> SUFFICES ASSUME NEW v \in Validators PROVE VotingPower(v) \in Nat
  OBVIOUS
<1>1. Truncated(ComputePower[v], 4) \in Nat /\ Truncated(Stake[v], 6) \in Nat
  BY PowersAssumption, TruncatedAssumption, BuffersAssumption DEF Word
<1> QED BY <1>1, BuffersAssumption DEF VotingPower

LEMMA SumType == \A S \in SUBSET Validators : Sum(S) \in Nat
<1> DEFINE T == {n \in Nat : \A S \in SUBSET Validators : Cardinality(S) = n => Sum(S) \in Nat}
<1>1. 0 \in T
  BY FiniteSubsets, FS_EmptySet, SumStep
<1>2. ASSUME NEW n \in Nat, n \in T PROVE n + 1 \in T
  <2> SUFFICES ASSUME NEW S \in SUBSET Validators, Cardinality(S) = n + 1
               PROVE  Sum(S) \in Nat
    OBVIOUS
  <2>1. S # {}
    BY FS_EmptySet
  <2>2. Taken(S) \in Validators /\ Sum(S \ {Taken(S)}) \in Nat
    BY <2>1, <1>2, AnyRemoves
  <2> QED BY <2>1, <2>2, SumStep, PowerType
<1>3. \A S \in SUBSET Validators : Cardinality(S) \in T
  <2> HIDE DEF T
  <2> QED BY <1>1, <1>2, NatSetInduction, FiniteSubsets
<1> QED BY <1>3

\* The power of validators does not depend on the order in which they are added
\* up: any of them may be taken out first.
LEMMA SumRemove ==
    \A S \in SUBSET Validators : \A x \in S : Sum(S) = VotingPower(x) + Sum(S \ {x})
<1> DEFINE Good(S) == \A x \in S : Sum(S) = VotingPower(x) + Sum(S \ {x})
           T == {n \in Nat : \A S \in SUBSET Validators : Cardinality(S) = n => Good(S)}
<1>1. 0 \in T
  BY FiniteSubsets, FS_EmptySet
<1>2. ASSUME NEW n \in Nat, n \in T PROVE n + 1 \in T
  <2> SUFFICES ASSUME NEW S \in SUBSET Validators, Cardinality(S) = n + 1,
                      NEW x \in S
               PROVE  Sum(S) = VotingPower(x) + Sum(S \ {x})
    OBVIOUS
  <2> DEFINE a == Taken(S)
  <2>1. /\ a \in S /\ \A y \in S : Cardinality(S \ {y}) = n
        /\ Sum(S) = VotingPower(a) + Sum(S \ {a})
    BY AnyRemoves, SumStep
  <2>2. \A y \in S : Good(S \ {y})
    BY <1>2, <2>1
  <2>3. CASE x # a
    <3>1. (S \ {a}) \ {x} = (S \ {x}) \ {a}
      OBVIOUS
    <3>2. Sum(S \ {a}) = VotingPower(x) + Sum((S \ {a}) \ {x})
      BY <2>1, <2>2, <2>3
    <3>3. Sum(S \ {x}) = VotingPower(a) + Sum((S \ {a}) \ {x})
      BY <2>1, <2>2, <2>3, <3>1
    <3>4. VotingPower(a) \in Nat /\ VotingPower(x) \in Nat
      BY <2>1, PowerType
    <3>5. Sum((S \ {a}) \ {x}) \in Nat
      BY SumType
    <3> QED BY <2>1, <3>2, <3>3, <3>4, <3>5
  <2> QED BY <2>1, <2>3
<1>3. \A S \in SUBSET Validators : Cardinality(S) \in T
  <2> HIDE DEF T
  <2> QED BY <1>1, <1>2, NatSetInduction, FiniteSubsets
<1> QED BY <1>3

\* One more validator never lowers the power.
LEMMA SumGrows ==
    ASSUME NEW S \in SUBSET Validators, NEW v \in Validators
    PROVE  Sum(S) <= Sum(S \cup {v})
<1>1. CASE v \in S
  <2>1. S \cup {v} = S
    BY <1>1
  <2> QED BY <2>1, SumType
<1>2. CASE v \notin S
  <2>1. (S \cup {v}) \ {v} = S
    BY <1>2
  <2>2. Sum(S \cup {v}) = VotingPower(v) + Sum(S)
    BY <2>1, SumRemove
  <2> QED BY <2>2, SumType, PowerType
<1> QED BY <1>1, <1>2

\* No set of validators has more power than all of them.
LEMMA SumBounded == \A S \in SUBSET Validators : Sum(S) <= Sum(Validators)
<1> DEFINE T == {n \in Nat : \A S \in SUBSET Validators :
                     Cardinality(Validators \ S) = n => Sum(S) <= Sum(Validators)}
<1>1. 0 \in T
  <2> SUFFICES ASSUME NEW S \in SUBSET Validators, Cardinality(Validators \ S) = 0
               PROVE  Sum(S) <= Sum(Validators)
    OBVIOUS
  <2>1. Validators \ S = {}
    BY FiniteSubsets, FS_EmptySet
  <2>2. S = Validators
    BY <2>1
  <2> QED BY <2>2, SumType
<1>2. ASSUME NEW n \in Nat, n \in T PROVE n + 1 \in T
  <2> SUFFICES ASSUME NEW S \in SUBSET Validators, Cardinality(Validators \ S) = n + 1
               PROVE  Sum(S) <= Sum(Validators)
    OBVIOUS
  <2>1. Validators \ S # {}
    BY FS_EmptySet
  <2>2. PICK v \in Validators : v \notin S
    BY <2>1
  <2>3. Validators \ (S \cup {v}) = (Validators \ S) \ {v}
    OBVIOUS
  <2>4. Cardinality(Validators \ (S \cup {v})) = n
    BY <2>1, <2>2, <2>3, AnyRemoves
  <2>5. Sum(S \cup {v}) <= Sum(Validators)
    BY <1>2, <2>4
  <2> QED BY <2>5, SumGrows, SumType
<1>3. \A S \in SUBSET Validators : Cardinality(Validators \ S) \in T
  <2> HIDE DEF T
  <2> QED BY <1>1, <1>2, NatSetInduction, FiniteSubsets
<1> QED BY <1>3

-----------------------------------------------------------------------------
(* The engine *)

\* HasQuorum, computed in words with division rounding down, holds of exactly the
\* sets with more than two thirds of the power, if the doubled total fits in a word.
LEMMA QuorumIsTwoThirds ==
    ASSUME NEW S \in SUBSET Validators, DoubleFits
    PROVE  HasQuorum(SumPower(S)) <=> S \in TwoThirds
<1> DEFINE p == Sum(S)
           t == Sum(Validators)
<1>1. p \in Nat /\ t \in Nat /\ p <= t /\ 2 * t < WordSize
  BY SumType, SumBounded DEF Sum, DoubleFits
<1>2. SumPower(S) = p /\ TotalPower = t
  <2>1. SumPower(S) = p % WordSize /\ TotalPower = t % WordSize
    BY DEF SumPower, TotalPower, Sum
  <2> HIDE DEF p, t
  <2>2. p % WordSize = p /\ t % WordSize = t
    BY <1>1, BuffersAssumption
  <2> QED BY <2>1, <2>2
<1>3. S \in TwoThirds <=> 3 * p > 2 * t
  BY DEF TwoThirds, Sum
<1>4. HasQuorum(SumPower(S)) <=> p > (2 * t) \div 3
  <2>1. HasQuorum(SumPower(S)) <=> p > ((t * 2) % WordSize) \div 3
    BY <1>2 DEF HasQuorum
  <2> HIDE DEF p, t
  <2>2. (t * 2) % WordSize = 2 * t
    BY <1>1, BuffersAssumption
  <2> QED BY <2>1, <2>2
<1> HIDE DEF p, t
<1> QED BY <1>1, <1>3, <1>4

LEMMA TwoThirdsGrows ==
    ASSUME NEW S \in TwoThirds, NEW v \in Validators
    PROVE  S \cup {v} \in TwoThirds
<1>1. /\ S \in SUBSET Validators /\ S \cup {v} \in SUBSET Validators
      /\ 3 * Sum(S) > 2 * Sum(Validators)
  BY DEF TwoThirds, Sum
<1>2. 3 * Sum(S \cup {v}) > 2 * Sum(Validators)
  BY <1>1, SumGrows, SumType
<1> QED BY <1>1, <1>2 DEF TwoThirds, Sum

\* Without any condition on the stakes, what HasQuorum accepts is a quorum in the
\* sense of the properties: the empty set has no power and passes no threshold.
LEMMA QuorumCounts ==
    ASSUME NEW S \in SUBSET Validators, S \subseteq Active, HasQuorum(SumPower(S))
    PROVE  QuorumOf(S)
<1>1. S # {}
  <2> SUFFICES ASSUME S = {} PROVE FALSE
    OBVIOUS
  <2>1. Sum(S) = 0
    BY SumStep
  <2>2. SumPower(S) = 0
    BY <2>1, BuffersAssumption DEF SumPower, Sum
  <2>3. Sum(Validators) \in Nat
    BY SumType
  <2>4. TotalPower \in Nat
    BY <2>3, BuffersAssumption DEF TotalPower, SumPower, Sum
  <2>5. ((TotalPower * 2) % WordSize) \div 3 >= 0
    BY <2>4, BuffersAssumption
  <2> QED BY <2>2, <2>4, <2>5, BuffersAssumption DEF HasQuorum
<1>2. DoubleFits => S \in TwoThirds
  BY QuorumIsTwoThirds
<1> QED BY <1>1, <1>2 DEF QuorumOf

LEMMA QuorumGrows ==
    ASSUME NEW S, QuorumOf(S), NEW v \in Active
    PROVE  QuorumOf(S \cup {v})
BY SetsAssumption, TwoThirdsGrows DEF QuorumOf

\* What the engine's variables may hold.
TypeOK ==
    /\ loop \in {"new", "running", "returned"}
    /\ stopped \in BOOLEAN /\ crashed \in BOOLEAN /\ commits \in BOOLEAN
    /\ voteCh \in Seq(Vote) /\ proposalCh \in Seq(Blocks \cup {None})
    /\ prevotes \in [Validators -> Blocks \cup {None}]
    /\ precommits \in [Validators -> Blocks \cup {None}]
    /\ validBlock \in Blocks \cup {None} /\ proposal \in Blocks \cup {None}

\* The inductive invariant: only votes of active validators are counted, and the
\* goroutine that will take the process down was started by a quorum.
CountingIsSound ==
    /\ TypeOK
    /\ Addrs(prevotes) \subseteq Active /\ Addrs(precommits) \subseteq Active
    /\ ValidHasQuorum
    /\ commits => QuorumOf(Addrs(precommits))
    /\ CrashHasCause

\* A counted vote adds its validator to the map and takes none out.
LEMMA AddrsGrow ==
    ASSUME NEW m \in [Validators -> Blocks \cup {None}], NEW v \in Validators, NEW b \in Blocks
    PROVE  /\ [m EXCEPT ![v] = b] \in [Validators -> Blocks \cup {None}]
           /\ Addrs([m EXCEPT ![v] = b]) = Addrs(m) \cup {v}
           /\ [m EXCEPT ![v] = b][v] = b
BY MessagesAssumption DEF Addrs

LEMMA InitCounting == Init => CountingIsSound
<1> SUFFICES ASSUME Init PROVE CountingIsSound
  OBVIOUS
<1>1. TypeOK
  <2>1. loop = "new" /\ stopped \in BOOLEAN /\ crashed \in BOOLEAN /\ commits \in BOOLEAN
    BY Zenon DEF Init
  <2>2. voteCh = <<>> /\ proposalCh = <<>> /\ validBlock = None /\ proposal = None
    BY DEF Init
  <2>3. /\ prevotes \in [Validators -> Blocks \cup {None}]
        /\ precommits \in [Validators -> Blocks \cup {None}]
    BY DEF Init
  <2> QED BY <2>1, <2>2, <2>3 DEF TypeOK
<1>2. Addrs(prevotes) = {} /\ Addrs(precommits) = {}
  BY DEF Init, Addrs
<1>3. ValidHasQuorum /\ CrashHasCause /\ ~commits
  BY DEF Init, ValidHasQuorum, CrashHasCause
<1> QED BY <1>1, <1>2, <1>3 DEF CountingIsSound

\* Taking the next vote: the channel shrinks, and either map takes the vote.
LEMMA HandleVoteStep ==
    ASSUME CountingIsSound, HandleVote
    PROVE  CountingIsSound'
<1> DEFINE v == Head(voteCh)
<1>1. /\ voteCh \in Seq(Vote) /\ voteCh # <<>> /\ v \in Vote /\ voteCh' \in Seq(Vote)
  BY DEF HandleVote, CountingIsSound, TypeOK
<1>2. v.validator \in Validators /\ v.block \in Blocks /\ v.block # None
  BY <1>1, MessagesAssumption DEF HandleVote, Vote
<1>3. UNCHANGED <<loop, stopped, crashed, proposalCh, proposal>> /\ ~crashed
  BY DEF HandleVote, Looping
<1>4. CrashHasCause'
  BY <1>3 DEF CrashHasCause
<1>5. CASE v.validator \in Active /\ v.type = "prevote" /\ CountPrevote(v)
  <2>1. /\ prevotes' = [prevotes EXCEPT ![v.validator] = v.block]
        /\ validBlock' = IF HasQuorum(SumPower(Addrs(prevotes'))) THEN v.block ELSE validBlock
        /\ UNCHANGED <<precommits, commits>>
    BY <1>5 DEF CountPrevote
  <2>2. /\ prevotes' \in [Validators -> Blocks \cup {None}]
        /\ Addrs(prevotes') = Addrs(prevotes) \cup {v.validator}
        /\ prevotes'[v.validator] = v.block
    BY <2>1, <1>2, AddrsGrow DEF CountingIsSound, TypeOK
  <2>3. Addrs(prevotes') \in SUBSET Validators /\ Addrs(prevotes') \subseteq Active
    BY <2>2, <1>2, <1>5 DEF CountingIsSound, Addrs
  <2>4. ValidHasQuorum'
    <3>1. CASE HasQuorum(SumPower(Addrs(prevotes')))
      <4>1. validBlock' = v.block
        BY <2>1, <3>1
      <4>2. QuorumOf(Addrs(prevotes'))
        BY <2>3, <3>1, QuorumCounts
      <4> QED BY <4>1, <4>2, <1>2, <2>2 DEF ValidHasQuorum
    <3>2. CASE ~HasQuorum(SumPower(Addrs(prevotes')))
      <4>1. validBlock' = validBlock
        BY <2>1, <3>2
      <4>2. CASE validBlock = None
        BY <4>1, <4>2 DEF ValidHasQuorum
      <4>3. CASE validBlock # None
        <5>1. QuorumOf(Addrs(prevotes))
          BY <4>3 DEF CountingIsSound, ValidHasQuorum
        <5>2. QuorumOf(Addrs(prevotes'))
          BY <5>1, <2>2, <1>5, QuorumGrows
        <5>3. ~DoubleFits
          BY <5>2, <3>2, <2>3, QuorumIsTwoThirds DEF QuorumOf
        <5> QED BY <5>2, <5>3 DEF ValidHasQuorum
      <4> QED BY <4>2, <4>3
    <3> QED BY <3>1, <3>2
  <2>5. Addrs(precommits') = Addrs(precommits)
    BY <2>1
  <2>6. TypeOK'
    BY <1>1, <1>2, <1>3, <2>1, <2>2 DEF CountingIsSound, TypeOK
  <2> QED BY <1>4, <2>1, <2>3, <2>4, <2>5, <2>6 DEF CountingIsSound
<1>6. CASE v.validator \in Active /\ v.type = "precommit" /\ CountPrecommit(v)
  <2>1. /\ precommits' = [precommits EXCEPT ![v.validator] = v.block]
        /\ commits' = (commits \/ HasQuorum(SumPower(Addrs(precommits'))))
        /\ UNCHANGED <<prevotes, validBlock>>
    BY <1>6 DEF CountPrecommit
  <2>2. /\ precommits' \in [Validators -> Blocks \cup {None}]
        /\ Addrs(precommits') = Addrs(precommits) \cup {v.validator}
    BY <2>1, <1>2, AddrsGrow DEF CountingIsSound, TypeOK
  <2>3. Addrs(precommits') \in SUBSET Validators /\ Addrs(precommits') \subseteq Active
    BY <2>2, <1>2, <1>6 DEF CountingIsSound, Addrs
  <2>4. ASSUME commits' PROVE QuorumOf(Addrs(precommits'))
    <3>1. CASE commits
      <4>1. QuorumOf(Addrs(precommits))
        BY <3>1 DEF CountingIsSound
      <4> QED BY <4>1, <2>2, <1>6, QuorumGrows
    <3>2. CASE HasQuorum(SumPower(Addrs(precommits')))
      BY <3>2, <2>3, QuorumCounts
    <3> QED BY <3>1, <3>2, <2>4, <2>1
  <2>5. Addrs(prevotes') = Addrs(prevotes) /\ ValidHasQuorum'
    BY <2>1 DEF CountingIsSound, ValidHasQuorum, Addrs
  <2>6. commits' \in BOOLEAN
    BY <2>1, Zenon
  <2>7. TypeOK'
    BY <1>1, <1>3, <2>1, <2>2, <2>6 DEF CountingIsSound, TypeOK
  <2> QED BY <1>4, <2>3, <2>4, <2>5, <2>7 DEF CountingIsSound
<1>7. CASE UNCHANGED <<prevotes, precommits, validBlock, commits>>
  <2>1. TypeOK'
    BY <1>1, <1>3, <1>7 DEF CountingIsSound, TypeOK
  <2>2. ValidHasQuorum' /\ Addrs(prevotes') = Addrs(prevotes) /\ Addrs(precommits') = Addrs(precommits)
    BY <1>7 DEF CountingIsSound, ValidHasQuorum, Addrs
  <2> QED BY <1>4, <1>7, <2>1, <2>2 DEF CountingIsSound
<1> QED BY <1>5, <1>6, <1>7 DEF HandleVote

LEMMA NextCounting == CountingIsSound /\ [Next]_vars => CountingIsSound'
<1> SUFFICES ASSUME CountingIsSound, [Next]_vars PROVE CountingIsSound'
  OBVIOUS
<1>1. CASE Start \/ Stop \/ Leave
  <2>1. /\ loop' \in {"new", "running", "returned"} /\ stopped' \in BOOLEAN /\ ~crashed
        /\ UNCHANGED <<crashed, voteCh, proposalCh, prevotes, precommits, validBlock,
                       proposal, commits>>
    BY <1>1 DEF Start, Stop, Leave, Looping, votes, CountingIsSound, TypeOK
  <2>2. TypeOK'
    BY <2>1 DEF CountingIsSound, TypeOK
  <2> QED BY <2>1, <2>2 DEF CountingIsSound, Addrs, ValidHasQuorum, CrashHasCause
<1>2. ASSUME NEW v \in Sent, ReceiveVote(v) PROVE CountingIsSound'
  <2>1. v \in Vote /\ voteCh' \in Seq(Vote)
    BY <1>2, MessagesAssumption DEF ReceiveVote, CountingIsSound, TypeOK
  <2> QED BY <1>2, <2>1 DEF ReceiveVote, votes, CountingIsSound, TypeOK, Addrs,
                            ValidHasQuorum, CrashHasCause
<1>3. ASSUME NEW p \in Proposed, ReceiveProposal(p) PROVE CountingIsSound'
  <2>1. proposalCh' \in Seq(Blocks \cup {None})
    BY <1>3, MessagesAssumption DEF ReceiveProposal, CountingIsSound, TypeOK
  <2> QED BY <1>3, <2>1 DEF ReceiveProposal, votes, CountingIsSound, TypeOK, Addrs,
                            ValidHasQuorum, CrashHasCause
<1>4. CASE HandleProposal
  <2>1. proposalCh' \in Seq(Blocks \cup {None}) /\ proposal' \in Blocks \cup {None}
    BY <1>4 DEF HandleProposal, CountingIsSound, TypeOK
  <2> QED BY <1>4, <2>1 DEF HandleProposal, Looping, CountingIsSound, TypeOK, Addrs,
                            ValidHasQuorum, CrashHasCause
<1>5. CASE HandleVote
  BY <1>5, HandleVoteStep
<1>6. CASE HandleStrangersVote
  BY <1>6 DEF HandleStrangersVote, votes, CountingIsSound, TypeOK, Addrs,
              ValidHasQuorum, CrashHasCause
<1>7. CASE AdvanceToCommit
  BY <1>7 DEF AdvanceToCommit, votes, CountingIsSound, TypeOK, Addrs,
              ValidHasQuorum, CrashHasCause
<1>8. CASE UNCHANGED vars
  BY <1>8 DEF vars, votes, CountingIsSound, TypeOK, Addrs, ValidHasQuorum, CrashHasCause
<1> QED BY <1>1, <1>2, <1>3, <1>4, <1>5, <1>6, <1>7, <1>8 DEF Next

\* The invariant of the vote counting.
THEOREM CountingInvariant == Spec => []CountingIsSound
<1> QED BY InitCounting, NextCounting, PTL DEF Spec

\* A block becomes valid only by prevotes of active validators, whatever is sent,
\* repeated, changed or dropped; and, for stakes whose doubled total fits in a word,
\* of distinct ones with more than two thirds of the power.
THEOREM ValidNeedsQuorum == Spec => []ValidHasQuorum
<1>1. CountingIsSound => ValidHasQuorum
  BY DEF CountingIsSound
<1> QED BY <1>1, CountingInvariant, PTL

\* The process is lost only to a precommit quorum or to a stranger's vote.
THEOREM CrashNeedsCause == Spec => []CrashHasCause
<1>1. CountingIsSound => CrashHasCause
  BY DEF CountingIsSound
<1> QED BY <1>1, CountingInvariant, PTL

-----------------------------------------------------------------------------
(* Synchronization.  The peer it reads from may restart and lose what it    *)
(* reported, so an answer may be short of what was asked for, or empty; it   *)
(* is still a run of heights that starts after the last one received.        *)

Synchronization ==
    [phase : {"idle", "status", "blocks", "done"}, todo : SUBSET Peers, base : Nat,
     best : 0..MaxHeight, from : Peers \cup {"none"}, ch : Nat, got : Seq(Nat)]

PeersTyped ==
    /\ connected \subseteq Peers
    /\ heights \in [Peers -> 0..MaxHeight] /\ height \in 0..MaxHeight
    /\ sync \in Synchronization

\* A peer is chosen when one is ahead, and it is of the node's own chain.
SourceKept ==
    /\ sync.best > sync.base => sync.from \in Peers \ foreign
    /\ sync.from # "none" => sync.best > sync.base

\* The blocks received so far, and that another one is wanted while blocks are
\* asked for.
Progress ==
    /\ sync.base <= sync.ch /\ sync.ch <= sync.best
    /\ sync.phase = "status" => sync.ch = sync.base
    /\ sync.phase = "blocks" => sync.ch < sync.best
    /\ sync.got = [i \in 1..(sync.ch - sync.base) |-> sync.base + i]

SyncInv == PeersTyped /\ SourceKept /\ Progress

LEMMA SyncInitInv == SyncInit => SyncInv
<1> SUFFICES ASSUME SyncInit PROVE SyncInv
  OBVIOUS
<1> USE HeightsAssumption DEF SyncInit
<1>1. Idle \in Synchronization
  BY EmptySeq DEF Idle, Synchronization
<1>2. PeersTyped
  BY <1>1 DEF PeersTyped
<1>3. SourceKept
  BY DEF SourceKept, Idle
<1>4. Progress
  BY DEF Progress, Idle
<1> QED BY <1>2, <1>3, <1>4 DEF SyncInv

\* The actions of the peer manager and of the network.
LEMMA SyncFrame ==
    ASSUME SyncInv, UNCHANGED sync, UNCHANGED foreign, connected' \subseteq Peers,
           heights' \in [Peers -> 0..MaxHeight], height' \in 0..MaxHeight
    PROVE  SyncInv'
<1>1. PeersTyped'
  BY DEF SyncInv, PeersTyped
<1>2. SourceKept'
  BY HeightsAssumption DEF SyncInv, PeersTyped, SourceKept, Synchronization
<1>3. Progress'
  BY DEF SyncInv, Progress
<1> QED BY <1>1, <1>2, <1>3 DEF SyncInv

LEMMA RequestStatusStep ==
    ASSUME SyncInv, NEW p \in Peers, RequestStatus(p) PROVE SyncInv'
<1> USE HeightsAssumption
<1>0. /\ UNCHANGED <<connected, heights, height, foreign>>
      /\ sync.phase = "status" /\ sync.ch = sync.base /\ sync \in Synchronization
      /\ sync.base \in Nat /\ sync.best \in 0..MaxHeight /\ heights[p] \in 0..MaxHeight
  BY DEF SyncInv, PeersTyped, Progress, RequestStatus, manager, chains, Synchronization
<1>1. CASE /\ HandleStatus(p) /\ heights[p] > sync.best
           /\ sync' = Surveyed([sync EXCEPT !.todo = @ \ {p}, !.best = heights[p], !.from = p])
  <2>1. sync' \in Synchronization
    BY <1>0, <1>1 DEF Surveyed, Synchronization
  <2>2. /\ sync'.best = heights[p] /\ sync'.from = p /\ sync'.base = sync.base
        /\ sync'.ch = sync.ch /\ sync'.got = sync.got
        /\ sync'.phase \in {"status", "blocks", "done"}
        /\ sync'.phase = "blocks" => sync'.base < sync'.best
    BY <1>0, <1>1 DEF Surveyed, Synchronization
  <2>3. PeersTyped'
    BY <1>0, <2>1 DEF SyncInv, PeersTyped
  <2>4. SourceKept'
    BY <1>0, <1>1, <2>2 DEF SyncInv, SourceKept, HandleStatus, Progress
  <2>5. Progress'
    BY <1>0, <1>1, <2>2 DEF SyncInv, Progress
  <2> QED BY <2>3, <2>4, <2>5 DEF SyncInv
<1>2. CASE sync' = Surveyed([sync EXCEPT !.todo = @ \ {p}])
  <2>1. sync' \in Synchronization
    BY <1>0, <1>2 DEF Surveyed, Synchronization
  <2>2. /\ sync'.best = sync.best /\ sync'.from = sync.from /\ sync'.base = sync.base
        /\ sync'.ch = sync.ch /\ sync'.got = sync.got
        /\ sync'.phase \in {"status", "blocks", "done"}
        /\ sync'.phase = "blocks" => sync'.base < sync'.best
    BY <1>0, <1>2 DEF Surveyed, Synchronization
  <2>3. PeersTyped'
    BY <1>0, <2>1 DEF SyncInv, PeersTyped
  <2>4. SourceKept'
    BY <1>0, <2>2 DEF SyncInv, SourceKept
  <2>5. Progress'
    BY <1>0, <2>2 DEF SyncInv, Progress
  <2> QED BY <2>3, <2>4, <2>5 DEF SyncInv
<1> QED BY <1>1, <1>2 DEF RequestStatus

LEMMA MinOfTwo ==
    ASSUME NEW m \in Int, NEW n \in Int PROVE Min({m, n}) = IF m <= n THEN m ELSE n
BY DEF Min

\* Consecutive heights, and two runs of them put together.
Run(b, n) == [i \in 1..n |-> b + i]

LEMMA RunType ==
    ASSUME NEW b \in Nat, NEW n \in Nat
    PROVE  Run(b, n) \in Seq(Nat) /\ Len(Run(b, n)) = n
BY DEF Run

LEMMA RunContinues ==
    ASSUME NEW b \in Nat, NEW k \in Nat, NEW n \in Nat
    PROVE  Run(b, k) \o Run(b + k, n) = Run(b, k + n)
<1> DEFINE s == Run(b, k)  t == Run(b + k, n)  u == Run(b, k + n)
<1>1. /\ s \in Seq(Nat) /\ Len(s) = k
      /\ t \in Seq(Nat) /\ Len(t) = n
      /\ u \in Seq(Nat) /\ Len(u) = k + n
  <2>1. b + k \in Nat /\ k + n \in Nat
    OBVIOUS
  <2> QED BY <2>1, RunType, Zenon
<1>2. /\ \A i \in 1..k : s[i] = b + i
      /\ \A i \in 1..n : t[i] = b + k + i
      /\ \A i \in 1..(k + n) : u[i] = b + i
  BY DEF Run
<1> HIDE DEF s, t, u
<1>3. s \o t \in Seq(Nat) /\ Len(s \o t) = k + n
  BY <1>1, ConcatProperties
<1>4. \A i \in 1..(k + n) : (s \o t)[i] = u[i]
  <2> TAKE i \in 1..(k + n)
  <2>0. (s \o t)[i] = IF i <= k THEN s[i] ELSE t[i - k]
    BY <1>1, ConcatProperties
  <2>1. CASE i <= k
    BY <1>2, <2>0, <2>1
  <2>2. CASE i > k
    BY <1>2, <2>0, <2>2
  <2>3. i <= k \/ i > k
    OBVIOUS
  <2> QED BY <2>1, <2>2, <2>3, Zenon
<1>5. s \o t = u
  BY <1>1, <1>3, <1>4, SeqEqual
<1> QED BY <1>5 DEF s, t, u

\* The answer to a request is as much of what it asks for as the peer has.
LEMMA AnswerIsRun ==
    ASSUME SyncInv, sync.phase = "blocks"
    PROVE  \E n \in 0..(sync.best - sync.ch) :
              /\ HandleBlockSync(FirstWanted, LastWanted, RequestMax, heights[sync.from])
                   = Run(sync.ch, n)
              /\ heights[sync.from] > sync.ch => n > 0
<1> USE SizesAssumption, HeightsAssumption
<1> DEFINE a == FirstWanted  z == LastWanted  h == heights[sync.from]
           w == IF z <= h THEN z ELSE h  n == IF w < sync.ch THEN 0 ELSE w - sync.ch
<1>1. sync.ch \in Nat /\ sync.best \in Nat /\ sync.base \in Nat /\ sync.ch < sync.best
  BY DEF SyncInv, PeersTyped, Synchronization, Progress
<1>2. sync.best > sync.base
  BY <1>1 DEF SyncInv, Progress
<1>3. h \in Nat
  BY <1>2 DEF SyncInv, SourceKept, PeersTyped
<1>4. /\ z = IF sync.ch + Batch <= sync.best THEN sync.ch + Batch ELSE sync.best
      /\ a = sync.ch + 1
  BY <1>1, MinOfTwo DEF LastWanted, FirstWanted
<1>5. z \in Nat /\ a <= z /\ z <= sync.best /\ z - a < RequestMax
  BY <1>1, <1>4
<1> HIDE DEF a, z, h
<1>6. LastServed(a, z, RequestMax) = z
  BY <1>1, <1>4, <1>5 DEF LastServed
<1>7. Min({z, h}) = w
  BY <1>3, <1>5, <1>1, MinOfTwo
<1>8. HandleBlockSync(a, z, RequestMax, h) = [i \in 1..(w - a + 1) |-> a + i - 1]
  <2>1. ~(z < a)
    BY <1>1, <1>4, <1>5
  <2> QED BY <2>1, <1>6, <1>7, Zenon DEF HandleBlockSync
<1>9. n \in 0..(sync.best - sync.ch) /\ w \in Nat /\ (h > sync.ch => n > 0)
  BY <1>1, <1>3, <1>4, <1>5
<1>10. [i \in 1..(w - a + 1) |-> a + i - 1] = Run(sync.ch, n)
  <2>1. w - a + 1 = w - sync.ch /\ n \in Nat
    <3> HIDE DEF w
    <3> QED BY <1>1, <1>4, <1>9
  <2>2. 1..(w - sync.ch) = 1..n
    <3> HIDE DEF w
    <3>1. CASE w < sync.ch
      BY <1>1, <1>9, <3>1
    <3>2. CASE ~(w < sync.ch)
      BY <3>2
    <3> QED BY <3>1, <3>2
  <2>3. \A i \in 1..n : a + i - 1 = sync.ch + i
    BY <1>1, <1>4, <2>1
  <2> QED BY <2>1, <2>2, <2>3, Zenon DEF Run
<1> HIDE DEF n, w
<1>11. /\ HandleBlockSync(a, z, RequestMax, h) = Run(sync.ch, n)
       /\ h > sync.ch => n > 0
  BY <1>8, <1>9, <1>10
<1> QED BY <1>9, <1>11 DEF a, z, h

LEMMA RequestBlocksStep ==
    ASSUME SyncInv, RequestBlocks PROVE SyncInv'
<1> DEFINE blocks == HandleBlockSync(FirstWanted, LastWanted, RequestMax, heights[sync.from])
<1>0. /\ UNCHANGED <<connected, heights, height, foreign>> /\ sync.phase = "blocks"
      /\ sync' = [sync EXCEPT !.ch = sync.ch + Len(blocks), !.got = @ \o blocks,
                        !.phase = IF sync.ch + Len(blocks) < sync.best THEN "blocks" ELSE "done"]
  BY DEF RequestBlocks, manager, chains
<1>1. /\ sync.ch \in Nat /\ sync.best \in 0..MaxHeight /\ sync.base \in Nat
      /\ sync.base <= sync.ch /\ sync.ch < sync.best /\ sync \in Synchronization
      /\ sync.got = Run(sync.base, sync.ch - sync.base)
  BY <1>0 DEF Run, SyncInv, PeersTyped, Synchronization, Progress
<1> HIDE DEF blocks
<1>2. PICK k \in 0..(sync.best - sync.ch) : blocks = Run(sync.ch, k)
  BY <1>0, AnswerIsRun DEF blocks
<1> DEFINE z == sync.ch + k
<1>3. /\ z \in sync.ch..sync.best /\ z \in Nat /\ k = z - sync.ch
      /\ z - sync.ch \in Nat /\ sync.ch - sync.base \in Nat
  BY <1>1, <1>2, HeightsAssumption
<1> HIDE DEF z
<1>4. blocks \in Seq(Nat) /\ Len(blocks) = z - sync.ch
  BY <1>1, <1>2, <1>3, RunType
<1>5. sync.got \in Seq(Nat) /\ Len(sync.got) = sync.ch - sync.base
  <2>1. sync.base \in Nat /\ sync.ch - sync.base \in Nat
    BY <1>1, <1>3
  <2> DEFINE b == sync.base  n == sync.ch - sync.base
  <2>2. sync.got = Run(b, n)
    BY <1>1
  <2> HIDE DEF b, n
  <2>3. Run(b, n) \in Seq(Nat) /\ Len(Run(b, n)) = n
    BY <2>1, RunType DEF b, n
  <2> QED BY <2>2, <2>3 DEF n
<1>6. sync.got \o blocks = Run(sync.base, z - sync.base)
  <2>1. /\ sync.base + (sync.ch - sync.base) = sync.ch
        /\ (sync.ch - sync.base) + (z - sync.ch) = z - sync.base
    BY <1>1, <1>3
  <2>2. Run(sync.base, sync.ch - sync.base) \o Run(sync.base + (sync.ch - sync.base), z - sync.ch)
          = Run(sync.base, (sync.ch - sync.base) + (z - sync.ch))
    BY <1>1, <1>3, RunContinues
  <2> QED BY <1>1, <1>2, <1>3, <2>1, <2>2
<1>7. sync.got \o blocks \in Seq(Nat)
  BY <1>4, <1>5
<1>8. sync' = [sync EXCEPT !.ch = z, !.got = sync.got \o blocks,
                           !.phase = IF z < sync.best THEN "blocks" ELSE "done"]
  <2>1. sync.ch + Len(blocks) = z
    BY <1>1, <1>3, <1>4
  <2> QED BY <1>0, <2>1, Zenon DEF blocks
<1>9. sync' \in Synchronization
  BY <1>1, <1>3, <1>7, <1>8 DEF Synchronization
<1>10. /\ sync'.ch = z /\ sync'.got = sync.got \o blocks /\ sync'.best = sync.best
       /\ sync'.base = sync.base /\ sync'.from = sync.from
       /\ sync'.phase = IF z < sync.best THEN "blocks" ELSE "done"
  BY <1>1, <1>8 DEF Synchronization
<1>11. PeersTyped'
  BY <1>0, <1>9 DEF SyncInv, PeersTyped
<1>12. SourceKept'
  BY <1>0, <1>10 DEF SyncInv, SourceKept
<1>13. Progress'
  BY <1>1, <1>2, <1>3, <1>6, <1>10, HeightsAssumption DEF Progress, Run
<1> QED BY <1>11, <1>12, <1>13 DEF SyncInv

LEMMA SyncNextInv == SyncInv /\ [SyncNext]_syncVars => SyncInv'
<1> SUFFICES ASSUME SyncInv, [SyncNext]_syncVars PROVE SyncInv'
  OBVIOUS
<1> USE HeightsAssumption
<1>0. /\ connected \subseteq Peers /\ heights \in [Peers -> 0..MaxHeight]
      /\ height \in 0..MaxHeight
  BY DEF SyncInv, PeersTyped
<1>1. ASSUME NEW p \in Peers,
             \/ Connect(p) \/ Lose(p) \/ OnConnected(p) \/ ClosePeer(p) \/ Ban(p)
             \/ Expire(p) \/ FallSilent(p)
      PROVE  SyncInv'
  <2>1. UNCHANGED <<sync, foreign, heights, height>> /\ connected' \subseteq Peers
    BY <1>0, <1>1 DEF Connect, Lose, OnConnected, ClosePeer, Ban, Expire, FallSilent, Opened,
                      Closed, chains, manager
  <2> QED BY <1>0, <2>1, SyncFrame
<1>2. CASE Prune \/ UNCHANGED syncVars
  <2>1. UNCHANGED <<sync, foreign, heights, height, connected>>
    BY <1>2 DEF Prune, chains, syncVars
  <2> QED BY <1>0, <2>1, SyncFrame
<1>3. CASE OwnBlock
  <2>1. UNCHANGED <<sync, foreign, heights, connected>> /\ height' \in 0..MaxHeight
    BY <1>0, <1>3 DEF OwnBlock, manager
  <2> QED BY <1>0, <2>1, SyncFrame
<1>4. ASSUME NEW p \in Peers, PeerBlock(p) PROVE SyncInv'
  <2>1. /\ UNCHANGED <<sync, foreign, height, connected>>
        /\ heights[p] < MaxHeight /\ heights' = [heights EXCEPT ![p] = heights[p] + 1]
    BY <1>4 DEF PeerBlock, manager
  <2>2. heights' \in [Peers -> 0..MaxHeight]
    BY <1>0, <2>1
  <2> QED BY <1>0, <2>1, <2>2, SyncFrame
<1>8. ASSUME NEW p \in Peers, PeerRestarts(p) PROVE SyncInv'
  <2>1. /\ UNCHANGED <<sync, foreign, height>> /\ connected' \subseteq Peers
        /\ heights' = [heights EXCEPT ![p] = 0]
    BY <1>0, <1>8 DEF PeerRestarts, Closed
  <2>2. heights' \in [Peers -> 0..MaxHeight]
    BY <1>0, <2>1
  <2> QED BY <1>0, <2>1, <2>2, SyncFrame
<1>5. CASE SyncToBestChain
  <2>1. /\ UNCHANGED <<connected, heights, height, foreign>>
        /\ sync' = [phase |-> "status", todo |-> connected, base |-> height, best |-> height,
                    from |-> "none", ch |-> height, got |-> <<>>]
    BY <1>5 DEF SyncToBestChain, manager, chains
  <2>2. sync' \in Synchronization
    BY <1>0, <2>1, EmptySeq DEF Synchronization
  <2>3. PeersTyped'
    BY <1>0, <2>1, <2>2 DEF PeersTyped
  <2>4. SourceKept'
    BY <1>0, <2>1 DEF SourceKept
  <2>5. Progress'
    BY <1>0, <2>1 DEF Progress
  <2> QED BY <2>3, <2>4, <2>5 DEF SyncInv
<1>6. CASE RequestFails
  <2>1. /\ UNCHANGED <<connected, heights, height, foreign>> /\ sync.phase = "blocks"
        /\ sync' = [sync EXCEPT !.phase = "done"] /\ sync \in Synchronization
    BY <1>6 DEF RequestFails, manager, chains, SyncInv, PeersTyped
  <2>2. /\ sync' \in Synchronization
        /\ sync'.best = sync.best /\ sync'.from = sync.from /\ sync'.base = sync.base
        /\ sync'.ch = sync.ch /\ sync'.got = sync.got /\ sync'.phase = "done"
    BY <2>1 DEF Synchronization
  <2>3. PeersTyped'
    BY <1>0, <2>1, <2>2 DEF PeersTyped
  <2>4. SourceKept'
    BY <2>1, <2>2 DEF SourceKept, SyncInv
  <2>5. Progress'
    BY <2>1, <2>2 DEF Progress, SyncInv
  <2> QED BY <2>3, <2>4, <2>5 DEF SyncInv
<1>7. CASE Return
  <2>1. UNCHANGED <<connected, heights, height, foreign>> /\ sync' = Idle
    BY <1>7 DEF Return, manager, chains
  <2>2. Idle \in Synchronization
    BY EmptySeq DEF Idle, Synchronization
  <2>3. PeersTyped'
    BY <1>0, <2>1, <2>2 DEF PeersTyped
  <2>4. SourceKept'
    BY <2>1 DEF SourceKept, Idle
  <2>5. Progress'
    BY <2>1 DEF Progress, Idle
  <2> QED BY <2>3, <2>4, <2>5 DEF SyncInv
<1> QED
  BY <1>1, <1>2, <1>3, <1>4, <1>5, <1>6, <1>7, <1>8, RequestStatusStep, RequestBlocksStep
     DEF SyncNext

\* The cut at max is before the end of the range and the wrap only shortens it, but
\* for the one request that wraps below zero.
LEMMA LastServedBounds ==
    ASSUME NEW a \in Nat, NEW z \in Nat, NEW max \in Nat, a <= z
    PROVE  /\ LastServed(a, z, max) \in Nat
           /\ a + max > 0 => LastServed(a, z, max) <= z /\ LastServed(a, z, max) <= a + max
<1> USE HeightsAssumption
<1>1. CASE z - a <= max
  BY <1>1 DEF LastServed
<1>2. CASE z - a > max
  <2>1. LastServed(a, z, max) = (a + max - 1) % HeightWord
    BY <1>2 DEF LastServed
  <2>2. HeightWord \in Nat \ {0} /\ a + max - 1 \in Int
    OBVIOUS
  <2>3. (a + max - 1) % HeightWord \in Nat
    BY <2>2
  <2>4. a + max > 0 => (a + max - 1) % HeightWord <= a + max - 1
    BY <2>2, <2>3
  <2> QED BY <1>2, <2>1, <2>3, <2>4
<1> QED BY <1>1, <1>2

\* handleBlockSync keeps to the range asked for, for every request.
LEMMA AnswersFitAlways == ASSUME SyncInv PROVE AnswersFit
<1> SUFFICES ASSUME NEW r \in Requests
             PROVE  LET blocks == HandleBlockSync(r.start, r.end, r.max, height)
                    IN  /\ \A i \in DOMAIN blocks : blocks[i] = r.start + i - 1 /\ blocks[i] <= height
                        /\ r.start + r.max > 0 => /\ Len(blocks) <= r.max + 1
                                                  /\ \A i \in DOMAIN blocks : blocks[i] <= r.end
  BY DEF AnswersFit
<1> DEFINE a == r.start  z == r.end  max == r.max
           blocks == HandleBlockSync(a, z, max, height)
           served == LastServed(a, z, max)
           last == IF served <= height THEN served ELSE height
           n == IF z < a \/ last < a THEN 0 ELSE last - a + 1
<1>1. a \in Nat /\ z \in Nat /\ max \in Nat /\ height \in Nat
  BY RequestsAssumption, HeightsAssumption DEF SyncInv, PeersTyped
<1> HIDE DEF a, z, max
<1>2. a <= z => /\ served \in Nat
                /\ a + max > 0 => served <= z /\ served <= a + max
  BY <1>1, LastServedBounds
<1>3. blocks = [i \in 1..n |-> a + i - 1]
  <2>1. CASE z < a
    <3>1. blocks = <<>> /\ n = 0
      BY <2>1 DEF HandleBlockSync
    <3> QED BY <3>1
  <2>2. CASE a <= z
    <3> HIDE DEF served
    <3>1. ~(z < a) /\ Min({served, height}) = last
      BY <1>1, <1>2, <2>2, MinOfTwo
    <3>2. blocks = [i \in 1..(last - a + 1) |-> a + i - 1]
      BY <3>1, Zenon DEF HandleBlockSync, served
    <3>3. 1..(last - a + 1) = 1..n
      BY <1>1, <1>2, <3>1, <2>2
    <3> QED BY <3>2, <3>3
  <2> QED BY <1>1, <2>1, <2>2
<1>4. n \in Nat /\ Len(blocks) = n /\ DOMAIN blocks = 1..n
  <2> HIDE DEF served
  <2>1. n \in Nat
    BY <1>1, <1>2
  <2> HIDE DEF n, blocks
  <2> QED BY <1>3, <2>1
<1>5. /\ \A i \in 1..n : a + i - 1 <= height
      /\ a + max > 0 => n <= max + 1 /\ \A i \in 1..n : a + i - 1 <= z
  <2> HIDE DEF served
  <2> QED BY <1>1, <1>2
<1> HIDE DEF n, blocks
<1>6. /\ \A i \in DOMAIN blocks : blocks[i] = a + i - 1 /\ blocks[i] <= height
      /\ a + max > 0 => Len(blocks) <= max + 1 /\ \A i \in DOMAIN blocks : blocks[i] <= z
  BY <1>3, <1>4, <1>5
<1> QED BY <1>6 DEF blocks, a, z, max

\* SyncToBestChain receives the blocks after the node's own, each once and in
\* order, from a peer of the same chain, and handleBlockSync answers every request
\* within its range: for any number of peers, however they grow, restart and fall
\* silent, connections come and go and requests fail.
THEOREM SynchronizationIsSound == SyncSpec => []SyncSound
<1>1. SyncInv => BlocksInOrder
  BY DEF SyncInv, BlocksInOrder, SourceKept, Progress
<1>2. SyncInv => SyncSound
  BY <1>1, AnswersFitAlways DEF SyncSound
<1> QED BY <1>2, SyncInitInv, SyncNextInv, PTL DEF SyncSpec

\* The safety part of SyncEnds: an answer brings at least one block unless its
\* sender has lost the blocks it reported.
AnswerBringsBlock == RequestBlocks /\ ~SourceFellBack => sync'.ch > sync.ch

LEMMA AnswerStep ==
    ASSUME SyncInv, RequestBlocks, ~SourceFellBack PROVE sync'.ch > sync.ch
<1> DEFINE blocks == HandleBlockSync(FirstWanted, LastWanted, RequestMax, heights[sync.from])
<1>1. /\ sync.phase = "blocks" /\ sync \in Synchronization /\ sync.ch \in Nat
      /\ sync.from \in connected
  BY DEF RequestBlocks, SyncInv, PeersTyped, Synchronization
<1>2. sync'.ch = sync.ch + Len(blocks)
  BY <1>1 DEF RequestBlocks, Synchronization
<1>3. heights[sync.from] > sync.ch
  <2>1. heights[sync.from] \in Nat
    BY <1>1, HeightsAssumption DEF SyncInv, PeersTyped
  <2> QED BY <1>1, <2>1 DEF SourceFellBack
<1>4. PICK n \in 0..(sync.best - sync.ch) : blocks = Run(sync.ch, n) /\ n > 0
  BY <1>1, <1>3, AnswerIsRun
<1> HIDE DEF blocks
<1>5. n \in Nat /\ Len(blocks) = n
  BY <1>1, <1>4, RunType
<1> QED BY <1>1, <1>2, <1>4, <1>5

\* Every answer from a peer that still has what it reported brings a
\* synchronization forward, for any size of batch below the request's limit and any
\* heights below the word's.
THEOREM DownloadsAdvance == SyncSpec => [][AnswerBringsBlock]_syncVars
<1>1. SyncInv /\ [SyncNext]_syncVars => [AnswerBringsBlock]_syncVars
  BY AnswerStep DEF AnswerBringsBlock
<1> QED BY <1>1, SyncInitInv, SyncNextInv, PTL DEF SyncSpec

\* The safety part of BannedIsCutOff: a banned peer that is connected has a notice
\* on its way to onConnected, or a goroutine that is about to close it.
BanPursued == \A p \in connected \cap blacklist : p \in notices \cup closing

\* No order of connecting, telling the manager, banning and closing lets a banned
\* peer's connection slip through both Ban and onConnected.
THEOREM BansArePursued == SyncSpec => []BanPursued
<1>1. SyncInit => BanPursued
  BY DEF SyncInit, BanPursued
<1>2. ASSUME BanPursued, [SyncNext]_syncVars PROVE BanPursued'
  <2>1. CASE \E q \in Peers : Connect(q)
    BY <1>2, <2>1 DEF Connect, Opened, BanPursued
  <2>2. CASE \E q \in Peers : Lose(q)
    BY <1>2, <2>2 DEF Lose, Closed, BanPursued
  <2>3. CASE \E q \in Peers : OnConnected(q)
    BY <1>2, <2>3 DEF OnConnected, BanPursued
  <2>4. CASE \E q \in Peers : ClosePeer(q)
    BY <1>2, <2>4 DEF ClosePeer, Closed, BanPursued
  <2>5. CASE \E q \in Peers : Ban(q)
    BY <1>2, <2>5 DEF Ban, Closed, BanPursued
  <2>6. CASE Prune
    BY <1>2, <2>6 DEF Prune, BanPursued
  <2>7. CASE UNCHANGED <<connected, notices, blacklist, closing>>
    BY <1>2, <2>7 DEF BanPursued
  <2>9. CASE \E q \in Peers : PeerRestarts(q)
    BY <1>2, <2>9 DEF PeerRestarts, Closed, BanPursued
  <2>8. \/ UNCHANGED <<connected, notices, blacklist, closing>> \/ Prune
        \/ \E q \in Peers : \/ Connect(q) \/ Lose(q) \/ OnConnected(q) \/ ClosePeer(q)
                              \/ Ban(q) \/ PeerRestarts(q)
    BY <1>2 DEF SyncNext, syncVars, manager, PeerBlock, RequestStatus, OwnBlock, SyncToBestChain,
                RequestBlocks, RequestFails, Return, Expire, FallSilent
  <2> QED BY <2>1, <2>2, <2>3, <2>4, <2>5, <2>6, <2>7, <2>8, <2>9
<1> QED BY <1>1, <1>2, PTL DEF SyncSpec

-----------------------------------------------------------------------------
(* The path to a block.  Path is a recursive function, which TLA+ defines by *)
(* CHOOSE; that one exists rests on there being no circle of parents.        *)

Ids == Block \cup {Genesis}

\* f is the function Path is chosen as, on a set of blocks that holds their parents.
Paths(f, D) == f = [b \in D |-> IF b = Genesis THEN <<>> ELSE Append(f[Parent[b]], b)]

Rooted(D) ==
    /\ D \subseteq Ids /\ Genesis \in D
    /\ \A b \in D : b # Genesis => Parent[b] \in D

LEMMA PathsAgree ==
    ASSUME NEW D, Rooted(D), NEW f, Paths(f, D), NEW E, Rooted(E), NEW g, Paths(g, E),
           NEW x \in D \cap E
    PROVE  f[x] = g[x]
<1> DEFINE S == {b \in Block : b \in D \cap E /\ f[b] # g[b]}
<1>1. S = {}
  <2> SUFFICES ASSUME S # {} PROVE FALSE
    OBVIOUS
  <2>1. PICK b \in S : Parent[b] \notin S
    <3>1. S \in SUBSET Block
      OBVIOUS
    <3> HIDE DEF S
    <3> QED BY <3>1, ChainAssumption
  <2>2. b # Genesis /\ b \in D /\ b \in E /\ Parent[b] \in D /\ Parent[b] \in E /\ Parent[b] \in Ids
    BY <2>1, ChainAssumption DEF Rooted, Ids
  <2>3. f[Parent[b]] = g[Parent[b]]
    <3>1. CASE Parent[b] = Genesis
      BY <2>2, <3>1 DEF Paths
    <3>2. CASE Parent[b] # Genesis
      BY <2>1, <2>2, <3>2 DEF Ids
    <3> QED BY <3>1, <3>2
  <2>4. f[b] = Append(f[Parent[b]], b) /\ g[b] = Append(g[Parent[b]], b)
    BY <2>2 DEF Paths
  <2>5. f[b] # g[b]
    OBVIOUS
  <2> QED BY <2>3, <2>4, <2>5
<1>2. CASE x = Genesis
  BY <1>2 DEF Paths
<1>3. CASE x # Genesis
  BY <1>1, <1>3 DEF Rooted, Ids
<1> QED BY <1>2, <1>3

\* Every block is in a set on which such a function exists.
Reached(b) == \E D, f : Rooted(D) /\ Paths(f, D) /\ b \in D

LEMMA AllReached == \A b \in Ids : Reached(b)
<1>0. Reached(Genesis)
  <2> DEFINE f == [b \in {Genesis} |-> <<>>]
  <2>1. Rooted({Genesis}) /\ Paths(f, {Genesis})
    BY DEF Rooted, Ids, Paths
  <2> QED BY <2>1 DEF Reached
<1> DEFINE S == {b \in Block : ~Reached(b)}
<1>1. S = {}
  <2> SUFFICES ASSUME S # {} PROVE FALSE
    OBVIOUS
  <2>1. PICK b \in S : Parent[b] \notin S
    <3>1. S \in SUBSET Block
      OBVIOUS
    <3> HIDE DEF S
    <3> QED BY <3>1, ChainAssumption
  <2>2. b \in Block /\ b # Genesis /\ Parent[b] \in Ids /\ Reached(Parent[b]) /\ ~Reached(b)
    BY <1>0, <2>1, ChainAssumption DEF Ids
  <2>3. PICK D, f : Rooted(D) /\ Paths(f, D) /\ Parent[b] \in D
    BY <2>2 DEF Reached
  <2> DEFINE E == D \cup {b}
             g == [y \in E |-> IF y = Genesis THEN <<>> ELSE Append(f[Parent[y]], y)]
  <2>4. b \notin D
    BY <2>2, <2>3 DEF Reached
  <2>5. Rooted(E)
    BY <2>2, <2>3 DEF Rooted, Ids
  <2>6. \A y \in D : g[y] = f[y]
    BY <2>3 DEF Paths
  <2>7. \A y \in E : y # Genesis => Parent[y] \in D
    BY <2>2, <2>3 DEF Rooted
  <2>8. Paths(g, E)
    <3>1. \A y \in E : y # Genesis => g[Parent[y]] = f[Parent[y]]
      BY <2>6, <2>7
    <3>2. g = [y \in E |-> IF y = Genesis THEN <<>> ELSE Append(f[Parent[y]], y)]
      OBVIOUS
    <3> HIDE DEF g, E
    <3> QED BY <3>1, <3>2 DEF Paths
  <2>9. b \in E
    OBVIOUS
  <2> HIDE DEF g, E
  <2> QED BY <2>2, <2>5, <2>8, <2>9 DEF Reached
<1> QED BY <1>0, <1>1 DEF Ids

LEMMA PathUnfolds == Paths(Path, Ids)
<1> DEFINE R(b, v) == \E D, f : Rooted(D) /\ Paths(f, D) /\ b \in D /\ v = f[b]
           F == [b \in Ids |-> CHOOSE v : R(b, v)]
<1>1. ASSUME NEW D, NEW f, Rooted(D), Paths(f, D), NEW b \in D PROVE F[b] = f[b]
  <2>1. b \in Ids
    BY <1>1 DEF Rooted
  <2>2. R(b, f[b])
    BY <1>1
  <2>3. \A v : R(b, v) => v = f[b]
    BY <1>1, PathsAgree
  <2> HIDE DEF R
  <2>4. (CHOOSE v : R(b, v)) = f[b]
    BY <2>2, <2>3
  <2> QED BY <2>1, <2>4
<1>2. ASSUME NEW b \in Ids
      PROVE  F[b] = IF b = Genesis THEN <<>> ELSE Append(F[Parent[b]], b)
  <2>1. PICK D, f : Rooted(D) /\ Paths(f, D) /\ b \in D
    BY AllReached DEF Reached
  <2>2. F[b] = f[b]
    <3> HIDE DEF F
    <3> QED BY <1>1, <2>1
  <2>3. f[b] = IF b = Genesis THEN <<>> ELSE Append(f[Parent[b]], b)
    BY <2>1 DEF Paths
  <2>4. b # Genesis => Parent[b] \in D
    BY <2>1 DEF Rooted
  <2>5. b # Genesis => F[Parent[b]] = f[Parent[b]]
    <3> HIDE DEF F
    <3> QED BY <1>1, <2>1, <2>4
  <2> HIDE DEF F
  <2> QED BY <2>2, <2>3, <2>5
<1>3. F = [b \in Ids |-> F[b]]
  OBVIOUS
<1> HIDE DEF F
<1>4. Paths(F, Ids)
  BY <1>2, <1>3 DEF Paths
<1>5. Path = CHOOSE f : Paths(f, Ids)
  BY Zenon DEF Path, Paths, Ids
<1> QED BY <1>4, <1>5, Zenon

LEMMA PathType == Path \in [Ids -> Seq(Ids)] /\ Path[Genesis] = <<>>
<1> DEFINE S == {b \in Block : Path[b] \notin Seq(Ids)}
<1>1. \A b \in Ids : Path[b] = IF b = Genesis THEN <<>> ELSE Append(Path[Parent[b]], b)
  BY PathUnfolds DEF Paths
<1>2. Path = [b \in Ids |-> Path[b]]
  BY PathUnfolds DEF Paths
<1>3. Path[Genesis] = <<>>
  BY <1>1 DEF Ids
<1>4. S = {}
  <2> SUFFICES ASSUME S # {} PROVE FALSE
    OBVIOUS
  <2>1. PICK b \in S : Parent[b] \notin S
    <3>1. S \in SUBSET Block
      OBVIOUS
    <3> HIDE DEF S
    <3> QED BY <3>1, ChainAssumption
  <2>2. b # Genesis /\ b \in Ids /\ Parent[b] \in Ids /\ Path[b] \notin Seq(Ids)
    BY <2>1, ChainAssumption DEF Ids
  <2>3. Path[Parent[b]] \in Seq(Ids)
    BY <1>3, <2>1, <2>2, EmptySeq DEF Ids
  <2>4. Path[b] = Append(Path[Parent[b]], b)
    BY <1>1, <2>2
  <2> QED BY <2>2, <2>3, <2>4
<1>5. \A b \in Ids : Path[b] \in Seq(Ids)
  BY <1>3, <1>4, EmptySeq DEF Ids
<1> QED BY <1>2, <1>3, <1>5

-----------------------------------------------------------------------------
(* Folds over a list: the blocks of a branch that are inserted, and the      *)
(* blocks that were executed to the end.                                     *)

LEMMA MaxInSet ==
    ASSUME NEW n \in Nat, NEW s, s \subseteq 1..n, s # {}
    PROVE  Max(s) \in s /\ \A y \in s : Max(s) >= y
<1> DEFINE T == {k \in Nat : \A y \in s : y + k < n + 1}
<1>1. \E x \in s : \A y \in s : x >= y
  <2> SUFFICES ASSUME \A x \in s : \E y \in s : ~(x >= y) PROVE FALSE
    OBVIOUS
  <2>1. 0 \in T
    OBVIOUS
  <2>2. ASSUME NEW k \in Nat, k \in T PROVE k + 1 \in T
    <3>1. ASSUME NEW y \in s, y + k = n PROVE FALSE
      <4>1. PICK z \in s : ~(y >= z)
        OBVIOUS
      <4>2. z + k < n + 1
        BY <2>2
      <4> QED BY <4>1, <4>2, <3>1
    <3>2. \A y \in s : y + k < n + 1
      BY <2>2
    <3> QED BY <3>1, <3>2
  <2>3. Nat \subseteq T
    <3> HIDE DEF T
    <3> QED BY <2>1, <2>2, NatSetInduction
  <2>4. n \in T
    <3> HIDE DEF T
    <3> QED BY <2>3
  <2>5. PICK y \in s : y + n < n + 1
    BY <2>4
  <2> QED BY <2>5
<1> QED BY <1>1 DEF Max

\* One step of either fold: a block is inserted, if none was refused before and it
\* is above y in chain x; or a block that was executed to the end is noted.
Step(kind, x, y, acc, e) ==
    IF kind = "apply"
    THEN IF ~acc.ok \/ Height(x, e) <= Height(x, y) THEN acc ELSE InsertBlock(acc.chain, e)
    ELSE IF e \in Failing THEN acc ELSE Append(acc, e)

\* g folds seq over the indexes of every set of D.
Folds(g, kind, x, y, base, seq, D) ==
    g = [s \in D |-> IF s = {} THEN base
                     ELSE Step(kind, x, y, g[s \ {Max(s)}], seq[Max(s)])]

\* The function that the library chooses exists.
LEMMA FoldExists ==
    ASSUME NEW kind, NEW x, NEW y, NEW base, NEW seq, NEW N \in Nat
    PROVE  \E g : Folds(g, kind, x, y, base, seq, SUBSET (1..N))
<1> DEFINE S == 1..N
           D(n) == {s \in SUBSET S : Cardinality(s) <= n}
           T == {n \in Nat : \E g : Folds(g, kind, x, y, base, seq, D(n))}
<1>a. IsFiniteSet(S)
  BY FS_Interval
<1>b. \A s \in SUBSET S : s # {} => Max(s) \in s
  BY MaxInSet
<1> HIDE DEF S
<1>0. \A s \in SUBSET S : IsFiniteSet(s) /\ Cardinality(s) \in Nat /\ Cardinality(s) <= Cardinality(S)
  BY <1>a, FS_Subset, FS_CardinalityType
<1>1. 0 \in T
  <2>1. D(0) = {{}}
    BY <1>0, FS_EmptySet
  <2>2. Folds([s \in {{}} |-> base], kind, x, y, base, seq, {{}})
    BY DEF Folds
  <2> QED BY <2>1, <2>2
<1>2. ASSUME NEW n \in Nat, n \in T PROVE n + 1 \in T
  <2>1. PICK g : Folds(g, kind, x, y, base, seq, D(n))
    BY <1>2
  <2> DEFINE h == [s \in D(n + 1) |-> IF s = {} THEN base
                                      ELSE Step(kind, x, y, g[s \ {Max(s)}], seq[Max(s)])]
  <2>2. ASSUME NEW s \in D(n + 1), s # {}
        PROVE  s \ {Max(s)} \in D(n) /\ s \ {Max(s)} \in D(n + 1)
    <3>1. Max(s) \in s
      BY <2>2, <1>b
    <3>2. Cardinality(s \ {Max(s)}) = Cardinality(s) - 1
      BY <3>1, <1>0, FS_RemoveElement
    <3>3. s \ {Max(s)} \in SUBSET S /\ Cardinality(s) \in Nat /\ Cardinality(s) <= n + 1
      BY <1>0
    <3> QED BY <3>2, <3>3
  <2>3. ASSUME NEW s \in D(n), s \in D(n + 1) PROVE h[s] = g[s]
    BY <2>1, <2>3 DEF Folds
  <2>4. ASSUME NEW s \in D(n + 1), s # {}
        PROVE  h[s \ {Max(s)}] = g[s \ {Max(s)}]
    <3> HIDE DEF h
    <3> QED BY <2>2, <2>3, <2>4
  <2>5. Folds(h, kind, x, y, base, seq, D(n + 1))
    BY <2>4 DEF Folds
  <2> HIDE DEF h
  <2>6. \E f : Folds(f, kind, x, y, base, seq, D(n + 1))
    BY <2>5
  <2>7. n + 1 \in Nat
    OBVIOUS
  <2> HIDE DEF D
  <2> QED BY <2>6, <2>7
<1>3. Cardinality(S) \in T
  <2> HIDE DEF T
  <2> QED BY <1>a, <1>1, <1>2, NatSetInduction, FS_CardinalityType
<1>4. D(Cardinality(S)) = SUBSET S
  BY <1>0
<1>5. \E g : Folds(g, kind, x, y, base, seq, SUBSET S)
  BY <1>3, <1>4
<1> QED BY <1>5 DEF S

FoldsList(g, kind, x, y, base, seq, N) == Folds(g, kind, x, y, base, seq, SUBSET (1..N))

\* Either fold goes through the list from its head: g[1..k] is the result of
\* its first k entries.
FoldChain(g, kind, x, y, base, seq, N) ==
    /\ g[1..0] = base
    /\ \A k \in 1..N : g[1..k] = Step(kind, x, y, g[1..k - 1], seq[k])

LEMMA FoldSteps ==
    ASSUME NEW kind, NEW x, NEW y, NEW base, NEW seq, NEW N \in Nat,
           NEW g, FoldsList(g, kind, x, y, base, seq, N)
    PROVE  FoldChain(g, kind, x, y, base, seq, N)
<1>1. 1..0 = {} /\ {} \in SUBSET (1..N)
  OBVIOUS
<1>2. g[1..0] = base
  BY <1>1 DEF Folds, FoldsList
<1>3. ASSUME NEW k \in 1..N PROVE g[1..k] = Step(kind, x, y, g[1..k - 1], seq[k])
  <2>1. 1..k \in SUBSET (1..N) /\ k \in 1..k /\ 1..k # {}
    <3>1. 1..k \subseteq 1..N
      OBVIOUS
    <3>2. k \in 1..k
      OBVIOUS
    <3> QED BY <3>1, <3>2
  <2>2. Max(1..k) \in 1..k /\ Max(1..k) >= k
    BY <2>1, MaxInSet
  <2>3. Max(1..k) = k
    BY <2>2
  <2>4. 1..k \ {k} = 1..k - 1
    OBVIOUS
  <2>5. g[1..k] = Step(kind, x, y, g[1..k \ {Max(1..k)}], seq[Max(1..k)])
    BY <2>1 DEF Folds, FoldsList
  <2> QED BY <2>3, <2>4, <2>5
<1> QED BY <1>2, <1>3 DEF FoldChain

LEMMA ApplyIsFold ==
    ASSUME NEW c, NEW bs, NEW anc, NEW N \in Nat, DOMAIN bs = 1..N
    PROVE  \E g : /\ FoldChain(g, "apply", c, anc, [ok |-> TRUE, chain |-> c], bs, N)
                  /\ ApplyBlocks(c, bs, anc) = g[1..N]
<1> DEFINE base == [ok |-> TRUE, chain |-> c]
           P(g) == g = [s \in SUBSET DOMAIN bs |-> IF s = {} THEN base
                             ELSE IF \/ ~g[s \ {Max(s)}].ok
                                     \/ Height(c, bs[Max(s)]) <= Height(c, anc)
                                  THEN g[s \ {Max(s)}]
                                  ELSE InsertBlock(g[s \ {Max(s)}].chain, bs[Max(s)])]
           G == CHOOSE g : P(g)
<1>1. ApplyBlocks(c, bs, anc) = G[DOMAIN bs]
  BY Zenon DEF ApplyBlocks, FoldLeft, MapThenFoldSet
<1>2. \A g : P(g) <=> FoldsList(g, "apply", c, anc, base, bs, N)
  BY DEF Folds, FoldsList, Step
<1> HIDE DEF P, base
<1>3. \E g : P(g)
  BY <1>2, FoldExists DEF FoldsList
<1>4. P(G)
  BY <1>3, Zenon
<1> HIDE DEF G
<1>5. FoldChain(G, "apply", c, anc, base, bs, N)
  BY <1>2, <1>4, FoldSteps
<1> QED BY <1>1, <1>5 DEF base

LEMMA SucceededIsFold ==
    ASSUME NEW bs, NEW N \in Nat, DOMAIN bs = 1..N
    PROVE  \E g : /\ FoldChain(g, "done", 0, 0, <<>>, bs, N)
                  /\ Succeeded(bs) = g[1..N]
<1> DEFINE P(g) == g = [s \in SUBSET DOMAIN bs |-> IF s = {} THEN <<>>
                             ELSE IF bs[Max(s)] \in Failing THEN g[s \ {Max(s)}]
                                  ELSE Append(g[s \ {Max(s)}], bs[Max(s)])]
           G == CHOOSE g : P(g)
<1>1. Succeeded(bs) = G[DOMAIN bs]
  BY Zenon DEF Succeeded, FoldLeft, MapThenFoldSet
<1>2. \A g : P(g) <=> FoldsList(g, "done", 0, 0, <<>>, bs, N)
  BY DEF Folds, FoldsList, Step
<1> HIDE DEF P
<1>3. \E g : P(g)
  BY <1>2, FoldExists DEF FoldsList
<1>4. P(G)
  BY <1>3, Zenon
<1> HIDE DEF G
<1>5. FoldChain(G, "done", 0, 0, <<>>, bs, N)
  BY <1>2, <1>4, FoldSteps
<1> QED BY <1>1, <1>5

\* One more block: it counts unless it fails.
LEMMA SucceededAppend ==
    ASSUME NEW s \in Seq(Ids), NEW b \in Ids
    PROVE  Succeeded(Append(s, b)) = IF b \in Failing THEN Succeeded(s)
                                     ELSE Append(Succeeded(s), b)
<1> DEFINE N == Len(s)  t == Append(s, b)
<1>1. N \in Nat /\ N + 1 \in Nat /\ DOMAIN s = 1..N /\ DOMAIN t = 1..N + 1
      /\ t[N + 1] = b /\ \A k \in 1..N : t[k] = s[k]
  OBVIOUS
<1>2. PICK g : FoldChain(g, "done", 0, 0, <<>>, s, N) /\ Succeeded(s) = g[1..N]
  BY <1>1, SucceededIsFold
<1>3. PICK h : FoldChain(h, "done", 0, 0, <<>>, t, N + 1) /\ Succeeded(t) = h[1..N + 1]
  BY <1>1, SucceededIsFold
<1> HIDE DEF N, t
<1> DEFINE T == {k \in Nat : k <= N => h[1..k] = g[1..k]}
<1>4. 0 \in T
  BY <1>1, <1>2, <1>3 DEF FoldChain
<1>5. ASSUME NEW k \in Nat, k \in T PROVE k + 1 \in T
  <2> SUFFICES ASSUME k + 1 <= N PROVE h[1..k + 1] = g[1..k + 1]
    OBVIOUS
  <2>1. k + 1 \in 1..N /\ k + 1 \in 1..N + 1 /\ (k + 1) - 1 = k /\ h[1..k] = g[1..k]
    BY <1>1, <1>5
  <2>2. h[1..k + 1] = Step("done", 0, 0, h[1..(k + 1) - 1], t[k + 1])
    BY <1>3, <2>1 DEF FoldChain
  <2>3. g[1..k + 1] = Step("done", 0, 0, g[1..(k + 1) - 1], s[k + 1])
    BY <1>2, <2>1 DEF FoldChain
  <2> QED BY <1>1, <2>1, <2>2, <2>3
<1>6. h[1..N] = g[1..N]
  <2>1. Nat \subseteq T
    <3> HIDE DEF T
    <3> QED BY <1>4, <1>5, NatSetInduction
  <2> QED BY <1>1, <2>1
<1>7. h[1..N + 1] = Step("done", 0, 0, h[1..(N + 1) - 1], t[N + 1])
  BY <1>1, <1>3 DEF FoldChain
<1>8. (N + 1) - 1 = N
  BY <1>1
<1>9. Succeeded(t) = IF b \in Failing THEN g[1..N] ELSE Append(g[1..N], b)
  BY <1>1, <1>3, <1>6, <1>7, <1>8 DEF Step
<1> QED BY <1>2, <1>9 DEF t

LEMMA SucceededEmpty == Succeeded(<<>>) = <<>>
<1>1. PICK g : FoldChain(g, "done", 0, 0, <<>>, <<>>, 0) /\ Succeeded(<<>>) = g[1..0]
  BY SucceededIsFold
<1> QED BY <1>1 DEF FoldChain

-----------------------------------------------------------------------------
(* The canonical chain.  The invariant is stated of a chain, not of the      *)
(* variable, because ProcessBlock may insert several blocks in one step.     *)

Object == [id : Ids, root : Seq(Ids), parent : [id : Ids \cup {"none"}, root : Seq(Ids)]]

ChainRecord(c) ==
    /\ c = [objects |-> c.objects, current |-> c.current, blocks |-> c.blocks,
            heights |-> c.heights, state |-> c.state]
    /\ c.objects \in Seq(Object) /\ c.state \in Seq(Ids) /\ c.current \in 1..Len(c.objects)

TipOf(c) == Height(c, c.current)

\* The height index leads to objects of that height, and is dense.
Indexed(c) ==
    /\ DOMAIN c.heights = 0..TipOf(c) /\ c.heights[TipOf(c)] = c.current
    /\ \A h \in 0..TipOf(c) : c.heights[h] \in 1..Len(c.objects) /\ Height(c, c.heights[h]) = h

LinkedUp(c) ==
    \A h \in 1..TipOf(c) : ParentHash(c, c.heights[h]) = Hash(c, c.heights[h - 1])

Found(c) ==
    \A h \in 0..TipOf(c) : /\ Hash(c, c.heights[h]) \in DOMAIN c.blocks
                           /\ c.blocks[Hash(c, c.heights[h])] = c.heights[h]

Once(c) == Succeeded(c.state) = [h \in 1..TipOf(c) |-> c.objects[c.heights[h]].id]

ChainInv(c) == ChainRecord(c) /\ Indexed(c) /\ LinkedUp(c) /\ Found(c) /\ Once(c)

\* The canonical blocks of c are canonical in d, with the same headers, and d has
\* the objects of c.
Final(c, d) ==
    /\ Len(c.objects) <= Len(d.objects)
    /\ \A h \in DOMAIN c.heights :
          /\ h \in DOMAIN d.heights /\ d.heights[h] = c.heights[h]
          /\ d.objects[c.heights[h]] = c.objects[c.heights[h]]

LEMMA FinalTransitive ==
    ASSUME NEW c, NEW d, NEW e, ChainRecord(c), ChainRecord(d), ChainRecord(e),
           Final(c, d), Final(d, e)
    PROVE  Final(c, e)
<1>1. Len(c.objects) \in Nat /\ Len(d.objects) \in Nat /\ Len(e.objects) \in Nat
  BY DEF ChainRecord
<1> QED BY <1>1 DEF Final

LEMMA HeightType ==
    ASSUME NEW c, ChainRecord(c), NEW o \in 1..Len(c.objects)
    PROVE  c.objects[o] \in Object /\ Height(c, o) \in Nat
<1>1. c.objects[o] \in Object
  BY DEF ChainRecord
<1>2. Path[c.objects[o].id] \in Seq(Ids)
  BY <1>1, PathType DEF Object
<1> QED BY <1>1, <1>2 DEF Height

\* The fields of the chain once block o is executed.
LEMMA ExecutedFields ==
    ASSUME NEW c, ChainRecord(c), NEW o \in 1..Len(c.objects), NEW d, d = Executed(c, o)
    PROVE  /\ d = [objects |-> d.objects, current |-> d.current, blocks |-> d.blocks,
                   heights |-> d.heights, state |-> d.state]
           /\ d.state = Append(c.state, c.objects[o].id) /\ d.current = o
           /\ d.objects \in Seq(Object) /\ Len(d.objects) = Len(c.objects)
           /\ \A p \in 1..Len(c.objects) : p # o => d.objects[p] = c.objects[p]
           /\ d.objects[o].id = c.objects[o].id /\ d.objects[o].parent = c.objects[o].parent
           /\ d.heights = Stored(c.heights, Height(c, o), o)
           /\ d.blocks = Stored(c.blocks, Hash(d, o), o)
<1> DEFINE s == Append(c.state, c.objects[o].id)
           m == [c EXCEPT !.state = s, !.objects[o].root = s]
           obs == [c.objects EXCEPT ![o].root = s]
<1>0. /\ c.objects \in Seq(Object) /\ c.state \in Seq(Ids)
      /\ c = [objects |-> c.objects, current |-> c.current, blocks |-> c.blocks,
              heights |-> c.heights, state |-> c.state]
      /\ c.objects[o] \in Object
  BY HeightType DEF ChainRecord
<1>1. s \in Seq(Ids)
  BY <1>0 DEF Object
<1>2. m = [objects |-> obs, current |-> c.current, blocks |-> c.blocks,
           heights |-> c.heights, state |-> s]
  <2> DEFINE e == [c EXCEPT !.state = s]
  <2>1. e = [objects |-> c.objects, current |-> c.current, blocks |-> c.blocks,
             heights |-> c.heights, state |-> s]
    <3> HIDE DEF s, m, obs
    <3> QED BY <1>0
  <2>2. m = [e EXCEPT !.objects[o].root = s]
    BY Zenon
  <2> HIDE DEF s, m, e
  <2>3. m = [e EXCEPT !.objects = [e.objects EXCEPT ![o].root = s]]
    BY <2>2, Zenon
  <2>4. [e.objects EXCEPT ![o].root = s] = obs
    BY <2>1
  <2> HIDE DEF obs
  <2> QED BY <2>1, <2>3, <2>4
<1>3. /\ obs \in Seq(Object) /\ Len(obs) = Len(c.objects)
      /\ \A p \in 1..Len(c.objects) : p # o => obs[p] = c.objects[p]
      /\ obs[o].id = c.objects[o].id /\ obs[o].parent = c.objects[o].parent
  <2> HIDE DEF s
  <2>1. [c.objects[o] EXCEPT !.root = s] \in Object
    BY <1>0, <1>1 DEF Object
  <2> QED BY <1>0, <1>1, <2>1 DEF Object
<1>4. d = [m EXCEPT !.blocks = Stored(m.blocks, Hash(m, o), o),
                    !.heights = Stored(m.heights, Height(c, o), o), !.current = o]
  BY Zenon DEF Executed
<1> HIDE DEF s, m, obs
<1>5. d = [objects |-> obs, current |-> o, blocks |-> Stored(c.blocks, Hash(m, o), o),
           heights |-> Stored(c.heights, Height(c, o), o), state |-> s]
  BY <1>2, <1>4
<1>6. Hash(m, o) = Hash(d, o)
  BY <1>2, <1>5 DEF Hash
<1> QED BY <1>3, <1>5, <1>6 DEF s

LEMMA InsertStep ==
    ASSUME NEW c, ChainInv(c), NEW o \in 1..Len(c.objects)
    PROVE  LET d == InsertBlock(c, o).chain
           IN  ChainInv(d) /\ Final(c, d) /\ Len(d.objects) = Len(c.objects)
<1> DEFINE d == InsertBlock(c, o).chain  t == TipOf(c)
<1>0. /\ ChainRecord(c) /\ c.current \in 1..Len(c.objects) /\ c.state \in Seq(Ids)
      /\ c.objects \in Seq(Object) /\ Len(c.objects) \in Nat /\ c.objects[o] \in Object
      /\ c = [objects |-> c.objects, current |-> c.current, blocks |-> c.blocks,
              heights |-> c.heights, state |-> c.state]
  BY HeightType DEF ChainInv, ChainRecord
<1>1. t \in Nat /\ Height(c, o) \in Nat
  BY <1>0, HeightType DEF TipOf
<1>2. CASE ~ValidateBlock(c, o)
  <2>1. d = c
    BY <1>2 DEF InsertBlock
  <2> QED BY <1>0, <2>1 DEF Final
<1>3. CASE ValidateBlock(c, o) /\ c.objects[o].id \in Failing
  <2>1. d = [c EXCEPT !.state = Append(c.state, c.objects[o].id)]
    BY <1>3 DEF InsertBlock
  <2> HIDE DEF d
  <2>2. /\ d = [objects |-> d.objects, current |-> d.current, blocks |-> d.blocks,
              heights |-> d.heights, state |-> d.state]
        /\ d.state = Append(c.state, c.objects[o].id) /\ d.objects = c.objects
        /\ d.current = c.current /\ d.heights = c.heights /\ d.blocks = c.blocks
    BY <1>0, <2>1
  <2>3. c.objects[o].id \in Ids /\ d.state \in Seq(Ids)
    BY <1>0, <2>2 DEF Object
  <2>4. ChainRecord(d)
    BY <1>0, <2>2, <2>3 DEF ChainRecord
  <2>5. \A p : Height(d, p) = Height(c, p) /\ Hash(d, p) = Hash(c, p) /\ ParentHash(d, p) = ParentHash(c, p)
    BY <2>2 DEF Height, Hash, ParentHash
  <2>6. TipOf(d) = TipOf(c)
    BY <2>2, <2>5 DEF TipOf
  <2>7. Indexed(d) /\ LinkedUp(d) /\ Found(d)
    BY <2>2, <2>5, <2>6 DEF ChainInv, Indexed, LinkedUp, Found
  <2>8. Once(d)
    <3>1. Succeeded(d.state) = Succeeded(c.state)
      BY <1>0, <1>3, <2>2, <2>3, SucceededAppend
    <3> QED BY <2>2, <2>6, <3>1 DEF ChainInv, Once
  <2>9. Final(c, d)
    BY <1>0, <2>2 DEF Final
  <2> QED BY <2>2, <2>4, <2>7, <2>8, <2>9 DEF ChainInv, d
<1>4. CASE ValidateBlock(c, o) /\ c.objects[o].id \notin Failing
  <2>1. d = Executed(c, o)
    BY <1>4 DEF InsertBlock
  <2>2. Height(c, o) = t + 1 /\ ParentHash(c, o) = Hash(c, c.current)
    BY <1>4 DEF ValidateBlock, TipOf
  <2> HIDE DEF d
  <2>3. /\ d = [objects |-> d.objects, current |-> d.current, blocks |-> d.blocks,
                   heights |-> d.heights, state |-> d.state]
        /\ d.state = Append(c.state, c.objects[o].id) /\ d.current = o
        /\ d.objects \in Seq(Object) /\ Len(d.objects) = Len(c.objects)
        /\ \A p \in 1..Len(c.objects) : p # o => d.objects[p] = c.objects[p]
        /\ d.objects[o].id = c.objects[o].id /\ d.objects[o].parent = c.objects[o].parent
        /\ d.heights = Stored(c.heights, Height(c, o), o)
        /\ d.blocks = Stored(c.blocks, Hash(d, o), o)
    BY <1>0, <2>1, ExecutedFields
  <2>4. c.objects[o].id \in Ids /\ d.state \in Seq(Ids)
    <3>1. c.objects[o].id \in Ids
      BY <1>0 DEF Object
    <3> QED BY <1>0, <2>3, <3>1, AppendProperties
  <2>5. ChainRecord(d)
    BY <1>0, <2>3, <2>4 DEF ChainRecord
  <2>6. /\ \A p \in 1..Len(c.objects) : Height(d, p) = Height(c, p)
        /\ \A p \in 1..Len(c.objects) : ParentHash(d, p) = ParentHash(c, p)
        /\ \A p \in 1..Len(c.objects) : p # o => Hash(d, p) = Hash(c, p)
    BY <2>3 DEF Height, Hash, ParentHash
  <2>7. TipOf(d) = t + 1
    BY <2>2, <2>3, <2>6 DEF TipOf
  <2>8. /\ DOMAIN c.heights = 0..t /\ c.heights[t] = c.current
        /\ \A h \in 0..t : /\ c.heights[h] \in 1..Len(c.objects)
                           /\ Height(c, c.heights[h]) = h /\ c.heights[h] # o
    BY <1>1, <2>2 DEF ChainInv, Indexed
  <2>9. /\ DOMAIN d.heights = 0..t + 1 /\ d.heights[t + 1] = o
        /\ \A h \in 0..t : d.heights[h] = c.heights[h]
    BY <1>1, <2>2, <2>3, <2>8 DEF Stored
  <2>10. Indexed(d)
    <3>1. \A h \in 0..t + 1 : h \in 0..t \/ h = t + 1
      BY <1>1
    <3> QED BY <1>1, <2>2, <2>3, <2>6, <2>7, <2>8, <2>9, <3>1, ZenonT(60) DEF Indexed
  <2>11. LinkedUp(d)
    <3> SUFFICES ASSUME NEW h \in 1..t + 1
                 PROVE  ParentHash(d, d.heights[h]) = Hash(d, d.heights[h - 1])
      BY <2>7 DEF LinkedUp
    <3>1. CASE h = t + 1
      <4>1. h - 1 = t /\ t \in 0..t
        BY <1>1, <3>1
      <4> QED BY <2>2, <2>3, <2>6, <2>8, <2>9, <3>1, <4>1, SMTT(30)
    <3>2. CASE h \in 1..t
      <4>1. h \in 0..t /\ h - 1 \in 0..t
        BY <1>1, <3>2
      <4>2. ParentHash(c, c.heights[h]) = Hash(c, c.heights[h - 1])
        BY <3>2 DEF ChainInv, LinkedUp
      <4> QED BY <2>6, <2>8, <2>9, <4>1, <4>2
    <3> QED BY <1>1, <3>1, <3>2
  <2>12. Found(d)
    <3> SUFFICES ASSUME NEW h \in 0..t + 1
                 PROVE  /\ Hash(d, d.heights[h]) \in DOMAIN d.blocks
                        /\ d.blocks[Hash(d, d.heights[h])] = d.heights[h]
      BY <2>7 DEF Found
    <3>0. /\ DOMAIN d.blocks = {Hash(d, o)} \cup DOMAIN c.blocks
          /\ d.blocks[Hash(d, o)] = o
          /\ \A x \in DOMAIN c.blocks : x # Hash(d, o) => d.blocks[x] = c.blocks[x]
      BY <2>3 DEF Stored
    <3>1. CASE h = t + 1
      BY <2>9, <3>0, <3>1
    <3>2. CASE h \in 0..t
      <4>1. Hash(d, c.heights[h]) # Hash(d, o)
        <5>1. Height(d, c.heights[h]) # Height(d, o)
          BY <1>1, <2>2, <2>6, <2>8, <3>2
        <5> QED BY <5>1 DEF Hash, Height
      <4>2. /\ Hash(c, c.heights[h]) \in DOMAIN c.blocks
            /\ c.blocks[Hash(c, c.heights[h])] = c.heights[h]
        BY <3>2 DEF ChainInv, Found
      <4>3. Hash(d, c.heights[h]) = Hash(c, c.heights[h])
        BY <2>6, <2>8, <3>2
      <4> QED BY <2>9, <3>0, <3>2, <4>1, <4>2, <4>3
    <3> QED BY <1>1, <3>1, <3>2
  <2>13. Once(d)
    <3>1. Succeeded(d.state) = Append(Succeeded(c.state), c.objects[o].id)
      BY <1>0, <1>4, <2>3, <2>4, SucceededAppend
    <3> DEFINE u == [h \in 1..t |-> c.objects[c.heights[h]].id]
               v == [h \in 1..t + 1 |-> d.objects[d.heights[h]].id]
    <3>2. Succeeded(c.state) = u
      BY DEF ChainInv, Once
    <3>3. \A h \in 1..t : c.objects[c.heights[h]].id \in Ids
      <4> TAKE h \in 1..t
      <4>1. c.heights[h] \in 1..Len(c.objects)
        BY <1>1, <2>8
      <4>2. c.objects[c.heights[h]] \in Object
        BY <1>0, <4>1
      <4> QED BY <4>2 DEF Object
    <3>4. u \in Seq(Ids) /\ Len(u) = t /\ \A h \in 1..t : u[h] = c.objects[c.heights[h]].id
      BY <1>1, <3>3
    <3>5. \A h \in 1..t : d.objects[d.heights[h]].id = c.objects[c.heights[h]].id
      BY <1>1, <2>3, <2>8, <2>9, SMTT(30)
    <3>6. d.objects[d.heights[t + 1]].id = c.objects[o].id
      BY <2>3, <2>9
    <3>7. v \in Seq(Ids) /\ Len(v) = t + 1 /\ v[t + 1] = c.objects[o].id /\ \A h \in 1..t : v[h] = u[h]
      <4>1. \A h \in 1..t + 1 : h \in 1..t \/ h = t + 1
        BY <1>1
      <4>2. \A h \in 1..t + 1 : d.objects[d.heights[h]].id \in Ids
        BY <2>4, <3>3, <3>5, <3>6, <4>1
      <4>3. t + 1 \in Nat /\ t + 1 \in 1..t + 1 /\ \A h \in 1..t : h \in 1..t + 1
        BY <1>1
      <4>4. v \in Seq(Ids) /\ Len(v) = t + 1
        BY <4>2, <4>3
      <4> QED BY <3>4, <3>5, <3>6, <4>3, <4>4
    <3> HIDE DEF u, v
    <3>8. Append(u, c.objects[o].id) = v
      <4>1. /\ Append(u, c.objects[o].id) \in Seq(Ids) /\ Len(Append(u, c.objects[o].id)) = t + 1
            /\ \A h \in 1..t : Append(u, c.objects[o].id)[h] = u[h]
            /\ Append(u, c.objects[o].id)[t + 1] = c.objects[o].id
        BY <2>4, <3>4, AppendProperties
      <4>2. \A h \in 1..t + 1 : Append(u, c.objects[o].id)[h] = v[h]
        BY <1>1, <3>7, <4>1
      <4> QED BY <3>7, <4>1, <4>2, SeqEqual
    <3> QED BY <2>7, <3>1, <3>2, <3>8 DEF Once, v
  <2>14. Final(c, d)
    <3>1. \A h \in 0..t : h \in 0..t + 1
      BY <1>1
    <3>2. \A h \in 0..t : d.objects[c.heights[h]] = c.objects[c.heights[h]]
      BY <2>3, <2>8
    <3> QED BY <1>0, <2>3, <2>8, <2>9, <3>1, <3>2 DEF Final
  <2> QED BY <2>3, <2>5, <2>10, <2>11, <2>12, <2>13, <2>14 DEF ChainInv, d
<1> QED BY <1>2, <1>3, <1>4

\* However far the insertion of a branch gets.
LEMMA ApplyStep ==
    ASSUME NEW c, ChainInv(c), NEW bs \in Seq(1..Len(c.objects)), NEW anc
    PROVE  LET d == ApplyBlocks(c, bs, anc).chain
           IN  ChainInv(d) /\ Final(c, d) /\ Len(d.objects) = Len(c.objects)
<1> DEFINE N == Len(bs)  n == Len(c.objects)
           base == [ok |-> TRUE, chain |-> c]
           Good(d) == ChainInv(d) /\ Final(c, d) /\ Len(d.objects) = n
<1>1. N \in Nat /\ DOMAIN bs = 1..N /\ n \in Nat
  BY DEF ChainInv, ChainRecord
<1>2. PICK g : FoldChain(g, "apply", c, anc, base, bs, N) /\ ApplyBlocks(c, bs, anc) = g[1..N]
  <2> HIDE DEF N, n, Good
  <2> QED BY <1>1, ApplyIsFold
<1> DEFINE T == {k \in Nat : k <= N => Good(g[1..k].chain)}
<1>3. 0 \in T
  <2>1. Final(c, c)
    BY <1>1 DEF Final
  <2>2. g[1..0].chain = c
    BY <1>2 DEF FoldChain
  <2> QED BY <2>1, <2>2
<1>4. ASSUME NEW k \in Nat, k \in T PROVE k + 1 \in T
  <2> SUFFICES ASSUME k + 1 <= N PROVE Good(g[1..k + 1].chain)
    OBVIOUS
  <2>1. k + 1 \in 1..N /\ (k + 1) - 1 = k /\ Good(g[1..k].chain)
    BY <1>1, <1>4
  <2> DEFINE r == g[1..k]  o == bs[k + 1]
  <2>2. g[1..k + 1] = Step("apply", c, anc, g[1..(k + 1) - 1], bs[k + 1])
    BY <1>2, <2>1 DEF FoldChain
  <2>3. g[1..k + 1] = Step("apply", c, anc, r, o)
    BY <2>1, <2>2
  <2>4. o \in 1..n /\ Good(r.chain)
    BY <1>1, <2>1
  <2> HIDE DEF r, o
  <2>5. CASE ~r.ok \/ Height(c, o) <= Height(c, anc)
    BY <2>3, <2>4, <2>5 DEF Step
  <2>6. CASE ~(~r.ok \/ Height(c, o) <= Height(c, anc))
    <3> DEFINE d == InsertBlock(r.chain, o).chain
    <3>1. g[1..k + 1].chain = d
      BY <2>3, <2>6 DEF Step
    <3>2. o \in 1..Len(r.chain.objects)
      BY <2>4
    <3>3. ChainInv(d) /\ Final(r.chain, d) /\ Len(d.objects) = Len(r.chain.objects)
      BY <2>4, <3>2, InsertStep
    <3> HIDE DEF d
    <3>4. Final(c, d)
      BY <2>4, <3>3, FinalTransitive DEF ChainInv
    <3> QED BY <2>4, <3>1, <3>3, <3>4
  <2> QED BY <2>5, <2>6
<1>5. N \in T
  <2> HIDE DEF T
  <2> QED BY <1>1, <1>3, <1>4, NatSetInduction
<1> QED BY <1>1, <1>2, <1>5

\* A block that arrives changes nothing of the chain yet.
LEMMA NewStep ==
    ASSUME NEW c, ChainInv(c), NEW b \in Block, NEW root \in Seq(Ids),
           NEW p \in [id : Ids \cup {"none"}, root : Seq(Ids)]
    PROVE  LET d == New(c, b, root, p)
           IN  /\ ChainInv(d) /\ Final(c, d) /\ Len(d.objects) = Len(c.objects) + 1
               /\ Hash(d, d.current) = Hash(c, c.current)
<1> DEFINE x == [id |-> b, root |-> root, parent |-> p]
           d == New(c, b, root, p)
           n == Len(c.objects)
<1>0. /\ c.objects \in Seq(Object) /\ c.state \in Seq(Ids) /\ c.current \in 1..n /\ n \in Nat
      /\ c = [objects |-> c.objects, current |-> c.current, blocks |-> c.blocks,
              heights |-> c.heights, state |-> c.state]
  BY DEF ChainInv, ChainRecord
<1>1. x \in Object
  BY DEF Object, Ids
<1>2. d = [c EXCEPT !.objects = Append(c.objects, x)]
  BY DEF New
<1> HIDE DEF x, d
<1>3. /\ d = [objects |-> d.objects, current |-> d.current, blocks |-> d.blocks,
              heights |-> d.heights, state |-> d.state]
      /\ d.objects = Append(c.objects, x) /\ d.current = c.current /\ d.blocks = c.blocks
      /\ d.heights = c.heights /\ d.state = c.state
  BY <1>0, <1>2
<1>4. /\ d.objects \in Seq(Object) /\ Len(d.objects) = n + 1
      /\ \A q \in 1..n : d.objects[q] = c.objects[q]
  BY <1>0, <1>1, <1>3, AppendProperties
<1>5. ChainRecord(d)
  BY <1>0, <1>3, <1>4 DEF ChainRecord
<1>6. /\ \A q \in 1..n : Height(d, q) = Height(c, q)
      /\ \A q \in 1..n : Hash(d, q) = Hash(c, q)
      /\ \A q \in 1..n : ParentHash(d, q) = ParentHash(c, q)
  BY <1>4 DEF Height, Hash, ParentHash
<1>7. TipOf(d) = TipOf(c) /\ TipOf(c) \in Nat
  BY <1>0, <1>3, <1>6, HeightType DEF TipOf, ChainInv
<1>8. /\ \A h \in 0..TipOf(c) : c.heights[h] \in 1..n
      /\ \A q \in 1..n : q \in 1..n + 1
      /\ \A h \in 1..TipOf(c) : h \in 0..TipOf(c) /\ h - 1 \in 0..TipOf(c)
  BY <1>0, <1>7 DEF ChainInv, Indexed
<1>9. Indexed(d)
  BY <1>3, <1>4, <1>6, <1>7, <1>8 DEF ChainInv, Indexed
<1>10. LinkedUp(d)
  BY <1>3, <1>6, <1>7, <1>8 DEF ChainInv, LinkedUp
<1>11. Found(d)
  BY <1>3, <1>6, <1>7, <1>8 DEF ChainInv, Found
<1>12. Once(d)
  <2>1. \A h \in 1..TipOf(c) : d.objects[c.heights[h]].id = c.objects[c.heights[h]].id
    BY <1>4, <1>8
  <2> QED BY <1>3, <1>7, <2>1, ZenonT(60) DEF ChainInv, Once
<1>13. Final(c, d)
  <2>1. DOMAIN c.heights = 0..TipOf(c)
    BY DEF ChainInv, Indexed
  <2> QED BY <1>0, <1>3, <1>4, <1>8, <2>1 DEF Final
<1>14. Hash(d, d.current) = Hash(c, c.current)
  BY <1>0, <1>3, <1>6
<1> QED BY <1>4, <1>5, <1>9, <1>10, <1>11, <1>12, <1>13, <1>14 DEF ChainInv, d

\* A branch is a list of objects.
BranchOf(br, n) ==
    br = [blocks |-> br.blocks, weight |-> br.weight] /\ br.blocks \in Seq(1..n)

Branches(alts, n) == \A k \in DOMAIN alts : BranchOf(alts[k], n)

ForksInv == ChainInv(chain) /\ Branches(alternatives, Len(chain.objects))

LEMMA BranchFields ==
    ASSUME NEW x, NEW y, NEW v, NEW w
    PROVE  [[blocks |-> x, weight |-> y] EXCEPT !.blocks = v, !.weight = w]
             = [blocks |-> v, weight |-> w]
<1> DEFINE r == [[blocks |-> x, weight |-> y] EXCEPT !.blocks = v]
<1>1. r = [blocks |-> v, weight |-> y]
  OBVIOUS
<1>2. [r EXCEPT !.weight = w] = [blocks |-> v, weight |-> w]
  <2> HIDE DEF r
  <2> QED BY <1>1
<1> QED BY <1>2, Zenon

LEMMA BranchLater ==
    ASSUME NEW br, NEW n \in Nat, NEW m \in Nat, n <= m, BranchOf(br, n)
    PROVE  BranchOf(br, m)
<1>1. 1..n \subseteq 1..m
  OBVIOUS
<1>2. br.blocks \in Seq(1..m)
  BY <1>1 DEF BranchOf
<1> QED BY <1>2 DEF BranchOf

LEMMA BranchesPut ==
    ASSUME NEW alts, NEW n, Branches(alts, n), NEW k, NEW br, BranchOf(br, n)
    PROVE  Branches(Stored(alts, k, br), n)
BY DEF Branches, Stored

\* ProcessBlock, on a chain c that has the new object o.
LEMMA ProcessStep ==
    ASSUME NEW c, ChainInv(c), NEW o \in 1..Len(c.objects),
           Branches(alternatives, Len(c.objects)), Process(c, o)
    PROVE  ForksInv' /\ Final(c, chain')
<1> DEFINE n == Len(c.objects)  all == Stored(allBlocks, Hash(c, o), o)
<1>0. n \in Nat
  BY DEF ChainInv, ChainRecord
<1>1. CASE chain' = InsertBlock(c, o).chain /\ UNCHANGED alternatives
  <2>1. ChainInv(chain') /\ Final(c, chain') /\ Len(chain'.objects) = n
    BY <1>1, InsertStep
  <2> QED BY <1>1, <2>1 DEF ForksInv
<1>2. ASSUME NEW k \in FindForkBranch(c, ParentHash(c, o)), ExtendBranch(c, all, k, o)
      PROVE  ForksInv' /\ Final(c, chain')
  <2> DEFINE branch == [alternatives[k] EXCEPT !.blocks = Append(@, o), !.weight = @ + 1]
             anc == FindCommonAncestor(c, all, branch.blocks[1])
             r == ApplyBlocks(c, branch.blocks, anc)
  <2>1. BranchOf(alternatives[k], n)
    BY <1>2 DEF FindForkBranch, Branches
  <2>2. /\ alternatives[k] = [blocks |-> alternatives[k].blocks, weight |-> alternatives[k].weight]
        /\ alternatives[k].blocks \in Seq(1..n)
    BY <2>1 DEF BranchOf
  <2>3. /\ branch = [blocks |-> Append(alternatives[k].blocks, o), weight |-> branch.weight]
        /\ branch.blocks = Append(alternatives[k].blocks, o)
    <3>2. PICK v, w : branch = [alternatives[k] EXCEPT !.blocks = v, !.weight = w]
                      /\ v = Append(alternatives[k].blocks, o)
      BY Zenon
    <3>3. branch = [blocks |-> v, weight |-> w]
      <4> HIDE DEF branch
      <4> QED BY <2>2, <3>2, BranchFields, Zenon
    <3> HIDE DEF branch
    <3> QED BY <3>2, <3>3
  <2>4. Append(alternatives[k].blocks, o) \in Seq(1..n)
    BY <2>2, AppendProperties
  <2> HIDE DEF branch, all
  <2>5. BranchOf(branch, n) /\ branch.blocks \in Seq(1..n)
    BY <2>3, <2>4 DEF BranchOf
  <2>6. Branches(Stored(alternatives, k, branch), n)
    BY <2>5, BranchesPut
  <2>7. Branches(<<>>, n)
    BY DEF Branches
  <2>8. \/ /\ chain' = r.chain
           /\ alternatives' = IF r.ok THEN <<>> ELSE Stored(alternatives, k, branch)
        \/ chain' = c /\ alternatives' = Stored(alternatives, k, branch)
    BY <1>2, Zenon DEF ExtendBranch, Reorganize, branch
  <2>9. Branches(alternatives', n)
    BY <2>6, <2>7, <2>8
  <2> HIDE DEF anc
  <2>10. ChainInv(r.chain) /\ Final(c, r.chain) /\ Len(r.chain.objects) = n
    BY <2>5, ApplyStep
  <2> HIDE DEF r
  <2>11. Final(c, c)
    BY <1>0 DEF Final
  <2> QED BY <2>8, <2>9, <2>10, <2>11 DEF ForksInv
<1>3. CASE NewBranch(c, all, o)
  <2>1. PICK w : /\ chain' = c
                 /\ alternatives' = Stored(alternatives, Hash(c, o), [blocks |-> <<o>>, weight |-> w])
    BY <1>3, Zenon DEF NewBranch
  <2>2. BranchOf([blocks |-> <<o>>, weight |-> w], n)
    BY DEF BranchOf
  <2>3. Branches(alternatives', n)
    BY <2>1, <2>2, BranchesPut
  <2>4. Final(c, c)
    BY <1>0 DEF Final
  <2> QED BY <2>1, <2>3, <2>4 DEF ForksInv
<1> QED BY <1>1, <1>2, <1>3, Zenon DEF Process

LEMMA ForksNext == ForksInv /\ [ChainNext]_chainVars => ForksInv' /\ Final(chain, chain')
<1> SUFFICES ASSUME ForksInv, [ChainNext]_chainVars PROVE ForksInv' /\ Final(chain, chain')
  OBVIOUS
<1>0. ChainInv(chain) /\ ChainRecord(chain) /\ Len(chain.objects) \in Nat
  BY DEF ForksInv, ChainInv, ChainRecord
<1>1. ASSUME NEW b \in Block, Receive(b) PROVE ForksInv' /\ Final(chain, chain')
  <2>1. PICK h \in {Sealed(b), Unsealed(b)} :
           Process(New(chain, b, h.root, Sealed(Parent[b])), Len(New(chain, b, h.root, Sealed(Parent[b])).objects))
    BY <1>1, Zenon DEF Receive
  <2>2. Parent[b] \in Ids /\ b \in Ids
    BY ChainAssumption DEF Ids
  <2>3. /\ h.root \in Seq(Ids)
        /\ Sealed(Parent[b]) \in [id : Ids \cup {"none"}, root : Seq(Ids)]
    BY <2>2, PathType DEF Sealed, Unsealed
  <2> DEFINE c == New(chain, b, h.root, Sealed(Parent[b]))  n == Len(c.objects)
  <2>4. ChainInv(c) /\ Final(chain, c) /\ n = Len(chain.objects) + 1
    BY <1>0, <2>3, NewStep
  <2> HIDE DEF c
  <2>5. n \in 1..n /\ n \in Nat /\ Len(chain.objects) <= n
    BY <1>0, <2>4
  <2>6. Branches(alternatives, n)
    BY <1>0, <2>5, BranchLater DEF ForksInv, Branches
  <2>7. ForksInv' /\ Final(c, chain')
    BY <2>1, <2>4, <2>5, <2>6, ProcessStep DEF c
  <2>8. Final(chain, chain')
    BY <1>0, <2>4, <2>7, FinalTransitive DEF ForksInv, ChainInv
  <2> QED BY <2>7, <2>8
<1>2. ASSUME NEW b \in Block, Propose(b) PROVE ForksInv' /\ Final(chain, chain')
  <2> DEFINE tip == chain.objects[chain.current]
             c == New(chain, b, tip.root, Hash(chain, chain.current))
             n == Len(c.objects)
  <2>1. chain' = InsertBlock(c, n).chain /\ UNCHANGED alternatives
    BY <1>2, Zenon DEF Propose
  <2>2. tip \in Object
    BY <1>0, HeightType DEF ChainRecord
  <2>3. tip.root \in Seq(Ids) /\ Hash(chain, chain.current) \in [id : Ids \cup {"none"}, root : Seq(Ids)]
    BY <2>2 DEF Object, Hash
  <2> HIDE DEF tip
  <2>4. ChainInv(c) /\ Final(chain, c) /\ n = Len(chain.objects) + 1
    BY <1>0, <2>3, NewStep
  <2> HIDE DEF c
  <2>5. n \in 1..n /\ n \in Nat /\ Len(chain.objects) <= n
    BY <1>0, <2>4
  <2>6. Branches(alternatives, n)
    BY <1>0, <2>5, BranchLater DEF ForksInv, Branches
  <2>7. ChainInv(chain') /\ Final(c, chain') /\ Len(chain'.objects) = n
    BY <2>1, <2>4, <2>5, InsertStep
  <2>8. Final(chain, chain')
    BY <1>0, <2>4, <2>7, FinalTransitive DEF ChainInv
  <2> QED BY <2>1, <2>6, <2>7, <2>8 DEF ForksInv
<1>3. CASE UNCHANGED chainVars
  BY <1>0, <1>3 DEF chainVars, ForksInv, Final
<1> QED BY <1>1, <1>2, <1>3 DEF ChainNext

LEMMA ForksInit == ChainInit => ForksInv
<1> SUFFICES ASSUME ChainInit PROVE ForksInv
  OBVIOUS
<1> DEFINE g == [id |-> Genesis, root |-> <<>>, parent |-> NoHash]
<1>1. /\ chain.objects = <<g>> /\ chain.current = 1 /\ chain.state = <<>>
      /\ chain.blocks = [h \in {Sealed(Genesis)} |-> 1] /\ chain.heights = [h \in {0} |-> 1]
      /\ chain = [objects |-> chain.objects, current |-> chain.current, blocks |-> chain.blocks,
                  heights |-> chain.heights, state |-> chain.state]
      /\ alternatives = <<>>
  BY DEF ChainInit
<1>2. g \in Object
  BY EmptySeq DEF Object, Ids, NoHash
<1>3. ChainRecord(chain)
  BY <1>1, <1>2, EmptySeq DEF ChainRecord
<1>4. Height(chain, 1) = 0 /\ TipOf(chain) = 0 /\ Hash(chain, 1) = Sealed(Genesis)
  BY <1>1, PathType DEF Height, TipOf, Hash, Sealed
<1>5. Indexed(chain)
  BY <1>1, <1>4 DEF Indexed
<1>6. LinkedUp(chain)
  BY <1>4 DEF LinkedUp
<1>7. Found(chain)
  BY <1>1, <1>4 DEF Found
<1>8. Once(chain)
  BY <1>1, <1>4, SucceededEmpty DEF Once
<1>9. Branches(alternatives, Len(chain.objects))
  BY <1>1 DEF Branches
<1> QED BY <1>3, <1>5, <1>6, <1>7, <1>8, <1>9 DEF ForksInv, ChainInv

\* InsertBlock, ProcessBlock and the reorganizations it starts keep the block index,
\* the height index and the state on one canonical chain: for every tree of blocks,
\* any of them failing, that arrive sealed or not, in any order and any number of times.
THEOREM ChainStaysIntact == ChainSpec => []ChainIntact
<1>1. ForksInv => ChainIntact
  BY DEF ForksInv, ChainInv, ChainIntact, HeightsDense, Linked, FoundByHash, ExecutedOnce,
         Tip, TipOf, Indexed, LinkedUp, Found, Once
<1> QED BY <1>1, ForksInit, ForksNext, PTL DEF ChainSpec

\* No reorganization takes effect: a canonical block keeps its place and its
\* header whatever heavier branch ProcessBlock meets, since rollbackBlock changes
\* nothing.
THEOREM ReorganizationsFail == ChainSpec => CanonicalNeverReplaced
<1>1. ForksInv /\ [ChainNext]_chainVars
        => [\A h \in DOMAIN chain.heights :
              /\ chain'.heights[h] = chain.heights[h]
              /\ chain'.objects[chain.heights[h]] = chain.objects[chain.heights[h]]]_chainVars
  BY ForksNext DEF Final
<1> QED BY <1>1, ForksInit, ForksNext, PTL DEF ChainSpec, CanonicalNeverReplaced

=============================================================================
