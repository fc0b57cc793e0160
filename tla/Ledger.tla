------------------------------- MODULE Ledger -------------------------------
(***************************************************************************)
(* Block execution: internal/state/executor over the token rules of        *)
(* pkg/token, as internal/blockchain drives it.                            *)
(*                                                                         *)
(* A block is executed transaction by transaction on the one live StateDB. *)
(* Each transaction is admitted or rejected; a rejected one ends the block *)
(* with an error, and what the earlier ones did stays.  StateDB is here    *)
(* the map it promises to be (module StateDB looks inside); the error      *)
(* paths of ApplyTransaction come before its first write, so the           *)
(* RevertToSnapshot that follows them undoes nothing.                      *)
(***************************************************************************)
EXTENDS Integers, FiniteSets, FiniteSetsExt

CONSTANTS
    Addrs,           \* addresses
    ZeroAddress,     \* types.ZeroAddress
    Txs,             \* the transactions that may be put in a block
    GenesisBalance,  \* genesis.Alloc, by token and address
    GenesisPool,     \* genesis.InitialPoolAPT and InitialPoolNPT
    GenesisGasLimit, \* ConsensusParams.BlockMaxGas
    BlockReward,     \* BlockRewardAPT and BlockRewardNPT
    HalvingInterval, \* 8_400_000 blocks
    BaseGas,         \* 21000
    DataGas,         \* gas of the data byte
    TypeGas,         \* overhead by transaction type
    FeeMult,         \* uint64((1.0 - feeRate) * 1000000)
    FeeDenom,        \* 1000000
    NonceWindow,     \* 16
    MaxNonce,        \* bound on nonces
    MaxHeight,       \* bound on the chain's height
    IssueBound       \* bound on the APT issued, net of fees, when a block begins

Kinds == {"APT", "NPT"}
Types == {"transferAPT", "transferNPT", "swap", "burn", "stake", "other"}

\* Data[0]: a direction byte, another byte, or no data at all.
Directions == {"0x01", "0x02", "bad", "none"}

Transaction ==
    [type : Types, from : Addrs, to : Addrs, amount : Nat, kind : Kinds,
     nonce : 0..(MaxNonce - 1), gasLimit : Nat, gasPrice : Nat,
     data : Directions, chainOK : BOOLEAN]

ASSUME AddressAssumption == IsFiniteSet(Addrs) /\ ZeroAddress \in Addrs
ASSUME TxsAssumption == \A tx \in Txs : tx \in Transaction
ASSUME GenesisAssumption ==
    /\ GenesisBalance \in [Kinds -> [Addrs -> Nat]]
    /\ GenesisPool \in [Kinds -> Nat \ {0}]
    /\ GenesisGasLimit \in Nat
ASSUME RewardAssumption ==
    BlockReward \in [Kinds -> Nat] /\ HalvingInterval \in Nat \ {0}
ASSUME GasAssumption ==
    BaseGas \in Nat /\ DataGas \in Nat /\ TypeGas \in [Types -> Nat]
ASSUME FeeAssumption ==
    FeeDenom \in Nat \ {0} /\ FeeMult \in 0..FeeDenom
ASSUME BoundsAssumption ==
    /\ NonceWindow \in Nat /\ MaxNonce \in Nat \ {0} /\ MaxHeight \in Nat
    /\ IssueBound \in Nat

VARIABLES
    bal,          \* balances, by token and address
    nonce,        \* account nonces
    pool,         \* the AMM reserves
    height,       \* height of bc.currentBlock
    headGasLimit, \* its Header.GasLimit
    processing,   \* Process is running a block
    gasLimit,     \* that block's Header.GasLimit
    gasPool,      \* gp.remaining
    totalGasUsed, \* Process's total of the receipts' GasUsed
    executed,     \* history: how often each (sender, nonce) was executed
    issued,       \* history: rewards less burns, by token
    fees          \* history: the gas fees charged, in APT

headVars == <<height, headGasLimit>>
blockVars == <<processing, gasLimit, gasPool, totalGasUsed>>
vars == <<bal, nonce, pool, headVars, blockVars, executed, issued, fees>>

TypeOK ==
    /\ bal \in [Kinds -> [Addrs -> Int]]
    /\ nonce \in [Addrs -> 0..MaxNonce]
    /\ pool \in [Kinds -> Int]
    /\ height \in Nat /\ headGasLimit \in Nat
    /\ processing \in BOOLEAN
    /\ gasLimit \in Nat /\ gasPool \in Int /\ totalGasUsed \in Nat
    /\ executed \in [Addrs -> [0..MaxNonce -> Nat]]
    /\ issued \in [Kinds -> Int]
    /\ fees \in Nat

Init ==
    /\ bal = GenesisBalance
    /\ nonce = [a \in Addrs |-> 0]
    /\ pool = GenesisPool
    /\ height = 0
    /\ headGasLimit = GenesisGasLimit
    /\ processing = FALSE
    /\ gasLimit = 0 /\ gasPool = 0 /\ totalGasUsed = 0
    /\ executed = [a \in Addrs |-> [n \in 0..MaxNonce |-> 0]]
    /\ issued = [k \in Kinds |-> 0]
    /\ fees = 0

-----------------------------------------------------------------------------
(* Admission *)

\* AddBalanceAPT/NPT and SubBalanceAPT/NPT.  SubTo panics when the balance does
\* not cover v; here it goes negative, which NoOverdraft excludes.
AddBalance(b, k, a, v) == [b EXCEPT ![k][a] = @ + v]
SubBalance(b, k, a, v) == [b EXCEPT ![k][a] = @ - v]

\* tx.Cost(): the fee reserved up front.
Cost(tx) == tx.gasLimit * tx.gasPrice

IntrinsicGas(tx) ==
    BaseGas + (IF tx.data = "none" THEN 0 ELSE DataGas) + TypeGas[tx.type]

\* A mutation: the fee is checked for token transfers only.
ValidateTxTransfersOnly(tx) ==
    /\ tx.chainOK
    /\ tx.nonce \in nonce[tx.from]..(nonce[tx.from] + NonceWindow)
    /\ tx.type \in {"transferAPT", "transferNPT"} =>
           bal[tx.kind][tx.from] >= tx.amount + Cost(tx)

\* validateTx: a transfer must cover amount plus fee in the token it names,
\* and every transaction its fee in APT.
ValidateTx(tx) ==
    /\ tx.chainOK
    /\ tx.nonce \in nonce[tx.from]..(nonce[tx.from] + NonceWindow)
    /\ tx.type \in {"transferAPT", "transferNPT"} =>
           bal[tx.kind][tx.from] >= tx.amount + Cost(tx)
    /\ bal["APT"][tx.from] >= Cost(tx)

\* ApplyTransaction passes its three checks, the last being gp.SubGas.
Admitted(tx) ==
    /\ ValidateTx(tx)
    /\ tx.gasLimit >= IntrinsicGas(tx)
    /\ gasPool >= tx.gasLimit

\* Balances once the fee is reserved (step 5 of ApplyTransaction).
Reserved(tx) == SubBalance(bal, "APT", tx.from, Cost(tx))

-----------------------------------------------------------------------------
(* The constant-product pool *)

Other(k) == IF k = "APT" THEN "NPT" ELSE "APT"

InputAfterFee(amount) == (amount * FeeMult) \div FeeDenom

\* A mutation: the output is rounded up.
SwapOutputRoundedUp(k, amount) ==
    LET in == InputAfterFee(amount)
    IN  (pool[Other(k)] * in + pool[k] + in - 1) \div (pool[k] + in)

\* What amount of token k buys; the quotient is rounded down.
SwapOutput(k, amount) ==
    LET in == InputAfterFee(amount)
    IN  (pool[Other(k)] * in) \div (pool[k] + in)

\* The token a swap pays with.
SwapInput(tx) == IF tx.data = "0x01" THEN "APT" ELSE "NPT"

SwapSucceeds(tx) ==
    LET k == SwapInput(tx)
    IN  /\ tx.data \in {"0x01", "0x02"}
        /\ tx.amount # 0
        /\ pool[k] + InputAfterFee(tx.amount) # 0
        /\ SwapOutput(k, tx.amount) > 0
        /\ Reserved(tx)[k][tx.from] >= tx.amount

-----------------------------------------------------------------------------
(* Execution *)

TransferKind(tx) == IF tx.type = "transferAPT" THEN "APT" ELSE "NPT"

\* TransferAPT/NPT: a transfer to oneself succeeds without a balance check.
TransferSucceeds(tx) ==
    /\ tx.to # ZeroAddress
    /\ tx.amount # 0
    /\ \/ tx.from = tx.to
       \/ Reserved(tx)[TransferKind(tx)][tx.from] >= tx.amount

\* executeBurn burns the named token, executeStake burns NPT.
BurnKind(tx) == IF tx.type = "burn" THEN tx.kind ELSE "NPT"

BurnSucceeds(tx) ==
    tx.amount # 0 /\ Reserved(tx)[BurnKind(tx)][tx.from] >= tx.amount

ExecutionFails(tx) ==
    \/ tx.type \in {"transferAPT", "transferNPT"} /\ ~TransferSucceeds(tx)
    \/ tx.type = "swap" /\ ~SwapSucceeds(tx)
    \/ tx.type \in {"burn", "stake"} /\ ~BurnSucceeds(tx)
    \/ tx.type = "other"

\* Nothing burnt, or amount of token k.
NoBurn == [k \in Kinds |-> 0]
Burnt(k, amount) == [NoBurn EXCEPT ![k] = amount]

\* A mutation: the nonce moves on by one instead of past the transaction's own.
NonceStepped(tx) == nonce[tx.from] + 1

\* Step 6: the sender's nonce jumps past the transaction's, over any gap.
NonceAfter(tx) == tx.nonce + 1

\* Step 9: the fee for unused gas goes back to the sender.
Refund(tx, gasUsed) == Cost(tx) - gasUsed * tx.gasPrice

\* A mutation: all the gas goes back to the pool.
GasReturnedAll(tx, gasUsed) == tx.gasLimit

\* What gp.AddGas gives back to the pool.
GasReturned(tx, gasUsed) == tx.gasLimit - gasUsed

\* Steps 6 and 8 to 11 of ApplyTransaction, from the balances b execution left.
\* The fee is credited to nobody.
Settle(tx, b, gasUsed, burnt) ==
    /\ bal' = AddBalance(b, "APT", tx.from, Refund(tx, gasUsed))
    /\ nonce' = [nonce EXCEPT ![tx.from] = NonceAfter(tx)]
    /\ gasPool' = gasPool - tx.gasLimit + GasReturned(tx, gasUsed)
    /\ totalGasUsed' = totalGasUsed + gasUsed
    /\ executed' = [executed EXCEPT ![tx.from][tx.nonce] = @ + 1]
    /\ issued' = [k \in Kinds |-> issued[k] - burnt[k]]
    /\ fees' = fees + gasUsed * tx.gasPrice
    /\ UNCHANGED <<headVars, processing, gasLimit>>

ExecuteTransfer(tx) ==
    LET k == TransferKind(tx)
        paid == SubBalance(Reserved(tx), k, tx.from, tx.amount)
    IN  /\ processing /\ Admitted(tx)
        /\ tx.type \in {"transferAPT", "transferNPT"}
        /\ TransferSucceeds(tx)
        /\ Settle(tx, IF tx.from = tx.to THEN Reserved(tx)
                      ELSE AddBalance(paid, k, tx.to, tx.amount),
                  IntrinsicGas(tx), NoBurn)
        /\ UNCHANGED pool

\* A mutation: the reserves take the input less its fee.
ReservesAfterNet(k, amount, out) ==
    [pool EXCEPT ![k] = @ + InputAfterFee(amount), ![Other(k)] = @ - out]

\* The reserves take the input with its fee and give the output.
ReservesAfter(k, amount, out) ==
    [pool EXCEPT ![k] = @ + amount, ![Other(k)] = @ - out]

\* SwapAPTForNPT and SwapNPTForAPT.
ExecuteSwap(tx) ==
    LET k == SwapInput(tx)
        out == SwapOutput(k, tx.amount)
        paid == SubBalance(Reserved(tx), k, tx.from, tx.amount)
    IN  /\ processing /\ Admitted(tx)
        /\ tx.type = "swap" /\ SwapSucceeds(tx)
        /\ pool' = ReservesAfter(k, tx.amount, out)
        /\ Settle(tx, AddBalance(paid, Other(k), tx.from, out),
                  IntrinsicGas(tx), NoBurn)

ExecuteBurn(tx) ==
    LET k == BurnKind(tx)
    IN  /\ processing /\ Admitted(tx)
        /\ tx.type \in {"burn", "stake"} /\ BurnSucceeds(tx)
        /\ Settle(tx, SubBalance(Reserved(tx), k, tx.from, tx.amount),
                  IntrinsicGas(tx), Burnt(k, tx.amount))
        /\ UNCHANGED pool

\* A failed execution is kept in the block and charged its whole gas limit.
ExecuteFailed(tx) ==
    /\ processing /\ Admitted(tx)
    /\ ExecutionFails(tx)
    /\ Settle(tx, Reserved(tx), tx.gasLimit, NoBurn)
    /\ UNCHANGED pool

\* Process returns, and its gas pool and totals are gone.
EndProcess ==
    /\ processing' = FALSE
    /\ gasLimit' = 0 /\ gasPool' = 0 /\ totalGasUsed' = 0

\* A rejected transaction ends Process and InsertBlock with an error.
RejectBlock ==
    /\ processing /\ {tx \in Txs : ~Admitted(tx)} # {}
    /\ EndProcess
    /\ UNCHANGED <<bal, nonce, pool, headVars, executed, issued, fees>>

-----------------------------------------------------------------------------
(* Blocks *)

\* ValidateBlock's range for the next gas limit.
MaxGasChange == IF headGasLimit \div 1024 < 1 THEN 1 ELSE headGasLimit \div 1024

BeginBlock(limit) ==
    /\ ~processing /\ height < MaxHeight /\ issued["APT"] - fees <= IssueBound
    /\ limit - headGasLimit \in (-MaxGasChange)..MaxGasChange
    /\ processing' = TRUE
    /\ gasLimit' = limit
    /\ gasPool' = limit
    /\ totalGasUsed' = 0
    /\ UNCHANGED <<bal, nonce, pool, headVars, executed, issued, fees>>

\* 2^i for each number i of halvings, of which there are at most ten.
HalvingDivisor == <<1, 2, 4, 8, 16, 32, 64, 128, 256, 512, 1024>>

\* CalculateBlockReward for the block being executed.
Reward(k) ==
    LET halvings == (height + 1) \div HalvingInterval
    IN  BlockReward[k] \div HalvingDivisor[IF halvings < 10 THEN halvings + 1 ELSE 11]

\* Process mints the rewards, and InsertBlock makes the block the head.
FinishBlock(proposer) ==
    /\ processing
    /\ Reward("APT") # 0 /\ Reward("NPT") # 0
    /\ bal' = AddBalance(AddBalance(bal, "APT", proposer, Reward("APT")),
                         "NPT", proposer, Reward("NPT"))
    /\ issued' = [k \in Kinds |-> issued[k] + Reward(k)]
    /\ height' = height + 1
    /\ headGasLimit' = gasLimit
    /\ EndProcess
    /\ UNCHANGED <<nonce, pool, executed, fees>>

\* A reward of zero is an error; the APT reward stays when the NPT one fails.
RewardFails(proposer) ==
    /\ processing
    /\ Reward("APT") = 0 \/ Reward("NPT") = 0
    /\ bal' = AddBalance(bal, "APT", proposer, Reward("APT"))
    /\ issued' = [issued EXCEPT !["APT"] = @ + Reward("APT")]
    /\ EndProcess
    /\ UNCHANGED <<nonce, pool, headVars, executed, fees>>

Next ==
    \/ \E limit \in (headGasLimit - MaxGasChange)..(headGasLimit + MaxGasChange) :
           limit \in Nat /\ BeginBlock(limit)
    \/ \E tx \in Txs :
           \/ ExecuteTransfer(tx)
           \/ ExecuteSwap(tx)
           \/ ExecuteBurn(tx)
           \/ ExecuteFailed(tx)
    \/ RejectBlock
    \/ \E proposer \in Addrs : FinishBlock(proposer) \/ RewardFails(proposer)

Spec == Init /\ [][Next]_vars

-----------------------------------------------------------------------------
(* Properties *)

\* No balance is ever overdrawn, so TokenAmount.SubTo never panics in the middle
\* of a block: ApplyTransaction subtracts the fee, and its handlers the amount,
\* on the strength of checks made earlier against another balance.
NoOverdraft == \A k \in Kinds, a \in Addrs : bal[k][a] >= 0

\* A transaction of a sender and nonce is executed at most once, whatever blocks
\* carry it, fail half way and are tried again.
NoReplay == \A a \in Addrs, n \in 0..MaxNonce : executed[a][n] <= 1

\* While a block runs, what its transactions used and what gasPool has left make
\* up its gas limit, so header.GasUsed cannot pass header.GasLimit.
GasAccounted ==
    processing => totalGasUsed + gasPool = gasLimit /\ gasPool >= 0

\* Swaps never empty a side of the pool: the product formula needs both.
PoolNeverDrained == \A k \in Kinds : pool[k] > 0

\* The product of the reserves never falls: rounding and fees work for the pool.
ProductNeverFalls ==
    [][pool'["APT"] * pool'["NPT"] >= pool["APT"] * pool["NPT"]]_vars

\* The sum of the balances f of all addresses.
Total(f) == MapThenSumSet(LAMBDA a : f[a], Addrs)

\* The tokens in existence, and those that genesis, rewards and burns account for.
Supply(k) == Total(bal[k]) + pool[k]
Accounted(k) == Total(GenesisBalance[k]) + GenesisPool[k] + issued[k]

\* Every token is accounted for: transfers and swaps only move tokens, rewards and
\* burns change the supply by their amount, and besides these no more can be
\* missing than the gas fees charged, in APT alone.  What share of a fee is
\* destroyed is left open.
SupplyConserved ==
    \A k \in Kinds :
        Accounted(k) - Supply(k) \in 0..(IF k = "APT" THEN fees ELSE 0)

\* "30% of gas fee burned" (burn.go:21): between blocks, no more than three tenths
\* of the fees charged are missing from the supply.  The code credits a fee to
\* nobody, so all of it is.
BaseBurnIsPartial ==
    ~processing => 10 * (Accounted("APT") - Supply("APT")) <= 3 * fees
=============================================================================
