---------------------------- MODULE Ledger_proofs ---------------------------
(* Proofs about Ledger for any addresses, transactions and parameters.      *)
EXTENDS Ledger, FiniteSetTheorems, TLAPS

-----------------------------------------------------------------------------
(* Arithmetic *)

LEMMA ProductNat == ASSUME NEW m \in Nat, NEW n \in Nat PROVE m * n \in Nat
  OBVIOUS

LEMMA ProductMono ==
    ASSUME NEW m \in Nat, NEW n \in Nat, NEW c \in Nat, m <= n
    PROVE  m * c <= n * c
<1>1. (n - m) * c >= 0
  OBVIOUS
<1>2. (n - m) * c = n * c - m * c
  OBVIOUS
<1> QED BY <1>1, <1>2, ProductNat

LEMMA Quotient ==
    ASSUME NEW m \in Nat, NEW d \in Nat \ {0}
    PROVE  /\ m \div d \in Nat
           /\ (m \div d) * d <= m
  BY SMTT(30)

LEMMA ExceptTyped ==
    ASSUME NEW S, NEW T, NEW f \in [S -> T], NEW x \in S, NEW v \in T
    PROVE  [f EXCEPT ![x] = v] \in [S -> T]
  OBVIOUS

\* The output of a swap leaves something of the reserve, and the product of
\* the reserves does not fall: x and y are the reserves of the input and the
\* output token, in the input after the fee, and a the whole input.
LEMMA ConstantProduct ==
    ASSUME NEW x \in Nat \ {0}, NEW y \in Nat \ {0},
           NEW in \in Nat, NEW a \in Nat, in <= a
    PROVE  LET out == (y * in) \div (x + in)
           IN  out \in Nat /\ out < y /\ (x + a) * (y - out) >= x * y
<1> DEFINE out == (y * in) \div (x + in)
<1>1. y * in \in Nat /\ x + in \in Nat \ {0}
  BY ProductNat
<1>2. out \in Nat /\ out * (x + in) <= y * in
  BY <1>1, Quotient
<1> HIDE DEF out
<1>3. out < y
  <2>1. SUFFICES ASSUME out >= y PROVE FALSE
    BY <1>2
  <2>2. y * (x + in) <= out * (x + in)
    BY <1>1, <1>2, <2>1, ProductMono
  <2>3. y * (x + in) = y * x + y * in
    OBVIOUS
  <2>4. y * x > 0
    OBVIOUS
  <2>5. y * x \in Nat /\ y * in \in Nat /\ y * (x + in) \in Nat /\ out * (x + in) \in Nat
    BY <1>1, <1>2, ProductNat
  <2> QED BY <1>2, <2>2, <2>3, <2>4, <2>5
<1>4. (x + in) * (y - out) >= x * y
  <2>1. (x + in) * (y - out) = x * y + y * in - out * (x + in)
    BY <1>2
  <2>2. x * y \in Nat /\ y * in \in Nat /\ out * (x + in) \in Nat
    BY <1>1, <1>2, ProductNat
  <2> QED BY <1>2, <2>1, <2>2
<1>5. (x + in) * (y - out) <= (x + a) * (y - out)
  <2>1. x + in \in Nat /\ x + a \in Nat /\ y - out \in Nat /\ x + in <= x + a
    BY <1>2, <1>3
  <2> QED BY <2>1, ProductMono
<1>6. (x + in) * (y - out) \in Int /\ (x + a) * (y - out) \in Int /\ x * y \in Int
  BY <1>2
<1>7. (x + a) * (y - out) >= x * y
  BY <1>4, <1>5, <1>6
<1> QED BY <1>2, <1>3, <1>7 DEF out

-----------------------------------------------------------------------------
(* The inductive invariant *)

\* What NoReplay needs: whatever was executed is below the sender's nonce, so
\* validateTx refuses it.
ExecutedBelowNonce ==
    \A a \in Addrs, n \in 0..MaxNonce : executed[a][n] # 0 => n < nonce[a]

IInv ==
    /\ TypeOK
    /\ NoOverdraft
    /\ PoolNeverDrained
    /\ GasAccounted
    /\ NoReplay
    /\ ExecutedBelowNonce

Balances == [Kinds -> [Addrs -> Nat]]

LEMMA BalancesNat ==
    ASSUME TypeOK, NoOverdraft PROVE bal \in Balances
  BY DEF TypeOK, NoOverdraft, Balances

LEMMA Debit ==
    ASSUME NEW b \in Balances, NEW k \in Kinds, NEW a \in Addrs,
           NEW v \in Nat, b[k][a] >= v
    PROVE  SubBalance(b, k, a, v) \in Balances
<1>1. [b[k] EXCEPT ![a] = @ - v] \in [Addrs -> Nat]
  BY DEF Balances
<1>2. SubBalance(b, k, a, v) = [b EXCEPT ![k] = [b[k] EXCEPT ![a] = @ - v]]
  BY DEF SubBalance
<1> QED BY <1>1, <1>2 DEF Balances

LEMMA Credit ==
    ASSUME NEW b \in Balances, NEW k \in Kinds, NEW a \in Addrs, NEW v \in Nat
    PROVE  AddBalance(b, k, a, v) \in Balances
<1>1. [b[k] EXCEPT ![a] = @ + v] \in [Addrs -> Nat]
  BY DEF Balances
<1>2. AddBalance(b, k, a, v) = [b EXCEPT ![k] = [b[k] EXCEPT ![a] = @ + v]]
  BY DEF AddBalance
<1> QED BY <1>1, <1>2 DEF Balances

LEMMA TxFacts ==
    ASSUME NEW tx \in Txs
    PROVE  /\ tx.from \in Addrs /\ tx.to \in Addrs
           /\ tx.amount \in Nat /\ tx.kind \in Kinds /\ tx.type \in Types
           /\ tx.nonce \in 0..(MaxNonce - 1)
           /\ tx.gasLimit \in Nat /\ tx.gasPrice \in Nat
           /\ Cost(tx) \in Nat
           /\ IntrinsicGas(tx) \in Nat
<1>1. tx \in Transaction
  BY TxsAssumption
<1>2. /\ tx.from \in Addrs /\ tx.to \in Addrs
      /\ tx.amount \in Nat /\ tx.kind \in Kinds /\ tx.type \in Types
      /\ tx.nonce \in 0..(MaxNonce - 1)
      /\ tx.gasLimit \in Nat /\ tx.gasPrice \in Nat
  BY <1>1 DEF Transaction
<1>3. Cost(tx) \in Nat
  BY <1>2, ProductNat DEF Cost
<1>4. TypeGas[tx.type] \in Nat
  BY <1>2, GasAssumption
<1>5. IntrinsicGas(tx) \in Nat
  BY <1>4, GasAssumption DEF IntrinsicGas
<1> QED BY <1>2, <1>3, <1>5

\* The fee an admitted transaction reserves leaves no balance overdrawn.
LEMMA ReservedFacts ==
    ASSUME TypeOK, NoOverdraft, NEW tx \in Txs, Admitted(tx)
    PROVE  Reserved(tx) \in Balances
<1>1. bal \in Balances
  BY BalancesNat
<1>2. tx.from \in Addrs /\ Cost(tx) \in Nat
  BY TxFacts
<1>3. bal["APT"][tx.from] >= Cost(tx)
  BY DEF Admitted, ValidateTx
<1> QED BY <1>1, <1>2, <1>3, Debit DEF Reserved, Kinds

\* The part of the invariant that Settle alone decides.
LEMMA SettlePreserves ==
    ASSUME IInv, processing, NEW tx \in Txs, Admitted(tx),
           NEW b \in Balances, NEW gasUsed \in Nat, gasUsed <= tx.gasLimit,
           NEW burnt \in [Kinds -> Nat],
           Settle(tx, b, gasUsed, burnt),
           pool' \in [Kinds -> Int], PoolNeverDrained'
    PROVE  IInv'
<1> USE DEF IInv
<1>1. /\ tx.from \in Addrs /\ tx.nonce \in 0..(MaxNonce - 1)
      /\ tx.gasLimit \in Nat /\ tx.gasPrice \in Nat /\ Cost(tx) \in Nat
  BY TxFacts
<1>2. gasUsed * tx.gasPrice \in Nat /\ gasUsed * tx.gasPrice <= Cost(tx)
  BY <1>1, ProductNat, ProductMono DEF Cost
<1>3. bal' \in Balances
  <2>1. Refund(tx, gasUsed) \in Nat
    BY <1>1, <1>2 DEF Refund
  <2>2. bal' = AddBalance(b, "APT", tx.from, Refund(tx, gasUsed))
    BY DEF Settle
  <2> QED BY <1>1, <2>1, <2>2, Credit DEF Kinds
<1>4. nonce' = [nonce EXCEPT ![tx.from] = tx.nonce + 1]
  BY DEF Settle, NonceAfter
<1>5. executed' = [executed EXCEPT ![tx.from] =
                      [executed[tx.from] EXCEPT ![tx.nonce] = @ + 1]]
  BY DEF Settle
<1>6. nonce[tx.from] <= tx.nonce
  BY <1>1 DEF Admitted, ValidateTx, TypeOK
<1>7. executed[tx.from][tx.nonce] = 0
  BY <1>1, <1>6, BoundsAssumption DEF ExecutedBelowNonce, TypeOK
<1>8. /\ gasPool' = gasPool - gasUsed
      /\ totalGasUsed' = totalGasUsed + gasUsed
      /\ UNCHANGED <<height, headGasLimit, processing, gasLimit>>
  BY <1>1 DEF Settle, GasReturned, headVars, TypeOK
<1>9. TypeOK'
  <2>0. tx.nonce + 1 \in 0..MaxNonce /\ tx.nonce \in 0..MaxNonce
    BY <1>1, BoundsAssumption
  <2>1. nonce' \in [Addrs -> 0..MaxNonce]
    BY <1>1, <1>4, <2>0 DEF TypeOK
  <2>2. [executed[tx.from] EXCEPT ![tx.nonce] = @ + 1] \in [0..MaxNonce -> Nat]
    <3>1. executed[tx.from] \in [0..MaxNonce -> Nat]
      BY <1>1 DEF TypeOK
    <3>2. executed[tx.from][tx.nonce] + 1 \in Nat
      BY <1>7
    <3> QED BY <2>0, <3>1, <3>2, ExceptTyped, Zenon
  <2>3. executed' \in [Addrs -> [0..MaxNonce -> Nat]]
    BY <1>5, <2>2 DEF TypeOK
  <2>4. issued' \in [Kinds -> Int]
    <3>1. ASSUME NEW k \in Kinds
          PROVE  issued[k] - burnt[k] \in Int
      <4>1. issued[k] \in Int /\ burnt[k] \in Int
        BY DEF TypeOK
      <4> QED BY <4>1
    <3>2. issued' = [k \in Kinds |-> issued[k] - burnt[k]]
      BY DEF Settle
    <3> QED BY <3>1, <3>2
  <2>6. fees' \in Nat
    <3>1. fees \in Nat /\ fees' = fees + gasUsed * tx.gasPrice
      BY DEF Settle, TypeOK
    <3> QED BY <1>2, <3>1
  <2>5. bal' \in [Kinds -> [Addrs -> Int]]
    BY <1>3 DEF Balances
  <2> QED BY <1>8, <2>1, <2>3, <2>4, <2>5, <2>6 DEF TypeOK
<1>10. NoOverdraft'
  BY <1>3 DEF NoOverdraft, Balances
<1>11. GasAccounted'
  BY <1>1, <1>8 DEF GasAccounted, Admitted, TypeOK
<1>12. NoReplay'
  <2> SUFFICES ASSUME NEW a \in Addrs, NEW n \in 0..MaxNonce
               PROVE  executed'[a][n] <= 1
    BY DEF NoReplay
  <2>1. CASE a = tx.from /\ n = tx.nonce
    BY <1>1, <1>5, <1>7, <2>1 DEF TypeOK
  <2>2. CASE ~(a = tx.from /\ n = tx.nonce)
    <3>1. executed'[a][n] = executed[a][n]
      BY <1>1, <1>5, <2>2 DEF TypeOK
    <3> QED BY <3>1 DEF NoReplay
  <2> QED BY <2>1, <2>2
<1>13. ExecutedBelowNonce'
  <2> SUFFICES ASSUME NEW a \in Addrs, NEW n \in 0..MaxNonce, executed'[a][n] # 0
               PROVE  n < nonce'[a]
    BY DEF ExecutedBelowNonce
  <2>1. CASE a = tx.from /\ n = tx.nonce
    BY <1>1, <1>4, <2>1 DEF TypeOK
  <2>2. CASE ~(a = tx.from /\ n = tx.nonce)
    <3>1. executed'[a][n] = executed[a][n]
      BY <1>1, <1>5, <2>2 DEF TypeOK
    <3>2. n < nonce[a]
      BY <3>1 DEF ExecutedBelowNonce
    <3>3. nonce'[a] = (IF a = tx.from THEN tx.nonce + 1 ELSE nonce[a])
      BY <1>4 DEF TypeOK
    <3>4. nonce[a] \in Int /\ n \in Int /\ tx.nonce \in Int
      BY <1>1, BoundsAssumption DEF TypeOK
    <3> QED BY <1>6, <3>2, <3>3, <3>4
  <2> QED BY <2>1, <2>2
<1> QED BY <1>9, <1>10, <1>11, <1>12, <1>13
-----------------------------------------------------------------------------
(* Swaps *)

LEMMA FeeFacts ==
    ASSUME NEW a \in Nat
    PROVE  InputAfterFee(a) \in Nat /\ InputAfterFee(a) <= a
<1> DEFINE q == (a * FeeMult) \div FeeDenom
<1>1. FeeMult \in Nat /\ FeeDenom \in Nat \ {0} /\ FeeMult <= FeeDenom
  BY FeeAssumption
<1>2. a * FeeMult \in Nat
  BY <1>1, ProductNat
<1>3. q \in Nat /\ q * FeeDenom <= a * FeeMult
  BY <1>1, <1>2, Quotient
<1> HIDE DEF q
<1>4. FeeMult * a <= FeeDenom * a
  BY <1>1, ProductMono
<1>5. q <= a
  <2>1. SUFFICES ASSUME a + 1 <= q PROVE FALSE
    BY <1>3
  <2>2. (a + 1) * FeeDenom <= q * FeeDenom
    BY <1>1, <1>3, <2>1, ProductMono
  <2>3. (a + 1) * FeeDenom = FeeDenom * a + FeeDenom
    BY <1>1
  <2>4. a * FeeMult = FeeMult * a
    BY <1>1
  <2>5. FeeDenom * a \in Nat /\ FeeMult * a \in Nat /\ q * FeeDenom \in Nat
    BY <1>1, <1>3, ProductNat
  <2> QED BY <1>1, <1>3, <1>4, <2>2, <2>3, <2>4, <2>5
<1> QED BY <1>3, <1>5 DEF q, InputAfterFee

\* What a successful swap does to the pool.
LEMMA SwapFacts ==
    ASSUME IInv, NEW k \in Kinds, NEW a \in Nat,
           pool' = [pool EXCEPT ![k] = @ + a, ![Other(k)] = @ - SwapOutput(k, a)]
    PROVE  /\ SwapOutput(k, a) \in Nat
           /\ pool' \in [Kinds -> Int]
           /\ PoolNeverDrained'
           /\ pool'["APT"] * pool'["NPT"] >= pool["APT"] * pool["NPT"]
<1> DEFINE x == pool[k]
           y == pool[Other(k)]
           in == InputAfterFee(a)
           out == SwapOutput(k, a)
<1>1. Other(k) \in Kinds /\ Other(k) # k
  BY DEF Other, Kinds
<1>2. x \in Nat \ {0} /\ y \in Nat \ {0}
  BY <1>1 DEF IInv, TypeOK, PoolNeverDrained
<1>3. in \in Nat /\ in <= a
  BY FeeFacts
<1>4. out = (y * in) \div (x + in)
  BY DEF SwapOutput
<1> HIDE DEF in, x, y, out
<1>5. out \in Nat /\ out < y /\ (x + a) * (y - out) >= x * y
  BY <1>2, <1>3, <1>4, ConstantProduct
<1>6. pool \in [Kinds -> Int]
  BY DEF IInv, TypeOK
<1>7. pool'[k] = x + a /\ pool'[Other(k)] = y - out
  BY <1>1, <1>6 DEF x, y, out
<1>8. DOMAIN pool' = Kinds /\ pool' = [z \in Kinds |-> pool'[z]]
  BY <1>6
<1>9. \A z \in Kinds : z = k \/ z = Other(k)
  BY DEF Kinds, Other
<1>10. pool'[k] \in Int /\ pool'[Other(k)] \in Int /\ pool'[k] > 0 /\ pool'[Other(k)] > 0
  BY <1>2, <1>5, <1>7
<1>11. \A z \in Kinds : pool'[z] \in Int /\ pool'[z] > 0
  BY <1>9, <1>10
<1>12. pool' \in [Kinds -> Int] /\ PoolNeverDrained'
  BY <1>8, <1>11 DEF PoolNeverDrained
<1>13. pool'["APT"] * pool'["NPT"] >= pool["APT"] * pool["NPT"]
  <2>1. CASE k = "APT"
    <3>1. Other(k) = "NPT"
      BY <2>1 DEF Other
    <3> QED BY <1>5, <1>7, <2>1, <3>1 DEF x, y
  <2>2. CASE k = "NPT"
    <3>1. Other(k) = "APT"
      BY <2>2 DEF Other
    <3>2. (y - out) * (x + a) = (x + a) * (y - out) /\ y * x = x * y
      BY <1>2, <1>5
    <3> QED BY <1>5, <1>7, <2>2, <3>1, <3>2 DEF x, y
  <2> QED BY <2>1, <2>2 DEF Kinds
<1> QED BY <1>5, <1>12, <1>13 DEF out
-----------------------------------------------------------------------------
(* One lemma per action *)

LEMMA NoBurnTyped == NoBurn \in [Kinds -> Nat]
  BY DEF NoBurn

LEMMA PoolKept ==
    ASSUME IInv, UNCHANGED pool
    PROVE  pool' \in [Kinds -> Int] /\ PoolNeverDrained'
  BY DEF IInv, TypeOK, PoolNeverDrained

LEMMA TransferStep ==
    ASSUME IInv, NEW tx \in Txs, ExecuteTransfer(tx)
    PROVE  IInv'
<1> DEFINE k == TransferKind(tx)
           R == Reserved(tx)
           paid == SubBalance(R, k, tx.from, tx.amount)
           moved == AddBalance(paid, k, tx.to, tx.amount)
           after == IF tx.from = tx.to THEN R ELSE moved
<1>1. processing /\ Admitted(tx) /\ TransferSucceeds(tx) /\ UNCHANGED pool
  BY DEF ExecuteTransfer
<1>2. Settle(tx, after, IntrinsicGas(tx), NoBurn)
  BY DEF ExecuteTransfer
<1>3. R \in Balances
  BY <1>1, ReservedFacts DEF IInv
<1>4. k \in Kinds
  BY DEF TransferKind, Kinds
<1>5. tx.from \in Addrs /\ tx.to \in Addrs /\ tx.amount \in Nat /\ IntrinsicGas(tx) \in Nat
  BY TxFacts
<1>6. IntrinsicGas(tx) <= tx.gasLimit
  BY <1>1, <1>5, TxFacts DEF Admitted
<1>7. after \in Balances
  <2>1. CASE tx.from = tx.to
    BY <1>3, <2>1
  <2>2. CASE tx.from # tx.to
    <3>1. R[k][tx.from] >= tx.amount
      BY <1>1, <2>2 DEF TransferSucceeds
    <3>2. paid \in Balances
      BY <1>3, <1>4, <1>5, <3>1, Debit
    <3>3. moved \in Balances
      BY <1>4, <1>5, <3>2, Credit
    <3> QED BY <2>2, <3>3
  <2> QED BY <2>1, <2>2
<1>8. pool' \in [Kinds -> Int] /\ PoolNeverDrained'
  BY <1>1, PoolKept
<1> HIDE DEF after
<1> QED BY <1>1, <1>2, <1>5, <1>6, <1>7, <1>8, NoBurnTyped, SettlePreserves

LEMMA SwapStep ==
    ASSUME IInv, NEW tx \in Txs, ExecuteSwap(tx)
    PROVE  IInv' /\ pool'["APT"] * pool'["NPT"] >= pool["APT"] * pool["NPT"]
<1> DEFINE k == SwapInput(tx)
           R == Reserved(tx)
           out == SwapOutput(k, tx.amount)
           paid == SubBalance(R, k, tx.from, tx.amount)
           after == AddBalance(paid, Other(k), tx.from, out)
<1>1. processing /\ Admitted(tx) /\ SwapSucceeds(tx)
  BY DEF ExecuteSwap
<1>2. Settle(tx, after, IntrinsicGas(tx), NoBurn)
  BY DEF ExecuteSwap
<1>3. pool' = [pool EXCEPT ![k] = @ + tx.amount, ![Other(k)] = @ - out]
  BY DEF ExecuteSwap, ReservesAfter
<1>4. R \in Balances
  BY <1>1, ReservedFacts DEF IInv
<1>5. k \in Kinds /\ Other(k) \in Kinds
  BY DEF SwapInput, Other, Kinds
<1>6. tx.from \in Addrs /\ tx.amount \in Nat /\ IntrinsicGas(tx) \in Nat
  BY TxFacts
<1>7. IntrinsicGas(tx) <= tx.gasLimit
  BY <1>1, <1>6, TxFacts DEF Admitted
<1>8. /\ out \in Nat
      /\ pool' \in [Kinds -> Int] /\ PoolNeverDrained'
      /\ pool'["APT"] * pool'["NPT"] >= pool["APT"] * pool["NPT"]
  BY <1>3, <1>5, <1>6, SwapFacts
<1>9. after \in Balances
  <2>1. R[k][tx.from] >= tx.amount
    BY <1>1 DEF SwapSucceeds
  <2>2. paid \in Balances
    BY <1>4, <1>5, <1>6, <2>1, Debit
  <2> QED BY <1>5, <1>6, <1>8, <2>2, Credit
<1> HIDE DEF after
<1> QED BY <1>1, <1>2, <1>6, <1>7, <1>8, <1>9, NoBurnTyped, SettlePreserves

LEMMA BurnStep ==
    ASSUME IInv, NEW tx \in Txs, ExecuteBurn(tx)
    PROVE  IInv'
<1> DEFINE k == BurnKind(tx)
           after == SubBalance(Reserved(tx), k, tx.from, tx.amount)
<1>1. processing /\ Admitted(tx) /\ BurnSucceeds(tx) /\ UNCHANGED pool
  BY DEF ExecuteBurn
<1>2. Settle(tx, after, IntrinsicGas(tx), Burnt(k, tx.amount))
  BY DEF ExecuteBurn
<1>3. /\ tx.from \in Addrs /\ tx.amount \in Nat /\ IntrinsicGas(tx) \in Nat
      /\ tx.kind \in Kinds
  BY TxFacts
<1>4. k \in Kinds
  BY <1>3 DEF BurnKind, Kinds
<1>5. IntrinsicGas(tx) <= tx.gasLimit
  BY <1>1, <1>3, TxFacts DEF Admitted
<1>6. after \in Balances
  BY <1>1, <1>3, <1>4, ReservedFacts, Debit DEF BurnSucceeds, IInv
<1>7. Burnt(k, tx.amount) \in [Kinds -> Nat]
  BY <1>3, <1>4, NoBurnTyped DEF Burnt
<1>8. pool' \in [Kinds -> Int] /\ PoolNeverDrained'
  BY <1>1, PoolKept
<1> HIDE DEF after
<1> QED BY <1>1, <1>2, <1>3, <1>5, <1>6, <1>7, <1>8, SettlePreserves

LEMMA FailedStep ==
    ASSUME IInv, NEW tx \in Txs, ExecuteFailed(tx)
    PROVE  IInv'
<1>1. processing /\ Admitted(tx) /\ UNCHANGED pool
  BY DEF ExecuteFailed
<1>2. Settle(tx, Reserved(tx), tx.gasLimit, NoBurn)
  BY DEF ExecuteFailed
<1>3. Reserved(tx) \in Balances
  BY <1>1, ReservedFacts DEF IInv
<1>4. tx.gasLimit \in Nat /\ tx.gasLimit <= tx.gasLimit
  BY TxFacts
<1>5. pool' \in [Kinds -> Int] /\ PoolNeverDrained'
  BY <1>1, PoolKept
<1> QED BY <1>1, <1>2, <1>3, <1>4, <1>5, NoBurnTyped, SettlePreserves
LEMMA RewardTyped ==
    ASSUME TypeOK, NEW k \in Kinds
    PROVE  Reward(k) \in Nat
<1> DEFINE h == (height + 1) \div HalvingInterval
           i == IF h < 10 THEN h + 1 ELSE 11
<1>1. h \in Nat
  <2>1. height + 1 \in Nat
    BY DEF TypeOK
  <2> QED BY <2>1, RewardAssumption, Quotient
<1> HIDE DEF h
<1>2. i \in 1..11
  BY <1>1
<1>3. HalvingDivisor[i] \in Nat \ {0}
  BY <1>2 DEF HalvingDivisor
<1>4. BlockReward[k] \in Nat
  BY RewardAssumption
<1>5. Reward(k) = BlockReward[k] \div HalvingDivisor[i]
  BY DEF Reward, h
<1> HIDE DEF i
<1> QED BY <1>3, <1>4, <1>5, Quotient

\* Leaving a block keeps the accounts' part of the invariant.
LEMMA EndPreserves ==
    ASSUME IInv, EndProcess, bal' \in Balances, height' \in Nat, headGasLimit' \in Nat,
           issued' \in [Kinds -> Int], UNCHANGED <<nonce, pool, executed, fees>>
    PROVE  IInv'
<1>1. TypeOK'
  <2>1. bal' \in [Kinds -> [Addrs -> Int]]
    BY DEF Balances
  <2>2. processing' = FALSE /\ gasLimit' = 0 /\ gasPool' = 0 /\ totalGasUsed' = 0
    BY DEF EndProcess
  <2>3. /\ nonce' \in [Addrs -> 0..MaxNonce]
        /\ pool' \in [Kinds -> Int]
        /\ executed' \in [Addrs -> [0..MaxNonce -> Nat]]
        /\ fees' \in Nat
    BY DEF IInv, TypeOK
  <2>4. gasLimit' \in Nat /\ gasPool' \in Int /\ totalGasUsed' \in Nat
    BY <2>2, SMT
  <2>5. processing' \in BOOLEAN
    BY <2>2, Zenon
  <2> QED BY <2>1, <2>3, <2>4, <2>5, Zenon DEF TypeOK
<1>2. NoOverdraft'
  BY DEF NoOverdraft, Balances
<1>3. GasAccounted'
  BY DEF GasAccounted, EndProcess
<1>4. PoolNeverDrained' /\ NoReplay' /\ ExecutedBelowNonce'
  BY DEF IInv, PoolNeverDrained, NoReplay, ExecutedBelowNonce
<1> QED BY <1>1, <1>2, <1>3, <1>4 DEF IInv

LEMMA RejectStep == ASSUME IInv, RejectBlock PROVE IInv'
<1>1. EndProcess /\ UNCHANGED <<bal, nonce, pool, height, headGasLimit, executed, issued, fees>>
  BY DEF RejectBlock, headVars
<1>2. bal' \in Balances
  BY <1>1, BalancesNat DEF IInv
<1>3. height' \in Nat /\ headGasLimit' \in Nat /\ issued' \in [Kinds -> Int]
  BY <1>1 DEF IInv, TypeOK
<1> QED BY <1>1, <1>2, <1>3, EndPreserves

LEMMA BeginStep ==
    ASSUME IInv, NEW limit \in Nat, BeginBlock(limit) PROVE IInv'
<1>1. /\ UNCHANGED <<bal, nonce, pool, height, headGasLimit, executed, issued, fees>>
      /\ processing' = TRUE /\ gasLimit' = limit /\ gasPool' = limit /\ totalGasUsed' = 0
  BY DEF BeginBlock, headVars
<1>2. TypeOK'
  BY <1>1 DEF IInv, TypeOK
<1>3. GasAccounted'
  BY <1>1 DEF GasAccounted
<1>4. NoOverdraft' /\ PoolNeverDrained' /\ NoReplay' /\ ExecutedBelowNonce'
  BY <1>1 DEF IInv, NoOverdraft, PoolNeverDrained, NoReplay, ExecutedBelowNonce
<1> QED BY <1>2, <1>3, <1>4 DEF IInv

LEMMA FinishStep ==
    ASSUME IInv, NEW proposer \in Addrs, FinishBlock(proposer) PROVE IInv'
<1>1. Reward("APT") \in Nat /\ Reward("NPT") \in Nat
  BY RewardTyped DEF IInv, Kinds
<1>2. bal \in Balances
  BY BalancesNat DEF IInv
<1>3. AddBalance(bal, "APT", proposer, Reward("APT")) \in Balances
  BY <1>1, <1>2, Credit DEF Kinds
<1>4. bal' \in Balances
  BY <1>1, <1>3, Credit DEF FinishBlock, Kinds
<1>5. issued' \in [Kinds -> Int]
  <2>1. \A k \in Kinds : issued[k] + Reward(k) \in Int
    BY RewardTyped DEF IInv, TypeOK
  <2> QED BY <2>1 DEF FinishBlock
<1>6. height' \in Nat /\ headGasLimit' \in Nat
  BY DEF FinishBlock, IInv, TypeOK
<1>7. EndProcess /\ UNCHANGED <<nonce, pool, executed, fees>>
  BY DEF FinishBlock
<1> QED BY <1>4, <1>5, <1>6, <1>7, EndPreserves

LEMMA RewardFailsStep ==
    ASSUME IInv, NEW proposer \in Addrs, RewardFails(proposer) PROVE IInv'
<1>1. Reward("APT") \in Nat
  BY RewardTyped DEF IInv, Kinds
<1>2. bal' \in Balances
  BY <1>1, BalancesNat, Credit DEF RewardFails, IInv, Kinds
<1>3. issued' \in [Kinds -> Int]
  <2>1. issued \in [Kinds -> Int] /\ "APT" \in Kinds
    BY DEF IInv, TypeOK, Kinds
  <2>2. issued["APT"] + Reward("APT") \in Int
    BY <1>1, <2>1
  <2>3. issued' = [issued EXCEPT !["APT"] = issued["APT"] + Reward("APT")]
    BY DEF RewardFails
  <2> QED BY <2>1, <2>2, <2>3, ExceptTyped
<1>4. height' \in Nat /\ headGasLimit' \in Nat
  BY DEF RewardFails, headVars, IInv, TypeOK
<1>5. EndProcess /\ UNCHANGED <<nonce, pool, executed, fees>>
  BY DEF RewardFails
<1> QED BY <1>2, <1>3, <1>4, <1>5, EndPreserves

-----------------------------------------------------------------------------
(* Theorems *)

LEMMA InitIInv == Init => IInv
<1> SUFFICES ASSUME Init PROVE IInv
  OBVIOUS
<1>1. TypeOK
  <2>1. bal \in [Kinds -> [Addrs -> Int]] /\ pool \in [Kinds -> Int] /\ headGasLimit \in Nat
    BY GenesisAssumption DEF Init
  <2>2. 0 \in 0..MaxNonce
    BY BoundsAssumption
  <2>3. nonce \in [Addrs -> 0..MaxNonce] /\ executed \in [Addrs -> [0..MaxNonce -> Nat]]
    BY <2>2 DEF Init
  <2>4. issued \in [Kinds -> Int] /\ height \in Nat /\ fees \in Nat
    BY SMT DEF Init
  <2>5. processing \in BOOLEAN
    BY Zenon DEF Init
  <2>6. gasLimit \in Nat /\ gasPool \in Int /\ totalGasUsed \in Nat
    BY DEF Init
  <2> QED BY <2>1, <2>3, <2>4, <2>5, <2>6, Zenon DEF TypeOK
<1>2. NoOverdraft
  BY GenesisAssumption DEF Init, NoOverdraft
<1>3. PoolNeverDrained
  BY GenesisAssumption DEF Init, PoolNeverDrained
<1>4. GasAccounted /\ NoReplay /\ ExecutedBelowNonce
  BY DEF Init, GasAccounted, NoReplay, ExecutedBelowNonce
<1> QED BY <1>1, <1>2, <1>3, <1>4 DEF IInv

LEMMA NextIInv == IInv /\ [Next]_vars => IInv'
<1> SUFFICES ASSUME IInv, [Next]_vars PROVE IInv'
  OBVIOUS
<1>1. ASSUME NEW limit \in Nat, BeginBlock(limit) PROVE IInv'
  BY <1>1, BeginStep
<1>2. ASSUME NEW tx \in Txs, ExecuteTransfer(tx) PROVE IInv'
  BY <1>2, TransferStep
<1>3. ASSUME NEW tx \in Txs, ExecuteSwap(tx) PROVE IInv'
  BY <1>3, SwapStep
<1>4. ASSUME NEW tx \in Txs, ExecuteBurn(tx) PROVE IInv'
  BY <1>4, BurnStep
<1>5. ASSUME NEW tx \in Txs, ExecuteFailed(tx) PROVE IInv'
  BY <1>5, FailedStep
<1>6. CASE RejectBlock
  BY <1>6, RejectStep
<1>7. ASSUME NEW proposer \in Addrs, FinishBlock(proposer) PROVE IInv'
  BY <1>7, FinishStep
<1>8. ASSUME NEW proposer \in Addrs, RewardFails(proposer) PROVE IInv'
  BY <1>8, RewardFailsStep
<1>9. CASE UNCHANGED vars
  BY <1>9 DEF vars, headVars, blockVars, IInv, TypeOK, NoOverdraft,
     PoolNeverDrained, GasAccounted, NoReplay, ExecutedBelowNonce
<1> QED BY <1>1, <1>2, <1>3, <1>4, <1>5, <1>6, <1>7, <1>8, <1>9 DEF Next

THEOREM Invariance == Spec => []IInv
  BY InitIInv, NextIInv, PTL DEF Spec

\* The state stays well-typed whatever blocks InsertBlock is given.
THEOREM TypeCorrect == Spec => []TypeOK
<1>1. IInv => TypeOK
  BY DEF IInv
<1> QED BY <1>1, Invariance, PTL

\* ApplyTransaction's unchecked SubBalance never overdraws an account.
THEOREM NeverOverdrawn == Spec => []NoOverdraft
<1>1. IInv => NoOverdraft
  BY DEF IInv
<1> QED BY <1>1, Invariance, PTL

\* No sender's transaction of a given nonce is executed twice.
THEOREM ReplayFree == Spec => []NoReplay
<1>1. IInv => NoReplay
  BY DEF IInv
<1> QED BY <1>1, Invariance, PTL

\* The gas used by a block and the gas left in its pool make up its limit.
THEOREM GasIsAccounted == Spec => []GasAccounted
<1>1. IInv => GasAccounted
  BY DEF IInv
<1> QED BY <1>1, Invariance, PTL

\* No sequence of swaps empties a reserve.
THEOREM PoolKeepsReserves == Spec => []PoolNeverDrained
<1>1. IInv => PoolNeverDrained
  BY DEF IInv
<1> QED BY <1>1, Invariance, PTL

\* The constant product never falls, for any fee rate and any reserves.
THEOREM ConstantProductHolds == Spec => ProductNeverFalls
<1> DEFINE Step == pool'["APT"] * pool'["NPT"] >= pool["APT"] * pool["NPT"]
<1>1. IInv /\ [Next]_vars => [Step]_vars
  <2> SUFFICES ASSUME IInv, Next PROVE Step
    OBVIOUS
  <2>1. ASSUME UNCHANGED pool PROVE Step
    <3>1. pool["APT"] \in Int /\ pool["NPT"] \in Int
      BY DEF IInv, TypeOK, Kinds
    <3> QED BY <2>1, <3>1
  <2>2. ASSUME NEW tx \in Txs, ExecuteSwap(tx) PROVE Step
    BY <2>2, SwapStep
  <2>3. \/ UNCHANGED pool
        \/ \E tx \in Txs : ExecuteSwap(tx)
    BY DEF Next, BeginBlock, ExecuteTransfer, ExecuteBurn, ExecuteFailed,
       RejectBlock, FinishBlock, RewardFails
  <2> QED BY <2>1, <2>2, <2>3
<1> QED BY <1>1, Invariance, PTL DEF Spec, ProductNeverFalls
-----------------------------------------------------------------------------
(* Sums of balances *)

\* Induction over the naturals, for a set of numbers.
LEMMA NatSetInduction ==
    ASSUME NEW T, 0 \in T, \A n \in Nat : n \in T => n + 1 \in T
    PROVE  Nat \subseteq T
<1> SUFFICES ASSUME Nat \ T # {} PROVE FALSE
  OBVIOUS
<1> DEFINE R == {ss \in Nat \X Nat : ss[1] < ss[2]}
<1>1. IsWellFoundedOn(R, Nat)
  <2>1. OpToRel(<, Nat) = R
    BY Zenon DEF OpToRel
  <2> QED BY <2>1, NatLessThanWellFounded, Zenon
<1>2. PICK x \in Nat \ T : \A y \in Nat \ T : <<y, x>> \notin R
  <2> HIDE DEF R
  <2> QED BY <1>1, WFMin
<1>3. x # 0 /\ x - 1 \in Nat
  OBVIOUS
<1>4. <<x - 1, x>> \in R
  BY <1>3
<1>5. x - 1 \in T
  <2> HIDE DEF R
  <2> QED BY <1>2, <1>3, <1>4
<1> QED BY <1>3, <1>5

\* The element MapThenSumSet takes out of s, and the sum of f over a set.
Any(s) == CHOOSE x \in s : TRUE
SumOver(f, S) == MapThenSumSet(LAMBDA a : f[a], S)

\* g is the fold's table of sums of f, for the sets in D.
Adds(f, g, D) ==
    g = [s \in D |-> IF s = {} THEN 0 ELSE f[Any(s)] + g[s \ {Any(s)}]]

Table(f, g, S) == Adds(f, g, SUBSET S)

LEMMA SumIsChosen ==
    ASSUME NEW f, NEW S
    PROVE  SumOver(f, S) = (CHOOSE g : Adds(f, g, SUBSET S))[S]
BY Zenon DEF SumOver, MapThenSumSet, MapThenFoldSet, Adds, Any

LEMMA FiniteSubsets ==
    \A S \in SUBSET Addrs : IsFiniteSet(S) /\ Cardinality(S) \in Nat
BY AddressAssumption, FS_Subset, FS_CardinalityType

LEMMA AnyRemoves ==
    ASSUME NEW S \in SUBSET Addrs, S # {}
    PROVE  /\ Any(S) \in S /\ S \ {Any(S)} \in SUBSET Addrs
           /\ Cardinality(S \ {Any(S)}) = Cardinality(S) - 1
<1>1. Any(S) \in S
  BY DEF Any
<1> QED BY <1>1, FiniteSubsets, FS_RemoveElement

\* The table exists: from the one for the sets of up to n addresses, the one
\* for n + 1.
LEMMA SumExists ==
    ASSUME NEW f, NEW S \in SUBSET Addrs
    PROVE  \E g : Adds(f, g, SUBSET S)
<1> DEFINE D(n) == {s \in SUBSET S : Cardinality(s) <= n}
           T == {n \in Nat : \E g : Adds(f, g, D(n))}
<1>0. \A s \in SUBSET S : /\ s \in SUBSET Addrs
                          /\ Cardinality(s) \in Nat /\ Cardinality(s) <= Cardinality(S)
  BY FiniteSubsets, FS_Subset
<1>1. 0 \in T
  <2>1. D(0) = {{}}
    BY <1>0, FiniteSubsets, FS_EmptySet
  <2>2. Adds(f, [s \in {{}} |-> 0], {{}})
    BY DEF Adds
  <2> QED BY <2>1, <2>2
<1>2. ASSUME NEW n \in Nat, n \in T PROVE n + 1 \in T
  <2>1. PICK g : Adds(f, g, D(n))
    BY <1>2
  <2> DEFINE h == [s \in D(n + 1) |-> IF s = {} THEN 0 ELSE f[Any(s)] + g[s \ {Any(s)}]]
  <2>2. ASSUME NEW s \in D(n + 1), s # {}
        PROVE  s \ {Any(s)} \in D(n) /\ s \ {Any(s)} \in D(n + 1)
    <3>1. Cardinality(s \ {Any(s)}) = Cardinality(s) - 1
      BY <2>2, <1>0, AnyRemoves
    <3>2. s \ {Any(s)} \in SUBSET S /\ Cardinality(s) \in Nat /\ Cardinality(s) <= n + 1
      BY <1>0
    <3> QED BY <3>1, <3>2
  <2>3. ASSUME NEW s \in D(n), s \in D(n + 1) PROVE h[s] = g[s]
    BY <2>1, <2>3 DEF Adds
  <2>4. ASSUME NEW s \in D(n + 1), s # {}
        PROVE  h[s \ {Any(s)}] = g[s \ {Any(s)}]
    <3> HIDE DEF h
    <3> QED BY <2>2, <2>3, <2>4
  <2>5. Adds(f, h, D(n + 1))
    BY <2>4 DEF Adds
  <2> HIDE DEF h, D
  <2> QED BY <2>5
<1>3. Cardinality(S) \in T
  <2> HIDE DEF T
  <2> QED BY <1>1, <1>2, NatSetInduction, FiniteSubsets
<1>4. D(Cardinality(S)) = SUBSET S
  BY <1>0
<1> QED BY <1>3, <1>4

LEMMA SumUnfolds ==
    ASSUME NEW f, NEW S \in SUBSET Addrs
    PROVE  \E g : Table(f, g, S) /\ SumOver(f, S) = g[S]
<1>1. Adds(f, CHOOSE g : Adds(f, g, SUBSET S), SUBSET S)
  BY SumExists, Zenon
<1> QED BY <1>1, SumIsChosen DEF Table

\* Two tables agree on every set they both hold.
LEMMA AddsUnique ==
    ASSUME NEW f, NEW D \in SUBSET Addrs, NEW S \in SUBSET D,
           NEW g, Table(f, g, D), NEW h, Table(f, h, S)
    PROVE  g[S] = h[S]
<1> USE DEF Table
<1> DEFINE T == {n \in Nat : \A R \in SUBSET S : Cardinality(R) = n => g[R] = h[R]}
<1>1. \A R \in SUBSET S : R \in SUBSET D /\ R \in SUBSET Addrs
  OBVIOUS
<1>2. 0 \in T
  <2> SUFFICES ASSUME NEW R \in SUBSET S, Cardinality(R) = 0 PROVE g[R] = h[R]
    OBVIOUS
  <2>1. R = {}
    BY <1>1, FiniteSubsets, FS_EmptySet
  <2> QED BY <2>1 DEF Adds
<1>3. ASSUME NEW n \in Nat, n \in T PROVE n + 1 \in T
  <2> SUFFICES ASSUME NEW R \in SUBSET S, Cardinality(R) = n + 1 PROVE g[R] = h[R]
    OBVIOUS
  <2> DEFINE Q == R \ {Any(R)}
  <2>1. R # {}
    BY FS_EmptySet
  <2>2. Q \in SUBSET S /\ Cardinality(Q) = n
    BY <2>1, <1>1, AnyRemoves
  <2>3. g[Q] = h[Q]
    BY <2>2, <1>3
  <2>4. g[R] = f[Any(R)] + g[Q] /\ h[R] = f[Any(R)] + h[Q]
    BY <2>1, <1>1 DEF Adds
  <2> QED BY <2>3, <2>4
<1>4. Cardinality(S) \in T
  <2> HIDE DEF T
  <2> QED BY <1>2, <1>3, NatSetInduction, FiniteSubsets
<1> QED BY <1>4

\* The fold of the library, one step at a time.
LEMMA SumStep ==
    ASSUME NEW f, NEW S \in SUBSET Addrs
    PROVE  SumOver(f, S) = IF S = {} THEN 0 ELSE f[Any(S)] + SumOver(f, S \ {Any(S)})
<1>1. PICK g : Table(f, g, S) /\ SumOver(f, S) = g[S]
  BY SumUnfolds
<1>2. CASE S = {}
  BY <1>1, <1>2 DEF Table, Adds
<1>3. CASE S # {}
  <2> DEFINE R == S \ {Any(S)}
  <2>1. R \in SUBSET Addrs /\ R \in SUBSET S
    OBVIOUS
  <2>2. PICK h : Table(f, h, R) /\ SumOver(f, R) = h[R]
    BY <2>1, SumUnfolds
  <2>3. g[S] = f[Any(S)] + g[R]
    BY <1>1, <1>3 DEF Table, Adds
  <2>4. g[R] = h[R]
    <3> HIDE DEF R
    <3> QED BY <1>1, <2>1, <2>2, AddsUnique
  <2> QED BY <1>1, <1>3, <2>2, <2>3, <2>4
<1> QED BY <1>2, <1>3

LEMMA SumType ==
    ASSUME NEW f \in [Addrs -> Int]
    PROVE  \A S \in SUBSET Addrs : SumOver(f, S) \in Int
<1> DEFINE T == {n \in Nat : \A S \in SUBSET Addrs : Cardinality(S) = n => SumOver(f, S) \in Int}
<1>1. 0 \in T
  BY FiniteSubsets, FS_EmptySet, SumStep
<1>2. ASSUME NEW n \in Nat, n \in T PROVE n + 1 \in T
  <2> SUFFICES ASSUME NEW S \in SUBSET Addrs, Cardinality(S) = n + 1
               PROVE  SumOver(f, S) \in Int
    OBVIOUS
  <2>1. S # {}
    BY FS_EmptySet
  <2>2. Any(S) \in Addrs /\ SumOver(f, S \ {Any(S)}) \in Int
    BY <2>1, <1>2, AnyRemoves
  <2> QED BY <2>1, <2>2, SumStep
<1>3. \A S \in SUBSET Addrs : Cardinality(S) \in T
  <2> HIDE DEF T
  <2> QED BY <1>1, <1>2, NatSetInduction, FiniteSubsets
<1> QED BY <1>3

\* Changing one value changes the sums it is part of by as much, and no others.
LEMMA SumChange ==
    ASSUME NEW f \in [Addrs -> Int], NEW a \in Addrs, NEW v \in Int
    PROVE  \A S \in SUBSET Addrs :
              SumOver([f EXCEPT ![a] = @ + v], S) = SumOver(f, S) + (IF a \in S THEN v ELSE 0)
<1> DEFINE h == [f EXCEPT ![a] = @ + v]
           Good(S) == SumOver(h, S) = SumOver(f, S) + (IF a \in S THEN v ELSE 0)
           T == {n \in Nat : \A S \in SUBSET Addrs : Cardinality(S) = n => Good(S)}
<1>1. 0 \in T
  <2> SUFFICES ASSUME NEW S \in SUBSET Addrs, Cardinality(S) = 0 PROVE Good(S)
    OBVIOUS
  <2>1. S = {}
    BY FiniteSubsets, FS_EmptySet
  <2>2. SumOver(h, S) = 0 /\ SumOver(f, S) = 0
    <3> HIDE DEF h
    <3> QED BY <2>1, SumStep
  <2> QED BY <2>1, <2>2
<1>2. ASSUME NEW n \in Nat, n \in T PROVE n + 1 \in T
  <2> SUFFICES ASSUME NEW S \in SUBSET Addrs, Cardinality(S) = n + 1 PROVE Good(S)
    <3> HIDE DEF Good
    <3> QED OBVIOUS
  <2> DEFINE x == Any(S)
             R == S \ {x}
  <2>1. S # {}
    BY FS_EmptySet
  <2>2. x \in S /\ R \in SUBSET Addrs /\ Cardinality(R) = n
    BY <2>1, AnyRemoves
  <2>3. SumOver(h, S) = h[x] + SumOver(h, R) /\ SumOver(f, S) = f[x] + SumOver(f, R)
    <3> HIDE DEF h
    <3> QED BY <2>1, SumStep
  <2>4. SumOver(h, R) = SumOver(f, R) + (IF a \in R THEN v ELSE 0)
    BY <1>2, <2>2
  <2>5. f[x] \in Int /\ SumOver(f, R) \in Int /\ h[x] = IF x = a THEN f[x] + v ELSE f[x]
    BY <2>2, SumType
  <2> HIDE DEF h
  <2>6. a \in S <=> a = x \/ a \in R
    BY <2>2
  <2>7. a = x => a \notin R
    OBVIOUS
  <2> HIDE DEF R, x
  <2> QED BY <2>3, <2>4, <2>5, <2>6, <2>7
<1>3. \A S \in SUBSET Addrs : Cardinality(S) \in T
  <2> HIDE DEF T
  <2> QED BY <1>1, <1>2, NatSetInduction, FiniteSubsets
<1> QED BY <1>3

-----------------------------------------------------------------------------
(* The supply *)

IntBalances == [Kinds -> [Addrs -> Int]]

LEMMA TotalType == ASSUME NEW f \in [Addrs -> Int] PROVE Total(f) \in Int
BY SumType, Zenon DEF Total, SumOver

\* What crediting v to an address does to the totals.
LEMMA TotalCredit ==
    ASSUME NEW b \in IntBalances, NEW k \in Kinds, NEW a \in Addrs, NEW v \in Int
    PROVE  /\ AddBalance(b, k, a, v) \in IntBalances
           /\ \A j \in Kinds : Total(AddBalance(b, k, a, v)[j])
                                = Total(b[j]) + (IF j = k THEN v ELSE 0)
<1>1. AddBalance(b, k, a, v) = [b EXCEPT ![k] = [b[k] EXCEPT ![a] = @ + v]]
  BY DEF AddBalance
<1>2. b[k] \in [Addrs -> Int] /\ [b[k] EXCEPT ![a] = @ + v] \in [Addrs -> Int]
  BY DEF IntBalances
<1>3. AddBalance(b, k, a, v) \in IntBalances
  BY <1>1, <1>2 DEF IntBalances
<1>4. Total([b[k] EXCEPT ![a] = @ + v]) = Total(b[k]) + v
  <2>1. SumOver([b[k] EXCEPT ![a] = @ + v], Addrs) = SumOver(b[k], Addrs) + v
    BY <1>2, SumChange
  <2> QED BY <2>1, Zenon DEF Total, SumOver
<1>5. ASSUME NEW j \in Kinds
      PROVE  Total(AddBalance(b, k, a, v)[j]) = Total(b[j]) + (IF j = k THEN v ELSE 0)
  <2>1. Total(b[j]) \in Int
    BY TotalType DEF IntBalances
  <2>2. CASE j = k
    BY <2>2, <1>1, <1>4 DEF IntBalances
  <2>3. CASE j # k
    BY <2>1, <2>3, <1>1 DEF IntBalances
  <2> QED BY <2>2, <2>3
<1> QED BY <1>3, <1>5

LEMMA TotalDebit ==
    ASSUME NEW b \in IntBalances, NEW k \in Kinds, NEW a \in Addrs, NEW v \in Int
    PROVE  /\ SubBalance(b, k, a, v) \in IntBalances
           /\ \A j \in Kinds : Total(SubBalance(b, k, a, v)[j])
                                = Total(b[j]) - (IF j = k THEN v ELSE 0)
<1>1. SubBalance(b, k, a, v) = AddBalance(b, k, a, -v)
  <2>1. b[k][a] \in Int /\ b[k][a] - v = b[k][a] + (-v)
    BY DEF IntBalances
  <2> QED BY <2>1 DEF SubBalance, AddBalance
<1>2. -v \in Int
  OBVIOUS
<1>3. ASSUME NEW j \in Kinds
      PROVE  Total(b[j]) + (IF j = k THEN -v ELSE 0) = Total(b[j]) - (IF j = k THEN v ELSE 0)
  <2>1. Total(b[j]) \in Int
    BY TotalType DEF IntBalances
  <2> QED BY <2>1
<1>4. /\ AddBalance(b, k, a, -v) \in IntBalances
      /\ \A j \in Kinds : Total(AddBalance(b, k, a, -v)[j])
                            = Total(b[j]) + (IF j = k THEN -v ELSE 0)
  BY <1>2, TotalCredit
<1> QED BY <1>1, <1>3, <1>4

\* The totals once the fee is reserved.
LEMMA TotalReserved ==
    ASSUME TypeOK, NEW tx \in Txs
    PROVE  /\ Reserved(tx) \in IntBalances
           /\ \A j \in Kinds : Total(Reserved(tx)[j])
                                = Total(bal[j]) - (IF j = "APT" THEN Cost(tx) ELSE 0)
<1>1. bal \in IntBalances /\ "APT" \in Kinds
  BY DEF TypeOK, IntBalances, Kinds
<1>2. tx.from \in Addrs /\ Cost(tx) \in Int
  BY TxFacts
<1> QED BY <1>1, <1>2, TotalDebit DEF Reserved

\* The gas fees charged in token k.
FeesIn(k) == IF k = "APT" THEN fees ELSE 0

\* What the code does with a fee: all of it leaves the supply.
FeesLeave ==
    \A k \in Kinds :
        Total(bal[k]) + pool[k]
            = Total(GenesisBalance[k]) + GenesisPool[k] + issued[k] - FeesIn(k)

\* Settling conserves the supply when execution moved tokens between accounts and
\* pool only, apart from what it burnt: the refund and the fee make up the
\* reservation.
LEMMA SettleConserves ==
    ASSUME TypeOK, FeesLeave, NEW tx \in Txs, NEW b \in IntBalances,
           NEW gasUsed \in Nat, NEW burnt \in [Kinds -> Nat],
           Settle(tx, b, gasUsed, burnt), pool' \in [Kinds -> Int],
           \A j \in Kinds : Total(b[j]) + pool'[j] = Total(Reserved(tx)[j]) + pool[j] - burnt[j]
    PROVE  FeesLeave'
<1>1. /\ tx.from \in Addrs /\ Cost(tx) \in Int /\ gasUsed * tx.gasPrice \in Int
      /\ "APT" \in Kinds
  BY TxFacts, ProductNat DEF Kinds
<1>2. Refund(tx, gasUsed) = Cost(tx) - gasUsed * tx.gasPrice /\ Refund(tx, gasUsed) \in Int
  BY <1>1 DEF Refund
<1> SUFFICES ASSUME NEW j \in Kinds
             PROVE  Total(bal'[j]) + pool'[j] = Total(GenesisBalance[j]) + GenesisPool[j] + issued'[j] - FeesIn(j)'
  BY DEF FeesLeave
<1>3. Total(bal'[j]) = Total(b[j]) + (IF j = "APT" THEN Refund(tx, gasUsed) ELSE 0)
  <2>1. bal' = AddBalance(b, "APT", tx.from, Refund(tx, gasUsed))
    BY DEF Settle
  <2> DEFINE r == Refund(tx, gasUsed)
  <2>2. r \in Int /\ tx.from \in Addrs /\ "APT" \in Kinds
    BY <1>1, <1>2
  <2> HIDE DEF r
  <2>3. \A i \in Kinds : Total(AddBalance(b, "APT", tx.from, r)[i])
                         = Total(b[i]) + (IF i = "APT" THEN r ELSE 0)
    BY <2>2, TotalCredit
  <2> QED BY <2>1, <2>3 DEF r
<1>4. /\ issued'[j] = issued[j] - burnt[j]
      /\ FeesIn(j)' = FeesIn(j) + (IF j = "APT" THEN gasUsed * tx.gasPrice ELSE 0)
      /\ FeesIn(j) \in Int
  <2>1. issued'[j] = issued[j] - burnt[j] /\ fees' = fees + gasUsed * tx.gasPrice /\ fees \in Nat
    BY DEF Settle, TypeOK
  <2> QED BY <1>1, <2>1 DEF FeesIn
<1>5. Total(Reserved(tx)[j]) = Total(bal[j]) - (IF j = "APT" THEN Cost(tx) ELSE 0)
  BY TotalReserved
<1>6. Total(bal[j]) + pool[j] = Total(GenesisBalance[j]) + GenesisPool[j] + issued[j] - FeesIn(j)
  BY DEF FeesLeave
<1>7. /\ Total(bal[j]) \in Int /\ Total(b[j]) \in Int /\ Total(GenesisBalance[j]) \in Int
      /\ pool[j] \in Int /\ pool'[j] \in Int /\ GenesisPool[j] \in Int
      /\ issued[j] \in Int /\ burnt[j] \in Int
  <2>1. GenesisBalance[j] \in [Addrs -> Int] /\ GenesisPool[j] \in Int
    BY GenesisAssumption
  <2>2. bal[j] \in [Addrs -> Int] /\ b[j] \in [Addrs -> Int]
    BY DEF TypeOK, IntBalances
  <2>3. pool[j] \in Int /\ pool'[j] \in Int /\ issued[j] \in Int /\ burnt[j] \in Int
    BY DEF TypeOK
  <2> QED BY <2>1, <2>2, <2>3, TotalType
<1>8. Total(b[j]) + pool'[j] = Total(Reserved(tx)[j]) + pool[j] - burnt[j]
  OBVIOUS
<1> QED BY <1>1, <1>2, <1>3, <1>4, <1>5, <1>6, <1>7, <1>8

LEMMA ReservedTotals ==
    ASSUME TypeOK, NEW tx \in Txs, NEW j \in Kinds
    PROVE  Total(Reserved(tx)[j]) \in Int /\ pool[j] \in Int
<1>1. Reserved(tx)[j] \in [Addrs -> Int]
  BY TotalReserved DEF IntBalances
<1> QED BY <1>1, TotalType DEF TypeOK

LEMMA TransferConserves ==
    ASSUME IInv, FeesLeave, NEW tx \in Txs, ExecuteTransfer(tx)
    PROVE  FeesLeave'
<1> DEFINE k == TransferKind(tx)
           R == Reserved(tx)
           paid == SubBalance(R, k, tx.from, tx.amount)
           moved == AddBalance(paid, k, tx.to, tx.amount)
           after == IF tx.from = tx.to THEN R ELSE moved
<1>1. TypeOK /\ UNCHANGED pool /\ Settle(tx, after, IntrinsicGas(tx), NoBurn)
  BY DEF ExecuteTransfer, IInv
<1>2. /\ k \in Kinds /\ tx.from \in Addrs /\ tx.to \in Addrs /\ tx.amount \in Int
      /\ IntrinsicGas(tx) \in Nat
  BY TxFacts DEF TransferKind, Kinds
<1>3. R \in IntBalances
  BY <1>1, TotalReserved
<1>4. /\ paid \in IntBalances
      /\ \A j \in Kinds : Total(paid[j]) = Total(R[j]) - (IF j = k THEN tx.amount ELSE 0)
  BY <1>2, <1>3, TotalDebit
<1>5. /\ moved \in IntBalances
      /\ \A j \in Kinds : Total(moved[j]) = Total(paid[j]) + (IF j = k THEN tx.amount ELSE 0)
  <2> HIDE DEF paid
  <2> QED BY <1>2, <1>4, TotalCredit
<1>6. pool' \in [Kinds -> Int]
  BY <1>1 DEF TypeOK
<1>7. after \in IntBalances /\ \A j \in Kinds : Total(after[j]) = Total(R[j])
  <2>1. ASSUME NEW j \in Kinds PROVE Total(moved[j]) = Total(R[j])
    <3>1. Total(R[j]) \in Int
      BY <1>1, ReservedTotals
    <3> HIDE DEF paid, moved, R
    <3> QED BY <1>2, <1>4, <1>5, <3>1
  <2> HIDE DEF moved, R
  <2> QED BY <1>3, <1>5, <2>1
<1>8. \A j \in Kinds : Total(after[j]) + pool'[j] = Total(R[j]) + pool[j] - NoBurn[j]
  <2> SUFFICES ASSUME NEW j \in Kinds
               PROVE  Total(after[j]) + pool'[j] = Total(R[j]) + pool[j] - NoBurn[j]
    OBVIOUS
  <2>1. Total(R[j]) \in Int /\ pool[j] \in Int /\ NoBurn[j] = 0
    BY <1>1, ReservedTotals DEF NoBurn
  <2> HIDE DEF after, R
  <2> QED BY <1>1, <1>7, <2>1
<1> HIDE DEF after
<1> QED BY <1>1, <1>2, <1>6, <1>7, <1>8, NoBurnTyped, SettleConserves

LEMMA SwapConserves ==
    ASSUME IInv, FeesLeave, NEW tx \in Txs, ExecuteSwap(tx)
    PROVE  FeesLeave'
<1> DEFINE k == SwapInput(tx)
           R == Reserved(tx)
           out == SwapOutput(k, tx.amount)
           paid == SubBalance(R, k, tx.from, tx.amount)
           after == AddBalance(paid, Other(k), tx.from, out)
<1>1. /\ TypeOK /\ Settle(tx, after, IntrinsicGas(tx), NoBurn)
      /\ pool' = [pool EXCEPT ![k] = @ + tx.amount, ![Other(k)] = @ - out]
  BY DEF ExecuteSwap, ReservesAfter, IInv
<1>2. /\ k \in Kinds /\ Other(k) \in Kinds /\ Other(k) # k
      /\ tx.from \in Addrs /\ tx.amount \in Nat /\ IntrinsicGas(tx) \in Nat
  BY TxFacts DEF SwapInput, Other, Kinds
<1>3. out \in Nat /\ pool' \in [Kinds -> Int]
  BY <1>1, <1>2, SwapFacts
<1>4. R \in IntBalances
  BY <1>1, TotalReserved
<1> HIDE DEF k, out
<1>typed. out \in Int /\ tx.amount \in Int
  BY <1>2, <1>3
<1>5. /\ paid \in IntBalances
      /\ \A j \in Kinds : Total(paid[j]) = Total(R[j]) - (IF j = k THEN tx.amount ELSE 0)
  BY <1>2, <1>4, <1>typed, TotalDebit
<1>6. /\ after \in IntBalances
      /\ \A j \in Kinds : Total(after[j]) = Total(paid[j]) + (IF j = Other(k) THEN out ELSE 0)
  <2> HIDE DEF paid
  <2>1. paid \in IntBalances /\ Other(k) \in Kinds /\ tx.from \in Addrs
    BY <1>2, <1>5
  <2> QED BY <2>1, <1>typed, TotalCredit
<1>7. ASSUME NEW j \in Kinds
      PROVE  Total(after[j]) + pool'[j] = Total(R[j]) + pool[j] - NoBurn[j]
  <2>1. Total(R[j]) \in Int /\ pool[j] \in Int /\ NoBurn[j] = 0
    BY <1>1, ReservedTotals DEF NoBurn
  <2>2. pool'[j] = pool[j] + (IF j = k THEN tx.amount ELSE 0) - (IF j = Other(k) THEN out ELSE 0)
    <3>1. pool \in [Kinds -> Int]
      BY <1>1 DEF TypeOK
    <3>2. CASE j = k
      BY <1>1, <1>2, <1>3, <3>1, <3>2
    <3>3. CASE j = Other(k)
      BY <1>1, <1>2, <1>3, <3>1, <3>3
    <3>4. CASE j # k /\ j # Other(k)
      BY <1>1, <1>2, <1>3, <3>1, <3>4
    <3> QED BY <3>2, <3>3, <3>4
  <2> HIDE DEF after, paid, R
  <2> QED BY <1>2, <1>3, <1>5, <1>6, <2>1, <2>2
<1> HIDE DEF after
<1> QED BY <1>1, <1>2, <1>3, <1>6, <1>7, NoBurnTyped, SettleConserves

LEMMA BurnConserves ==
    ASSUME IInv, FeesLeave, NEW tx \in Txs, ExecuteBurn(tx)
    PROVE  FeesLeave'
<1> DEFINE k == BurnKind(tx)
           R == Reserved(tx)
           after == SubBalance(R, k, tx.from, tx.amount)
           burnt == Burnt(k, tx.amount)
<1>1. TypeOK /\ UNCHANGED pool /\ Settle(tx, after, IntrinsicGas(tx), burnt)
  BY DEF ExecuteBurn, IInv
<1>2. /\ k \in Kinds /\ tx.from \in Addrs /\ tx.amount \in Nat /\ IntrinsicGas(tx) \in Nat
  BY TxFacts DEF BurnKind, Kinds
<1>3. R \in IntBalances
  BY <1>1, TotalReserved
<1>4. burnt \in [Kinds -> Nat] /\ \A j \in Kinds : burnt[j] = IF j = k THEN tx.amount ELSE 0
  BY <1>2, NoBurnTyped DEF Burnt, NoBurn
<1>5. /\ after \in IntBalances
      /\ \A j \in Kinds : Total(after[j]) = Total(R[j]) - (IF j = k THEN tx.amount ELSE 0)
  BY <1>2, <1>3, TotalDebit
<1>6. pool' \in [Kinds -> Int]
  BY <1>1 DEF TypeOK
<1>7. ASSUME NEW j \in Kinds
      PROVE  Total(after[j]) + pool'[j] = Total(R[j]) + pool[j] - burnt[j]
  <2>1. Total(R[j]) \in Int /\ pool[j] \in Int
    BY <1>1, ReservedTotals
  <2> HIDE DEF after, R, k, burnt
  <2> QED BY <1>1, <1>2, <1>4, <1>5, <2>1
<1> HIDE DEF after, burnt
<1> QED BY <1>1, <1>2, <1>4, <1>5, <1>6, <1>7, SettleConserves

LEMMA FailedConserves ==
    ASSUME IInv, FeesLeave, NEW tx \in Txs, ExecuteFailed(tx)
    PROVE  FeesLeave'
<1> DEFINE R == Reserved(tx)
<1>1. TypeOK /\ UNCHANGED pool /\ Settle(tx, R, tx.gasLimit, NoBurn)
  BY DEF ExecuteFailed, IInv
<1>2. R \in IntBalances /\ tx.gasLimit \in Nat /\ pool' \in [Kinds -> Int]
  BY <1>1, TotalReserved, TxFacts DEF TypeOK
<1>3. ASSUME NEW j \in Kinds
      PROVE  Total(R[j]) + pool'[j] = Total(R[j]) + pool[j] - NoBurn[j]
  <2>1. Total(R[j]) \in Int /\ pool[j] \in Int /\ NoBurn[j] = 0
    BY <1>1, ReservedTotals DEF NoBurn
  <2> QED BY <1>1, <2>1
<1> QED BY <1>1, <1>2, <1>3, NoBurnTyped, SettleConserves

\* A reward is issued as it is credited, also when only the first of the two is.
LEMMA RewardConserves ==
    ASSUME IInv, FeesLeave, NEW proposer \in Addrs,
           FinishBlock(proposer) \/ RewardFails(proposer)
    PROVE  FeesLeave'
<1> DEFINE minted == AddBalance(bal, "APT", proposer, Reward("APT"))
<1>1. /\ TypeOK /\ bal \in IntBalances /\ "APT" \in Kinds /\ "NPT" \in Kinds
      /\ UNCHANGED pool /\ fees \in Nat /\ UNCHANGED fees
  BY DEF IInv, TypeOK, IntBalances, Kinds, FinishBlock, RewardFails
<1>2. \A j \in Kinds : Reward(j) \in Int
  BY <1>1, RewardTyped
<1>3. /\ minted \in IntBalances
      /\ \A j \in Kinds : Total(minted[j]) = Total(bal[j]) + (IF j = "APT" THEN Reward("APT") ELSE 0)
  BY <1>1, <1>2, TotalCredit, SMTT(30)
<1> SUFFICES ASSUME NEW j \in Kinds
             PROVE  Total(bal'[j]) + pool'[j] = Total(GenesisBalance[j]) + GenesisPool[j] + issued'[j] - FeesIn(j)'
  BY DEF FeesLeave
<1>4. /\ Total(bal[j]) \in Int /\ Total(GenesisBalance[j]) \in Int
      /\ pool[j] \in Int /\ GenesisPool[j] \in Int /\ issued[j] \in Int
  <2>1. GenesisBalance[j] \in [Addrs -> Int] /\ GenesisPool[j] \in Int
    BY GenesisAssumption
  <2>2. bal[j] \in [Addrs -> Int] /\ pool[j] \in Int /\ issued[j] \in Int
    BY <1>1 DEF TypeOK
  <2> QED BY <2>1, <2>2, TotalType
<1>5. Total(bal[j]) + pool[j] = Total(GenesisBalance[j]) + GenesisPool[j] + issued[j] - FeesIn(j)
  BY DEF FeesLeave
<1>6. \E r \in Int : Total(bal'[j]) = Total(bal[j]) + r /\ issued'[j] = issued[j] + r
  <2>1. CASE FinishBlock(proposer)
    <3> DEFINE both == AddBalance(minted, "NPT", proposer, Reward("NPT"))
    <3>1. bal' = both /\ issued'[j] = issued[j] + Reward(j)
      BY <2>1 DEF FinishBlock
    <3>2. Total(both[j]) = Total(minted[j]) + (IF j = "NPT" THEN Reward("NPT") ELSE 0)
      <4>1. minted \in IntBalances /\ "NPT" \in Kinds /\ Reward("NPT") \in Int
        BY <1>1, <1>2, <1>3
      <4> HIDE DEF minted
      <4> QED BY <4>1, TotalCredit
    <3>3. j = "APT" \/ j = "NPT"
      BY DEF Kinds
    <3> HIDE DEF minted, both
    <3>4. Total(bal'[j]) = Total(bal[j]) + Reward(j)
      BY <1>1, <1>2, <1>3, <1>4, <3>1, <3>2, <3>3
    <3> QED BY <1>2, <3>1, <3>4
  <2>2. CASE RewardFails(proposer)
    <3> DEFINE r == IF j = "APT" THEN Reward("APT") ELSE 0
    <3>1. bal' = minted /\ issued' = [issued EXCEPT !["APT"] = @ + Reward("APT")]
      BY <2>2 DEF RewardFails
    <3>2. r \in Int /\ Total(bal'[j]) = Total(bal[j]) + r
      BY <1>1, <1>2, <1>3, <3>1
    <3>3. issued'[j] = issued[j] + r
      BY <1>1, <1>4, <3>1 DEF TypeOK
    <3> QED BY <3>2, <3>3
  <2> QED BY <2>1, <2>2
<1>7. FeesIn(j)' = FeesIn(j) /\ FeesIn(j) \in Int
  BY <1>1 DEF FeesIn
<1> QED BY <1>1, <1>4, <1>5, <1>6, <1>7

\* No token is created or lost but by rewards, burns and at most the gas fees,
\* whatever blocks are executed, fail or are tried again.
THEOREM SupplyIsConserved == Spec => []SupplyConserved
<1>1. Init => FeesLeave
  <2> SUFFICES ASSUME Init, NEW j \in Kinds
               PROVE  Total(bal[j]) + pool[j] = Total(GenesisBalance[j]) + GenesisPool[j] + issued[j] - FeesIn(j)
    BY DEF FeesLeave
  <2>1. bal = GenesisBalance /\ pool = GenesisPool /\ issued[j] = 0 /\ FeesIn(j) = 0
    BY DEF Init, FeesIn
  <2>2. Total(GenesisBalance[j]) \in Int /\ GenesisPool[j] \in Int
    <3>1. GenesisBalance[j] \in [Addrs -> Int] /\ GenesisPool[j] \in Int
      BY GenesisAssumption
    <3> QED BY <3>1, TotalType
  <2> QED BY <2>1, <2>2
<1>2. IInv /\ FeesLeave /\ [Next]_vars => FeesLeave'
  <2> SUFFICES ASSUME IInv, FeesLeave, [Next]_vars PROVE FeesLeave'
    OBVIOUS
  <2>1. ASSUME UNCHANGED <<bal, pool, issued, fees>> PROVE FeesLeave'
    BY <2>1 DEF FeesLeave, FeesIn
  <2>2. ASSUME NEW limit \in Nat, BeginBlock(limit) PROVE FeesLeave'
    BY <2>1, <2>2 DEF BeginBlock
  <2>3. ASSUME NEW tx \in Txs, ExecuteTransfer(tx) PROVE FeesLeave'
    BY <2>3, TransferConserves
  <2>4. ASSUME NEW tx \in Txs, ExecuteSwap(tx) PROVE FeesLeave'
    BY <2>4, SwapConserves
  <2>5. ASSUME NEW tx \in Txs, ExecuteBurn(tx) PROVE FeesLeave'
    BY <2>5, BurnConserves
  <2>6. ASSUME NEW tx \in Txs, ExecuteFailed(tx) PROVE FeesLeave'
    BY <2>6, FailedConserves
  <2>7. CASE RejectBlock
    BY <2>1, <2>7 DEF RejectBlock
  <2>8. ASSUME NEW proposer \in Addrs, FinishBlock(proposer) \/ RewardFails(proposer)
        PROVE  FeesLeave'
    BY <2>8, RewardConserves
  <2>9. CASE UNCHANGED vars
    BY <2>1, <2>9 DEF vars
  <2> QED BY <2>2, <2>3, <2>4, <2>5, <2>6, <2>7, <2>8, <2>9 DEF Next
<1>3. IInv /\ FeesLeave => SupplyConserved
  <2> SUFFICES ASSUME IInv, FeesLeave, NEW j \in Kinds
               PROVE  Accounted(j) - Supply(j) \in 0..FeesIn(j)
    BY DEF SupplyConserved, FeesIn
  <2>1. Total(GenesisBalance[j]) \in Int /\ GenesisPool[j] \in Int /\ issued[j] \in Int
    <3>1. GenesisBalance[j] \in [Addrs -> Int] /\ GenesisPool[j] \in Int /\ issued[j] \in Int
      BY GenesisAssumption DEF IInv, TypeOK
    <3> QED BY <3>1, TotalType
  <2>2. FeesIn(j) \in Nat
    BY DEF FeesIn, IInv, TypeOK
  <2> QED BY <2>1, <2>2 DEF FeesLeave, Supply, Accounted
<1> QED BY <1>1, <1>2, <1>3, Invariance, PTL DEF Spec
=============================================================================
