CONSTANTS
    \* Ledger
    Alice = Alice
    Bob = Bob
    Zero = Zero
    Addrs <- MCAddrs
    ZeroAddress <- Zero
    Txs <- MCTxs
    GenesisBalance <- MCGenesisBalance
    GenesisPool <- MCGenesisPool
    GenesisGasLimit = 3
    BlockReward <- MCBlockReward
    HalvingInterval = 2
    BaseGas = 1
    DataGas = 0
    TypeGas <- MCTypeGas
    FeeMult = 9
    FeeDenom = 10
    NonceWindow = 1
    MaxNonce = 2
    MaxHeight = 2
    IssueBound = 1
    \* Chain
    a1 = a1
    a2 = a2
    a3 = a3
    b1 = b1
    f1 = f1
    Genesis = Genesis
    Block <- MCBlock
    Parent <- MCParent
    Failing <- MCFailing
    MaxObjects = 6
SPECIFICATION BlocksSpec
INVARIANTS
    NoOverdraft
    NoReplay
    GasAccounted
    SupplyConserved
    ChainIntact
PROPERTY ProductNeverFalls
\* Heights, objects and nonces run out.
CHECK_DEADLOCK FALSE
