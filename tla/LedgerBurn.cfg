SPECIFICATION Spec
CONSTANTS
    Alice = Alice
    Bob = Bob
    Zero = Zero
    Addrs <- MCAddrs
    ZeroAddress <- Zero
    Txs <- MCTxs
    GenesisBalance <- MCGenesisBalance
    GenesisPool <- MCGenesisPool
    GenesisGasLimit = 3
    BlockReward <- MCBlockReward
    HalvingInterval = 2
    BaseGas = 1
    DataGas = 0
    TypeGas <- MCTypeGas
    FeeMult = 9
    FeeDenom = 10
    NonceWindow = 1
    MaxNonce = 2
    MaxHeight = 2
    IssueBound = 1
INVARIANT BaseBurnIsPartial
CHECK_DEADLOCK FALSE
