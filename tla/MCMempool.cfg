SPECIFICATION FairSpec
CONSTANTS
    Tx <- MCTx
    OutPoint <- MCTx
    Coinbase <- MCCoinbase
    BadTx = {}
    inputs <- MCInputs
    outputs <- MCOutputs
    NoTx = "none"
    txid_of <- MCTxidOf
    size <- MCSize
    fee_rate <- MCFeeRate
    max_tx_count = 2
    max_bytes = 3
    MaxAdmissions = 3
    Hash <- MCHash
    Genesis = "g"
    branch <- MCBranch
    transactions <- MCTransactions
    work <- MCWork
    BadBlock = {"x2"}
    Peer = {p1, p2}
    EventCapacity = 3
    DisconnectedCapacity = 3
    MaxEvents = 5
CHECK_DEADLOCK FALSE
INVARIANTS
    SpendsExact
    WithinLimits
    PoolMineable
PROPERTIES
    RestoreComplete
    TipMoveIsFollowed
