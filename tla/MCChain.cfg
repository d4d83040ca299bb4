SPECIFICATION FairSpec
CONSTANTS
    Tx <- MCTx
    OutPoint <- MCTx
    Coinbase <- MCCoinbase
    BadTx = {}
    inputs <- MCInputs
    outputs <- MCOutputs
    Hash <- MCHash
    NoHash = "none"
    Genesis = "g"
    prev_blockhash <- MCPrev
    time <- MCTime
    bits <- MCBits
    transactions <- MCTransactions
    OverLimit = {"big"}
    BadHeader = {"x2"}
    BlockWork <- MCBlockWork
    AdjustBits <- MCAdjustBits
    Interval = 100
    MaxCompactBits = 9
    MedianWindow = 11
    FutureDrift = 1
    NetworkTime = {2, 5}
    DebugAssertions = TRUE
    MaxOrphans = 2
    MaxReceiveSeq = 4
INVARIANTS
    TreeSound
    TipHasMostWork
    UtxoIsReplay
    ActiveChainValid
    OrphansWait
    ReorgWalkSafe
    EventsFollowChain
PROPERTIES
    FailedCallRestores
    CallReturns
    ImplementsForkChoice
