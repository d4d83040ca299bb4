SPECIFICATION Spec
CONSTANTS
    Tx <- MCHash
    OutPoint <- MCHash
    Coinbase <- MCHash
    BadTx = {}
    inputs <- MCInputs
    outputs <- MCOutputs
    Hash <- MCHash
    NoHash = "none"
    Genesis = "g"
    prev_blockhash <- MCPrev
    time <- MCTime
    bits <- MCBits
    transactions <- MCTransactions
    OverLimit = {}
    BadHeader = {}
    BlockWork <- MCBlockWork
    AdjustBits <- MCAdjustBits
    Interval = 2
    MaxCompactBits = 9
    MedianWindow = 3
    FutureDrift = 1
    NetworkTime = {10}
    DebugAssertions = FALSE
    MaxOrphans = 2
    MaxReceiveSeq = 3
INVARIANT NeverPoisoned
