SPECIFICATION Spec
CONSTANTS
    Block <- MCBlock
    Genesis = "g"
    branch <- MCBranch
    work <- MCWork
    Bad = {"x3"}
    Coin <- MCCoin
    creates <- MCCreates
    spends <- MCSpends
    Address = {"alice", "bob"}
    payee <- MCPayee
    MaxMoves = 5
CHECK_DEADLOCK FALSE
INVARIANTS
    WalletExact
    RollbackTakesBlocks
    UndoComplete
