SPECIFICATION Spec
CONSTANTS
    ByteBits = 2
    Digits = 4
    ProductExtra = 3
    TARGET_TIMESPAN = 8
    MAX_COMPACT_BITS = 271
    WireRadix = 8
    HashLen = 1
    MAX_TRANSACTION_INPUTS = 2
    MAX_TRANSACTION_OUTPUTS = 2
    MAX_SCRIPT_SIZE = 6
    MAX_TRANSACTION_SERIALIZED_SIZE = 40
    MAX_BLOCK_SERIALIZED_SIZE = 80
    MAX_TRANSACTIONS_PER_BLOCK = 6
    MAX_INV_COUNT = 6
    MAX_USER_AGENT_LEN = 6
    LEGACY_ADDRESS_SIZE = 1
    RelayVersion = 3
    COMMAND_LENGTH = 2
    MAX_PAYLOAD_SIZE = 60
    Magic = 6
    CommandName <- MCCommandName
    ScriptRadix = 16
    MaxDirect = 2
    Dividends <- Number
    Divisors <- MCDivisors
    Scalings <- MCScalings
    CompactBits <- MCCompactBits
    Timespans <- MCTimespans
    Minings <- MCMinings
    Transactions <- MCTransactions
    Blocks <- MCBlocks
    Inventories <- MCInventories
    Versions <- MCVersions
    TxidLists <- MCTxidLists
    PushLengths <- MCPushLengths
    ScriptSigs <- MCScriptSigs
    Key = 12
    Sighash = 14
    Sessions <- MCSessions
INVARIANTS
    WorkIsBlockProof
