SPECIFICATION FairSpec
CONSTANTS
    Block <- MCBlock
    prev_blockhash <- MCPrev
    height <- MCHeight
    Tx = {"t"}
    Nonces <- MCNonces
    FirstKnown <- MCFirst
    Feeds <- MCFeeds
    MAX_PENDING_BLOCK_REQUESTS = 2
    WireCapacity = 1
    MaxLapses = 1
CHECK_DEADLOCK FALSE
INVARIANTS
    HandshakeAgreement
    NoDuplicateRequest
    OfferedIsHeld
PROPERTIES
    Settles
