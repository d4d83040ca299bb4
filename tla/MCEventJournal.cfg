SPECIFICATION Spec
CONSTANTS
    Event = {"disconnect", "other"}
    Disconnection = {"disconnect"}
    EventCapacity = 2
    DisconnectedCapacity = 2
    Peer = {p1, p2}
    Wallet = wallet
    MaxSeq = 5
SYMMETRY Symmetry
INVARIANTS
    ExactDelivery
    LagMeansLoss
    RecoveryIsExact
    NoDisconnectMissed
