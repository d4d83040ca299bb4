SPECIFICATION Spec
CONSTANTS
    Seeds <- MCSeeds
    Inbound = {"i1", "i2"}
    Addr = {"x", "y", "z"}
    addr <- MCAddr
    max_inbound = 2
    max_outbound = 1
    MaxEvents = 1
    MaxRegistrations = 1
    MaxCommands = 1
    MaxReads <- MCReads
CHECK_DEADLOCK FALSE
INVARIANT NodeRunsUntilShutdown
