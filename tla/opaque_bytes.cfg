SPECIFICATION Spec
CONSTANTS
    InitialCredit = 2
    MaxCredit = 3
    MaxPayload = 2
    MaxPacket = 2
    HighWater = 1
    LowWater = 0
    PeerBuffer = 2
    UpBytes = 4
    DownBytes = 2
INVARIANTS
    OpaqueBytes
CHECK_DEADLOCK FALSE
