SPECIFICATION FairSpec
CONSTANTS
    InitialCredit = 1
    MaxCredit = 2
    MaxPayload = 1
    MaxPacket = 1
    HighWater = 1
    LowWater = 0
    PeerBuffer = 1
    UpBytes = 3
    DownBytes = 2
PROPERTIES
    SentIsTaken
    PeerOutputArrives
    EndsWithPwa
CHECK_DEADLOCK FALSE
