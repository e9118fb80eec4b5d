CONSTANTS
    p1 = p1
    p2 = p2
    Payload = {p1, p2}
    Draws <- MCDraws
    HonestCount = 7
    DummyCount = 0
    DishonestCount = 0
    NumOfNodes = 7
    RepeatLeaderTimes = 1
    EpochLength = 1
    NrRounds = 7
    Deciders <- AllDeciders
    GetLeader <- RepeatLeader
SPECIFICATION Spec
INVARIANTS
    TypeOK
    NotMultiplied
    SidesSeparated
    CaughtUp
PROPERTIES
    RedeliveryIsIdle
    MajorityFinalizes
    Terminates
