CONSTANTS
    p1 = p1
    p2 = p2
    Payload = {p1, p2}
    Draws <- MCDraws
    HonestCount = 3
    DummyCount = 0
    DishonestCount = 1
    NumOfNodes = 4
    RepeatLeaderTimes = 1
    EpochLength = 1
    NrRounds = 9
    Deciders <- SomeDeciders
    GetLeader <- RepeatLeader
SPECIFICATION Spec
INVARIANTS
    NoAssertFails
PROPERTIES
    ImplementsLedger
    ImplementsStreamlet
