CONSTANTS
    p1 = p1
    p2 = p2
    Payload = {p1, p2}
    Draws <- MCDraws
    HonestCount = 3
    DummyCount = 1
    DishonestCount = 0
    NumOfNodes = 4
    RepeatLeaderTimes = 1
    EpochLength = 2
    NrRounds = 14
    GetLeader <- RepeatLeader
SPECIFICATION Spec
INVARIANTS
    NothingPendingBetweenTicks
    HonestInLockstep
PROPERTIES
    HonestEpochsFinalized
