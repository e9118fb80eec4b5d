CONSTANTS
    p1 = p1
    p2 = p2
    Payload = {p1, p2}
    Draws <- MCDraws
    HonestCount = 2
    DummyCount = 0
    DishonestCount = 2
    NumOfNodes = 4
    RepeatLeaderTimes = 1
    EpochLength = 1
    NrRounds = 6
    GetLeader <- RepeatLeader
SPECIFICATION Spec
INVARIANTS
    FacesMatchFractions
PROPERTIES
    ImplementsStreamlet
