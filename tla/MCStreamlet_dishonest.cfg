CONSTANTS
    p1 = p1
    p2 = p2
    Payload = {p1, p2}
    Draws <- MCDraws
    HonestCount = 2
    DummyCount = 1
    DishonestCount = 1
    EpochLength = 2
    NrRounds = 2
    GetLeader <- LastFirst
SPECIFICATION Spec
INVARIANTS
    TypeOK
    EpochAgreement
