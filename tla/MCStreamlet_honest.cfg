CONSTANTS
    p1 = p1
    p2 = p2
    Payload = {p1, p2}
    Draws <- MCDraws
    HonestCount = 2
    DummyCount = 0
    DishonestCount = 0
    EpochLength = 1
    NrRounds = 3
    GetLeader <- InTurn
SPECIFICATION Spec
CHECK_DEADLOCK FALSE
INVARIANTS
    IInv
    HonestVotesForRecorded
PROPERTIES
    VotesNeverGoUp
