CONSTANTS
    Payload = {p1}
    Epochs <- MCEpochs
SPECIFICATION Spec
CHECK_DEADLOCK FALSE
INVARIANTS
    TypeOK
    Rooted
    DeepestNotarized
    FinalizedClosed
    FinalizedJustified
PROPERTIES
    StatusAdvances
    AssertFailsOnSkippedParent
    FinalizedLeftOnlySideways
