SPECIFICATION Spec
CHECK_DEADLOCK FALSE
CONSTANTS
    Turn = 5
    Moves <- MCMoves
    Resets = TRUE
    MaxSteps = 4
    Empty = Empty
INVARIANTS
    TypeOK
    SumIsRotation
    UndisturbedPoseIsTrue
