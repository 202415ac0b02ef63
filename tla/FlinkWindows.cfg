SPECIFICATION Spec
CONSTANTS
    Size = 5
    Bound = 2
    Times <- MCTimes
    Capacity = 3
    MaxEvents = 5
CHECK_DEADLOCK FALSE
INVARIANTS
    TypeOK
    OnTimeIsCounted
PROPERTIES
    WindowSpec
    WindowsClose
