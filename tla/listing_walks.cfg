SPECIFICATION Spec
CONSTANTS
    Rows = {1, 2, 3, 4}
    TimeOf <- MCTimes
    Usable = {1, 2, 4}
    Lists <- MCLists
    Firsts = {0, 1}
    Sizes = {0, 2, 3}
    Default = 1
    Cap = 2
    Full = 3
    MaxFaults = 1
    MaxMoves = 2
INVARIANTS TypeOK WalkComplete PagesAddUp
CHECK_DEADLOCK FALSE
