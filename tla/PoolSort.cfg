SPECIFICATION FairSortSpec
CONSTANTS
    Size = 5
    Priorities = {0, 1, 2, 3, 4}
CHECK_DEADLOCK FALSE
INVARIANTS
    ScansStayInside
    EndsInPlace
PROPERTIES
    Terminates
