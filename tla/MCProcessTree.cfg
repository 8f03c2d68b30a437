SPECIFICATION MCSpec
INVARIANTS SignalsStayHome NothingOutlivesTheJob
PROPERTIES ImplementsContainedTree TreeEnds
CONSTANTS
    Member = {m1, m2}
    Privileged = {m2}
    Recycling = TRUE
    MaxFaults = 2
    None = None
CHECK_DEADLOCK FALSE
