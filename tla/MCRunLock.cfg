SPECIFICATION LiveSpec
INVARIANTS TableMatchesGuards MutualExclusion
PROPERTIES ImplementsLock AttemptsEnd

CONSTANTS
    p1 = p1
    p2 = p2
    t1 = t1
    t2 = t2
    t3 = t3
    t4 = t4
    NoMode = NoMode
    Process <- MCProcess
    Thread <- MCThread
    ProcessOf <- MCProcessOf
CHECK_DEADLOCK FALSE
