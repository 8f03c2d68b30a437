SPECIFICATION Spec
INVARIANT FirstSignalIsCooperative
CONSTANTS
    Candidates = 1
    MaxSignals = 1
CHECK_DEADLOCK FALSE
