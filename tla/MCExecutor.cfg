SPECIFICATION LiveSpec
INVARIANTS NothingLeftBehind OptionsHonoured
PROPERTIES OneTreeAtATime ImplementsJudging CancellationEndsRun RunEnds
CONSTANTS
    Candidates = 2
    MaxSignals = 2
CHECK_DEADLOCK FALSE
