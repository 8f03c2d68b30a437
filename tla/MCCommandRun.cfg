SPECIFICATION MCSpec
INVARIANTS WholeUnlessTruncated OutputIsJudgedRightly ProxyIsWholeOrGone OutputIsAnEnd
PROPERTIES ImplementsBoundedCommand CancellationIsHeard
PROPERTIES RunImplementsBoundedCommand CallsComeBack
CONSTANTS
    MaxWritten = 2
    MaxRunWritten = 3
    MaxLimit = 2
    CleanupAttempts = 8
    TailLimit = 7
    MaxTotal = 4
CHECK_DEADLOCK FALSE
