SPECIFICATION Spec
CONSTANTS
    Thread = {t1, t2, t3}
    Context = {x1, x2}
    Misaligned = Misaligned
    Outcome <- MCCleanOutcome
    NULL = NULL
INVARIANT WalksLiveFrames
CHECK_DEADLOCK FALSE
