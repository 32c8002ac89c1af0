SPECIFICATION SRWSpec
CONSTANTS
    Thread = {t1, t2, t3}
    NULL = NULL
INVARIANT MutualExclusion
CHECK_DEADLOCK FALSE
