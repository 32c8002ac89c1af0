\* The calls of the compatibility layer: a path longer than the buffer is not written.
SPECIFICATION Spec
CONSTANTS
    Programs <- MCPrograms
    Threads = {t1, t2}
    t1 = t1
    t2 = t2
    Thread = {l1, l2, l3, l4}
    NULL = NULL
CHECK_DEADLOCK FALSE
INVARIANT ActsOnWrittenPath
