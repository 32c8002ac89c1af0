SPECIFICATION Spec
CONSTANTS
    Thread = {t1, t2, t3}
    CondVar = {c1, c2}
    Handle = {h1, h2}
    MaxItems = 1
    NULL = NULL
INVARIANTS TypeOK SignalsTheDequeued QueueHoldsTheSleepers NoLostWakeUp
PROPERTY ImplementsMonitor
CHECK_DEADLOCK FALSE
