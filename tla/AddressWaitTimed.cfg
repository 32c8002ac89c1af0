SPECIFICATION Spec
CONSTANTS
    Thread = {t1, t2, t3}
    Address = {a1}
    Handle = {h1, h2}
    Queue <- MCQueue
    QueueOf <- MCQueueOf
    Value <- MCValue
    Timeouts <- MCTimed
    EventBuffer = 1
    NULL = NULL
SYMMETRY MCSymmetry
INVARIANTS QueueHoldsTheWaiters NoLostWakeUp DequeuedIsSignaled
CHECK_DEADLOCK FALSE
