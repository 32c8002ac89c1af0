SPECIFICATION FairSpec
CONSTANTS
    Thread = {t1, t2, t3}
    Address = {a1, a2}
    Handle = {h1, h2}
    Queue <- MCQueue
    QueueOf <- MCQueueOf
    Value <- MCValue
    Timeouts <- MCInfinite
    EventBuffer = 1
    NULL = NULL
INVARIANTS TypeOK SignalsThatThread RemovesLiveEntries
PROPERTY ImplementsFutex
CHECK_DEADLOCK FALSE
