\* The calls of the compatibility layer, a registered wait, two threads of unrar and
\* four threads that share a slim lock.
\* A callback that unregisters its own wait stops for ever, so the system may stop.
SPECIFICATION Spec
CONSTANTS
    Programs <- MCPrograms
    Threads = {t1, t2}
    t1 = t1
    t2 = t2
    Thread = {l1, l2, l3, l4}
    NULL = NULL
CHECK_DEADLOCK FALSE
INVARIANTS
    CallsBalance
    EffectsAreSafe
    AnswersAreRight
    ZoneTimesRight
    ThreadsAreSafe
    SRWTypeOK
    HeldHasOwner
PROPERTY CallsReturn
