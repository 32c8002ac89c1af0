SPECIFICATION Spec
CONSTANTS
    Thread = {t1, t2, t3}
    Context = {x1, x2}
    Misaligned = Misaligned
    Outcome <- MCCleanOutcome
    NULL = NULL
SYMMETRY MCSymmetry
INVARIANTS TypeOK OneInitialiser AgreeOnContext ProgressHasInitialiser
CHECK_DEADLOCK FALSE
