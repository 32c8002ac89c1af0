SPECIFICATION Spec
CONSTANTS
    Thread = {t1, t2}
    KeyBlock = {k1, k2}
    ValueBlock = {v1, v2, v3}
    Index = {i1, i2}
    Data = {d1, d2, d3}
    NULL = NULL
SYMMETRY MCSymmetry
INVARIANTS TypeOK NoUseAfterFree CallbackOwed ListedIsHeld FoundKeysAreLive
