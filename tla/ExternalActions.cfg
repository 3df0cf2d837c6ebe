CONSTANTS
    pa = pa
    pb = pb
    x1 = x1
    x2 = x2
    k1 = k1
    k2 = k2
    m1 = m1
    m2 = m2
    t1 = t1
    t2 = t2
    AnyState = AnyState
    Reservations <- Contending
    Reports <- Lifecycle
    Tx = {t1, t2}
    MaxTrace = 6
SPECIFICATION Spec
SYMMETRY TxSymmetry
INVARIANTS TypeOK IndexesNeverRefuse TraceIsExact AttemptsReconciled
CHECK_DEADLOCK FALSE
