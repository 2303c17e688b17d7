SPECIFICATION Spec
CONSTANTS
    r1 = r1
    r2 = r2
    r3 = r3
    Requests = {r1, r2}
SYMMETRY Interchangeable
INVARIANT ScopedToCaller
\* Finitely many requests: all of them over, nothing is left to do.
CHECK_DEADLOCK FALSE
