SPECIFICATION Spec
CONSTANTS
    Callers = {p1, p2, p3}
    Keys = {k1, k2}
    Vals = {v1}
    NoVal = NoVal
SYMMETRY Symmetry
INVARIANTS
    ReadersSeeAPastStore
    LoneMutationSettlesFile
