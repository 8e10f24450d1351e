SPECIFICATION Spec
CONSTANTS
    Callers = {p1, p2}
    Keys = {k1, k2}
    Vals = {v1}
    NoVal = NoVal
SYMMETRY Symmetry
INVARIANT AcknowledgedSurvives
