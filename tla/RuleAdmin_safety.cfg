\* Four operations on one rule, statements may fail.
CONSTANTS
    Rule = {k1}
    Operator = {o1, o2, o3, o4}
    Field = {name}
    Value = {v1, v2}
    None = None
    Faults = TRUE
SPECIFICATION Spec
INVARIANTS TypeOK LogExplainsTable LogCountsAnswers
PROPERTY DeletedStays
SYMMETRY MCSymmetry
CHECK_DEADLOCK FALSE
