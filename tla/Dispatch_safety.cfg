\* Two rules, two rows each, one replay at a time, one fault.
CONSTANTS
    Event = {e1}
    Rule = {k1, k2}
    Copy = {c1, c2}
    Replayer = {p1}
    MaxAttempt = 2
    BatchSize = 2
    Backoff <- MCBackoff
    Horizon = 3
    MaxFaults = 1
    NoRow = NoRow
SPECIFICATION Spec
INVARIANTS TypeOK PassReadsStayCurrent SinkCallsAccounted AtLeastOnce EventStatusJustified OneOpenRow
PROPERTIES CallsOnlyDue ImplementsLifecycle
SYMMETRY MCSymmetry
