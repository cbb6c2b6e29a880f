\* Rows of two events, recorded at different times, compete for a LIMIT of one.
CONSTANTS
    Event = {e1, e2}
    Rule = {k1}
    Copy = {c1}
    Replayer = {p1}
    MaxAttempt = 2
    BatchSize = 1
    Backoff <- MCBackoff
    Horizon = 3
    MaxFaults = 1
    NoRow = NoRow
SPECIFICATION FairSpec
PROPERTIES RowsEnd EventSettles
