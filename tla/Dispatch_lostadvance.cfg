\* One fault between the mark of a row and that of its event.
CONSTANTS
    Event = {e1}
    Rule = {k1}
    Copy = {c1}
    Replayer = {p1}
    MaxAttempt = 2
    BatchSize = 1
    Backoff <- MCBackoff
    Horizon = 2
    MaxFaults = 1
    NoRow = NoRow
SPECIFICATION FairSpec
PROPERTY EventFollows
