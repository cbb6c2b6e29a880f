\* Two replays of an event at once.
CONSTANTS
    Event = {e1}
    Rule = {k1}
    Copy = {c1, c2, c3}
    Replayer = {p1, p2}
    MaxAttempt = 2
    BatchSize = 1
    Backoff <- MCBackoff
    Horizon = 2
    MaxFaults = 0
    NoRow = NoRow
SPECIFICATION Spec
INVARIANT OneOpenRow
