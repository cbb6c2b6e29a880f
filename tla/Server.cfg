\* Two requests, the keys of one operator, failures anywhere.
CONSTANTS
    Request = {r1, r2}
    Operator = {alice}
    NoKey = NoKey
    None = None
    Auth = TRUE
    Faults = TRUE
SPECIFICATION FairSpec
INVARIANTS TypeOK ChangesAttributed ErrorsToldAsTheyAre ScrapeCountsOnce StopLosesOneOutcome
PROPERTY Stops
\* The process ends.
CHECK_DEADLOCK FALSE
