\* Two requests at once, nothing fails.
CONSTANTS
    Request = {r1, r2}
    Operator = {alice}
    NoKey = NoKey
    None = None
    Auth = FALSE
    Faults = FALSE
SPECIFICATION Spec
INVARIANT OwnDetails
\* The process ends.
CHECK_DEADLOCK FALSE
