\* Three requests, two messages of one device, statements may fail.
CONSTANTS
    d1 = d1  m1 = m1  m2 = m2
    Device = {d1}
    Message = {m1, m2}
    DeviceOf <- MCDeviceOf
    Rule = {k1, k2}
    Request = {r1, r2, r3}
    None = None
    Window = 0
    MaxClock = 2
    Faults = TRUE
SPECIFICATION Spec
INVARIANTS TypeOK LedgerConsistent RepliesTruthful LastSeenIsReceipt TransactionsExclude NothingLost
PROPERTY ImplementsIntake
SYMMETRY MCSymmetry
