\* Two reports of one message, and a worker that takes one row at a time.
CONSTANTS
    d1 = d1  m1 = m1  
    Device = {d1}
    Message = {m1}
    DeviceOf <- MCDeviceOf
    Rule = {k1}
    Request = {r1, r2}
    None = None
    Window = 0
    MaxClock = 2
    Faults = TRUE
    Copy = {c1}
    FirstCopy = c1
    Replayer = {p1}
    MaxAttempt = 2
    BatchSize = 1
    Backoff <- MCBackoff
    MaxFaults = 1
    NoRow = NoRow
SPECIFICATION PipelineFairSpec
INVARIANTS QueueMatchesLedger PromisesKept
PROPERTIES ImplementsDispatch ReportsSettle
