\* Weak fairness of every request; the administrator never stops.
CONSTANTS
    d1 = d1  m1 = m1  m2 = m2
    Device = {d1}
    Message = {m1, m2}
    DeviceOf <- MCDeviceOf
    Rule = {k1}
    Request = {r1, r2, r3}
    None = None
    Window = 0
    MaxClock = 1
    Faults = TRUE
SPECIFICATION FairSpec
PROPERTY Answered
