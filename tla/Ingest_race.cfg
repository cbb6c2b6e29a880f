\* Two concurrent reports of one message, nothing fails.
CONSTANTS
    d1 = d1  m1 = m1  m2 = m2
    Device = {d1}
    Message = {m1}
    DeviceOf <- MCDeviceOfOne
    Rule = {k1}
    Request = {r1, r2}
    None = None
    Window = 0
    MaxClock = 1
    Faults = FALSE
SPECIFICATION Spec
INVARIANT RepeatAnsweredDuplicate
