\* One worker, as the daemon starts it, and two waiters.
SPECIFICATION Spec
CONSTANTS
    Waiter = {1, 2}
    Worker = {k1}
    None = None
    MaxEpoch = 3
    MaxFence <- FenceBound
    MaxGrant = 1
PROPERTY NoResubmission
CHECK_DEADLOCK FALSE
