\* Two owners of claims, two waiters, one of which can be revoked once.
SPECIFICATION Spec
CONSTANTS
    Waiter = {1, 2}
    Worker = {k1, k2}
    None = None
    MaxEpoch = 3
    MaxFence <- FenceBound
    MaxGrant = 1
SYMMETRY WorkerSymmetry
INVARIANTS EgressUnderConsent StatusSound FencesOrdered NoStrandedWaiter
PROPERTY KeepsPromise
CHECK_DEADLOCK FALSE
