\* Callers of every kind meet at the gate; cancellation and new calls stay optional.
SPECIFICATION FairSpec
CONSTANTS
    Routes = {r1, r2}
    Jobs = {j1}
    Maints = {m1, m2}
    Captures = {c1}
    Physicals = {x1}
    NoWriter = NoWriter
INVARIANTS
    MaintenanceExclusive
    CaptureConsistent
    AdmissionTruthful
PROPERTY EveryCallReturns
