\* Garbage collection beside a salvage, as the code lets it run.
SPECIFICATION Spec
CONSTANTS
    o1 = o1
    o2 = o2
    Op = {o1, o2}
    Kinds <- EvacuationAndAny
    Blob = {b1}
    Primary = P
    Secondary = {s1}
    Rot = {}
    Fencible = {s1}
    NoBlob = NoBlob
    MaxFault = 0
INVARIANTS LocationsHaveBytes
CHECK_DEADLOCK FALSE
