\* An evacuation beside any other operation and garbage collection.  The
\* secondary may rot, or be another vault's.
SPECIFICATION UndisturbedSpec
CONSTANTS
    o1 = o1
    o2 = o2
    Op = {o1, o2}
    Kinds <- EvacuationAndAny
    Blob = {b1}
    Primary = P
    Secondary = {s1}
    Rot = {s1}
    Fencible = {s1}
    NoBlob = NoBlob
    MaxFault = 1
INVARIANTS Custody DetachedEmpty CancelHonoured
PROPERTIES EvacuatedDetached
CHECK_DEADLOCK FALSE
