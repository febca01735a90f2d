\* A writer meets two placements of the same content, GC, packing and backup.
SPECIFICATION UndisturbedSpec
CONSTANTS
    Blob = {x}
    NoBlob = NoBlob
    Encoding = {raw}
    Primary = Primary
    Secondary = Secondary
    Writer = {w1}
    Op = {o1, o2}
SYMMETRY CustodySymmetry
INVARIANTS Custody CaptureReadable CleanupOwned
