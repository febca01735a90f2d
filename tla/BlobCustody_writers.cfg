\* Two writers of the same content, GC, packing, repacking and backup.
SPECIFICATION Spec
CONSTANTS
    Blob = {x, y}
    NoBlob = NoBlob
    Encoding = {raw, zstd}
    Primary = Primary
    Secondary = Secondary
    Writer = {w1, w2}
    Op = {}
SYMMETRY CustodySymmetry
INVARIANTS Custody PackIndexAgrees GcReclaims
