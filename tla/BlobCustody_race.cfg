\* A placement between cleanupLoose's query and its removal.
SPECIFICATION Spec
CONSTANTS
    Blob = {x}
    NoBlob = NoBlob
    Encoding = {raw}
    Primary = Primary
    Secondary = Secondary
    Writer = {w1}
    Op = {o1, o2}
SYMMETRY CustodySymmetry
INVARIANTS LooseAuthorityKept
