\* Two clients that act on the revisions they remember, under every operation.
SPECIFICATION Spec
CONSTANTS
    MaxNode = 3
    MaxClock = 3
    MaxBatch = 2
    BaseName = {a, b}
    Client = {c1, c2}
    Unconditional = Unconditional
SYMMETRY ClientSymmetry
INVARIANTS
    TreeSound
    TrashSound
    LiveSiblingNamesUnique
    NoLostUpdate
PROPERTIES
    DestroysOldestUnits
\* The bounded ids can all be used up: then only an empty root is left.
CHECK_DEADLOCK FALSE
