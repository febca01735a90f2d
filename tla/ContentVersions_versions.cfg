\* Two clients and a watched inbox on one file; changing the file stays optional.
SPECIFICATION FairSpec
CONSTANTS
    Blob = {x, y}
    NoBlob = NoBlob
    Client = {c1, c2}
    MaxRevision = 4
    MaxEdits = 2
INVARIANTS HistorySound NoLostUpdate
PROPERTIES PruneKeepsHead EditSurvives WatchCatchesUp
