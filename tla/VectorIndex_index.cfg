\* One worker and one search over two members, with a clock that lags.
SPECIFICATION FairSpec
CONSTANTS
    Member = {1, 2}
    VectorSet = {1, 2}
    VectorSetOf <- SetOfMember
    HeadKey <- KeyOfMember
    Worker = {w1}
    Reader = {r1}
    None = None
    BuildLease = 1
    ReaderLease = 1
    MaxDelay = 1
    MaxToken = 3
    MaxChange = 2
    MaxFault = 1
INVARIANTS GenerationsKept AnswersComplete
PROPERTIES CurrentHeadKept ClaimRespected IndexSettles
CHECK_DEADLOCK FALSE
