\* Two clients of two versions, two processes that open the vault.
SPECIFICATION FairSpec
CONSTANTS
    c1 = c1
    c2 = c2
    Proc = {p1, p2}
    Client = {c1, c2}
    Version = {"v1", "v2"}
    VersionOf <- Versions
    None = None
    MaxDb = 3
INVARIANTS SoleOwner UsersOwnTheMarker NeverFenced SparesReadyDaemon
PROPERTIES SettledOnOneSide LaunchLockReturns
CHECK_DEADLOCK FALSE
