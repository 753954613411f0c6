SPECIFICATION RetriesSpec
CONSTANTS
    near = near
    far = far
    Peers = {near, far}
    Reachable <- MCReachable
    MaxDials = 2
    MaxEntries = 1
    Base = 1
    Ceiling = 2
    MaxShift = 1
    TrustSets <- MCTrustSets
    MaxTime = 2
INVARIANTS
    DirectClaimsUnderWay
PROPERTIES
    ClaimsAreGivenBackByOwners
    StartedMeansClaimed
CHECK_DEADLOCK FALSE
