SPECIFICATION MCSpec
CONSTANTS
    Gates = {g1, g2}
    Peers = {p}
    Addresses = {a, b}
    NoKey = NoKey
    TrustSets <- MCTrustSets
    MaxPending = 2
    MaxConnections = 2
    MaxAddresses = 1
    Attempts = 2
    Quarantine = 1
    MaxTime = 1
SYMMETRY Symmetry
INVARIANTS
    CountersExact
    MismatchAlwaysRecorded
PROPERTIES
    GrantsAreCurrent
CHECK_DEADLOCK FALSE
