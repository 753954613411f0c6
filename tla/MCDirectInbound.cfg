SPECIFICATION DirectSpec
CONSTANTS
    e1 = e1
    e2 = e2
    p = p
    i = i
    x = x
    y = y
    Endpoints = {e1, e2}
    Sessions = {s1, s2}
    Kinds = {human}
    Peers = {p}
    Messages <- MCMessages
    Ids = {i}
    Prints = {x, y}
    Configurations <- MCConfigurations
    TrustSets <- MCTrustSets
    DefaultBound = 1
    Batches = {1}
    MaxEpochs = 2
    MaxOwed = 1
    NoEndpoint = NoEndpoint
    MaxEntries = 1
    Ttl = 2
    MaxTime = 3
INVARIANTS
    LeaseExclusive
    NoInheritedMail
PROPERTIES
    NoLeaseEndsUnannounced
    AtMostOnce
CHECK_DEADLOCK FALSE
