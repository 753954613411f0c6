SPECIFICATION MCSpec
CONSTANTS
    far = far
    near = near
    Scenes = {"ways", "ceilings"}
    Peers = {far, near}
    Reachable <- MCReachable
    Sends = {1, 2, 3, 4}
    MaxDials = 2
    MaxPerPeer = 2
    MaxConnected = 1
    MaxConnections = 3
    MaxOutbound = 3
    MaxOutboundPerPeer = 2
    Horizon = 2
    HeadStart = 1
    Policies <- MCPolicies
    NoPeer = NoPeer
    MaxTime = 3
INVARIANT
    OutboundBounded
PROPERTIES
    NotGivenUpEarly
    HeldSendsEnd
CHECK_DEADLOCK FALSE
