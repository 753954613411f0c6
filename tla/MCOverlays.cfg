SPECIFICATION Spec
CONSTANTS
    Peers = {"p", "q", "r", "me"}
    TrustConfigs <- MCTrustConfigs
    TrustAsks <- MCTrustAsks
    Endpoints = {"e", "f", "g", "h"}
    EndpointConfigs <- MCEndpointConfigs
    EndpointAsks <- MCEndpointAsks
    Local = "me"
    MaxAllowed = 3
    NoDefault = "null"
    AsConfigured = "absent"
    MaxAdvertised = 2
    Absent = Absent
    Torn = Torn
    MaxUnwritten = 3
    Kinds = {"trust", "endpoints"}
INVARIANTS KeptIsOnFile OkIsKept NextStartLoads
CHECK_DEADLOCK FALSE
