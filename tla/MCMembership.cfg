\* Messages: two sessions of one channel, a second channel the mesh refuses,
\* a message published here and one from the mesh under one identifier, and
\* redeliveries with other content. The dedup cache has room for every key,
\* so it forgets by time only. Calls: two sessions, two channels, and a
\* command channel two commands fill.
CONSTANTS
    MaxEntries = 8
    Ttl = 1
    Channels = {c1, c2, c3}
    MessageChannels = {c1, c3}
    CallChannels = {c1, c2}
    CallWanted = {{}, {c2}}
    Sessions = {s1, s2}
    Sources = {p}
    LocalPeer = me
    Ids = {1}
    Prints = {x, y}
    NotAllowed = {c3}
    Wanted = {{}, {c1}, {c2}, {c1, c3}}
    Ceilings = {1, 2}
    Bounds = {1}
    DefaultBound = 2
    MaxSubscriptions = 2
    MaxSessions = 2
    MaxTime = 2
    Capacity = 2
    NoChannel = NoChannel
SPECIFICATION MCSpec
SYMMETRY Symmetric
INVARIANTS
    OncePerSession
    EveryJoinIsAccountedFor
    AnsweredJoinsHold
    MeshFollowsRegistry
PROPERTIES
    AcceptedReachesSubscribers
CHECK_DEADLOCK FALSE
