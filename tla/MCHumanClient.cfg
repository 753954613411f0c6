SPECIFICATION MCSpec
CONSTANTS
    m1 = m1
    m2 = m2
    k1 = k1
    k2 = k2
    k3 = k3
    bad = bad
    LeaseLost = LeaseLost
    Scenes = {"sends", "refusals", "reads", "ends"}
    Outgoing = {m1, m2}
    Incoming = {k1, k2, k3, bad}
    Undecodable = {bad}
    PairCap = 2
    Configs <- MCConfigs
    SendErrors <- MCSendErrors
    Ambiguous <- MCAmbiguous
    OpenErrors <- MCOpenErrors
    MaxInbox = 3
    HeldCap = 1
    DrainMax = 1
INVARIANTS
    NothingPendingLost
    HonestAboutReach
PROPERTIES
    SessionEndCommits
    ReadNotShownAgain
    PendingEventuallySent
