\* The documentation page, the edge and the sandbox behind it.
SPECIFICATION FairSpec
CONSTANTS
    p1 = p1
    p2 = p2
    c1 = c1
    Panels = {p1, p2}
    Others = {c1}
    Clients = {p1, p2, c1}
    MaxCharges = 2
    MaxVersion = 2
    MaxPutFailures = 1
    Files <- TwoFiles
    Instances <- AllInstances
CHECK_DEADLOCK FALSE
INVARIANTS
    TypeOK
    NothingDangles
    KeysStayInTheirEnvironment
    ReachedOnlyCharged
    SandboxCallsGetThrough
    ContentAsDocumented
    ShownLinkAlive
    UrlsReleased
    StorageKeysUnique
PROPERTIES
    ServerConverges
    PanelComesBack
