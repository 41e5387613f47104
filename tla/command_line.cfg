SPECIFICATION Spec
CONSTANTS
    Words <- MCWords
    Hosts = {"h"}
    HostLists <- MCHostLists
    Writings <- MCWritings
    OptionLike <- MCOptionLike
    PropertyLike <- MCPropertyLike
    Pairs = {"a=b"}
    Behind <- MCBehind
    Quoting = {"corepack"}
    None = None
    Typed = Typed
    MaxProxies = 2
    MaxQuoted = 4
    MaxSize = 4
    MaxLine = 2
INVARIANTS
    ReadOrRefused
    ParsesAsDocumented
    AddedOnce
    NpxFlagsAreNpms
    ProxyFits
CHECK_DEADLOCK FALSE
