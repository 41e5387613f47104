SPECIFICATION FairSpec
CONSTANTS
    Runs = {r1, r2}
    Versions <- MCVersions
    DistRoot = {"1"}
    None = None
    Free = Free
    Faults = {"probe", "refuse", "torn", "disk", "clear", "rename", "crash"}
    MaxFaults = 2
INVARIANTS
    OneRelease
PROPERTIES
    SuccessAnswers
    GivenUpForAnother
    RetriesSucceed
