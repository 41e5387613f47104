SPECIFICATION FairSpec
CONSTANTS
    Runs = {r1}
    Procs = {"p1"}
    NodeVersions = {"v0", "v18"}
    PreNpm = {"v0"}
    Versions <- MCVersions
    Bundled <- MCBundled
    EsmFrom = {}
    Goals <- NpmMixedGoals
    None = None
    Torn = Torn
    Free = Free
    Changed = Changed
    Faults = {"crash", "disk", "torn", "refuse", "rename"}
    MaxFaults = 2
INVARIANTS
    ProvidedArrives
PROPERTIES
    SuccessHasVersion
    RetriesSucceed
