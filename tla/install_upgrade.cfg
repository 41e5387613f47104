SPECIFICATION FairSpec
CONSTANTS
    Runs = {r1}
    Procs = {"p1"}
    NodeVersions = {"v18", "v20"}
    PreNpm = {}
    Versions <- MCVersions
    Bundled <- MCBundled
    EsmFrom = {}
    Goals <- UpgradeGoals
    None = None
    Torn = Torn
    Free = Free
    Changed = Changed
    Faults = {"refuse", "torn"}
    MaxFaults = 2
PROPERTIES
    SuccessIsExact
    SuccessHasLauncher
    PromiseSpec
    RetriesSucceed
