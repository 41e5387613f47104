SPECIFICATION WorkSpec
CONSTANTS
    Runs = {r1, r2}
    Procs = {"p1", "p2"}
    NodeVersions = {"v18"}
    PreNpm = {}
    Versions <- MCVersions
    Bundled <- MCBundled
    EsmFrom = {}
    Goals <- SharedGoals
    None = None
    Torn = Torn
    Free = Free
    Changed = Changed
    Faults = {"clear"}
    MaxFaults = 1
INVARIANTS
    NodeUnpackIsExclusive
    ToolInstallIsExclusive
PROPERTIES
    AloneRetriesSucceed
