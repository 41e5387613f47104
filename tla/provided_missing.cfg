SPECIFICATION Spec
CONSTANTS
    Runs = {r1}
    Procs = {"p1"}
    NodeVersions = {"v18"}
    PreNpm = {}
    Versions <- MCVersions
    Bundled <- MCBundled
    EsmFrom = {}
    Goals <- PnpmThenProvidedGoals
    None = None
    Torn = Torn
    Free = Free
    Changed = Changed
    Faults = {}
    MaxFaults = 0
PROPERTIES
    ProvidedIsThere
