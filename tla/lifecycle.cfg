SPECIFICATION Spec
CONSTANTS
    Plan <- MCPlan
    Installs = {"install"}
    Packages = {"npm"}
    Watching = {"webpack"}
    NoSrcdir = {}
    None = None
INVARIANTS
    TypeOK
    NothingOverlooked
    GreenIsHonest
