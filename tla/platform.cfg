CONSTANTS
    Machines <- MCMachines
    Requests <- MCRequests
    Published <- MCPublished
    NoFile = NoFile
    NoRequest = NoRequest
    MaxBuilds = 4
SPECIFICATION Spec
INVARIANTS
    BinaryRuns
    Installs
    CachedOnce
CHECK_DEADLOCK FALSE
