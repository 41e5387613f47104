SPECIFICATION FairSpec
CONSTANTS
    Builds = {b1}
    Inodes = {i1, i2}
    NoFile = NoFile
    N = 2
    Formats = {"zip", "exe"}
    Overlap = FALSE
    MaxFaults = 1
PROPERTIES
    SelfRepairs
