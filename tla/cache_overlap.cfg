SPECIFICATION Spec
CONSTANTS
    Builds = {b1, b2}
    Inodes = {i1, i2, i3}
    NoFile = NoFile
    N = 2
    Formats = {"tar.gz", "zip", "exe"}
    Overlap = TRUE
    MaxFaults = 1
INVARIANTS
    QuiescentWhole
