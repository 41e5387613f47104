SPECIFICATION FairSpec
CONSTANTS
    Builds = {b1, b2}
    Inodes = {i1, i2, i3}
    NoFile = NoFile
    N = 2
    Formats = {"tar.gz", "zip"}
    Overlap = FALSE
    MaxFaults = 3
INVARIANTS
    TypeOK
    EvictsOnlyTorn
    CachedIsPrefix
PROPERTIES
    WholeStaysWhole
    StoreSpec
    TarballSelfRepairs
