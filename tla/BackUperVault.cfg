\* One instance that may die at any time; no file operation fails.
SPECIFICATION Spec
CONSTANTS
    p1 = p1
    p2 = p2
    p3 = p3
    v1 = v1
    v2 = v2
    se3 = se3
    other = other
    Instances = {se3}
    Paths = {p1, p2}
    Versions = {v1, v2}
    Torn = Torn
    NoFile = NoFile
    NoArchive = NoArchive
    Faults = {"crash"}
    MaxChunks = 3
INVARIANT IconShowsBackup
PROPERTIES
    VaultSpec
    BackUpTellsTruth
    ListedIsRestored
