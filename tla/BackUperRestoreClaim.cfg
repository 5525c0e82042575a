\* Two instances on one archive, one version of each script.
SPECIFICATION Spec
CONSTANTS
    p1 = p1
    p2 = p2
    p3 = p3
    v1 = v1
    v2 = v2
    se3 = se3
    other = other
    Instances = {se3, other}
    Paths = {p1, p2}
    Versions = {v1}
    Torn = Torn
    NoFile = NoFile
    NoArchive = NoArchive
    Faults = {}
    MaxChunks = 3
PROPERTY ListedIsRestored
