\* One instance; writes that store nothing, scripts that cannot be read,
\* removed or created, and crashes.
SPECIFICATION Spec
CONSTANTS
    p1 = p1
    p2 = p2
    p3 = p3
    v1 = v1
    v2 = v2
    se3 = se3
    other = other
    Instances = {se3}
    Paths = {p1, p2, p3}
    Versions = {v1, v2}
    Torn = Torn
    NoFile = NoFile
    NoArchive = NoArchive
    Faults = {"open", "write", "script", "crash"}
    MaxChunks = 4
SYMMETRY SymmetricData
INVARIANTS
    TypeOK
    ListCoversArchive
    ChunksUnique
    ChunkIsLatest
    NoForeignContent
PROPERTY RestoreGivesLatest
