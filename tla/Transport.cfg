\* Two clients of one address, both protocols, bodies of up to three parts, the
\* longest of which does not fit into the raw data.
SPECIFICATION Spec
CONSTANTS
    Clients = {c1, c2}
    Protocols = {"mics", "scpi"}
    MaxBody = 3
    MaxStale = 2
    RawSize = 3
    Null = Null
INVARIANTS
    TypeOK
    Ownership
PROPERTIES
    AnswerIsOwn
    WholeAnswer
    StaysInSync
    CallReturns
