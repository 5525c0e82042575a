\* Every call, single requests nested in them, files that cannot be read.
SPECIFICATION Spec
CONSTANTS
    Calls <- AllCalls
    Nested = {"putFile", "putText", "remove", "get"}
    Faults = {"unreadable"}
    MaxFiles = 2
    MaxEntries = 1
    Null = Null
INVARIANT TypeOK
PROPERTIES
    SuccessIsReal
    TextIsOwn
