\* Every call, every call nested in them, every fault.
SPECIFICATION Spec
CONSTANTS
    Calls <- AllCalls
    Nested <- AllCalls
    Faults <- FaultKinds
    MaxFiles = 2
    MaxEntries = 2
    Null = Null
INVARIANTS
    TimerCovers
    TimerHasRequest
PROPERTY CallReturns
