\* Clearing the instrument, nothing else.
SPECIFICATION Spec
CONSTANTS
    Calls = {"clear"}
    Nested = {}
    Faults = {}
    MaxFiles = 1
    MaxEntries = 1
    Null = Null
PROPERTY FalseMeansDone
