\* Both classes, two callers, three runs.
SPECIFICATION Spec
CONSTANTS
    Wraps = {"LuaWrap", "ScriptWrap"}
    Callers = {c1, c2}
    MaxRuns = 3
INVARIANTS
    TypeOK
    StopNotLost
    StopOutlivesRun
PROPERTIES
    EndIsTold
    StopReturns
