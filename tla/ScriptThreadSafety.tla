------------------------ MODULE ScriptThreadSafety ------------------------
(***************************************************************************)
(* What one who stops a script, and one who waits for its end, can rely on.*)
(***************************************************************************)
EXTENDS ScriptThread

\* The caller has set abort for the run that is the last one begun.
Aborted(c) == pc[c] \in {"aborted"} \cup Connected /\ seen[c] = runs

\* A stop is not lost: once a caller that found a run unfinished has set abort, the script
\* sees it as long as it runs, however the start of the run and the stop interleave.
StopNotLost ==
    \A c \in Callers : Aborted(c) /\ slot \in {"begun", "running"} => abort

\* A stop of LuaWrap is not over before its run is: the connections of the script are
\* cleared only when the script that used them has ended.
StopOutlivesRun ==
    \A c \in Callers : Lua /\ pc[c] = "waited" /\ seen[c] = runs => finished

\* Why: no caller has seen more than was begun ...
TypeInv ==
    /\ TypeOK
    /\ Lua \/ slot # "idle" => control
    /\ slot = "starting" => runs < MaxRuns
    /\ \A c \in Callers : seen[c] <= runs

\* ... and whoever was told to quit, or has waited, for the last run knows it to be over.
WaitInv ==
    Lua =>
        /\ slot = "finished" => finished
        /\ \A c \in Callers :
              seen[c] = runs /\ (quit[c] \/ pc[c] = "waited") => finished

\* A report of the end of a run: of opRun, or of an error.  That opStart went well, or
\* opStop, says nothing of the run.
OfEnd(report) == report[1] = "run" \/ report[2] = "error"

\* It says how the run ended, and calls it opRun, or an error of ScriptWrap opStart.  Only
\* if ScriptWrap's StopScript has come in between may the error be called one of opStop.
TellsEnd(report) ==
    /\ report[2] = code
    /\ \/ report[1] = "run"
       \/ ~Lua /\ report[1] = "start"
       \/ ~Lua /\ stopped /\ report[1] = "stop"

\* One of the reports, and no other, is of the end, and it is right.
TellEnd(reports) ==
    \E report \in reports :
        /\ TellsEnd(report)
        /\ \A r \in reports : OfEnd(r) <=> r = report

\* Whoever listens is told the end of a run once and as it was, whatever the script
\* returned and whoever has tried to stop it.
EndIsTold == [][slot # "idle" /\ slot' = "idle" => TellEnd(ending')]_vars

\* Why: the end is told with the step that leaves the run finished, or before it.
Told == TellEnd(ending)

Untold == code = "noError" /\ \A r \in ending : ~OfEnd(r)

EndInv ==
    /\ slot \in {"starting", "begun", "running", "ended"} => ending = {}
    /\ slot = "reported" => Told
    /\ slot = "checked" => ~Lua /\ (IF finished THEN Told ELSE Untold)
    /\ slot = "finished" => IF Lua THEN Told ELSE Untold
    /\ ~Lua /\ slot # "idle" => currOp = "start" \/ (stopped /\ currOp = "stop")
    /\ ~Lua /\ slot \in {"begun", "running", "ended"} => ~finished

\* A stop returns: LuaWrap's, unless another run has begun meanwhile, which is not
\* aborted, or there was no run at all and finished had not been set; ScriptWrap's always.
StopReturns ==
    \A c \in Callers :
        (pc[c] # "idle" /\ (Lua => seen[c] = runs /\ runs # 0))
            ~> (pc[c] = "idle" \/ (Lua /\ seen[c] # runs))
=============================================================================
