---------------------------- MODULE ScriptThread ----------------------------
(***************************************************************************)
(* The object that runs a script in a thread of its own and is told to     *)
(* stop it by other threads: LuaWrap (SE3/include/luathread.cpp) and its   *)
(* successor ScriptWrap (SE3/include/script_thread.cpp).                   *)
(*                                                                         *)
(* The slots LoadScript and StartScript run in the script thread, one      *)
(* after another; which comes next is whatever was queued.  StopScript and *)
(* StopExitScript are public and run in the thread of their caller.  A     *)
(* caller waits for the script in an event loop of its own; a call that a  *)
(* handler makes meanwhile counts as another caller's.                     *)
(*                                                                         *)
(* The engine is external: a script may end at any time, well or with an   *)
(* error, and it is expected to end when its variable abort is set.        *)
(***************************************************************************)
EXTENDS Integers

CONSTANTS
    Wraps,      \* the classes looked at: "LuaWrap", "ScriptWrap"
    Callers,    \* those who stop scripts
    MaxRuns     \* bound: runs

ASSUME ThreadAssumption ==
    /\ Wraps \subseteq {"LuaWrap", "ScriptWrap"}
    /\ MaxRuns \in Nat

VARIABLES
    wrap,       \* the class of the object; it never changes
    control,    \* m_pScriptControl is there; it never changes either
    finished,
    abort,      \* the script's variable: abort, or mibase.abort
    currOp,
    runs,       \* runs begun
    slot,       \* where the script thread is in StartScript, or "idle"
    code,       \* what the engine returned
    ending,     \* what the script thread has reported of the run
    stopped,    \* StopScript has been called since StartScript was
    pc,         \* where a caller is in its call, or "idle"
    seen,       \* the run that a caller found unfinished
    quit        \* the loop of a caller has been told to quit

thread == <<slot, code, ending>>
calls == <<pc, seen, quit>>
vars == <<wrap, control, finished, abort, currOp, runs, thread, stopped, calls>>

Operations == {"none", "init", "load", "start", "stop", "run"}
States == {"noError", "error"}

\* A caller is connected to Finished as long as its loop lives.
Connected == {"connected", "entering", "exec"}

TypeOK ==
    /\ wrap \in Wraps
    /\ control \in BOOLEAN
    /\ finished \in BOOLEAN
    /\ abort \in BOOLEAN
    /\ currOp \in Operations
    /\ runs \in 0..MaxRuns
    /\ slot \in {"idle", "starting", "begun", "running", "ended", "reported", "checked",
                 "finished"}
    /\ code \in States
    /\ ending \in SUBSET (Operations \X States)
    /\ stopped \in BOOLEAN
    /\ pc \in [Callers -> {"idle", "stopping", "aborted", "waited"} \cup Connected]
    /\ seen \in [Callers -> 0..MaxRuns]
    /\ quit \in [Callers -> BOOLEAN]
    /\ \A c \in Callers : quit[c] => pc[c] \in Connected

Lua == wrap = "LuaWrap"
-----------------------------------------------------------------------------
\* The constructor of LuaWrap leaves finished as it comes.  ScriptWrap's init has
\* created and opened the engine, or could not create it.
Init ==
    /\ wrap \in Wraps
    /\ control \in BOOLEAN
    /\ finished \in BOOLEAN
    /\ Lua => control
    /\ ~Lua => finished
    /\ abort = FALSE
    /\ currOp = IF Lua THEN "none" ELSE "init"
    /\ runs = 0
    /\ slot = "idle" /\ code = "noError" /\ ending = {}
    /\ stopped = FALSE
    /\ pc = [c \in Callers |-> "idle"]
    /\ seen = [c \in Callers |-> 0]
    /\ quit = [c \in Callers |-> FALSE]
-----------------------------------------------------------------------------
(* The script thread.                                                      *)

\* LoadScript, with ScriptWrap's CheckResult.
LoadScript ==
    /\ slot = "idle"
    /\ \/ Lua /\ UNCHANGED <<currOp, finished>>
       \/ ~Lua /\ control /\ currOp' = "load" /\ finished' \in {finished, TRUE}
       \/ ~Lua /\ ~control /\ currOp' = "load" /\ finished' = TRUE
    /\ UNCHANGED <<wrap, control, abort, runs, thread, stopped, calls>>

\* StartScript begins: LuaWrap clears abort, ScriptWrap does not.
StartScript ==
    /\ slot = "idle" /\ runs < MaxRuns
    /\ \/ /\ Lua
          /\ abort' = FALSE
          /\ slot' = "starting"
          /\ UNCHANGED <<finished, currOp>>
       \/ /\ ~Lua /\ control
          /\ currOp' = "start"
          /\ slot' = "starting"
          /\ UNCHANGED <<finished, abort>>
       \/ /\ ~Lua /\ ~control
          /\ currOp' = "start"
          /\ finished' = TRUE
          /\ UNCHANGED <<slot, abort>>
    /\ ending' = {}
    /\ stopped' = FALSE
    /\ UNCHANGED <<wrap, control, runs, code, calls>>

SetUnfinished ==
    /\ slot = "starting"
    /\ finished' = FALSE
    /\ runs' = runs + 1
    /\ slot' = "begun"
    /\ UNCHANGED <<wrap, control, abort, currOp, code, ending, stopped, calls>>

\* Mutant: abort is cleared right before the script is called.
Run_ClearsAbort ==
    /\ slot = "begun"
    /\ slot' = "running"
    /\ abort' = FALSE
    /\ UNCHANGED <<wrap, control, finished, currOp, runs, code, ending, stopped, calls>>

\* The function Run of the script is called.
Run ==
    /\ slot = "begun"
    /\ slot' = "running"
    /\ UNCHANGED <<wrap, control, finished, abort, currOp, runs, code, ending, stopped, calls>>

\* It returns.
RunEnds ==
    /\ slot = "running"
    /\ slot' = "ended"
    /\ code' \in States
    /\ UNCHANGED <<wrap, control, finished, abort, currOp, runs, ending, stopped, calls>>

\* LuaWrap reports opRun; CheckResult reports currOp, whatever it is by now, also of a
\* run that went well.
Report ==
    /\ slot = "ended"
    /\ \/ /\ Lua
          /\ ending' = ending \cup {<<"run", code>>}
          /\ slot' = "reported"
       \/ /\ ~Lua
          /\ ending' = ending \cup {<<currOp, code>>}
          /\ slot' = IF code = "error" THEN "reported" ELSE "checked"
    /\ UNCHANGED <<wrap, control, finished, abort, currOp, runs, code, stopped, calls>>

\* Mutant: CheckResult leaves finished alone.
SetFinished_LuaOnly ==
    /\ slot = "reported"
    /\ finished' = (finished \/ Lua)
    /\ slot' = IF Lua THEN "finished" ELSE "checked"
    /\ UNCHANGED <<wrap, control, abort, currOp, runs, code, ending, stopped, calls>>

\* After the report, LuaWrap's and that of an error.
SetFinished ==
    /\ slot = "reported"
    /\ finished' = TRUE
    /\ slot' = IF Lua THEN "finished" ELSE "checked"
    /\ UNCHANGED <<wrap, control, abort, currOp, runs, code, ending, stopped, calls>>

\* ScriptWrap is not done yet if CheckResult did not find an error.
FinishUnlessFinished ==
    /\ slot = "checked"
    /\ finished' = TRUE
    /\ slot' = IF finished THEN "idle" ELSE "finished"
    /\ UNCHANGED <<wrap, control, abort, currOp, runs, code, ending, stopped, calls>>

\* Mutant: quit is called from the script thread, not queued: a loop that does not run
\* yet forgets it.
Announce_Direct ==
    /\ slot = "finished"
    /\ slot' = "idle"
    /\ \/ /\ Lua
          /\ quit' = [c \in Callers |-> quit[c] \/ pc[c] = "exec"]
          /\ UNCHANGED ending
       \/ /\ ~Lua
          /\ ending' = ending \cup {<<"run", "noError">>}
          /\ UNCHANGED quit
    /\ UNCHANGED <<wrap, control, finished, abort, currOp, runs, code, stopped, pc, seen>>

\* Mutant: loops stay connected when they are gone.
Announce_ToAll ==
    /\ slot = "finished"
    /\ slot' = "idle"
    /\ \/ /\ Lua
          /\ quit' = [c \in Callers |-> quit[c] \/ seen[c] # 0]
          /\ UNCHANGED ending
       \/ /\ ~Lua
          /\ ending' = ending \cup {<<"run", "noError">>}
          /\ UNCHANGED quit
    /\ UNCHANGED <<wrap, control, finished, abort, currOp, runs, code, stopped, pc, seen>>

\* LuaWrap emits Finished, ScriptWrap reports opRun.
Announce ==
    /\ slot = "finished"
    /\ slot' = "idle"
    /\ \/ /\ Lua
          /\ quit' = [c \in Callers |-> quit[c] \/ pc[c] \in Connected]
          /\ UNCHANGED ending
       \/ /\ ~Lua
          /\ ending' = ending \cup {<<"run", "noError">>}
          /\ UNCHANGED quit
    /\ UNCHANGED <<wrap, control, finished, abort, currOp, runs, code, stopped, pc, seen>>
-----------------------------------------------------------------------------
(* The callers.                                                            *)

\* ScriptWrap::StopScript interrupts the engine and does not wait; without an engine
\* CheckResult reports that.
InterruptScript(c) ==
    /\ ~Lua /\ pc[c] = "idle"
    /\ currOp' = "stop"
    /\ stopped' = TRUE
    /\ finished' = (finished \/ ~control)
    /\ UNCHANGED <<wrap, control, abort, runs, thread, calls>>

\* LuaWrap::StopScript or ScriptWrap::StopExitScript finds the script unfinished.
StopScript(c) ==
    /\ control /\ ~finished
    /\ pc[c] = "idle"
    /\ pc' = [pc EXCEPT ![c] = "stopping"]
    /\ seen' = [seen EXCEPT ![c] = runs]
    /\ UNCHANGED <<wrap, control, finished, abort, currOp, runs, thread, stopped, quit>>

Abort(c) ==
    /\ pc[c] = "stopping"
    /\ abort' = TRUE
    /\ pc' = [pc EXCEPT ![c] = "aborted"]
    /\ UNCHANGED <<wrap, control, finished, currOp, runs, thread, stopped, seen, quit>>

\* WaitForStop connects its loop first ...
Connect(c) ==
    /\ pc[c] = "aborted"
    /\ pc' = [pc EXCEPT ![c] = "connected"]
    /\ UNCHANGED <<wrap, control, finished, abort, currOp, runs, thread, stopped, seen, quit>>

\* ... then looks whether there is something to wait for ...
TestFinished(c) ==
    /\ pc[c] = "connected"
    /\ \/ /\ finished
          /\ pc' = [pc EXCEPT ![c] = "waited"]
          /\ quit' = [quit EXCEPT ![c] = FALSE]
       \/ /\ ~finished
          /\ pc' = [pc EXCEPT ![c] = "entering"]
          /\ UNCHANGED quit
    /\ UNCHANGED <<wrap, control, finished, abort, currOp, runs, thread, stopped, seen>>

EnterLoop(c) ==
    /\ pc[c] = "entering"
    /\ pc' = [pc EXCEPT ![c] = "exec"]
    /\ UNCHANGED <<wrap, control, finished, abort, currOp, runs, thread, stopped, seen, quit>>

\* Mutant: LuaWrap, too, waits no longer than its timer runs.
LeaveLoop_TimesOut(c) ==
    /\ pc[c] = "exec"
    /\ pc' = [pc EXCEPT ![c] = "waited"]
    /\ quit' = [quit EXCEPT ![c] = FALSE]
    /\ UNCHANGED <<wrap, control, finished, abort, currOp, runs, thread, stopped, seen>>

\* ... and waits: LuaWrap for Finished, ScriptWrap, which never emits it, for a timer.
LeaveLoop(c) ==
    /\ pc[c] = "exec"
    /\ Lua => quit[c]
    /\ pc' = [pc EXCEPT ![c] = "waited"]
    /\ quit' = [quit EXCEPT ![c] = FALSE]
    /\ UNCHANGED <<wrap, control, finished, abort, currOp, runs, thread, stopped, seen>>

\* LuaWrap clears the script's connections and reports opStop; ScriptWrap emits exitReady
\* if the script is still not finished.
Return(c) ==
    /\ pc[c] = "waited"
    /\ pc' = [pc EXCEPT ![c] = "idle"]
    /\ UNCHANGED <<wrap, control, finished, abort, currOp, runs, thread, stopped, seen, quit>>
-----------------------------------------------------------------------------
Thread ==
    \/ SetUnfinished
    \/ Run
    \/ Report
    \/ SetFinished
    \/ FinishUnlessFinished
    \/ Announce

Call(c) ==
    \/ Abort(c)
    \/ Connect(c)
    \/ TestFinished(c)
    \/ EnterLoop(c)
    \/ LeaveLoop(c)
    \/ Return(c)

Next ==
    \/ LoadScript
    \/ StartScript
    \/ Thread
    \/ RunEnds
    \/ \E c \in Callers :
          \/ InterruptScript(c)
          \/ StopScript(c)
          \/ Call(c)

\* Both threads go on, and a script that is aborted ends.
Fairness ==
    /\ WF_vars(Thread)
    /\ WF_vars(abort /\ RunEnds)
    /\ \A c \in Callers : WF_vars(Call(c))

Spec == Init /\ [][Next]_vars /\ Fairness
=============================================================================
