------------------------- MODULE ScriptThreadProofs -------------------------
(***************************************************************************)
(* Proofs about the script thread, for any number of callers and of runs.  *)
(***************************************************************************)
EXTENDS ScriptThreadSafety, TLAPS

\* What the script thread does; the callers do the rest.
Slots == LoadScript \/ StartScript \/ Thread \/ RunEnds

LEMMA NextCases ==
    Next <=> \/ Slots
             \/ \E c \in Callers : InterruptScript(c) \/ StopScript(c) \/ Call(c)
BY DEF Next, Slots

\* The script thread leaves the callers alone, but for Announce.
LEMMA SlotsFrame ==
    ASSUME Slots
    PROVE  /\ UNCHANGED <<wrap, control, pc, seen>>
           /\ Announce \/ UNCHANGED quit
BY DEF Slots, Thread, LoadScript, StartScript, SetUnfinished, Run, RunEnds, Report,
       SetFinished, FinishUnlessFinished, Announce, thread, calls

\* The callers leave the script thread alone.
LEMMA CallFrame ==
    ASSUME NEW c \in Callers, InterruptScript(c) \/ StopScript(c) \/ Call(c)
    PROVE  /\ UNCHANGED <<wrap, control, runs, slot, code, ending>>
           /\ \/ InterruptScript(c) /\ UNCHANGED <<abort, pc, seen, quit>>
              \/ UNCHANGED <<finished, currOp, stopped>>
BY DEF InterruptScript, StopScript, Call, Abort, Connect, TestFinished, EnterLoop,
       LeaveLoop, Return, thread, calls

-----------------------------------------------------------------------------
(* Types.                                                                  *)

LEMMA TypeInit == ThreadAssumption /\ Init => TypeInv
<1> SUFFICES ASSUME ThreadAssumption, Init
             PROVE  TypeInv
    OBVIOUS
<1>1. /\ wrap \in Wraps /\ control \in BOOLEAN /\ finished \in BOOLEAN /\ abort \in BOOLEAN
      /\ stopped \in BOOLEAN
    BY DEF Init
<1>2. currOp \in Operations /\ code \in States /\ ending \in SUBSET (Operations \X States)
    BY DEF Init, Operations, States
<1>3. runs \in 0..MaxRuns /\ seen \in [Callers -> 0..MaxRuns]
    BY DEF Init, ThreadAssumption
<1>4. /\ pc \in [Callers -> {"idle", "stopping", "aborted", "waited"} \cup Connected]
      /\ quit \in [Callers -> BOOLEAN]
      /\ \A c \in Callers : ~quit[c] /\ seen[c] <= runs
      /\ slot = "idle"
    BY DEF Init
<1>5. Lua => control
    BY DEF Init
<1> QED
    BY <1>1, <1>2, <1>3, <1>4, <1>5 DEF TypeInv, TypeOK

\* The script thread moves from one of its places to another ...
LEMMA SlotTypes ==
    ASSUME TypeInv, Slots
    PROVE  /\ slot' \in {"idle", "starting", "begun", "running", "ended", "reported",
                         "checked", "finished"}
           /\ slot' # "idle" => control'
           /\ code' \in States
           /\ currOp' \in Operations
           /\ ending' \in SUBSET (Operations \X States)
<1> USE DEF TypeInv, TypeOK, Lua, Operations, States, thread
<1>1. CASE LoadScript
    BY <1>1 DEF LoadScript
<1>2. CASE StartScript
    <2>1. ending' = {} /\ code' = code /\ control' = control
        BY <1>2 DEF StartScript
    <2>2. (slot' = "starting" /\ control) \/ slot' = slot
        BY <1>2 DEF StartScript
    <2>3. currOp' \in Operations
        BY <1>2 DEF StartScript
    <2> QED
        BY <2>1, <2>2, <2>3
<1>3. CASE SetUnfinished \/ Run \/ RunEnds
    BY <1>3 DEF SetUnfinished, Run, RunEnds
<1>4. CASE Report
    BY <1>4 DEF Report
<1>5. CASE SetFinished \/ FinishUnlessFinished
    BY <1>5 DEF SetFinished, FinishUnlessFinished
<1>6. CASE Announce
    BY <1>6 DEF Announce
<1> QED
    BY <1>1, <1>2, <1>3, <1>4, <1>5, <1>6 DEF Slots, Thread

\* ... sets its flags ...
LEMMA FlagTypes ==
    ASSUME TypeInv, Slots
    PROVE  finished' \in BOOLEAN /\ abort' \in BOOLEAN /\ stopped' \in BOOLEAN
<1> USE DEF TypeInv, TypeOK
<1>1. CASE LoadScript
    BY <1>1 DEF LoadScript
<1>2. CASE StartScript
    BY <1>2 DEF StartScript
<1>3. CASE SetUnfinished \/ Run \/ RunEnds \/ Report
    BY <1>3 DEF SetUnfinished, Run, RunEnds, Report
<1>4. CASE SetFinished \/ FinishUnlessFinished \/ Announce
    BY <1>4 DEF SetFinished, FinishUnlessFinished, Announce
<1> QED
    BY <1>1, <1>2, <1>3, <1>4 DEF Slots, Thread

\* ... and begins a run only if it may.
LEMMA RunTypes ==
    ASSUME ThreadAssumption, TypeInv, Slots
    PROVE  /\ runs' \in 0..MaxRuns /\ runs <= runs'
           /\ slot' = "starting" => runs' < MaxRuns
<1>1. runs \in 0..MaxRuns /\ MaxRuns \in Nat
    BY DEF TypeInv, TypeOK, ThreadAssumption
<1>2. CASE SetUnfinished
    <2>1. slot = "starting" /\ runs' = runs + 1 /\ slot' = "begun"
        BY <1>2 DEF SetUnfinished
    <2>2. runs + 1 \in 0..MaxRuns /\ runs <= runs + 1
        BY <1>1, <2>1 DEF TypeInv
    <2> QED
        BY <2>1, <2>2
<1>3. CASE StartScript
    <2>1. runs' = runs /\ runs < MaxRuns
        BY <1>3 DEF StartScript
    <2> QED
        BY <1>1, <2>1
<1>4. CASE LoadScript \/ Run \/ RunEnds \/ Report \/ SetFinished \/ FinishUnlessFinished
           \/ Announce
    <2>1. runs' = runs /\ slot' # "starting"
        BY <1>4 DEF LoadScript, Run, RunEnds, Report, SetFinished, FinishUnlessFinished,
                    Announce, thread
    <2> QED
        BY <1>1, <2>1
<1> QED
    BY <1>2, <1>3, <1>4 DEF Slots, Thread

LEMMA SlotsTypes ==
    ASSUME ThreadAssumption, TypeInv, Slots
    PROVE  TypeInv'
<1>1. /\ UNCHANGED <<wrap, control, pc, seen>>
      /\ Announce \/ UNCHANGED quit
    BY SlotsFrame
<1>2. quit' \in [Callers -> BOOLEAN] /\ \A c \in Callers : quit'[c] => pc'[c] \in Connected
    <2>1. CASE UNCHANGED quit
        BY <1>1, <2>1 DEF TypeInv, TypeOK
    <2>2. CASE quit' = [c \in Callers |-> quit[c] \/ pc[c] \in Connected]
        BY <1>1, <2>2 DEF TypeInv, TypeOK
    <2> QED
        BY <1>1, <2>1, <2>2 DEF Announce
<1>3. \A c \in Callers : seen'[c] <= runs'
    <2>1. ASSUME NEW c \in Callers
          PROVE  seen[c] <= runs'
        <3>1. PICK r \in 0..MaxRuns : runs' = r /\ runs <= r
            BY RunTypes
        <3>2. seen[c] \in 0..MaxRuns /\ seen[c] <= runs /\ runs \in 0..MaxRuns
            BY DEF TypeInv, TypeOK
        <3>3. seen[c] <= r
            BY <3>1, <3>2
        <3> QED
            BY <3>1, <3>3
    <2> QED
        BY <1>1, <2>1
<1>4. /\ wrap' \in Wraps /\ control' \in BOOLEAN
      /\ pc' \in [Callers -> {"idle", "stopping", "aborted", "waited"} \cup Connected]
      /\ seen' \in [Callers -> 0..MaxRuns]
    BY <1>1 DEF TypeInv, TypeOK
<1>5. Lua' => control'
    BY <1>1 DEF TypeInv, Lua
<1> QED
    BY <1>2, <1>3, <1>4, <1>5, SlotTypes, FlagTypes, RunTypes DEF TypeInv, TypeOK

LEMMA CallTypes ==
    ASSUME TypeInv, NEW c \in Callers, InterruptScript(c) \/ StopScript(c) \/ Call(c)
    PROVE  TypeInv'
<1>1. UNCHANGED <<wrap, control, runs, slot, code, ending>>
    BY CallFrame
<1>2. /\ finished' \in BOOLEAN /\ abort' \in BOOLEAN /\ stopped' \in BOOLEAN
      /\ currOp' \in Operations
    BY DEF TypeInv, TypeOK, Operations, InterruptScript, StopScript, Call, Abort, Connect,
           TestFinished, EnterLoop, LeaveLoop, Return
<1>3. /\ pc' \in [Callers -> {"idle", "stopping", "aborted", "waited"} \cup Connected]
      /\ quit' \in [Callers -> BOOLEAN]
      /\ \A d \in Callers : quit'[d] => pc'[d] \in Connected
    <2> USE DEF TypeInv, TypeOK
    <2>1. CASE InterruptScript(c)
        BY <2>1 DEF InterruptScript, calls
    <2>2. CASE StopScript(c) \/ Abort(c) \/ Connect(c) \/ EnterLoop(c)
        BY <2>2 DEF StopScript, Abort, Connect, EnterLoop, Connected
    <2>3. CASE TestFinished(c)
        BY <2>3 DEF TestFinished, Connected
    <2>4. CASE LeaveLoop(c) \/ Return(c)
        BY <2>4 DEF LeaveLoop, Return, Connected
    <2> QED
        BY <2>1, <2>2, <2>3, <2>4 DEF Call
<1>4. seen' \in [Callers -> 0..MaxRuns] /\ \A d \in Callers : seen'[d] <= runs
    <2> USE DEF TypeInv, TypeOK
    <2>1. CASE UNCHANGED seen
        BY <2>1
    <2>2. CASE seen' = [seen EXCEPT ![c] = runs]
        <3>1. ASSUME NEW d \in Callers
              PROVE  seen'[d] \in 0..MaxRuns /\ seen'[d] <= runs
            BY <2>2
        <3> QED
            BY <2>2, <3>1
    <2>3. UNCHANGED seen \/ seen' = [seen EXCEPT ![c] = runs]
        BY DEF InterruptScript, StopScript, Call, Abort, Connect, TestFinished, EnterLoop,
               LeaveLoop, Return, calls
    <2> QED
        BY <2>1, <2>2, <2>3
<1>5. Lua' => control'
    BY <1>1 DEF TypeInv, Lua
<1> QED
    BY <1>1, <1>2, <1>3, <1>4, <1>5 DEF TypeInv, TypeOK

LEMMA TypeStep == ThreadAssumption /\ TypeInv /\ [Next]_vars => TypeInv'
<1> SUFFICES ASSUME ThreadAssumption, TypeInv, [Next]_vars
             PROVE  TypeInv'
    OBVIOUS
<1>1. CASE UNCHANGED vars
    BY <1>1 DEF vars, thread, calls, TypeInv, TypeOK, Lua
<1> QED
    BY <1>1, NextCases, SlotsTypes, CallTypes

\* The types hold, and no loop that is gone is told to quit, for any number of callers.
THEOREM TypeCorrect == ThreadAssumption => (Spec => []TypeOK)
<1> SUFFICES ASSUME ThreadAssumption
             PROVE  Spec => []TypeOK
    OBVIOUS
<1>1. Init => TypeInv
    BY TypeInit
<1>2. TypeInv /\ [Next]_vars => TypeInv'
    BY TypeStep
<1>3. TypeInv => TypeOK
    BY DEF TypeInv
<1> QED
    BY <1>1, <1>2, <1>3, PTL DEF Spec
-----------------------------------------------------------------------------
(* Stops.                                                                  *)

\* A new run is one that no caller has seen.
LEMMA NewRun ==
    ASSUME TypeInv, NEW c \in Callers, SetUnfinished
    PROVE  seen'[c] # runs'
<1>1. seen[c] \in 0..MaxRuns /\ runs \in 0..MaxRuns /\ seen[c] <= runs
    BY DEF TypeInv, TypeOK
<1>2. seen' = seen /\ runs' = runs + 1
    BY DEF SetUnfinished, calls
<1>3. seen[c] # runs + 1
    BY <1>1
<1> QED
    BY <1>2, <1>3

\* Only SetUnfinished begins a run and takes back that the last one is finished.
LEMMA Unfinishing ==
    ASSUME Slots
    PROVE  SetUnfinished \/ (runs' = runs /\ (finished => finished'))
BY DEF Slots, Thread, LoadScript, StartScript, Run, RunEnds, Report, SetFinished,
       FinishUnlessFinished, Announce

LEMMA StopNotLostStep == TypeInv /\ StopNotLost /\ [Next]_vars => StopNotLost'
<1> SUFFICES ASSUME TypeInv, StopNotLost, [Next]_vars,
                    NEW c \in Callers, Aborted(c)', slot' \in {"begun", "running"}
             PROVE  abort'
    BY DEF StopNotLost
<1>1. CASE Slots
    <2>1. UNCHANGED <<pc, seen>> /\ ~SetUnfinished
        BY <1>1, SlotsFrame, NewRun DEF Aborted
    <2>2. runs' = runs
        BY <1>1, <2>1, Unfinishing
    <2>3. Aborted(c)
        BY <2>1, <2>2 DEF Aborted
    <2>4. slot \in {"begun", "running"} /\ abort' = abort
        BY <1>1, <2>1 DEF Slots, Thread, LoadScript, StartScript, Run, RunEnds, Report,
           SetFinished, FinishUnlessFinished, Announce, thread
    <2> QED
        BY <2>3, <2>4 DEF StopNotLost
<1>2. ASSUME NEW d \in Callers, Abort(d)
      PROVE  abort'
    BY <1>2 DEF Abort
<1>3. ASSUME NEW d \in Callers, InterruptScript(d) \/ StopScript(d) \/ Call(d), ~Abort(d)
      PROVE  abort'
    <2>1. slot' = slot /\ runs' = runs
        BY <1>3, CallFrame
    <2>2. abort' = abort
        BY <1>3 DEF InterruptScript, StopScript, Call, Connect, TestFinished, EnterLoop,
                    LeaveLoop, Return
    <2>3. Aborted(c)
        <3> USE DEF Aborted, Connected, TypeInv, TypeOK
        <3>1. CASE InterruptScript(d)
            BY <2>1, <3>1 DEF InterruptScript, calls
        <3>2. CASE StopScript(d) \/ Connect(d) \/ EnterLoop(d)
            BY <2>1, <3>2 DEF StopScript, Connect, EnterLoop
        <3>3. CASE TestFinished(d) \/ LeaveLoop(d) \/ Return(d)
            BY <2>1, <3>3 DEF TestFinished, LeaveLoop, Return
        <3> QED
            BY <1>3, <3>1, <3>2, <3>3 DEF Call
    <2> QED
        BY <2>1, <2>2, <2>3 DEF StopNotLost
<1>4. CASE UNCHANGED vars
    BY <1>4 DEF vars, thread, calls, StopNotLost, Aborted
<1> QED
    BY <1>1, <1>2, <1>3, <1>4, NextCases

\* A stop is not lost, however it interleaves with the start of the run that it is for
\* and with the stops of others.
THEOREM StopsAreNotLost == ThreadAssumption => (Spec => []StopNotLost)
<1> SUFFICES ASSUME ThreadAssumption
             PROVE  Spec => []StopNotLost
    OBVIOUS
<1>1. Init => TypeInv /\ StopNotLost
    BY TypeInit DEF Init, StopNotLost
<1>2. TypeInv /\ StopNotLost /\ [Next]_vars => TypeInv' /\ StopNotLost'
    BY TypeStep, StopNotLostStep
<1> QED
    BY <1>1, <1>2, PTL DEF Spec

LEMMA WrapStays == ASSUME [Next]_vars PROVE wrap' = wrap
<1>1. CASE UNCHANGED vars
    BY <1>1 DEF vars
<1>2. ASSUME NEW d \in Callers, InterruptScript(d) \/ StopScript(d) \/ Call(d)
      PROVE  wrap' = wrap
    BY <1>2, CallFrame
<1> QED
    BY <1>1, <1>2, SlotsFrame, NextCases

LEMMA WaitStep == TypeInv /\ WaitInv /\ [Next]_vars => WaitInv'
<1> SUFFICES ASSUME TypeInv, WaitInv, [Next]_vars
             PROVE  WaitInv'
    OBVIOUS
<1> SUFFICES ASSUME Lua
             PROVE  /\ slot' = "finished" => finished'
                    /\ \A c \in Callers :
                          seen'[c] = runs' /\ (quit'[c] \/ pc'[c] = "waited") => finished'
    BY WrapStays DEF WaitInv, Lua
<1>1. slot' = "finished" => finished'
    <2>1. CASE Slots
        BY <2>1 DEF WaitInv, Slots, Thread, LoadScript, StartScript, SetUnfinished, Run,
           RunEnds, Report, SetFinished, FinishUnlessFinished, Announce, thread
    <2>2. ASSUME NEW d \in Callers, InterruptScript(d) \/ StopScript(d) \/ Call(d)
          PROVE  slot' = "finished" => finished'
        BY <2>2, CallFrame DEF WaitInv, InterruptScript
    <2>3. CASE UNCHANGED vars
        BY <2>3 DEF vars, thread, WaitInv
    <2> QED
        BY <2>1, <2>2, <2>3, NextCases
<1>2. ASSUME NEW c \in Callers, seen'[c] = runs', quit'[c] \/ pc'[c] = "waited"
      PROVE  finished'
    <2>1. CASE Slots
        <3>1. UNCHANGED <<pc, seen>> /\ ~SetUnfinished
            BY <1>2, <2>1, SlotsFrame, NewRun
        <3>2. runs' = runs /\ (finished => finished')
            BY <2>1, <3>1, Unfinishing
        <3>3. CASE Announce
            BY <3>2, <3>3 DEF Announce, WaitInv
        <3>4. CASE UNCHANGED quit
            BY <1>2, <3>1, <3>2, <3>4 DEF WaitInv
        <3> QED
            BY <2>1, <3>3, <3>4, SlotsFrame
    <2>2. ASSUME NEW d \in Callers, StopScript(d) \/ Call(d)
          PROVE  finished'
        <3>1. runs' = runs /\ finished' = finished
            BY <2>2, CallFrame DEF StopScript, Call, Abort, Connect, TestFinished,
               EnterLoop, LeaveLoop, Return
        <3>2. finished \/ (seen[c] = runs /\ (quit[c] \/ pc[c] = "waited"))
            <4> USE DEF TypeInv, TypeOK, Connected
            <4>1. CASE StopScript(d)
                BY <1>2, <3>1, <4>1 DEF StopScript
            <4>2. CASE Abort(d) \/ Connect(d) \/ EnterLoop(d)
                BY <1>2, <3>1, <4>2 DEF Abort, Connect, EnterLoop
            <4>3. CASE TestFinished(d)
                BY <1>2, <3>1, <4>3 DEF TestFinished
            <4>4. CASE LeaveLoop(d) \/ Return(d)
                BY <1>2, <3>1, <4>4 DEF LeaveLoop, Return
            <4> QED
                BY <2>2, <4>1, <4>2, <4>3, <4>4 DEF Call
        <3> QED
            BY <3>1, <3>2 DEF WaitInv
    <2>3. ASSUME NEW d \in Callers, InterruptScript(d)
          PROVE  finished'
        BY <2>3 DEF InterruptScript
    <2>4. CASE UNCHANGED vars
        BY <1>2, <2>4 DEF vars, calls, WaitInv
    <2> QED
        BY <2>1, <2>2, <2>3, <2>4, NextCases
<1> QED
    BY <1>1, <1>2

\* LuaWrap's stop is not over before the run that it is for, whoever else stops it.
THEOREM StopsOutliveRuns == ThreadAssumption => (Spec => []StopOutlivesRun)
<1> SUFFICES ASSUME ThreadAssumption
             PROVE  Spec => []StopOutlivesRun
    OBVIOUS
<1>1. Init => TypeInv /\ WaitInv
    BY TypeInit DEF Init, WaitInv
<1>2. TypeInv /\ WaitInv /\ [Next]_vars => TypeInv' /\ WaitInv'
    BY TypeStep, WaitStep
<1>3. WaitInv => StopOutlivesRun
    BY DEF WaitInv, StopOutlivesRun
<1> QED
    BY <1>1, <1>2, <1>3, PTL DEF Spec
-----------------------------------------------------------------------------
(* Ends.                                                                   *)

\* What has been told stays told as long as the class and the stop do.
LEMMA ToldStays ==
    ASSUME Told, ending' = ending, wrap' = wrap, code' = code, stopped => stopped'
    PROVE  Told'
<1>1. PICK report \in ending : TellsEnd(report) /\ \A r \in ending : OfEnd(r) <=> r = report
    BY DEF Told, TellEnd
<1>2. TellsEnd(report)'
    BY <1>1 DEF TellsEnd, Lua
<1>3. report \in ending' /\ \A r \in ending' : (OfEnd(r) <=> r = report)'
    BY <1>1 DEF OfEnd
<1> QED
    BY <1>2, <1>3 DEF Told, TellEnd

LEMMA UntoldStays ==
    ASSUME Untold, ending' = ending, code' = code
    PROVE  Untold'
BY DEF Untold, OfEnd

\* A report of opRun, or of an error of what is believed to run, tells the end.
LEMMA Tells ==
    ASSUME NEW op, ending' = {<<op, code>>}, code' = code,
           \/ op = "run"
           \/ ~Lua' /\ op = "start" /\ code = "error"
           \/ ~Lua' /\ stopped' /\ op = "stop" /\ code = "error"
    PROVE  Told'
<1>1. TellsEnd(<<op, code>>)'
    BY DEF TellsEnd
<1>2. OfEnd(<<op, code>>)'
    BY DEF OfEnd
<1> QED
    BY <1>1, <1>2 DEF Told, TellEnd

LEMMA ReportEnd ==
    ASSUME TypeInv, EndInv, Report
    PROVE  EndInv'
<1>1. /\ ending = {} /\ slot = "ended"
      /\ UNCHANGED <<wrap, currOp, stopped, finished, code>>
    BY DEF Report, EndInv
<1>2. CASE Lua
    <2>1. ending' = {<<"run", code>>} /\ slot' = "reported" /\ Lua'
        BY <1>1, <1>2 DEF Report, Lua
    <2>2. Told'
        BY <1>1, <2>1, Tells
    <2> QED
        BY <2>1, <2>2 DEF EndInv
<1>3. CASE ~Lua
    <2>1. /\ ending' = {<<currOp, code>>} /\ ~Lua'
          /\ slot' = IF code = "error" THEN "reported" ELSE "checked"
        BY <1>1, <1>3 DEF Report, Lua
    <2>2. /\ currOp = "start" \/ (stopped /\ currOp = "stop")
          /\ ~finished
        BY <1>1, <1>3 DEF EndInv
    <2>3. ASSUME code = "error"
          PROVE  Told'
        BY <1>1, <2>1, <2>2, <2>3, Tells
    <2>4. ASSUME code # "error"
          PROVE  Untold'
        <3>1. code' = "noError"
            BY <1>1, <2>4 DEF TypeInv, TypeOK, States
        <3>2. \A r \in ending' : (~OfEnd(r))'
            BY <2>1, <2>2, <2>4 DEF OfEnd
        <3> QED
            BY <3>1, <3>2 DEF Untold
    <2> QED
        BY <1>1, <2>1, <2>2, <2>3, <2>4 DEF EndInv
<1> QED
    BY <1>2, <1>3

LEMMA SlotsEnd ==
    ASSUME TypeInv, EndInv, Slots
    PROVE  EndInv'
<1>1. wrap' = wrap
    BY SlotsFrame
<1>2. CASE LoadScript
    BY <1>2 DEF LoadScript, EndInv, thread
<1>3. CASE StartScript
    <2>1. ending' = {} /\ slot' \in {"idle", "starting"}
        BY <1>3 DEF StartScript
    <2>2. ~Lua => currOp' = "start"
        BY <1>3 DEF StartScript
    <2> QED
        BY <1>1, <2>1, <2>2 DEF EndInv, Lua
<1>4. CASE SetUnfinished
    BY <1>1, <1>4 DEF SetUnfinished, EndInv, Lua
<1>5. CASE Run \/ RunEnds
    BY <1>1, <1>5 DEF Run, RunEnds, EndInv, Lua
<1>6. CASE SetFinished
    <2>1. Told /\ ending' = ending /\ UNCHANGED <<currOp, stopped, code>>
        BY <1>6 DEF SetFinished, EndInv
    <2>2. Told'
        BY <1>1, <2>1, ToldStays
    <2>3. slot = "reported" /\ slot' = (IF Lua THEN "finished" ELSE "checked") /\ finished'
        BY <1>6 DEF SetFinished
    <2> QED
        BY <1>1, <2>1, <2>2, <2>3 DEF EndInv, Lua
<1>7. CASE FinishUnlessFinished
    <2>1. /\ slot = "checked" /\ slot' = (IF finished THEN "idle" ELSE "finished")
          /\ ending' = ending /\ UNCHANGED <<currOp, stopped, code>>
        BY <1>7 DEF FinishUnlessFinished
    <2>2. ~Lua /\ (finished \/ Untold')
        BY <2>1, UntoldStays DEF EndInv
    <2> QED
        BY <1>1, <2>1, <2>2 DEF EndInv, Lua
<1>8. CASE Announce
    BY <1>8 DEF Announce, EndInv
<1> QED
    BY <1>2, <1>3, <1>4, <1>5, <1>6, <1>7, <1>8, ReportEnd DEF Slots, Thread

\* A caller with an engine changes neither finished nor what has been told.
LEMMA CallEnd ==
    ASSUME TypeInv, EndInv, NEW c \in Callers,
           InterruptScript(c) \/ StopScript(c) \/ Call(c)
    PROVE  EndInv'
<1>1. UNCHANGED <<wrap, slot, ending, code>>
    BY CallFrame
<1>2. CASE UNCHANGED <<finished, currOp, stopped>>
    BY <1>1, <1>2 DEF EndInv, Lua, Told, Untold, TellEnd, TellsEnd, OfEnd
<1>3. CASE InterruptScript(c)
    <2>1. ~Lua /\ ~Lua' /\ currOp' = "stop" /\ stopped' /\ finished' = (finished \/ ~control)
        BY <1>1, <1>3 DEF InterruptScript, Lua
    <2>2. slot # "idle" => finished' = finished
        BY <2>1 DEF TypeInv, TypeOK
    <2>3. Told => Told'
        BY <1>1, <2>1, ToldStays
    <2>4. Untold => Untold'
        BY <1>1, UntoldStays
    <2> QED
        BY <1>1, <2>1, <2>2, <2>3, <2>4 DEF EndInv
<1> QED
    BY <1>2, <1>3, CallFrame

LEMMA EndStep == TypeInv /\ EndInv /\ [Next]_vars => EndInv'
<1> SUFFICES ASSUME TypeInv, EndInv, [Next]_vars
             PROVE  EndInv'
    OBVIOUS
<1>1. CASE UNCHANGED vars
    BY <1>1 DEF vars, thread, EndInv, Lua, Told, Untold, TellEnd, TellsEnd, OfEnd
<1> QED
    BY <1>1, NextCases, SlotsEnd, CallEnd

\* The end of every run is told once, whoever stops it and whatever it returned.
THEOREM EndsAreTold == ThreadAssumption => (Spec => EndIsTold)
<1> SUFFICES ASSUME ThreadAssumption
             PROVE  Spec => EndIsTold
    OBVIOUS
<1>1. Init => TypeInv /\ EndInv
    <2>1. Init => EndInv
        BY DEF Init, EndInv
    <2> QED
        BY <2>1, TypeInit
<1>2. TypeInv /\ EndInv /\ [Next]_vars => TypeInv' /\ EndInv'
    BY TypeStep, EndStep
<1>3. ASSUME TypeInv, EndInv, [Next]_vars, slot # "idle", slot' = "idle"
      PROVE  TellEnd(ending')
    <2>1. FinishUnlessFinished \/ Announce
        <3>1. Slots
            BY <1>3, NextCases, CallFrame DEF vars, thread
        <3> QED
            BY <1>3, <3>1 DEF Slots, Thread, LoadScript, StartScript, SetUnfinished, Run,
               RunEnds, Report, SetFinished
    <2>2. CASE FinishUnlessFinished
        <3>1. Told /\ ending' = ending
            BY <1>3, <2>2 DEF FinishUnlessFinished, EndInv
        <3> QED
            BY <3>1 DEF Told
    <2>3. CASE Announce /\ Lua
        <3>1. Told /\ ending' = ending
            BY <1>3, <2>3 DEF Announce, EndInv
        <3> QED
            BY <3>1 DEF Told
    <2>4. CASE Announce /\ ~Lua
        <3>1. Untold /\ ending' = ending \cup {<<"run", "noError">>}
            BY <1>3, <2>4 DEF Announce, EndInv
        <3>2. TellsEnd(<<"run", "noError">>) /\ OfEnd(<<"run", "noError">>)
            BY <3>1 DEF Untold, TellsEnd, OfEnd
        <3> QED
            BY <3>1, <3>2 DEF Untold, TellEnd
    <2> QED
        BY <2>1, <2>2, <2>3, <2>4
<1>4. TypeInv /\ EndInv /\ [Next]_vars =>
          [slot # "idle" /\ slot' = "idle" => TellEnd(ending')]_vars
    BY <1>3
<1> QED
    BY <1>1, <1>2, <1>4, PTL DEF Spec, EndIsTold
=============================================================================
