-------------------------- MODULE SE2WindowProofs --------------------------
(***************************************************************************)
(* What SE2's window does, for any scripts and whatever fails.             *)
(***************************************************************************)
EXTENDS SE2WindowSafety, RanksProofs

\* The steps of Next, those of the quantified actions with their argument.
LEMMA NextCases ==
    ASSUME Next
    PROVE  \/ \E s \in Scripts : DiskChanges(s)
           \/ \E s \in Scripts : StartFromConsole(s)
           \/ Start \/ RunScript \/ Launch \/ EditScript \/ NewScript \/ DelScript
           \/ \E index \in DOMAIN ScriptsList : SelectCategory(index)
           \/ \E t \in items : SelectItem(t)
           \/ FocusIn \/ CloseWindow \/ CloseForm \/ ReloadScript
           \/ MyshowQuits \/ MyshowReloads \/ MyshowUpdates \/ ReOpenScript
BY DEF Next

\* What can become of a script that is to be opened: a form in the window's place, a
\* failure that leaves the window as it is, the end of a program that shows no window,
\* or a crash.
Opens(s, by) ==
    /\ formOpen' /\ ~visible' /\ UNCHANGED <<life, failed>>
    /\ form' = [script |-> s, edit |-> isNewScr', by |-> by]

Fails == failed' /\ UNCHANGED <<life, visible, formOpen, form>>

Ends == life' # "on" /\ ~formOpen' /\ ~visible'

Outcome(s, by) == pending' = "none" /\ (Opens(s, by) \/ Fails \/ Ends)

\* A form that is open after the step is the one that the step has opened.
LEMMA NewForm ==
    ASSUME NEW s, NEW by, ~formOpen, formOpen', Outcome(s, by)
    PROVE  /\ form'.script = s /\ form'.by = by /\ form'.edit = isNewScr'
           /\ failed' = failed
<1>1. Opens(s, by)
    BY DEF Outcome, Opens, Fails, Ends
<1>2. form'.script = s /\ form'.by = by
    BY <1>1 DEF Opens
<1>3. form'.edit = isNewScr'
    BY <1>1 DEF Opens
<1>4. failed' = failed
    BY <1>1 DEF Opens
<1> QED
    BY <1>2, <1>3, <1>4

\* Loading a script ends in one of the three ways, if no form is open.
LEMMA LoadOutcome ==
    ASSUME NEW s, NEW by, ~formOpen, LoadScript(s, by)
    PROVE  Outcome(s, by)
BY DEF LoadScript, Quit, Outcome, Opens, Fails, Ends

\* So does opening the current item, and a form opens only if there is one.
LEMMA OpenOutcome ==
    ASSUME NEW by, ~formOpen, OpenCurrent(by)
    PROVE  /\ Outcome(Value(item), by)
           /\ formOpen' => item # None /\ cbIndex # 0
<1>1. CASE item # None /\ cbIndex # 0 /\ LoadScript(Value(item), by)
    BY <1>1, LoadOutcome
<1>2. CASE Crash
    BY <1>2 DEF Crash, Outcome, Ends
<1> QED
    BY <1>1, <1>2 DEF OpenCurrent

\* The steps that open a script, with what comes of it.
LEMMA OpeningSteps ==
    ASSUME WindowInv,
           RunScript \/ Launch \/ EditScript \/ NewScript \/ ReOpenScript
    PROVE  /\ ~formOpen
           /\ UNCHANGED <<console, ScriptsList, cbIndex, items, item>>
           /\ EditScript \/ NewScript => isNewScr' /\ visible
           /\ RunScript \/ Launch \/ ReOpenScript => isNewScr' = isNewScr
           /\ \/ RunScript /\ Outcome(scriptPath_, "console")
              \/ /\ RunScript /\ scriptPath_ \in Untitled /\ pending' = "none"
                 /\ UNCHANGED <<life, visible, forms>>
              \/ NewScript /\ Outcome(None, "new")
              \/ /\ \/ Launch /\ Outcome(Value(item), "launch")
                    \/ EditScript /\ Outcome(Value(item), "edit")
                    \/ ReOpenScript /\ Outcome(Value(item), "reload")
                 /\ formOpen' => item # None /\ cbIndex # 0
<1> USE DEF WindowInv, Usable
<1>1. CASE RunScript
    BY <1>1, LoadOutcome DEF RunScript, lists, console, forms, Launch, ReOpenScript,
                             EditScript, NewScript
<1>2. CASE Launch
    BY <1>2, OpenOutcome DEF Launch, lists, console, RunScript, ReOpenScript,
                             EditScript, NewScript
<1>3. CASE EditScript
    BY <1>3, OpenOutcome DEF EditScript, lists, console, RunScript, ReOpenScript, Launch
<1>4. CASE NewScript
    BY <1>4, LoadOutcome DEF NewScript, lists, console, RunScript, ReOpenScript, Launch
<1>5. CASE ReOpenScript
    BY <1>5, OpenOutcome DEF ReOpenScript, lists, console, RunScript, Launch, EditScript,
                             NewScript
<1> QED
    BY <1>1, <1>2, <1>3, <1>4, <1>5

\* The form that they open.
LEMMA OpenedForm ==
    ASSUME WindowInv, formOpen',
           RunScript \/ Launch \/ EditScript \/ NewScript \/ ReOpenScript
    PROVE  /\ failed' = failed /\ form'.edit = isNewScr'
           /\ RunScript => form'.by = "console"
           /\ NewScript => form'.by = "new"
           /\ Launch => form'.by = "launch"
           /\ EditScript => form'.by = "edit"
           /\ ReOpenScript => form'.by = "reload"
           /\ Launch \/ EditScript \/ ReOpenScript =>
                 item # None /\ cbIndex # 0 /\ form'.script = Value(item)
<1> ~formOpen
    BY OpeningSteps
<1>1. ASSUME RunScript
      PROVE  failed' = failed /\ form'.edit = isNewScr' /\ form'.by = "console"
    <2>1. CASE LoadScript(scriptPath_, "console")
        BY <2>1, LoadOutcome, NewForm
    <2>2. CASE UNCHANGED <<life, settings, visible, forms>>
        BY <2>2 DEF forms
    <2> QED
        BY <1>1, <2>1, <2>2 DEF RunScript
<1>2. ASSUME NewScript
      PROVE  failed' = failed /\ form'.edit = isNewScr' /\ form'.by = "new"
    <2>1. Outcome(None, "new")
        BY <1>2, LoadOutcome DEF NewScript
    <2> QED
        BY <2>1, NewForm
<1>3. ASSUME NEW by, OpenCurrent(by)
      PROVE  /\ failed' = failed /\ form'.edit = isNewScr' /\ form'.by = by
             /\ item # None /\ cbIndex # 0 /\ form'.script = Value(item)
    BY <1>3, OpenOutcome, NewForm
<1> QED
    BY <1>1, <1>2, <1>3 DEF Launch, EditScript, ReOpenScript

\* What they have in common.
LEMMA OpeningEnds ==
    ASSUME WindowInv,
           RunScript \/ Launch \/ EditScript \/ NewScript \/ ReOpenScript
    PROVE  /\ life = "on" /\ ~formOpen /\ pending # "myshow" /\ pending' = "none"
           /\ \/ formOpen' /\ ~visible' /\ life' = life
              \/ ~formOpen' /\ visible' = visible /\ life' = life
              \/ Ends
<1>1. life = "on" /\ ~formOpen /\ pending # "myshow"
    BY DEF WindowInv, RunScript, Launch, EditScript, NewScript, ReOpenScript, Usable
<1>2. ASSUME NEW s, NEW by, Outcome(s, by)
      PROVE  /\ pending' = "none"
             /\ \/ formOpen' /\ ~visible' /\ life' = life
                \/ ~formOpen' /\ visible' = visible /\ life' = life
                \/ Ends
    BY <1>1, <1>2 DEF Outcome, Opens, Fails
<1>3. CASE RunScript /\ scriptPath_ \in Untitled /\ pending' = "none"
           /\ UNCHANGED <<life, visible, forms>>
    BY <1>1, <1>3 DEF forms
<1> QED
    BY <1>1, <1>2, <1>3, OpeningSteps

\* The other steps, by what they do to the window and to the forms.
LEMMA OtherSteps ==
    ASSUME WindowInv, [Next]_vars,
           ~(RunScript \/ Launch \/ EditScript \/ NewScript \/ ReOpenScript)
    PROVE  \/ UNCHANGED <<life, window, forms, console, ScriptsList, cbIndex, items, item>>
           \/ Start \/ (\E s \in Scripts : StartFromConsole(s))
           \/ DelScript
           \/ /\ Usable
              /\ UNCHANGED <<life, window, forms, console>>
           \/ CloseWindow
           \/ CloseForm \/ ReloadScript
           \/ MyshowQuits \/ MyshowReloads \/ MyshowUpdates
<1>1. CASE Next
    <2>1. ASSUME NEW s \in Scripts, DiskChanges(s)
          PROVE  UNCHANGED <<life, window, forms, console, ScriptsList, cbIndex, items, item>>
        BY <2>1 DEF DiskChanges, lists
    <2>2. ASSUME \/ \E index \in DOMAIN ScriptsList : SelectCategory(index)
                 \/ \E t \in items : SelectItem(t)
                 \/ FocusIn
          PROVE  Usable /\ UNCHANGED <<life, window, forms, console>>
        BY <2>2 DEF SelectCategory, SelectItem, FocusIn
    <2> QED
        BY <1>1, <2>1, <2>2, NextCases
<1>2. CASE UNCHANGED vars
    BY <1>2 DEF vars, lists
<1> QED
    BY <1>1, <1>2

\* Deleting a script updates the lists and leaves the window usable, or crashes.
LEMMA DelOutcome ==
    ASSUME DelScript
    PROVE  /\ Usable /\ pending' = "none" /\ UNCHANGED console
           /\ \/ UNCHANGED <<life, visible, formOpen, form>> /\ ~isNewScr'
              \/ Ends
<1>1. CASE /\ UpdateLists(disk', cbIndex, RowOf(items, item))
           /\ UNCHANGED <<settings, life, visible, pending, formOpen, form>>
    <2>1. ~isNewScr'
        BY <1>1 DEF UpdateLists
    <2> QED
        BY <1>1, <2>1 DEF DelScript, Usable
<1>2. CASE Crash
    BY <1>2 DEF DelScript, Crash, Ends
<1> QED
    BY <1>1, <1>2 DEF DelScript

\* What is usable, and which event is pending, over a step.
LEMMA WindowStep ==
    ASSUME WindowInv, [Next]_vars
    PROVE  WindowInv'
<1>1. CASE RunScript \/ Launch \/ EditScript \/ NewScript \/ ReOpenScript
    BY <1>1, OpeningEnds DEF WindowInv, Ends
<1>2. CASE UNCHANGED <<life, window, forms, console, ScriptsList, cbIndex, items, item>>
    BY <1>2 DEF WindowInv, window, forms, console
<1>3. CASE Start \/ \E s \in Scripts : StartFromConsole(s)
    BY <1>3 DEF WindowInv, Start, StartFromConsole, Construct
<1>4. CASE DelScript
    <2>1. ~formOpen /\ pending' = "none"
        BY <1>4, DelOutcome DEF WindowInv, Usable
    <2>2. \/ life' = life /\ visible' = visible /\ formOpen' = formOpen
          \/ ~visible' /\ ~formOpen'
        BY <1>4, DelOutcome DEF Ends
    <2> QED
        BY <2>1, <2>2 DEF WindowInv
<1>5. CASE Usable /\ UNCHANGED <<life, window, forms, console>>
    BY <1>5 DEF WindowInv, window, forms, console
<1>6. CASE CloseWindow
    BY <1>6 DEF WindowInv, CloseWindow, Usable, Quit, forms, console
<1>7. CASE CloseForm \/ ReloadScript
    BY <1>7 DEF WindowInv, CloseForm, ReloadScript, console
<1>8. CASE MyshowQuits \/ MyshowReloads \/ MyshowUpdates
    BY <1>8 DEF WindowInv, MyshowQuits, MyshowReloads, MyshowUpdates, Quit, forms, console
<1> QED
    BY <1>1, <1>2, <1>3, <1>4, <1>5, <1>6, <1>7, <1>8, OtherSteps

LEMMA VisibleStep ==
    ASSUME WindowInv, SomethingVisible, [Next]_vars
    PROVE  SomethingVisible'
<1>1. CASE RunScript \/ Launch \/ EditScript \/ NewScript \/ ReOpenScript
    <2>1. RunScript \/ visible
        BY <1>1 DEF WindowInv, Launch, EditScript, NewScript, ReOpenScript, Usable
    <2>2. RunScript => isRunFromConsole_'
        BY <1>1, OpeningSteps DEF RunScript, WindowInv, console
    <2> QED
        BY <1>1, <2>1, <2>2, OpeningSteps
           DEF SomethingVisible, Outcome, Opens, Fails, Ends, forms, console
<1>2. CASE UNCHANGED <<life, window, forms, console, ScriptsList, cbIndex, items, item>>
    BY <1>2 DEF SomethingVisible, window, forms, console
<1>3. CASE Start \/ \E s \in Scripts : StartFromConsole(s)
    BY <1>3 DEF SomethingVisible, Start, StartFromConsole
<1>4. CASE DelScript
    BY <1>4, DelOutcome DEF SomethingVisible, Usable, Ends
<1>5. CASE Usable /\ UNCHANGED <<life, window, forms, console>>
    BY <1>5 DEF SomethingVisible, Usable, window
<1>6. CASE CloseWindow
    BY <1>6 DEF SomethingVisible, CloseWindow, Quit
<1>7. CASE CloseForm \/ ReloadScript
    BY <1>7 DEF SomethingVisible, CloseForm, ReloadScript, WindowInv
<1>8. CASE MyshowQuits \/ MyshowReloads \/ MyshowUpdates
    BY <1>8 DEF SomethingVisible, MyshowQuits, MyshowReloads, MyshowUpdates, Quit
<1> QED
    BY <1>1, <1>2, <1>3, <1>4, <1>5, <1>6, <1>7, <1>8, OtherSteps

\* The program never runs without a window, a form or an event that brings one, but for
\* a run from the console that fails: with any scripts, whatever fails.
THEOREM AlwaysVisible == Spec => []SomethingVisible
<1>1. Init => WindowInv /\ SomethingVisible
    BY DEF Init, WindowInv, SomethingVisible
<1>2. WindowInv /\ SomethingVisible /\ [Next]_vars => WindowInv' /\ SomethingVisible'
    BY WindowStep, VisibleStep
<1> QED
    BY <1>1, <1>2, PTL DEF Spec

-----------------------------------------------------------------------------
LEMMA ModeStep ==
    ASSUME WindowInv, ModeInv, [Next]_vars
    PROVE  ModeInv'
<1>1. CASE RunScript \/ Launch \/ EditScript \/ NewScript \/ ReOpenScript
    <2>1. pending # "myshow"
        BY <1>1 DEF RunScript, Launch, EditScript, NewScript, ReOpenScript, Usable
    <2> QED
        BY <1>1, <2>1, OpeningSteps DEF ModeInv, Outcome, Opens, Fails, Ends, forms
<1>2. CASE UNCHANGED <<life, window, forms, console, ScriptsList, cbIndex, items, item>>
    BY <1>2 DEF ModeInv, window, forms
<1>3. CASE Start \/ \E s \in Scripts : StartFromConsole(s)
    BY <1>3 DEF ModeInv, Start, StartFromConsole, Construct
<1>4. CASE DelScript
    BY <1>4, DelOutcome DEF ModeInv, Ends
<1>5. CASE Usable /\ UNCHANGED <<life, window, forms, console>>
    BY <1>5 DEF ModeInv, window, forms
<1>6. CASE CloseWindow
    BY <1>6 DEF ModeInv, CloseWindow, Quit
<1>7. CASE CloseForm \/ ReloadScript
    BY <1>7 DEF ModeInv, CloseForm, ReloadScript
<1>8. CASE MyshowQuits \/ MyshowReloads \/ MyshowUpdates
    BY <1>8 DEF ModeInv, MyshowQuits, MyshowReloads, MyshowUpdates, Quit, UpdateLists
<1> QED
    BY <1>1, <1>2, <1>3, <1>4, <1>5, <1>6, <1>7, <1>8, OtherSteps

LEMMA EditStep ==
    ASSUME WindowInv, ModeInv, EditOnlyWhenAsked, [Next]_vars
    PROVE  EditOnlyWhenAsked'
<1>1. CASE RunScript \/ Launch \/ EditScript \/ NewScript \/ ReOpenScript
    <2>1. ~formOpen /\ pending # "myshow" /\ (isNewScr => failed)
        BY <1>1 DEF RunScript, Launch, EditScript, NewScript, ReOpenScript, Usable,
                    WindowInv, ModeInv
    <2>3. CASE RunScript \/ Launch \/ ReOpenScript
        <3>1. isNewScr' = isNewScr
            BY <2>3, OpeningSteps
        <3>2. ASSUME formOpen'
              PROVE  form'.edit = isNewScr' /\ failed' = failed
            BY <1>1, <3>2, OpenedForm
        <3>3. ASSUME formOpen'
              PROVE  form'.by \notin {"edit", "new"}
            BY <2>3, <3>3, OpenedForm
        <3> QED
            BY <2>1, <3>1, <3>2, <3>3 DEF EditOnlyWhenAsked
    <2>4. CASE EditScript \/ NewScript
        <3>1. isNewScr'
            BY <2>4, OpeningSteps
        <3>2. ASSUME formOpen'
              PROVE  form'.edit = isNewScr' /\ form'.by \in {"edit", "new"}
            BY <2>4, <3>2, OpenedForm
        <3> QED
            BY <3>1, <3>2 DEF EditOnlyWhenAsked
    <2> QED
        BY <1>1, <2>3, <2>4
<1>2. CASE UNCHANGED <<life, window, forms, console, ScriptsList, cbIndex, items, item>>
    BY <1>2 DEF EditOnlyWhenAsked, forms
<1>3. CASE Start \/ \E s \in Scripts : StartFromConsole(s)
    BY <1>3 DEF EditOnlyWhenAsked, Start, StartFromConsole, Construct
<1>4. CASE DelScript
    <2>1. ~formOpen'
        BY <1>4, DelOutcome DEF Usable, WindowInv, Ends
    <2> QED
        BY <2>1 DEF EditOnlyWhenAsked
<1>5. CASE Usable /\ UNCHANGED <<life, window, forms, console>>
    BY <1>5 DEF EditOnlyWhenAsked, forms
<1>6. CASE CloseWindow
    BY <1>6 DEF EditOnlyWhenAsked, CloseWindow, forms
<1>7. CASE CloseForm \/ ReloadScript
    BY <1>7 DEF EditOnlyWhenAsked, CloseForm, ReloadScript
<1>8. CASE MyshowQuits \/ MyshowReloads \/ MyshowUpdates
    BY <1>8 DEF EditOnlyWhenAsked, WindowInv, MyshowQuits, MyshowReloads, MyshowUpdates, forms
<1> QED
    BY <1>1, <1>2, <1>3, <1>4, <1>5, <1>6, <1>7, <1>8, OtherSteps

\* A form is for editing exactly if the user has asked for that, unless a script has failed
\* to load before: with any scripts, whatever else fails.
THEOREM EditsAreAskedFor == Spec => []EditOnlyWhenAsked
<1>1. Init => WindowInv /\ ModeInv /\ EditOnlyWhenAsked
    BY DEF Init, WindowInv, ModeInv, EditOnlyWhenAsked
<1>2. WindowInv /\ ModeInv /\ EditOnlyWhenAsked /\ [Next]_vars
         => WindowInv' /\ ModeInv' /\ EditOnlyWhenAsked'
    BY WindowStep, ModeStep, EditStep
<1> QED
    BY <1>1, <1>2, PTL DEF Spec
-----------------------------------------------------------------------------
LEMMA FormStep ==
    ASSUME WindowInv, FormInv, [Next]_vars
    PROVE  FormInv'
<1>1. ASSUME UNCHANGED <<ScriptsList, cbIndex, item, form>>
      PROVE  Listed' <=> Listed
    BY <1>1 DEF Listed, Value
<1>2. CASE RunScript \/ Launch \/ EditScript \/ NewScript \/ ReOpenScript
    <2>1. pending' = "none"
        BY <1>2, OpeningEnds
    <2>2. CASE formOpen' /\ form'.by \notin {"console", "new"}
        <3>1. item # None /\ cbIndex # 0 /\ form'.script = Value(item)
            BY <1>2, <2>2, OpenedForm
        <3>2. UNCHANGED <<ScriptsList, cbIndex, item>>
            BY <1>2, OpeningSteps
        <3>3. Value(item)' = Value(item)
            BY <3>2 DEF Value
        <3> QED
            BY <3>1, <3>2, <3>3 DEF FormInv, Listed
    <2> QED
        BY <2>1, <2>2 DEF FormInv
<1>3. CASE UNCHANGED <<life, window, forms, console, ScriptsList, cbIndex, items, item>>
    BY <1>1, <1>3 DEF FormInv, window, forms
<1>4. CASE Start \/ \E s \in Scripts : StartFromConsole(s)
    BY <1>4 DEF FormInv, Start, StartFromConsole, Construct
<1>5. CASE DelScript
    <2>1. ~formOpen' /\ pending' = "none"
        <3>1. Usable /\ pending' = "none" /\ (formOpen' = formOpen \/ ~formOpen')
            BY <1>5, DelOutcome DEF Ends
        <3> QED
            BY <3>1 DEF Usable, WindowInv
    <2> QED
        BY <2>1 DEF FormInv
<1>6. CASE Usable /\ UNCHANGED <<life, window, forms, console>>
    BY <1>6 DEF FormInv, WindowInv, Usable, window, forms
<1>7. CASE CloseWindow
    BY <1>7 DEF FormInv, WindowInv, CloseWindow, Usable, forms
<1>8. CASE CloseForm \/ ReloadScript
    BY <1>1, <1>8 DEF FormInv, CloseForm, ReloadScript, lists
<1>9. CASE MyshowReloads
    <2>1. CASE form.by \in {"console", "new"}
        BY <1>9, <2>1 DEF FormInv, MyshowReloads
    <2>2. CASE form.by \notin {"console", "new"}
        <3>1. Listed
            BY <1>9, <2>2 DEF FormInv, MyshowReloads
        <3>2. UNCHANGED <<ScriptsList, cbIndex, item, form>>
            BY <1>9, <3>1 DEF MyshowReloads, ShowFirst, ShownIndex, ShownItem, FirstShown,
                              Listed
        <3> QED
            BY <1>1, <3>1, <3>2 DEF FormInv
    <2> QED
        BY <2>1, <2>2
<1>10. CASE MyshowQuits \/ MyshowUpdates
    BY <1>10 DEF FormInv, WindowInv, MyshowQuits, MyshowUpdates, forms
<1> QED
    BY <1>2, <1>3, <1>4, <1>5, <1>6, <1>7, <1>8, <1>9, <1>10, OtherSteps

LEMMA ReloadStep ==
    ASSUME WindowInv, FormInv, [Next]_vars,
           pending = "reOpenScript", formOpen', form.by \notin {"console", "new"}
    PROVE  form'.script = form.script
<1>1. Listed /\ ~formOpen
    BY DEF FormInv, WindowInv
<1>2. CASE ReOpenScript
    BY <1>1, <1>2, OpenedForm
       DEF Listed, ReOpenScript, RunScript, NewScript, Usable
<1>3. CASE RunScript \/ Launch \/ EditScript \/ NewScript
    BY <1>3 DEF RunScript, Launch, EditScript, NewScript, Usable
<1>4. CASE UNCHANGED <<life, window, forms, console, ScriptsList, cbIndex, items, item>>
    BY <1>4, <1>1 DEF forms
<1>5. CASE Start \/ \E s \in Scripts : StartFromConsole(s)
    BY <1>5 DEF Start, StartFromConsole, Construct
<1>6. CASE DelScript \/ CloseWindow \/ Usable
    BY <1>6, DelOutcome DEF CloseWindow, Usable
<1>7. CASE CloseForm \/ ReloadScript \/ MyshowQuits \/ MyshowReloads \/ MyshowUpdates
    BY <1>7 DEF CloseForm, ReloadScript, MyshowQuits, MyshowReloads, MyshowUpdates
<1> QED
    BY <1>2, <1>3, <1>4, <1>5, <1>6, <1>7, OtherSteps

\* A script that was opened from the list and is loaded again stays the same, whatever
\* becomes of the disk meanwhile.
THEOREM ReloadsKeepTheScript == Spec => ReloadKeepsScript
<1>1. Init => WindowInv /\ FormInv
    BY DEF Init, WindowInv, FormInv
<1>2. WindowInv /\ FormInv /\ [Next]_vars => WindowInv' /\ FormInv'
    BY WindowStep, FormStep
<1>3. WindowInv /\ FormInv /\ [Next]_vars
         => [pending = "reOpenScript" /\ formOpen' /\ form.by \notin {"console", "new"}
                => form'.script = form.script]_vars
    BY ReloadStep
<1> QED
    BY <1>1, <1>2, <1>3, PTL DEF Spec, ReloadKeepsScript

-----------------------------------------------------------------------------
(* The lists.                                                              *)

\* Titles are finitely many, and numbers; None is not one.
LEMMA TitleSets ==
    ASSUME NEW T \in SUBSET Titles
    PROVE  T \subseteq Nat /\ IsFiniteSet(T) /\ None \notin T
<1>1. TitleOf \in [Scripts -> Nat]
    BY SE2Assumption
<1>2. IsFiniteSet(Titles) /\ Titles \subseteq Nat
    <2>1. Scripts \in SUBSET Scripts /\ IsFiniteSet(Scripts)
        BY SE2Assumption
    <2>2. /\ IsFiniteSet({TitleOf[s] : s \in Scripts})
          /\ {TitleOf[s] : s \in Scripts} \subseteq Nat
        BY <1>1, <2>1, ImageFinite
    <2> QED
        BY <2>2 DEF Titles
<1>3. None \notin Titles
    BY SE2Assumption
<1> QED
    BY <1>2, <1>3, FS_Subset

\* A row stands for a title, or for none.
LEMMA TitleAtRow ==
    ASSUME NEW T \in SUBSET Titles, NEW row
    PROVE  TitleAt(T, row) \in T \cup {None}
<1>1. T \subseteq Nat /\ IsFiniteSet(T)
    BY TitleSets
<1>2. CASE row \in 1..Cardinality(T)
    <2>1. Nth(T, row) \in T
        BY <1>1, <1>2, NthOf
    <2> QED
        BY <1>2, <2>1 DEF TitleAt
<1>3. CASE row \notin 1..Cardinality(T)
    BY <1>3 DEF TitleAt
<1> QED
    BY <1>2, <1>3

LEMMA RowType ==
    ASSUME NEW T \in SUBSET Titles, NEW t \in T \cup {None}
    PROVE  RowOf(T, t) \in Nat
<1>1. T \subseteq Nat /\ IsFiniteSet(T) /\ Cardinality(T) \in Nat
    BY TitleSets, FS_CardinalityType
<1>2. t \in T => Rank(T, t) \in 1..Cardinality(T)
    BY <1>1, RankRange
<1> QED
    BY <1>1, <1>2 DEF RowOf

\* setCurrentRow undoes currentRow.
LEMMA RowRestored ==
    ASSUME NEW T \in SUBSET Titles, NEW t \in T \cup {None}
    PROVE  TitleAt(T, RowOf(T, t)) = t
<1>1. T \subseteq Nat /\ IsFiniteSet(T) /\ None \notin T /\ Cardinality(T) \in Nat
    BY TitleSets, FS_CardinalityType
<1>2. CASE t \in T
    <2> DEFINE row == Rank(T, t)
    <2>1. row \in 1..Cardinality(T) /\ Nth(T, row) = t
        BY <1>1, <1>2, RankRange, NthOfRank
    <2>2. RowOf(T, t) = row
        BY <1>1, <1>2 DEF RowOf
    <2> HIDE DEF row
    <2> QED
        BY <2>1, <2>2 DEF TitleAt
<1>3. CASE t = None
    BY <1>1, <1>3 DEF TitleAt, RowOf
<1> QED
    BY <1>2, <1>3

\* A map of scripts by title maps a title to a script that has it.
LEMMA MapByTitle ==
    ASSUME NEW found \in SUBSET Scripts
    PROVE  /\ DOMAIN ByTitle(found) = {TitleOf[s] : s \in found}
           /\ \A t \in DOMAIN ByTitle(found) :
                 ByTitle(found)[t] \in found /\ TitleOf[ByTitle(found)[t]] = t
<1>1. DOMAIN ByTitle(found) = {TitleOf[s] : s \in found}
    BY DEF ByTitle
<1>2. ASSUME NEW t \in DOMAIN ByTitle(found)
      PROVE  ByTitle(found)[t] \in found /\ TitleOf[ByTitle(found)[t]] = t
    <2> DEFINE twins == {s \in found : TitleOf[s] = t}
    <2>1. ByTitle(found)[t] = Max(twins) /\ twins # {}
        BY <1>1, <1>2 DEF ByTitle
    <2>2. twins \subseteq Nat /\ IsFiniteSet(twins)
        BY SE2Assumption, FS_Subset
    <2>3. Max(twins) \in twins
        BY <2>1, <2>2, MaxOf
    <2> QED
        BY <2>1, <2>3
<1> QED
    BY <1>1, <1>2

\* A scan finds scripts under their own titles, ...
LEMMA FoundScripts ==
    ASSUME NEW d \in SUBSET Scripts
    PROVE  Found(FindScripts(d))
<1> DEFINE F == Firsts(d)
           n == Cardinality(F)
           In(i) == Of(d, CategoryOf[Nth(F, i)])
           list == FindScripts(d)
<1>1. list = [i \in 1..n |-> ByTitle(In(i))]
    BY DEF FindScripts
<1>2. n \in Nat
    BY SE2Assumption, FS_Subset, FS_CardinalityType DEF Firsts
<1>3. \A i : In(i) \in SUBSET Scripts
    BY DEF Of
<1> HIDE DEF n, In, list
<1>4. DOMAIN list \subseteq Nat \ {0}
    BY <1>1, <1>2
<1>5. ASSUME NEW i \in DOMAIN list, NEW t \in DOMAIN list[i]
      PROVE  list[i][t] \in Scripts /\ TitleOf[list[i][t]] = t
    <2>1. list[i] = ByTitle(In(i))
        BY <1>1
    <2> QED
        BY <1>3, <2>1, MapByTitle
<1> QED
    BY <1>4, <1>5 DEF Found, list

LEMMA KeysAreTitles ==
    ASSUME NEW list, Found(list), NEW index
    PROVE  Keys(list, index) \in SUBSET Titles
BY DEF Found, Keys, Titles

\* ... and the first script that a scan finds is of the first category.
LEMMA FirstFound ==
    ASSUME NEW d \in SUBSET Scripts, d # {}
    PROVE  1 \in DOMAIN FindScripts(d) /\ TitleOf[Min(d)] \in Keys(FindScripts(d), 1)
<1> DEFINE m == Min(d)
           F == Firsts(d)
           n == Cardinality(F)
<1>1. d \subseteq Nat /\ IsFiniteSet(d) /\ F \subseteq d
    BY SE2Assumption, FS_Subset DEF Firsts
<1>2. m \in d /\ \A s \in d : m <= s
    BY <1>1, MinOf
<1> HIDE DEF m
<1>3. F \in SUBSET Nat /\ IsFiniteSet(F) /\ n \in Nat
    BY <1>1, FS_Subset, FS_CardinalityType
<1>4. m \in F
    BY <1>2 DEF Firsts, Of
<1>5. Rank(F, m) = 1
    <2>1. ASSUME NEW s \in F, s <= m
          PROVE  s = m
        <3>1. s \in Nat /\ m \in Nat /\ m <= s
            BY <1>1, <1>2
        <3> QED
            BY <2>1, <3>1
    <2>2. m \in Nat
        BY <1>1, <1>2
    <2> HIDE DEF F
    <2>3. m <= m
        BY <2>2
    <2>4. {s \in F : s <= m} \subseteq {m} /\ m \in {s \in F : s <= m}
        BY <1>4, <2>1, <2>3
    <2>5. {s \in F : s <= m} = {m}
        BY <2>4
    <2> QED
        BY <2>5, FS_Singleton DEF Rank
<1>6. 1 \in 1..n
    BY <1>3, <1>4, <1>5, RankRange
<1>7. Nth(F, 1) = m
    BY <1>3, <1>4, <1>5, NthOfRank
<1>8. FindScripts(d) = [i \in 1..n |-> ByTitle(Of(d, CategoryOf[Nth(F, i)]))]
    BY DEF FindScripts
<1> HIDE DEF F, n
<1>9. 1 \in DOMAIN FindScripts(d) /\ FindScripts(d)[1] = ByTitle(Of(d, CategoryOf[m]))
    BY <1>6, <1>7, <1>8
<1>10. TitleOf[m] \in DOMAIN ByTitle(Of(d, CategoryOf[m]))
    BY <1>2 DEF ByTitle, Of
<1> QED
    BY <1>9, <1>10 DEF Keys, m

\* The lists of a session that has just begun.
LEMMA ConstructLists ==
    ASSUME ListInv, Construct
    PROVE  ListInv'
<1> DEFINE list == FindScripts(disk)
           index == AtLeastFirst(settings.cbCurrInd)
<1>1. /\ disk' = disk /\ ScriptsList' = list /\ life' = "on"
      /\ cbIndex' = IndexAt(list, index) /\ items' = Keys(list, index)
      /\ item' = TitleAt(Keys(list, index), settings.lwCurrRow)
    BY DEF Construct
<1>2. disk \in SUBSET Scripts
    BY DEF ListInv
<1>3. Found(list)
    BY <1>2, FoundScripts
<1> HIDE DEF list, index
<1>4. Keys(list, index) \in SUBSET Titles
    BY <1>3, KeysAreTitles
<1>5. item' \in items' \cup {None}
    BY <1>1, <1>4, TitleAtRow
<1>6. cbIndex' \in DOMAIN list \cup {0} /\ (cbIndex' # 0 => cbIndex' = index)
    BY <1>1 DEF IndexAt
<1> QED
    BY <1>1, <1>2, <1>3, <1>4, <1>5, <1>6 DEF ListInv

\* The lists that updateLists fills again: also when fewer categories are left.
LEMMA UpdatedLists ==
    ASSUME ListInv, NEW d \in SUBSET Scripts, NEW index, NEW row,
           UpdateLists(d, index, row)
    PROVE  /\ Found(ScriptsList')
           /\ cbIndex' \in DOMAIN ScriptsList' \cup {0}
           /\ items' \subseteq Titles
           /\ cbIndex' # 0 => items' \subseteq Keys(ScriptsList', cbIndex')
           /\ item' \in items' \cup {None}
<1> DEFINE list == FindScripts(d)
           wanted == AtLeastFirst(index)
           fits == wanted <= Count(list) + 1
<1>1. ScriptsList' = list /\ cbIndex' = IndexAt(list, IF fits THEN wanted ELSE 1)
    BY DEF UpdateLists
<1>2. items' = CASE fits -> Keys(list, wanted)
                 [] ~fits /\ d # {} -> {TitleOf[Min(d)]}
                 [] OTHER -> items
    BY DEF UpdateLists
<1>3. \E r : item' = TitleAt(items', r)
    BY DEF UpdateLists
<1>4. Found(list)
    BY FoundScripts
<1>5. d = {} => list = <<>>
    <2>1. ASSUME d = {} PROVE Firsts(d) = {}
        BY <2>1 DEF Firsts
    <2>2. ASSUME d = {} PROVE Cardinality(Firsts(d)) = 0
        BY <2>1, <2>2, FS_EmptySet
    <2> QED
        BY <2>2 DEF FindScripts
<1>6. d # {} => 1 \in DOMAIN list /\ TitleOf[Min(d)] \in Keys(list, 1)
    BY FirstFound
<1> HIDE DEF list, wanted, fits
<1>7. Keys(list, wanted) \in SUBSET Titles /\ Keys(list, 1) \in SUBSET Titles
    BY <1>4, KeysAreTitles
<1>8. cbIndex' \in DOMAIN list \cup {0}
    BY <1>1 DEF IndexAt
<1>9. CASE fits
    <2>1. items' = Keys(list, wanted) /\ (cbIndex' # 0 => cbIndex' = wanted)
        BY <1>1, <1>2, <1>9 DEF IndexAt
    <2>2. items' \in SUBSET Titles
        BY <1>7, <2>1
    <2>3. item' \in items' \cup {None}
        BY <1>3, <2>2, TitleAtRow
    <2> QED
        BY <1>1, <1>4, <1>8, <2>1, <2>2, <2>3
<1>10. CASE ~fits /\ d # {}
    <2>1. items' = {TitleOf[Min(d)]} /\ cbIndex' = 1
        BY <1>1, <1>2, <1>6, <1>10 DEF IndexAt
    <2>2. items' \subseteq Keys(list, 1) /\ items' \in SUBSET Titles
        BY <1>6, <1>7, <1>10, <2>1
    <2>3. item' \in items' \cup {None}
        BY <1>3, <2>2, TitleAtRow
    <2> QED
        BY <1>1, <1>4, <1>8, <2>1, <2>2, <2>3
<1>11. CASE ~fits /\ d = {}
    <2>1. items' = items /\ cbIndex' = 0
        BY <1>1, <1>2, <1>5, <1>11 DEF IndexAt
    <2>2. items' \in SUBSET Titles
        BY <2>1 DEF ListInv
    <2>3. item' \in items' \cup {None}
        BY <1>3, <2>2, TitleAtRow
    <2> QED
        BY <1>1, <1>4, <1>8, <2>1, <2>2, <2>3
<1> QED
    BY <1>9, <1>10, <1>11

\* The end of a session saves the current category and row.
LEMMA OpeningLists ==
    ASSUME ListInv, NEW s, NEW by,
           LoadScript(s, by) \/ Crash,
           UNCHANGED <<disk, ScriptsList, cbIndex, items, item>>
    PROVE  ListInv'
<1>1. /\ disk' \subseteq Scripts /\ Found(ScriptsList')
      /\ cbIndex' \in DOMAIN ScriptsList' \cup {0}
      /\ items' \subseteq Titles
      /\ cbIndex' # 0 => items' \subseteq Keys(ScriptsList', cbIndex')
      /\ item' \in items' \cup {None}
    BY DEF ListInv
<1>2. RowOf(items, item)' = RowOf(items, item)
    BY DEF RowOf, Rank
<1>3. \/ life' = life /\ settings' = settings
      \/ life' = "crashed"
      \/ settings' = [cbCurrInd |-> cbIndex, lwCurrRow |-> RowOf(items, item)]
    BY DEF LoadScript, Crash, Quit
<1> QED
    BY <1>1, <1>2, <1>3 DEF ListInv

\* What myshow goes back to.
LEMMA ShownLists ==
    ASSUME ListInv
    PROVE  /\ ShownIndex \in DOMAIN ScriptsList \cup {0}
           /\ ShownItems \in SUBSET Titles
           /\ ShownIndex # 0 => ShownItems \subseteq Keys(ScriptsList, ShownIndex)
           /\ ShownItem \in ShownItems \cup {None}
<1>1. CASE FirstShown
    <2>1. Keys(ScriptsList, 1) \in SUBSET Titles
        BY KeysAreTitles DEF ListInv
    <2>2. ShownItem \in ShownItems \cup {None}
        BY <1>1, <2>1, TitleAtRow DEF ShownItem, ShownItems
    <2> QED
        BY <1>1, <2>1, <2>2 DEF ShownIndex, ShownItems, FirstShown
<1>2. CASE ~FirstShown
    BY <1>2 DEF ListInv, ShownIndex, ShownItems, ShownItem
<1> QED
    BY <1>1, <1>2

LEMMA ListStep ==
    ASSUME ListInv, WindowInv, [Next]_vars
    PROVE  ListInv'
<1>1. CASE RunScript \/ Launch \/ EditScript \/ NewScript \/ ReOpenScript
    <2>1. UNCHANGED <<disk, ScriptsList, cbIndex, items, item>>
        BY <1>1 DEF RunScript, Launch, EditScript, NewScript, ReOpenScript, lists
    <2>2. CASE UNCHANGED <<life, settings>>
        <3>1. RowOf(items, item)' = RowOf(items, item)
            BY <2>1 DEF RowOf, Rank
        <3> QED
            BY <2>1, <2>2, <3>1 DEF ListInv
    <2>3. \/ UNCHANGED <<life, settings>>
          \/ \E s, by : LoadScript(s, by)
          \/ Crash
        BY <1>1 DEF RunScript, Launch, EditScript, NewScript, ReOpenScript, OpenCurrent
    <2> QED
        BY <2>1, <2>2, <2>3, OpeningLists
<1>2. CASE Start \/ \E s \in Scripts : StartFromConsole(s)
    BY <1>2, ConstructLists DEF Start, StartFromConsole
<1>3. CASE DelScript
    <2>1. CASE Crash /\ UNCHANGED <<disk, lists>>
        BY <2>1, OpeningLists DEF lists
    <2>2. CASE /\ disk' = disk \ {Value(item)} \/ disk' = disk
               /\ UpdateLists(disk', cbIndex, RowOf(items, item))
               /\ UNCHANGED life
        <3>1. disk' \in SUBSET Scripts
            BY <2>2 DEF ListInv
        <3>2. life' = "on"
            BY <1>3, <2>2 DEF DelScript, Usable, WindowInv
        <3> QED
            BY <2>2, <3>1, <3>2, UpdatedLists DEF ListInv
    <2> QED
        BY <1>3, <2>1, <2>2 DEF DelScript
<1>4. CASE MyshowUpdates
    <2>1. disk \in SUBSET Scripts /\ life' = "on" /\ disk' = disk
        BY <1>4 DEF ListInv, MyshowUpdates, WindowInv
    <2> QED
        BY <1>4, <2>1, UpdatedLists DEF ListInv, MyshowUpdates
<1>5. CASE ShowFirst /\ disk' = disk
           /\ (life' = "on" \/ settings' = [cbCurrInd |-> ShownIndex, lwCurrRow |-> ShownRow])
    <2>1. /\ cbIndex' = ShownIndex /\ items' = ShownItems /\ item' = ShownItem
          /\ ScriptsList' = ScriptsList
        BY <1>5 DEF ShowFirst
    <2>2. /\ ShownIndex \in DOMAIN ScriptsList \cup {0}
          /\ ShownItems \in SUBSET Titles
          /\ ShownIndex # 0 => ShownItems \subseteq Keys(ScriptsList, ShownIndex)
          /\ ShownItem \in ShownItems \cup {None}
        BY ShownLists
    <2>3. RowOf(items, item)' = ShownRow
        BY <2>1 DEF RowOf, Rank, ShownRow
    <2>4. Found(ScriptsList') /\ disk' \subseteq Scripts
        BY <1>5, <2>1 DEF ListInv
    <2> QED
        BY <1>5, <2>1, <2>2, <2>3, <2>4 DEF ListInv
<1>6. CASE MyshowQuits \/ MyshowReloads
    BY <1>5, <1>6 DEF MyshowQuits, MyshowReloads, Quit, WindowInv
<1>7. CASE CloseWindow
    <2>1. RowOf(items, item)' = RowOf(items, item)
        BY <1>7 DEF CloseWindow, lists, RowOf, Rank
    <2> QED
        BY <1>7, <2>1 DEF ListInv, CloseWindow, Quit, lists
<1>8. ASSUME UNCHANGED <<settings, life, lists>>, disk' \subseteq Scripts
      PROVE  ListInv'
    <2>1. RowOf(items, item)' = RowOf(items, item)
        BY <1>8 DEF lists, RowOf, Rank
    <2> QED
        BY <1>8, <2>1 DEF ListInv, lists
<1>9. CASE CloseForm \/ ReloadScript
    BY <1>8, <1>9 DEF CloseForm, ReloadScript, ListInv
<1>10. ASSUME NEW s \in Scripts, DiskChanges(s)
       PROVE  ListInv'
    BY <1>8, <1>10 DEF DiskChanges, ListInv
<1>11. ASSUME life' = "on", UNCHANGED <<disk, ScriptsList>>,
              cbIndex' \in DOMAIN ScriptsList \cup {0}, items' \in SUBSET Titles,
              cbIndex' # 0 => items' \subseteq Keys(ScriptsList, cbIndex'),
              item' \in items' \cup {None}
       PROVE  ListInv'
    BY <1>11 DEF ListInv
<1>12. ASSUME NEW index \in DOMAIN ScriptsList, SelectCategory(index)
       PROVE  ListInv'
    <2>1. Keys(ScriptsList, index) \in SUBSET Titles
        BY KeysAreTitles DEF ListInv
    <2>2. items' = Keys(ScriptsList, index) /\ item' = TitleAt(items', 1) /\ cbIndex' = index
        BY <1>12 DEF SelectCategory
    <2>3. item' \in items' \cup {None}
        BY <2>1, <2>2, TitleAtRow
    <2> QED
        BY <1>11, <1>12, <2>1, <2>2, <2>3 DEF SelectCategory, Usable, WindowInv
<1>13. ASSUME NEW t \in items, SelectItem(t)
       PROVE  ListInv'
    BY <1>11, <1>13 DEF SelectItem, Usable, WindowInv, ListInv
<1>14. CASE FocusIn
    <2>1. items \in SUBSET Titles /\ items' = items /\ item' = TitleAt(items, 1)
        BY <1>14 DEF FocusIn, ListInv
    <2>2. item' \in items' \cup {None}
        BY <2>1, TitleAtRow
    <2> QED
        BY <1>11, <1>14, <2>1, <2>2 DEF FocusIn, Usable, WindowInv, ListInv
<1>15. CASE UNCHANGED vars
    BY <1>8, <1>15 DEF vars, ListInv
<1> QED
    BY <1>1, <1>2, <1>3, <1>4, <1>6, <1>7, <1>9, <1>10, <1>12, <1>13, <1>14, <1>15, NextCases

LEMMA WindowInit ==
    ASSUME Init
    PROVE  WindowInv
BY DEF Init, WindowInv

LEMMA ListInit ==
    ASSUME Init
    PROVE  ListInv
BY DEF Init, ListInv, Found

LEMMA RestartStep ==
    ASSUME ListInv, WindowInv, [Next]_vars,
           life = "off", life' = "on",
           ScriptsList' = ScriptsList, cbIndex # 0, items = Keys(ScriptsList, cbIndex)
    PROVE  cbIndex' = cbIndex /\ items' = items /\ item' = item
<1>1. Construct
    BY OtherSteps DEF WindowInv, RunScript, Launch, EditScript, NewScript, ReOpenScript, Usable,
       DelScript, CloseWindow, CloseForm, ReloadScript, MyshowQuits, MyshowReloads,
       MyshowUpdates, Start, StartFromConsole
<1>2. settings = [cbCurrInd |-> cbIndex, lwCurrRow |-> RowOf(items, item)]
    BY DEF ListInv
<1>3. cbIndex \in DOMAIN ScriptsList /\ items \subseteq Titles /\ item \in items \cup {None}
    BY DEF ListInv, Keys
<1>4. cbIndex' = cbIndex /\ items' = items
    BY <1>1, <1>2, <1>3 DEF Construct, AtLeastFirst, IndexAt
<1>5. item' = TitleAt(items, RowOf(items, item))
    BY <1>1, <1>2, <1>4 DEF Construct
<1> QED
    BY <1>3, <1>4, <1>5, RowRestored

\* A session that ended well is continued when a scan finds the same: for any scripts,
\* titles and categories.
THEOREM SessionsAreContinued == Spec => RestartKeepsSelection
<1>1. Init => WindowInv /\ ListInv
    BY WindowInit, ListInit
<1>2. WindowInv /\ ListInv /\ [Next]_vars => WindowInv' /\ ListInv'
    BY WindowStep, ListStep
<1>3. WindowInv /\ ListInv /\ [Next]_vars
         => [/\ life = "off" /\ life' = "on"
             /\ ScriptsList' = ScriptsList /\ cbIndex # 0 /\ items = Keys(ScriptsList, cbIndex)
             => cbIndex' = cbIndex /\ items' = items /\ item' = item]_vars
    BY RestartStep
<1> QED
    BY <1>1, <1>2, <1>3, PTL DEF Spec, RestartKeepsSelection
-----------------------------------------------------------------------------
\* Every title that is shown stands for a script of the category that is shown and has
\* that title: also after scripts and categories have vanished from the disk.
THEOREM ShownTitlesAreListed == Spec => []ShownIsListed
<1>1. Init => WindowInv /\ ListInv
    BY WindowInit, ListInit
<1>2. WindowInv /\ ListInv /\ [Next]_vars => WindowInv' /\ ListInv'
    BY WindowStep, ListStep
<1>3. ListInv => ShownIsListed
    BY DEF ListInv, Found, Keys, ShownIsListed
<1> QED
    BY <1>1, <1>2, <1>3, PTL DEF Spec

\* What the types of the lists leave to say.
RestType ==
    /\ settings \in [cbCurrInd : Nat, lwCurrRow : Nat]
    /\ life \in {"off", "on", "crashed"}
    /\ visible \in BOOLEAN /\ isNewScr \in BOOLEAN /\ bReloadScript \in BOOLEAN
    /\ pending \in {"none", "runScript", "myshow", "reOpenScript"}
    /\ isRunFromConsole_ \in BOOLEAN /\ scriptPath_ \in Scripts \cup {None}
    /\ canEdit \in BOOLEAN
    /\ formOpen \in BOOLEAN /\ failed \in BOOLEAN
    /\ form \in [script : Scripts \cup {None}, edit : BOOLEAN, by : Requests]

LEMMA TypeSplit ==
    ASSUME ListInv, RestType
    PROVE  TypeOK
<1>1. \A i \in DOMAIN ScriptsList :
          /\ DOMAIN ScriptsList[i] \subseteq Titles
          /\ \A t \in DOMAIN ScriptsList[i] : ScriptsList[i][t] \in Scripts
    BY DEF ListInv, Found, Titles
<1> QED
    BY <1>1 DEF ListInv, RestType, TypeOK

LEMMA NoFormType == NoForm \in [script : Scripts \cup {None}, edit : BOOLEAN, by : Requests]
BY DEF NoForm, Requests

LEMMA RestInit ==
    ASSUME Init
    PROVE  RestType
BY NoFormType DEF Init, RestType

\* What is saved at the end of a session.
LEMMA SavedType ==
    ASSUME ListInv
    PROVE  /\ [cbCurrInd |-> cbIndex, lwCurrRow |-> RowOf(items, item)]
                  \in [cbCurrInd : Nat, lwCurrRow : Nat]
           /\ [cbCurrInd |-> ShownIndex, lwCurrRow |-> ShownRow]
                  \in [cbCurrInd : Nat, lwCurrRow : Nat]
<1>1. DOMAIN ScriptsList \subseteq Nat
    BY DEF ListInv, Found
<1>2. cbIndex \in Nat /\ ShownIndex \in Nat
    BY <1>1, ShownLists DEF ListInv
<1>3. RowOf(items, item) \in Nat
    BY RowType DEF ListInv
<1>4. ShownRow \in Nat
    BY ShownLists, RowType DEF ShownRow
<1> QED
    BY <1>2, <1>3, <1>4

LEMMA ConstructType ==
    ASSUME RestType, Construct
    PROVE  /\ UNCHANGED settings /\ life' = "on"
           /\ isNewScr' \in BOOLEAN /\ bReloadScript' \in BOOLEAN /\ canEdit' \in BOOLEAN
           /\ formOpen' \in BOOLEAN /\ failed' \in BOOLEAN /\ form' = NoForm
BY DEF Construct

LEMMA UpdateType ==
    ASSUME NEW d, NEW index, NEW row, UpdateLists(d, index, row)
    PROVE  canEdit' \in BOOLEAN /\ isNewScr' \in BOOLEAN /\ failed' \in BOOLEAN
BY DEF UpdateLists

\* Scripts that are loaded, or fail to load.
LEMMA LoadType ==
    ASSUME ListInv, RestType, NEW s \in Scripts \cup {None}, NEW by \in Requests,
           LoadScript(s, by), isNewScr' \in BOOLEAN, UNCHANGED <<bReloadScript, console, canEdit>>
    PROVE  RestType'
<1>1. /\ pending' = "none" /\ bReloadScript' \in BOOLEAN /\ canEdit' \in BOOLEAN
      /\ isRunFromConsole_' \in BOOLEAN /\ scriptPath_' \in Scripts \cup {None}
    BY DEF LoadScript, RestType, console
<1>2. CASE /\ formOpen' = TRUE /\ form' = [script |-> s, edit |-> isNewScr', by |-> by]
           /\ visible' = FALSE /\ UNCHANGED <<life, settings, failed>>
    <2>1. form' \in [script : Scripts \cup {None}, edit : BOOLEAN, by : Requests]
        BY <1>2
    <2> QED
        BY <1>1, <1>2, <2>1 DEF RestType
<1>3. CASE failed' = TRUE /\ UNCHANGED <<life, settings, visible, formOpen, form>>
    BY <1>1, <1>3 DEF RestType
<1>4. CASE /\ failed' = TRUE /\ Quit(cbIndex, RowOf(items, item))
           /\ UNCHANGED <<formOpen, form>>
    <2>1. settings' \in [cbCurrInd : Nat, lwCurrRow : Nat] /\ life' = "off" /\ visible' = FALSE
        BY <1>4, SavedType DEF Quit
    <2> QED
        BY <1>1, <1>4, <2>1 DEF RestType
<1> QED
    BY <1>2, <1>3, <1>4 DEF LoadScript

LEMMA CrashType ==
    ASSUME RestType, Crash, isNewScr' \in BOOLEAN, UNCHANGED <<bReloadScript, console, canEdit>>
    PROVE  RestType'
BY DEF RestType, Crash, console

LEMMA OpenType ==
    ASSUME ListInv, RestType, NEW by \in Requests, OpenCurrent(by), isNewScr' \in BOOLEAN,
           UNCHANGED <<bReloadScript, console, canEdit>>
    PROVE  RestType'
<1>1. ASSUME cbIndex # 0 PROVE Value(item) \in Scripts \cup {None}
    BY <1>1 DEF Value, ListInv, Found
<1> QED
    BY <1>1, LoadType, CrashType DEF OpenCurrent

LEMMA TypeStep ==
    ASSUME ListInv, RestType, [Next]_vars
    PROVE  RestType'
<1>1. ASSUME UNCHANGED <<settings, life, window, forms, console, canEdit>>
      PROVE  RestType'
    BY <1>1 DEF RestType, window, forms, console
<1>2. ASSUME NEW s \in Scripts, StartFromConsole(s)
      PROVE  RestType'
    BY <1>2, ConstructType, NoFormType DEF StartFromConsole, RestType
<1>3. CASE Start
    BY <1>3, ConstructType, NoFormType DEF Start, RestType
<1>4. CASE RunScript
    <2>1. isNewScr' \in BOOLEAN /\ UNCHANGED <<bReloadScript, console, canEdit>>
        BY <1>4 DEF RunScript, lists, RestType
    <2>2. CASE LoadScript(scriptPath_, "console")
        BY <2>1, <2>2, LoadType DEF RestType, Requests
    <2>3. CASE pending' = "none" /\ UNCHANGED <<life, settings, visible, forms>>
        BY <2>1, <2>3 DEF RestType, console, forms
    <2> QED
        BY <1>4, <2>2, <2>3 DEF RunScript
<1>5. CASE Launch
    <2>1. isNewScr' \in BOOLEAN /\ UNCHANGED <<bReloadScript, console, canEdit>>
        BY <1>5 DEF Launch, lists, RestType
    <2> QED
        BY <1>5, <2>1, OpenType DEF Launch, Requests
<1>6. CASE EditScript
    <2>1. isNewScr' \in BOOLEAN /\ UNCHANGED <<bReloadScript, console, canEdit>>
        BY <1>6 DEF EditScript, lists
    <2> QED
        BY <1>6, <2>1, OpenType DEF EditScript, Requests
<1>7. CASE NewScript
    <2>1. isNewScr' \in BOOLEAN /\ UNCHANGED <<bReloadScript, console, canEdit>>
        BY <1>7 DEF NewScript, lists
    <2> QED
        BY <1>7, <2>1, LoadType DEF NewScript, Requests
<1>8. CASE ReOpenScript
    <2>1. isNewScr' \in BOOLEAN /\ UNCHANGED <<bReloadScript, console, canEdit>>
        BY <1>8 DEF ReOpenScript, lists, RestType
    <2> QED
        BY <1>8, <2>1, OpenType DEF ReOpenScript, Requests
<1>9. CASE DelScript
    <2>1. UNCHANGED <<bReloadScript, console>>
        BY <1>9 DEF DelScript
    <2>2. CASE /\ UpdateLists(disk', cbIndex, RowOf(items, item))
               /\ UNCHANGED <<settings, life, visible, pending, formOpen, form>>
        BY <2>1, <2>2, UpdateType DEF RestType, console
    <2>3. CASE Crash /\ UNCHANGED <<disk, lists, isNewScr>>
        <3>1. isNewScr' \in BOOLEAN /\ UNCHANGED canEdit
            BY <2>3 DEF lists, RestType
        <3> QED
            BY <2>1, <2>3, <3>1, CrashType
    <2> QED
        BY <1>9, <2>2, <2>3 DEF DelScript
<1>10. ASSUME \/ \E s \in Scripts : DiskChanges(s)
              \/ \E index \in DOMAIN ScriptsList : SelectCategory(index)
              \/ \E t \in items : SelectItem(t)
              \/ FocusIn \/ UNCHANGED vars
       PROVE  RestType'
    BY <1>1, <1>10 DEF DiskChanges, SelectCategory, SelectItem, FocusIn, vars, lists
<1>11. CASE CloseWindow
    <2>1. settings' \in [cbCurrInd : Nat, lwCurrRow : Nat] /\ life' = "off" /\ visible' = FALSE
        BY <1>11, SavedType DEF CloseWindow, Quit
    <2> QED
        BY <1>11, <2>1 DEF CloseWindow, RestType, lists, forms, console
<1>12. CASE CloseForm \/ ReloadScript
    BY <1>12 DEF CloseForm, ReloadScript, RestType, lists, console
<1>13. CASE MyshowQuits
    <2>1. settings' \in [cbCurrInd : Nat, lwCurrRow : Nat] /\ life' = "off" /\ visible' = FALSE
        BY <1>13, SavedType DEF MyshowQuits, Quit
    <2> QED
        BY <1>13, <2>1 DEF MyshowQuits, ShowFirst, RestType, forms, console
<1>14. CASE MyshowReloads
    BY <1>14 DEF MyshowReloads, ShowFirst, RestType, console
<1>15. CASE MyshowUpdates
    BY <1>15, UpdateType DEF MyshowUpdates, RestType, console
<1> QED
    BY <1>2, <1>3, <1>4, <1>5, <1>6, <1>7, <1>8, <1>9, <1>10, <1>11, <1>12, <1>13, <1>14,
       <1>15, NextCases

\* Every variable has its type: the registry keeps numbers, a list maps titles to scripts,
\* what is current is one of the titles shown, and a form has one of the scripts or none.
THEOREM TypesHold == Spec => []TypeOK
<1>1. Init => WindowInv /\ ListInv /\ RestType
    BY WindowInit, ListInit, RestInit
<1>2. WindowInv /\ ListInv /\ RestType /\ [Next]_vars => WindowInv' /\ ListInv' /\ RestType'
    BY WindowStep, ListStep, TypeStep
<1>3. ListInv /\ RestType => TypeOK
    BY TypeSplit
<1> QED
    BY <1>1, <1>2, <1>3, PTL DEF Spec
=============================================================================
