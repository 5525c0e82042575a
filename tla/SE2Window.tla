----------------------------- MODULE SE2Window -----------------------------
(***************************************************************************)
(* The main window of SE2, the predecessor of SE3 (SE2/SE2/se2.cpp): a     *)
(* combobox of categories, the list of the scripts of one of them, and the *)
(* plugin's form that a script is shown, run or edited in, while the       *)
(* window is hidden.  SE2 is also started from a console, to run one       *)
(* script without showing the window.                                      *)
(*                                                                         *)
(* Handlers run on one thread, each from start to end, and an event posted *)
(* by one of them comes before the next input of the user.  (myshow lets   *)
(* events be handled at its start: the window is hidden then and none of   *)
(* its own is posted, so that no handler comes in between.)  Scripts       *)
(* appear on the disk and vanish from it at any time.  Positions count     *)
(* from 1, in the combobox, in the list and in ScriptsList, and 0 stands   *)
(* for -1.                                                                 *)
(***************************************************************************)
EXTENDS Ranks, FiniteSetsExt

CONSTANTS
    Scripts,        \* script files, numbered in the order a scan finds them
    TitleOf,        \* TitleOf[s]: the title in s's header, numbered in QString order
    CategoryOf,     \* CategoryOf[s]: the category in s's header
    Untitled,       \* scripts whose title is blank
    Faults,         \* what may fail: "plugin" to load, "form" to appear, "remove" of a script
    None            \* no script, no title

Titles == {TitleOf[s] : s \in Scripts}

ASSUME SE2Assumption ==
    /\ Scripts \subseteq Nat
    /\ IsFiniteSet(Scripts)
    /\ TitleOf \in [Scripts -> Nat]
    /\ Untitled \subseteq Scripts
    /\ Faults \subseteq {"plugin", "form", "remove"}
    /\ None \notin Scripts \cup Titles

VARIABLES
    disk,               \* the scripts that exist
    settings,           \* cbCurrInd and lwCurrRow of the registry
    life,               \* of the program: "off", "on", "crashed"
    visible,            \* the window is shown
    isRunFromConsole_,
    scriptPath_,        \* the script to run from the console
    pending,            \* the posted event to handle next
    ScriptsList,        \* for each category, its scripts by title
    cbIndex,            \* the current category
    items,              \* the titles in lwOperations
    item,               \* the current one
    canEdit,            \* tbEditScript and tbDelScript are enabled
    isNewScr,
    bReloadScript,
    formOpen,
    form,               \* the last form: its script, its mode, who asked for it
    failed              \* a script has failed to load since the lists were updated

lists == <<ScriptsList, cbIndex, items, item, canEdit>>
window == <<visible, isNewScr, bReloadScript, pending>>
forms == <<formOpen, form, failed>>
console == <<isRunFromConsole_, scriptPath_>>
vars == <<disk, settings, life, lists, window, forms, console>>

Requests == {"launch", "edit", "new", "console", "reload"}

TypeOK ==
    /\ disk \subseteq Scripts
    /\ settings \in [cbCurrInd : Nat, lwCurrRow : Nat]
    /\ life \in {"off", "on", "crashed"}
    /\ visible \in BOOLEAN /\ isNewScr \in BOOLEAN /\ bReloadScript \in BOOLEAN
    /\ pending \in {"none", "runScript", "myshow", "reOpenScript"}
    /\ isRunFromConsole_ \in BOOLEAN /\ scriptPath_ \in Scripts \cup {None}
    /\ \A i \in DOMAIN ScriptsList :
          /\ DOMAIN ScriptsList[i] \subseteq Titles
          /\ \A t \in DOMAIN ScriptsList[i] : ScriptsList[i][t] \in Scripts
    /\ cbIndex \in DOMAIN ScriptsList \cup {0}
    /\ items \subseteq Titles
    /\ item \in items \cup {None}
    /\ canEdit \in BOOLEAN
    /\ formOpen \in BOOLEAN /\ failed \in BOOLEAN
    /\ form \in [script : Scripts \cup {None}, edit : BOOLEAN, by : Requests]
-----------------------------------------------------------------------------
(* The lists.                                                              *)

Of(d, c) == {s \in d : CategoryOf[s] = c}

\* The scripts that are the first of their category in a scan.
Firsts(d) == {s \in d : \A e \in Of(d, CategoryOf[s]) : s <= e}

\* A map from titles to scripts: of two scripts with one title the later one stays.
ByTitle(found) ==
    [t \in {TitleOf[s] : s \in found} |-> Max({s \in found : TitleOf[s] = t})]

\* FindScripts with getScriptHeader: the categories in the order in which a scan finds
\* their first scripts.
FindScripts(d) ==
    [i \in 1..Cardinality(Firsts(d)) |-> ByTitle(Of(d, CategoryOf[Nth(Firsts(d), i)]))]

Count(list) == Cardinality(DOMAIN list)

\* The titles under a position of the combobox, if there is such a position.
Keys(list, index) == IF index \in DOMAIN list THEN DOMAIN list[index] ELSE {}

\* setCurrentRow: no title is current if there is no such row.
TitleAt(titles, row) == IF row \in 1..Cardinality(titles) THEN Nth(titles, row) ELSE None

\* lwOperations shows its titles in order.
RowOf(titles, t) == IF t = None THEN 0 ELSE Rank(titles, t)

\* Mutant: the position is not checked.
IndexAt_Any(list, index) == index

\* setCurrentIndex: no category is current if there is no such position.
IndexAt(list, index) == IF index \in DOMAIN list THEN index ELSE 0

AtLeastFirst(index) == IF index = 0 THEN 1 ELSE index

\* updateLists, when that position and that row were current: one past the last is still
\* taken for a position, and for a row.  If fewer categories are left, the list keeps what
\* it showed when the first of them was added.
UpdateLists(d, index, row) ==
    LET list == FindScripts(d)
        wanted == AtLeastFirst(index)
        fits == wanted <= Count(list) + 1
        titles == CASE fits -> Keys(list, wanted)
                    [] ~fits /\ d # {} -> {TitleOf[Min(d)]}
                    [] OTHER -> items
    IN  /\ ScriptsList' = list
        /\ cbIndex' = IndexAt(list, IF fits THEN wanted ELSE 1)
        /\ items' = titles
        /\ item' = TitleAt(titles, IF row <= Cardinality(titles) + 1 THEN row ELSE 1)
        /\ canEdit' = (titles # {})
        /\ isNewScr' = FALSE
        /\ failed' = FALSE
-----------------------------------------------------------------------------
NoForm == [script |-> None, edit |-> FALSE, by |-> "new"]

Init ==
    /\ disk \in SUBSET Scripts
    /\ settings = [cbCurrInd |-> 1, lwCurrRow |-> 1]
    /\ life = "off"
    /\ visible = FALSE /\ isNewScr = FALSE /\ bReloadScript = FALSE /\ pending = "none"
    /\ ScriptsList = <<>> /\ cbIndex = 0 /\ items = {} /\ item = None /\ canEdit = FALSE
    /\ formOpen = FALSE /\ failed = FALSE
    /\ form = NoForm
    /\ isRunFromConsole_ = FALSE /\ scriptPath_ = None

\* Anybody adds or removes a script, the plugin's form too.
DiskChanges(s) ==
    /\ disk' = IF s \in disk THEN disk \ {s} ELSE disk \cup {s}
    /\ UNCHANGED <<settings, life, lists, window, forms, console>>

\* Mutant: the row is restored before the category.
Construct_RowFirst ==
    LET list == FindScripts(disk)
        index == AtLeastFirst(settings.cbCurrInd)
    IN  /\ life' = "on"
        /\ ScriptsList' = list
        /\ cbIndex' = IndexAt(list, index)
        /\ items' = Keys(list, index)
        /\ item' = TitleAt(Keys(list, index), 1)
        /\ canEdit' = (list # <<>>)
        /\ isNewScr' = FALSE /\ bReloadScript' = FALSE
        /\ formOpen' = FALSE /\ form' = NoForm /\ failed' = FALSE
        /\ UNCHANGED <<disk, settings>>

\* The constructor: updateLists enables the buttons for the first category, then the
\* category and the row of the last session are current.
Construct ==
    LET list == FindScripts(disk)
        index == AtLeastFirst(settings.cbCurrInd)
    IN  /\ life' = "on"
        /\ ScriptsList' = list
        /\ cbIndex' = IndexAt(list, index)
        /\ items' = Keys(list, index)
        /\ item' = TitleAt(Keys(list, index), settings.lwCurrRow)
        /\ canEdit' = (list # <<>>)
        /\ isNewScr' = FALSE /\ bReloadScript' = FALSE
        /\ formOpen' = FALSE /\ form' = NoForm /\ failed' = FALSE
        /\ UNCHANGED <<disk, settings>>

Start ==
    /\ life # "on"
    /\ Construct
    /\ visible' = TRUE /\ pending' = "none"
    /\ isRunFromConsole_' = FALSE /\ scriptPath_' = None

\* main with a script as argument: the window is not shown.
StartFromConsole(s) ==
    /\ life # "on" /\ s \in disk
    /\ Construct
    /\ visible' = FALSE /\ pending' = "runScript"
    /\ isRunFromConsole_' = TRUE /\ scriptPath_' = s

\* The last window is closed; the destructor saves what is current.
Quit(index, row) ==
    /\ life' = "off"
    /\ settings' = [cbCurrInd |-> index, lwCurrRow |-> row]
    /\ visible' = FALSE
-----------------------------------------------------------------------------
(* Loading a script.                                                       *)

\* loadScript.  The message that the plugin cannot be loaded is the last window to be
\* closed if SE2's own is not shown.
LoadScript(s, by) ==
    /\ pending' = "none"
    /\ \/ /\ formOpen' = TRUE
          /\ form' = [script |-> s, edit |-> isNewScr', by |-> by]
          /\ visible' = FALSE
          /\ UNCHANGED <<life, settings, failed>>
       \/ /\ "plugin" \in Faults
          /\ failed' = TRUE
          /\ \/ visible /\ UNCHANGED <<life, settings, visible>>
             \/ ~visible /\ Quit(cbIndex, RowOf(items, item))
          /\ UNCHANGED <<formOpen, form>>
       \/ /\ "form" \in Faults
          /\ failed' = TRUE
          /\ UNCHANGED <<life, settings, visible, formOpen, form>>

\* A null item, or a position that ScriptsList does not have, is used.
Crash ==
    /\ life' = "crashed"
    /\ visible' = FALSE /\ pending' = "none" /\ formOpen' = FALSE
    /\ UNCHANGED <<settings, form, failed>>

Value(title) ==
    IF title \in DOMAIN ScriptsList[cbIndex] THEN ScriptsList[cbIndex][title] ELSE None

\* on_lwOperations_itemDoubleClicked with the current item.
OpenCurrent(by) ==
    \/ item # None /\ cbIndex # 0 /\ LoadScript(Value(item), by)
    \/ (item = None \/ cbIndex = 0) /\ Crash

RunScript ==
    /\ pending = "runScript"
    /\ UNCHANGED <<disk, lists, isNewScr, bReloadScript, console>>
    /\ \/ scriptPath_ \notin Untitled /\ LoadScript(scriptPath_, "console")
       \/ /\ scriptPath_ \in Untitled
          /\ pending' = "none"
          /\ UNCHANGED <<life, settings, visible, forms>>
-----------------------------------------------------------------------------
(* The user's input.                                                       *)

Usable == visible /\ pending = "none"

\* The button, the Enter key, or a double click on the current item.
Launch ==
    /\ Usable
    /\ UNCHANGED <<disk, lists, isNewScr, bReloadScript, console>>
    /\ OpenCurrent("launch")

EditScript ==
    /\ Usable /\ canEdit
    /\ isNewScr' = TRUE
    /\ OpenCurrent("edit")
    /\ UNCHANGED <<disk, lists, bReloadScript, console>>

NewScript ==
    /\ Usable
    /\ isNewScr' = TRUE
    /\ LoadScript(None, "new")
    /\ UNCHANGED <<disk, lists, bReloadScript, console>>

\* After the user has confirmed; the file may refuse to be removed.
DelScript ==
    /\ Usable /\ canEdit
    /\ \/ /\ item # None /\ cbIndex # 0
          /\ disk' = disk \ {Value(item)} \/ ("remove" \in Faults /\ disk' = disk)
          /\ UpdateLists(disk', cbIndex, RowOf(items, item))
          /\ UNCHANGED <<settings, life, visible, pending, formOpen, form>>
       \/ /\ item = None \/ cbIndex = 0
          /\ Crash
          /\ UNCHANGED <<disk, lists, isNewScr>>
    /\ UNCHANGED <<bReloadScript, console>>

\* Mutant: the list is not cleared before the titles are added.
SelectCategory_Adds(index) ==
    /\ Usable
    /\ index # cbIndex
    /\ cbIndex' = index
    /\ items' = items \cup Keys(ScriptsList, index)
    /\ item' = TitleAt(items', 1)
    /\ UNCHANGED <<disk, settings, life, ScriptsList, canEdit, window, forms, console>>

SelectCategory(index) ==
    /\ Usable
    /\ index # cbIndex
    /\ cbIndex' = index
    /\ items' = Keys(ScriptsList, index)
    /\ item' = TitleAt(items', 1)
    /\ UNCHANGED <<disk, settings, life, ScriptsList, canEdit, window, forms, console>>

SelectItem(t) ==
    /\ Usable
    /\ item' = t
    /\ UNCHANGED <<disk, settings, life, ScriptsList, cbIndex, items, canEdit, window, forms,
                   console>>

\* A list that gets the focus and has no current item makes the first one current.
FocusIn ==
    /\ Usable /\ item = None
    /\ item' = TitleAt(items, 1)
    /\ UNCHANGED <<disk, settings, life, ScriptsList, cbIndex, items, canEdit, window, forms,
                   console>>

CloseWindow ==
    /\ Usable
    /\ Quit(cbIndex, RowOf(items, item))
    /\ UNCHANGED <<disk, lists, isNewScr, bReloadScript, pending, forms, console>>
-----------------------------------------------------------------------------
(* The form.                                                               *)

CloseForm ==
    /\ formOpen /\ pending = "none"
    /\ formOpen' = FALSE
    /\ pending' = "myshow"
    /\ UNCHANGED <<disk, settings, life, lists, visible, isNewScr, bReloadScript, form, failed,
                   console>>

\* The form asks to be loaded again.  It may refuse to be closed for that.
ReloadScript ==
    /\ formOpen /\ pending = "none"
    /\ bReloadScript' = TRUE
    /\ \/ formOpen' = FALSE /\ pending' = "myshow"
       \/ UNCHANGED <<formOpen, pending>>
    /\ UNCHANGED <<disk, settings, life, lists, visible, isNewScr, form, failed, console>>

\* myshow makes the first category current if none is.
FirstShown == cbIndex = 0 /\ 1 \in DOMAIN ScriptsList
ShownIndex == IF FirstShown THEN 1 ELSE cbIndex
ShownItems == IF FirstShown THEN Keys(ScriptsList, 1) ELSE items
ShownItem == IF FirstShown THEN TitleAt(ShownItems, 1) ELSE item
ShownRow == RowOf(ShownItems, ShownItem)

ShowFirst ==
    /\ cbIndex' = ShownIndex /\ items' = ShownItems /\ item' = ShownItem
    /\ UNCHANGED <<ScriptsList, canEdit>>

\* myshow, after a run from the console ...
MyshowQuits ==
    /\ pending = "myshow"
    /\ isRunFromConsole_ /\ ~bReloadScript
    /\ ShowFirst
    /\ Quit(ShownIndex, ShownRow)
    /\ pending' = "none"
    /\ UNCHANGED <<disk, isNewScr, bReloadScript, forms, console>>

\* Mutant: the lists are updated before the script is loaded again.
MyshowReloads_UpdatesFirst ==
    /\ pending = "myshow"
    /\ bReloadScript
    /\ UpdateLists(disk, ShownIndex, ShownRow)
    /\ visible' = TRUE
    /\ bReloadScript' = FALSE
    /\ pending' = "reOpenScript"
    /\ UNCHANGED <<disk, settings, life, formOpen, form, console>>

\* Mutant: the window is not shown before the script is loaded again.
MyshowReloads_Hidden ==
    /\ pending = "myshow"
    /\ bReloadScript
    /\ ShowFirst
    /\ bReloadScript' = FALSE /\ isNewScr' = FALSE /\ failed' = FALSE
    /\ pending' = "reOpenScript"
    /\ UNCHANGED <<disk, settings, life, visible, formOpen, form, console>>

\* Mutant: isNewScr is not reset.
MyshowReloads_KeepsMode ==
    /\ pending = "myshow"
    /\ bReloadScript
    /\ ShowFirst
    /\ visible' = TRUE
    /\ bReloadScript' = FALSE /\ failed' = FALSE
    /\ pending' = "reOpenScript"
    /\ UNCHANGED <<disk, settings, life, isNewScr, formOpen, form, console>>

\* ... to load a script again ...
MyshowReloads ==
    /\ pending = "myshow"
    /\ bReloadScript
    /\ ShowFirst
    /\ visible' = TRUE
    /\ bReloadScript' = FALSE /\ isNewScr' = FALSE /\ failed' = FALSE
    /\ pending' = "reOpenScript"
    /\ UNCHANGED <<disk, settings, life, formOpen, form, console>>

\* ... and to go back to the list.
MyshowUpdates ==
    /\ pending = "myshow"
    /\ ~isRunFromConsole_ /\ ~bReloadScript
    /\ UpdateLists(disk, ShownIndex, ShownRow)
    /\ visible' = TRUE
    /\ pending' = "none"
    /\ UNCHANGED <<disk, settings, life, bReloadScript, formOpen, form, console>>

ReOpenScript ==
    /\ pending = "reOpenScript"
    /\ UNCHANGED <<disk, lists, isNewScr, bReloadScript, console>>
    /\ OpenCurrent("reload")
-----------------------------------------------------------------------------
Next ==
    \/ \E s \in Scripts : DiskChanges(s) \/ StartFromConsole(s)
    \/ Start
    \/ RunScript
    \/ Launch
    \/ EditScript
    \/ NewScript
    \/ DelScript
    \/ \E index \in DOMAIN ScriptsList : SelectCategory(index)
    \/ \E t \in items : SelectItem(t)
    \/ FocusIn
    \/ CloseWindow
    \/ CloseForm
    \/ ReloadScript
    \/ MyshowQuits
    \/ MyshowReloads
    \/ MyshowUpdates
    \/ ReOpenScript

Spec == Init /\ [][Next]_vars
=============================================================================
