-------------------------- MODULE SE2WindowSafety --------------------------
(***************************************************************************)
(* What the user of SE2's window can rely on, also when plugins fail and   *)
(* scripts come and go.                                                    *)
(***************************************************************************)
EXTENDS SE2Window

\* Every title that is shown stands for a script of the category that is shown and has
\* that title, so that what is launched, edited or deleted is what the user sees,
\* although the list and the map are filled at different times of a scan.
ShownIsListed ==
    life = "on" /\ cbIndex # 0 =>
        \A t \in items :
            /\ t \in DOMAIN ScriptsList[cbIndex]
            /\ TitleOf[ScriptsList[cbIndex][t]] = t

\* The program never runs without a window, a form or an event that brings one, unless
\* it was to run a script from the console and that failed or had no title.
SomethingVisible ==
    life = "on" =>
        \/ visible \/ formOpen \/ pending # "none"
        \/ isRunFromConsole_ /\ (failed \/ scriptPath_ \in Untitled)

\* A form is for editing exactly if the user has asked for that: isNewScr does not
\* outlive its form, on any way back to the window.  Only a script that fails to load
\* leaves it set.
EditOnlyWhenAsked ==
    formOpen => \/ form.edit <=> form.by \in {"edit", "new"}
                \/ form.edit /\ failed

\* A script that was opened from the list and asks to be loaded again is the one that is,
\* whatever has become of the disk; not so a new script and one from the console.
ReloadKeepsScript ==
    [][pending = "reOpenScript" /\ formOpen' /\ form.by \notin {"console", "new"}
          => form'.script = form.script]_vars

\* Why: nothing but the form is usable while one is open, ...
WindowInv ==
    /\ visible \/ formOpen \/ pending # "none" => life = "on"
    /\ formOpen => ~visible /\ pending = "none"
    /\ pending = "reOpenScript" => visible
    /\ pending = "runScript" => isRunFromConsole_

\* ... isNewScr is set only then, or until the form's end has been handled, ...
ModeInv == life = "on" /\ isNewScr => formOpen \/ pending = "myshow" \/ failed

\* ... and the script of a form stays the current one of the list until then.
Listed == item # None /\ cbIndex # 0 /\ form.script = Value(item)

FormInv ==
    (formOpen \/ pending \in {"myshow", "reOpenScript"}) /\ form.by \notin {"console", "new"}
        => Listed

\* A session that ended well is continued: if a scan finds what the last one found, the
\* same script of the same category is current.  The list must have been complete.
RestartKeepsSelection ==
    [][/\ life = "off" /\ life' = "on"
       /\ ScriptsList' = ScriptsList /\ cbIndex # 0 /\ items = Keys(ScriptsList, cbIndex)
       => cbIndex' = cbIndex /\ items' = items /\ item' = item]_vars

\* Why: a scan lists scripts under their own titles, ...
Found(list) ==
    /\ DOMAIN list \subseteq Nat \ {0}
    /\ \A i \in DOMAIN list : \A t \in DOMAIN list[i] :
          list[i][t] \in Scripts /\ TitleOf[list[i][t]] = t

\* ... what is shown belongs to the current category, if there is one, what was current when
\* a session ended is what the registry holds, and a row stands for one title of a list.
ListInv ==
    /\ disk \subseteq Scripts
    /\ Found(ScriptsList)
    /\ cbIndex \in DOMAIN ScriptsList \cup {0}
    /\ items \subseteq Titles
    /\ cbIndex # 0 => items \subseteq Keys(ScriptsList, cbIndex)
    /\ item \in items \cup {None}
    /\ life = "off" /\ cbIndex # 0 =>
          settings = [cbCurrInd |-> cbIndex, lwCurrRow |-> RowOf(items, item)]
=============================================================================
