--------------------------- MODULE CatalogSafety ---------------------------
(***************************************************************************)
(* What the list of scripts and the selection in it can be relied on for.  *)
(***************************************************************************)
EXTENDS Catalog

\* Something is selected exactly when something is shown, and it is one of the
\* scripts shown: the buttons of the window (delete, restore, launch) work on the
\* selection, and the rows kept from an older, longer list must not lead outside
\* the one that is shown now.
SelectionValid ==
    open => current \in IF shown = <<>> THEN {None} ELSE Members(shown)

\* The steps that build the list again, each with the script it promises to have
\* selected afterwards, if that script is there.
Refreshes(Stays(_)) ==
    /\ Rescan \/ (\E mode \in Modes : SortBy(mode)) => Stays(current)
    /\ Open => Stays(lastScript)
    /\ \A f \in Files : SaveNewFile(f) => Stays(f)

\* A rescan and a change of the sort mode keep the selection, a start selects the
\* script of the last session and a new script is selected, whatever else was
\* added, deleted or sorted differently: when nothing is filtered out of the list.
SelectionKept ==
    [][LET Stays(f) ==
             shown' = mScriptInfo' /\ f \in Members(shown') => current' = f
       IN  Refreshes(Stays)]_vars

\* The same whenever that script is shown (se3.cpp:303 logs "restore script
\* indexes" with its path): the rows found in the unfiltered list are used on the
\* filtered one.
SelectionKeptFiltered ==
    [][LET Stays(f) == f \in Members(shown') => current' = f
       IN  Refreshes(Stays)]_vars

\* A script that was found and is still there is missing from the list only
\* because of a script of the same category and title that is listed: the
\* categories and titles lose nothing else, in any sort mode.
OnlyTwinsMissing ==
    [][mScriptInfo' # mScriptInfo /\ open' =>
         \A f \in mFindedFiles' \cap disk' :
            f \notin Members(mScriptInfo') =>
                \E g \in Members(mScriptInfo') :
                    /\ Category(g, mSortMode') = Category(f, mSortMode')
                    /\ TitleOf[g] = TitleOf[f]]_vars
=============================================================================
