------------------------------ MODULE Catalog ------------------------------
(***************************************************************************)
(* The list of scripts of SE3's main window: the files ScriptsManager      *)
(* finds, the categories and titles it sorts them into, the proxy model    *)
(* that filters them, and the script the window has selected               *)
(* (SE3/scriptsmanager.cpp, SE3/models.h, SE3/se3.cpp).                    *)
(*                                                                         *)
(* The selection is remembered twice: as a path, which is looked up in the *)
(* list of ScriptsManager, and as two row numbers, which are used on the   *)
(* filtered list that the views show.  Scripts appear on the disk and      *)
(* vanish from it at any time; the program learns of it when it scans.     *)
(* Every handler runs on the GUI thread from start to end and is one       *)
(* action.  Rows count from 1 here, and 0 is the code's -1.                *)
(***************************************************************************)
EXTENDS Ranks, Sequences, FiniteSetsExt

CONSTANTS
    Files,           \* script files, numbered in the order a scan finds them
    TitleOf,         \* TitleOf[f]: the title in f's header, numbered in QString order
    CategoryOf,      \* CategoryOf[f]: the category in f's header, likewise
    DirOf,           \* DirOf[f]: the directory of f, likewise
    Blank,           \* files without a single line of text
    NameFilters,     \* what may be typed as name filter: the titles it lets through
    ContentFilters,  \* what may be typed as content filter: the files it is in
    None             \* no script

Titles == {TitleOf[f] : f \in Files}

ASSUME CatalogAssumption ==
    /\ Files \subseteq Nat \ {0} /\ IsFiniteSet(Files)
    /\ TitleOf \in [Files -> Nat]
    /\ CategoryOf \in [Files -> Nat]
    /\ DirOf \in [Files -> Nat]
    /\ Blank \subseteq Files
    /\ NameFilters \subseteq SUBSET Titles /\ Titles \in NameFilters
    /\ ContentFilters \subseteq SUBSET Files /\ Files \in ContentFilters
    /\ None \notin Files

Modes == {"byCategory", "byDir", "inOneList"}

VARIABLES
    disk,              \* the script files that exist
    lastScript,        \* "lastScript" of commSet.ini
    open,              \* the window exists
    mFindedFiles,      \* the files of the last scan
    mSortMode,
    mScriptInfo,       \* the list: for each category, its scripts by title
    nameFilter,        \* the titles the name filter lets through
    contentFilter,     \* the files the content filter lets through
    shown,             \* the list as the proxy model shows it
    current,           \* the script selected in the views, or None
    lastScriptPath,    \* the script to select again, or None
    mCurrCategoryRow,
    mCurrScriptRow

filters == <<nameFilter, contentFilter>>
rows == <<mCurrCategoryRow, mCurrScriptRow>>
vars == <<disk, lastScript, open, mFindedFiles, mSortMode, mScriptInfo, filters,
          shown, current, lastScriptPath, rows>>

Members(list) == UNION {{list[k][j] : j \in DOMAIN list[k]} : k \in DOMAIN list}

TypeOK ==
    /\ disk \subseteq Files
    /\ {lastScript, current, lastScriptPath} \subseteq Files \cup {None}
    /\ open \in BOOLEAN
    /\ mFindedFiles \subseteq Files
    /\ mSortMode \in Modes
    /\ {mScriptInfo, shown} \subseteq Seq(Seq(Files))
    /\ nameFilter \in NameFilters /\ contentFilter \in ContentFilters
    /\ {mCurrCategoryRow, mCurrScriptRow} \subseteq Nat
-----------------------------------------------------------------------------
(* From files to a list, and from the list to what is shown.               *)

\* GetScriptHeader: the category a script is listed under.
Category(f, mode) ==
    CASE mode = "byCategory" -> CategoryOf[f]
      [] mode = "byDir"      -> DirOf[f]
      [] mode = "inOneList"  -> 0

\* A map from titles to files: the scripts are inserted in the order of the scan, and of
\* two with one title the later stays (CorrectTitles finds no title twice in a map's keys
\* and changes nothing).
ByTitle(files) ==
    LET titles == InOrder({TitleOf[f] : f \in files})
    IN  [j \in DOMAIN titles |-> Max({f \in files : TitleOf[f] = titles[j]})]

\* Mutant: every scanned script is looked up under its title alone.
ExtractScriptsInfo_ByTitle(files, mode) ==
    LET listed == {f \in files : \A g \in files : TitleOf[g] = TitleOf[f] => g <= f}
        names == InOrder({Category(f, mode) : f \in listed})
    IN  [k \in DOMAIN names |-> ByTitle({f \in listed : Category(f, mode) = names[k]})]

\* One map per category; the categories are sorted afterwards.
ExtractScriptsInfo(files, mode) ==
    LET names == InOrder({Category(f, mode) : f \in files})
    IN  [k \in DOMAIN names |-> ByTitle({f \in files : Category(f, mode) = names[k]})]

\* What a proxy model leaves of a list: the rows it accepts.
Those(list, accepted) == [k \in 1..Cardinality(accepted) |-> list[Nth(accepted, k)]]

\* NameContentFilterModel: a script is shown when its title has the name filter
\* and a line of its file has the content filter (the empty filter is in every
\* line, but a blank file has none), a category when a script of it is.
FilterAccepts(list, titles, files) ==
    LET Accepts(f) == TitleOf[f] \in titles /\ f \in files \ Blank
        kept == [k \in DOMAIN list |->
                    Those(list[k], {j \in DOMAIN list[k] : Accepts(list[k][j])})]
    IN  Those(kept, {k \in DOMAIN kept : kept[k] # <<>>})

\* GetScriptIndexes looks a path up in the list, filtered or not.
GetScriptIndexes(list, f) ==
    IF f \in Members(list)
    THEN CHOOSE at \in UNION {{<<k, j>> : j \in DOMAIN list[k]} : k \in DOMAIN list} :
            list[at[1]][at[2]] = f
    ELSE <<0, 0>>
-----------------------------------------------------------------------------
(* The selection.                                                          *)

AtMost(row, n) == IF n < row THEN n ELSE row

\* RestoreCurrentScriptIndex, for one of the two rows.
Row(found, kept) == IF found # 0 THEN found ELSE IF kept # 0 THEN kept ELSE 1

\* Mutant: the rows are not cut to the size of what is shown.
Selection_Uncut(list, view, path, catRow, scrRow) ==
    LET at == GetScriptIndexes(list, path)
        cat == Row(at[1], catRow)
        scr == Row(at[2], scrRow)
    IN  [cat |-> cat, scr |-> scr,
         script |-> IF cat \in DOMAIN view /\ scr \in DOMAIN view[cat]
                    THEN view[cat][scr] ELSE None]

\* UpdateViewsCurrentIndex: nothing is selected when nothing is shown.
Selection(list, view, path, catRow, scrRow) ==
    IF view = <<>> THEN [cat |-> catRow, scr |-> scrRow, script |-> None]
    ELSE LET at == GetScriptIndexes(list, path)
             cat == AtMost(Row(at[1], catRow), Len(view))
             scr == AtMost(Row(at[2], scrRow), Len(view[cat]))
         IN  [cat |-> cat, scr |-> scr, script |-> view[cat][scr]]

Select(selection) ==
    /\ mCurrCategoryRow' = selection.cat
    /\ mCurrScriptRow' = selection.scr
    /\ current' = selection.script

UpdateViewsCurrentIndex(path) ==
    Select(Selection(mScriptInfo', shown', path, mCurrCategoryRow, mCurrScriptRow))

\* SaveCurrentScriptIndex.
Saved == IF current # None THEN current ELSE lastScriptPath
-----------------------------------------------------------------------------
(* Scanning.                                                               *)

\* SortFilesUpdateModel opens every file of the last scan again; present are the
\* files that exist by then.
SortFilesUpdateModel(files, mode, present) ==
    /\ mFindedFiles' = files
    /\ mSortMode' = mode
    /\ mScriptInfo' = ExtractScriptsInfo(files \cap present, mode)
    /\ shown' = FilterAccepts(mScriptInfo', nameFilter, contentFilter \cap present)
    /\ UNCHANGED filters

FindProccedure(mode, present) == SortFilesUpdateModel(present, mode, present)

UpdateLists(present) ==
    /\ lastScriptPath' = Saved
    /\ FindProccedure(mSortMode, present)
    /\ UpdateViewsCurrentIndex(Saved)
-----------------------------------------------------------------------------
Init ==
    /\ disk \in SUBSET Files
    /\ lastScript = None
    /\ open = FALSE
    /\ mFindedFiles = {}
    /\ mSortMode = "byCategory"
    /\ mScriptInfo = <<>>
    /\ nameFilter = Titles /\ contentFilter = Files
    /\ shown = <<>>
    /\ current = None
    /\ lastScriptPath = None
    /\ mCurrCategoryRow = 0 /\ mCurrScriptRow = 0

\* Scripts come and go without the program.
DiskChanges ==
    /\ \E f \in Files : disk' \in {disk \cup {f}, disk \ {f}}
    /\ UNCHANGED <<lastScript, open, mFindedFiles, mSortMode, mScriptInfo, filters,
                   shown, current, lastScriptPath, rows>>

\* The constructor and init(): the rows are looked up before there is a list.
Open ==
    /\ ~open
    /\ open' = TRUE
    /\ lastScriptPath' = lastScript
    /\ FindProccedure("byCategory", disk)
    /\ Select(Selection(mScriptInfo', shown', lastScript, 0, 0))
    /\ UNCHANGED <<disk, lastScript>>

\* Mutant: the row is saved.
LastScriptSetting_Row == mCurrScriptRow

\* What the destructor saves as "lastScript"; a crash saves nothing.
LastScriptSetting == current

Close ==
    /\ open
    /\ open' = FALSE
    /\ lastScript' \in {LastScriptSetting, lastScript}
    /\ mFindedFiles' = {}
    /\ mSortMode' = "byCategory"
    /\ mScriptInfo' = <<>> /\ shown' = <<>>
    /\ nameFilter' = Titles /\ contentFilter' = Files
    /\ current' = None /\ lastScriptPath' = None
    /\ mCurrCategoryRow' = 0 /\ mCurrScriptRow' = 0
    /\ UNCHANGED disk

\* handleSelectionChanged: the first script of the category becomes current.
SelectCategory ==
    /\ open
    /\ \E k \in DOMAIN shown : current' = shown[k][1]
    /\ UNCHANGED <<disk, lastScript, open, mFindedFiles, mSortMode, mScriptInfo,
                   filters, shown, lastScriptPath, rows>>

SelectScript ==
    /\ open
    /\ \E k \in DOMAIN shown :
          /\ current \in {shown[k][j] : j \in DOMAIN shown[k]}
          /\ \E j \in DOMAIN shown[k] : current' = shown[k][j]
    /\ UNCHANGED <<disk, lastScript, open, mFindedFiles, mSortMode, mScriptInfo,
                   filters, shown, lastScriptPath, rows>>

\* The rescan button.
Rescan ==
    /\ open
    /\ UpdateLists(disk)
    /\ UNCHANGED <<disk, lastScript, open>>

\* The delete button: whether the file could be removed is not asked.
Delete ==
    /\ open
    /\ disk' \in {disk, disk \ {current}}
    /\ UpdateLists(disk')
    /\ UNCHANGED <<lastScript, open>>

\* SaveNewFile: after the scan the new script is selected.  The queued reOpenScript at its
\* end is left out: it launches the script, which uses a null pl_obj.  If the program dies
\* of that, it saves nothing: Close.
SaveNewFile(f) ==
    /\ open
    /\ f \notin Blank
    /\ disk' = disk \cup {f}
    /\ FindProccedure(mSortMode, disk')
    /\ lastScriptPath' = f
    /\ LET first == Selection(mScriptInfo', shown', Saved, mCurrCategoryRow,
                              mCurrScriptRow)
       IN  Select(Selection(mScriptInfo', shown', f, first.cat, first.scr))
    /\ UNCHANGED <<lastScript, open>>

\* Mutant: the selection is not saved before the list is built again.
SortBy_Unsaved(mode) ==
    /\ open
    /\ SortFilesUpdateModel(mFindedFiles, mode, disk)
    /\ UpdateViewsCurrentIndex(lastScriptPath)
    /\ UNCHANGED <<disk, lastScript, open, lastScriptPath>>

\* The directory and search buttons sort what the last scan found.
SortBy(mode) ==
    /\ open
    /\ lastScriptPath' = Saved
    /\ SortFilesUpdateModel(mFindedFiles, mode, disk)
    /\ UpdateViewsCurrentIndex(Saved)
    /\ UNCHANGED <<disk, lastScript, open>>

\* A filter is typed: the proxy looks at every row again, and the selection goes
\* to the path that was saved last.
Filter(titles, files) ==
    /\ open
    /\ nameFilter' = titles /\ contentFilter' = files
    /\ shown' = FilterAccepts(mScriptInfo, titles, files \cap disk)
    /\ UNCHANGED mScriptInfo
    /\ UpdateViewsCurrentIndex(lastScriptPath)
    /\ UNCHANGED <<disk, lastScript, open, mFindedFiles, mSortMode, lastScriptPath>>

Next ==
    \/ DiskChanges
    \/ Open
    \/ Close
    \/ SelectCategory
    \/ SelectScript
    \/ Rescan
    \/ Delete
    \/ \E f \in Files : SaveNewFile(f)
    \/ \E mode \in Modes : SortBy(mode)
    \/ \E titles \in NameFilters : Filter(titles, contentFilter)
    \/ \E files \in ContentFilters : Filter(nameFilter, files)

Spec == Init /\ [][Next]_vars
=============================================================================
