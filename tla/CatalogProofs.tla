--------------------------- MODULE CatalogProofs ---------------------------
(***************************************************************************)
(* What SE3's list of scripts and the selection in it do, for any scripts, *)
(* titles, categories and filters.                                         *)
(***************************************************************************)
EXTENDS CatalogSafety, RanksProofs, SequenceTheorems

-----------------------------------------------------------------------------
(* From files to a list.                                                   *)

LEMMA FilesFinite ==
    ASSUME NEW fs \in SUBSET Files
    PROVE  fs \subseteq Nat /\ IsFiniteSet(fs)
BY CatalogAssumption, FS_Subset

LEMMA CategoryType ==
    ASSUME NEW mode \in Modes
    PROVE  \A f \in Files : Category(f, mode) \in Nat
BY CatalogAssumption DEF Category, Modes

\* The latest of the scripts with one title.
LEMMA LatestTwin ==
    ASSUME NEW fs \in SUBSET Files, NEW t \in {TitleOf[f] : f \in fs}
    PROVE  LET latest == Max({f \in fs : TitleOf[f] = t})
           IN  latest \in fs /\ TitleOf[latest] = t
<1> DEFINE twins == {f \in fs : TitleOf[f] = t}
<1>1. twins \subseteq Nat /\ IsFiniteSet(twins) /\ twins # {}
    BY FilesFinite
<1>2. Max(twins) \in twins
    BY <1>1, MaxOf
<1> QED
    BY <1>2

\* A map by title has scripts of its own, and one of each title.
LEMMA MapByTitle ==
    ASSUME NEW fs \in SUBSET Files
    PROVE  /\ ByTitle(fs) \in Seq(fs)
           /\ fs # {} => ByTitle(fs) # <<>>
           /\ \A f \in fs : \E j \in DOMAIN ByTitle(fs) : TitleOf[ByTitle(fs)[j]] = TitleOf[f]
<1> DEFINE T == {TitleOf[f] : f \in fs}
           n == Cardinality(T)
<1>1. IsFiniteSet(T) /\ T \subseteq Nat
    <2>1. TitleOf \in [Files -> Nat]
        BY CatalogAssumption
    <2> QED
        BY <2>1, FilesFinite, ImageFinite
<1>2. /\ n \in Nat /\ InOrder(T) \in [1..n -> T]
      /\ \A t \in T : \E k \in 1..n : InOrder(T)[k] = t
    BY <1>1, InOrderSeq
<1>3. ByTitle(fs) = [j \in 1..n |-> Max({f \in fs : TitleOf[f] = InOrder(T)[j]})]
    BY <1>2 DEF ByTitle
<1> HIDE DEF n
<1>4. ASSUME NEW j \in 1..n
      PROVE  ByTitle(fs)[j] \in fs /\ TitleOf[ByTitle(fs)[j]] = InOrder(T)[j]
    <2> DEFINE t == InOrder(T)[j]
    <2>1. t \in T /\ ByTitle(fs)[j] = Max({f \in fs : TitleOf[f] = t})
        BY <1>2, <1>3
    <2> HIDE DEF t
    <2>2. ByTitle(fs)[j] \in fs /\ TitleOf[ByTitle(fs)[j]] = t
        BY <2>1, LatestTwin
    <2> QED
        BY <2>2 DEF t
<1>5. ByTitle(fs) \in [1..n -> fs]
    BY <1>3, <1>4
<1>6. ByTitle(fs) \in Seq(fs) /\ DOMAIN ByTitle(fs) = 1..n
    BY <1>2, <1>5, SeqDef
<1>7. ASSUME NEW f \in fs
      PROVE  \E j \in DOMAIN ByTitle(fs) : TitleOf[ByTitle(fs)[j]] = TitleOf[f]
    <2>1. TitleOf[f] \in T
        OBVIOUS
    <2>2. PICK k \in 1..n : InOrder(T)[k] = TitleOf[f]
        BY <1>2, <2>1
    <2> QED
        BY <1>4, <1>6, <2>2
<1> HIDE DEF T
<1>8. fs # {} => ByTitle(fs) # <<>>
    BY <1>7
<1> QED
    BY <1>6, <1>7, <1>8

LEMMA MemberAt ==
    ASSUME NEW list, NEW k \in DOMAIN list, NEW j \in DOMAIN list[k]
    PROVE  list[k][j] \in Members(list)
BY DEF Members

\* Every script is listed, or a twin of it.
LEMMA ListOfScripts ==
    ASSUME NEW fs \in SUBSET Files, NEW mode \in Modes
    PROVE  LET list == ExtractScriptsInfo(fs, mode) IN
           /\ list \in Seq(Seq(Files))
           /\ \A f \in fs : \E g \in Members(list) :
                 Category(g, mode) = Category(f, mode) /\ TitleOf[g] = TitleOf[f]
<1> DEFINE category == [f \in Files |-> Category(f, mode)]
           C == {Category(f, mode) : f \in fs}
           n == Cardinality(C)
           In(c) == {f \in fs : Category(f, mode) = c}
           list == ExtractScriptsInfo(fs, mode)
<1>1. IsFiniteSet(C) /\ C \subseteq Nat
    <2>1. category \in [Files -> Nat]
        BY CategoryType
    <2>2. C = {category[f] : f \in fs}
        OBVIOUS
    <2> HIDE DEF category, C
    <2> QED
        BY <2>1, <2>2, FilesFinite, ImageFinite
<1>2. /\ n \in Nat /\ InOrder(C) \in [1..n -> C]
      /\ \A c \in C : \E k \in 1..n : InOrder(C)[k] = c
    BY <1>1, InOrderSeq
<1>3. list = [k \in 1..n |-> ByTitle(In(InOrder(C)[k]))]
    BY <1>2 DEF ExtractScriptsInfo
<1>4. \A c : In(c) \subseteq fs
    OBVIOUS
<1> HIDE DEF n, list, C
<1>5. ASSUME NEW c
      PROVE  ByTitle(In(c)) \in Seq(Files)
    <2>1. In(c) \in SUBSET Files
        BY <1>4
    <2> HIDE DEF In
    <2>2. ByTitle(In(c)) \in Seq(In(c))
        BY <2>1, MapByTitle
    <2> QED
        BY <2>1, <2>2, SeqMonotonic
<1>6. list \in Seq(Seq(Files)) /\ DOMAIN list = 1..n
    <2>1. list \in [1..n -> Seq(Files)]
        BY <1>3, <1>5
    <2> QED
        BY <1>2, <2>1, SeqDef
<1>7. ASSUME NEW f \in fs
      PROVE  \E g \in Members(list) :
                 Category(g, mode) = Category(f, mode) /\ TitleOf[g] = TitleOf[f]
    <2> DEFINE c == Category(f, mode)
    <2>1. f \in In(c) /\ In(c) \in SUBSET Files
        BY <1>4
    <2>2. PICK j \in DOMAIN ByTitle(In(c)) : TitleOf[ByTitle(In(c))[j]] = TitleOf[f]
        BY <2>1, MapByTitle
    <2>3. ByTitle(In(c))[j] \in In(c)
        <3> HIDE DEF In
        <3>1. ByTitle(In(c)) \in Seq(In(c))
            BY <2>1, MapByTitle
        <3> QED
            BY <2>2, <3>1, ElementOfSeq, LenProperties
    <2>4. PICK k \in 1..n : InOrder(C)[k] = c
        BY <1>2 DEF C
    <2>5. list[k] = ByTitle(In(c))
        BY <1>3, <2>4
    <2>6. list[k][j] \in Members(list)
        BY <1>6, <2>2, <2>5, MemberAt
    <2> QED
        BY <2>2, <2>3, <2>5, <2>6
<1> QED
    BY <1>6, <1>7 DEF list

-----------------------------------------------------------------------------
(* From the list to what is shown.                                         *)

\* A proxy model shows rows of its list, as many as it accepts.
LEMMA ThoseOfList ==
    ASSUME NEW T, NEW list \in Seq(T), NEW accepted \in SUBSET (DOMAIN list)
    PROVE  /\ Those(list, accepted) \in Seq(T)
           /\ \A k \in DOMAIN Those(list, accepted) :
                 \E j \in accepted : Those(list, accepted)[k] = list[j]
<1> DEFINE n == Cardinality(accepted)
           those == Those(list, accepted)
<1>1. accepted \subseteq Nat /\ IsFiniteSet(accepted)
    <2>1. Len(list) \in Nat /\ DOMAIN list = 1..Len(list)
        BY LenProperties
    <2>2. IsFiniteSet(1..Len(list))
        BY <2>1, FS_Interval
    <2> QED
        BY <2>1, <2>2, FS_Subset
<1>2. n \in Nat
    BY <1>1, FS_CardinalityType
<1>3. \A k \in 1..n : Nth(accepted, k) \in accepted
    BY <1>1, NthOf
<1>4. those = [k \in 1..n |-> list[Nth(accepted, k)]]
    BY DEF Those
<1> HIDE DEF n, those
<1>5. \A j \in accepted : list[j] \in T
    BY ElementOfSeq, LenProperties
<1>6. those \in [1..n -> T]
    BY <1>3, <1>4, <1>5
<1>7. those \in Seq(T) /\ DOMAIN those = 1..n
    BY <1>2, <1>6, SeqDef
<1> QED
    BY <1>3, <1>4, <1>7 DEF those

\* Every list that is shown consists of categories that are not empty.
Shown(view) == view \in Seq(Seq(Files)) /\ \A k \in DOMAIN view : view[k] # <<>>

LEMMA ShownOfList ==
    ASSUME NEW list \in Seq(Seq(Files)), NEW titles, NEW files
    PROVE  Shown(FilterAccepts(list, titles, files))
<1> DEFINE at(k) == {j \in DOMAIN list[k] : /\ TitleOf[list[k][j]] \in titles
                                            /\ list[k][j] \in files \ Blank}
           kept == [k \in DOMAIN list |-> Those(list[k], at(k))]
           full == {k \in DOMAIN kept : kept[k] # <<>>}
           view == Those(kept, full)
<1>1. FilterAccepts(list, titles, files) = view
    BY DEF FilterAccepts
<1>2. Len(list) \in Nat /\ DOMAIN list = 1..Len(list)
    BY LenProperties
<1>3. \A k \in DOMAIN list : list[k] \in Seq(Files)
    BY <1>2, ElementOfSeq
<1>4. ASSUME NEW k \in DOMAIN list PROVE kept[k] \in Seq(Files)
    <2>1. at(k) \in SUBSET (DOMAIN list[k])
        OBVIOUS
    <2> HIDE DEF at
    <2>2. Those(list[k], at(k)) \in Seq(Files)
        BY <1>3, <2>1, ThoseOfList
    <2> QED
        BY <2>2
<1>5. kept \in Seq(Seq(Files)) /\ DOMAIN kept = DOMAIN list
    <2>1. kept \in [1..Len(list) -> Seq(Files)]
        BY <1>2, <1>4
    <2> QED
        BY <1>2, <2>1, SeqDef
<1> HIDE DEF kept
<1>6. full \in SUBSET (DOMAIN kept) /\ \A k \in full : kept[k] # <<>>
    OBVIOUS
<1> HIDE DEF full
<1>7. /\ view \in Seq(Seq(Files))
      /\ \A k \in DOMAIN view : \E j \in full : view[k] = kept[j]
    BY <1>5, <1>6, ThoseOfList
<1> QED
    BY <1>1, <1>6, <1>7 DEF Shown

-----------------------------------------------------------------------------
(* The selection.                                                          *)

LEMMA MemberAtRow ==
    ASSUME NEW list \in Seq(Seq(Files)), NEW f \in Members(list)
    PROVE  /\ f \in Files
           /\ \E k \in 1..Len(list) : \E j \in 1..Len(list[k]) : list[k][j] = f
<1>1. Len(list) \in Nat /\ DOMAIN list = 1..Len(list)
    BY LenProperties
<1>2. PICK k \in DOMAIN list : f \in {list[k][j] : j \in DOMAIN list[k]}
    BY DEF Members
<1>3. list[k] \in Seq(Files)
    BY <1>1, ElementOfSeq
<1>4. Len(list[k]) \in Nat /\ DOMAIN list[k] = 1..Len(list[k])
    BY <1>3, LenProperties
<1>5. PICK j \in DOMAIN list[k] : list[k][j] = f
    BY <1>2
<1>6. f \in Files
    BY <1>3, <1>4, <1>5, ElementOfSeq
<1> QED
    BY <1>1, <1>4, <1>5, <1>6

\* A path that is in the list is found where it is.
LEMMA IndexesOf ==
    ASSUME NEW list \in Seq(Seq(Files)), NEW f
    PROVE  LET at == GetScriptIndexes(list, f) IN
           /\ at[1] \in Nat /\ at[2] \in Nat
           /\ f \in Members(list) =>
                 /\ at[1] \in 1..Len(list) /\ at[2] \in 1..Len(list[at[1]])
                 /\ list[at[1]][at[2]] = f
<1> DEFINE at == GetScriptIndexes(list, f)
           Places == UNION {{<<k, j>> : j \in DOMAIN list[k]} : k \in DOMAIN list}
<1>1. CASE f \notin Members(list)
    BY <1>1 DEF GetScriptIndexes
<1>2. CASE f \in Members(list)
    <2>1. DOMAIN list = 1..Len(list) /\ \A k \in 1..Len(list) : list[k] \in Seq(Files)
        BY LenProperties, ElementOfSeq
    <2>2. \A k \in 1..Len(list) : DOMAIN list[k] = 1..Len(list[k])
        BY <2>1, LenProperties
    <2>3. PICK k \in 1..Len(list) : \E j \in 1..Len(list[k]) : list[k][j] = f
        BY <1>2, MemberAtRow
    <2>4. PICK j \in 1..Len(list[k]) : list[k][j] = f
        BY <2>3
    <2>5. <<k, j>> \in Places /\ list[<<k, j>>[1]][<<k, j>>[2]] = f
        BY <2>1, <2>2, <2>4
    <2>6. at = CHOOSE p \in Places : list[p[1]][p[2]] = f
        BY <1>2 DEF GetScriptIndexes
    <2> HIDE DEF at, Places
    <2>7. at \in Places /\ list[at[1]][at[2]] = f
        BY <2>5, <2>6
    <2>8. PICK k1 \in DOMAIN list : \E j1 \in DOMAIN list[k1] : at = <<k1, j1>>
        BY <2>7 DEF Places
    <2>9. at[1] \in 1..Len(list) /\ at[2] \in 1..Len(list[at[1]])
        BY <2>1, <2>2, <2>8
    <2>10. at[1] \in Nat /\ at[2] \in Nat
        BY <2>9
    <2> QED
        BY <2>7, <2>9, <2>10 DEF at
<1> QED
    BY <1>1, <1>2

LEMMA RowInRange ==
    ASSUME NEW found \in Nat, NEW kept \in Nat, NEW n \in Nat, n # 0
    PROVE  /\ AtMost(Row(found, kept), n) \in 1..n
           /\ found \in 1..n => AtMost(Row(found, kept), n) = found
BY DEF AtMost, Row

\* A category that is shown has a script.
LEMMA ShownCategory ==
    ASSUME NEW view, Shown(view), NEW k \in 1..Len(view)
    PROVE  /\ Len(view) \in Nat /\ DOMAIN view = 1..Len(view) /\ view[k] \in Seq(Files)
           /\ Len(view[k]) \in Nat /\ Len(view[k]) # 0 /\ DOMAIN view[k] = 1..Len(view[k])
<1>1. Len(view) \in Nat /\ DOMAIN view = 1..Len(view) /\ view[k] \in Seq(Files)
    BY LenProperties, ElementOfSeq DEF Shown
<1>2. view[k] # <<>>
    BY <1>1 DEF Shown
<1> QED
    BY <1>1, <1>2, LenProperties, EmptySeq

\* The selection is in what is shown; if that is the whole list, it is the path looked up.
LEMMA SelectionShown ==
    ASSUME NEW list \in Seq(Seq(Files)), NEW view, Shown(view), NEW path,
           NEW catRow \in Nat, NEW scrRow \in Nat
    PROVE  LET sel == Selection(list, view, path, catRow, scrRow) IN
           /\ sel.cat \in Nat /\ sel.scr \in Nat
           /\ view = <<>> => sel.script = None
           /\ view # <<>> => sel.script \in Members(view)
           /\ view = list /\ path \in Members(view) => sel.script = path
<1> DEFINE sel == Selection(list, view, path, catRow, scrRow)
           at == GetScriptIndexes(list, path)
           cat == AtMost(Row(at[1], catRow), Len(view))
           scr == AtMost(Row(at[2], scrRow), Len(view[cat]))
<1>1. CASE view = <<>>
    BY <1>1 DEF Selection, Members
<1>2. CASE view # <<>>
    <2>1. sel = [cat |-> cat, scr |-> scr, script |-> view[cat][scr]]
        BY <1>2 DEF Selection
    <2>2. /\ at[1] \in Nat /\ at[2] \in Nat
          /\ path \in Members(list) =>
                /\ at[1] \in 1..Len(list) /\ at[2] \in 1..Len(list[at[1]])
                /\ list[at[1]][at[2]] = path
        BY IndexesOf
    <2>3. Len(view) \in Nat /\ Len(view) # 0
        BY <1>2, LenProperties, EmptySeq DEF Shown
    <2> HIDE DEF at
    <2>4. cat \in 1..Len(view) /\ (at[1] \in 1..Len(view) => cat = at[1])
        BY <2>2, <2>3, RowInRange
    <2> HIDE DEF cat
    <2>5. /\ DOMAIN view = 1..Len(view) /\ DOMAIN view[cat] = 1..Len(view[cat])
          /\ Len(view[cat]) \in Nat /\ Len(view[cat]) # 0
        BY <2>4, ShownCategory
    <2>6. scr \in 1..Len(view[cat]) /\ (at[2] \in 1..Len(view[cat]) => scr = at[2])
        BY <2>2, <2>5, RowInRange
    <2> HIDE DEF scr
    <2>7. view[cat][scr] \in Members(view)
        BY <2>4, <2>5, <2>6, MemberAt
    <2>8. cat \in Nat /\ scr \in Nat
        BY <2>3, <2>4, <2>5, <2>6
    <2>9. view = list /\ path \in Members(view) => view[cat][scr] = path
        BY <2>2, <2>4, <2>6
    <2> HIDE DEF sel
    <2>10. sel.cat = cat /\ sel.scr = scr /\ sel.script = view[cat][scr]
        BY <2>1
    <2> QED
        BY <1>2, <2>7, <2>8, <2>9, <2>10 DEF sel
<1> QED
    BY <1>1, <1>2

-----------------------------------------------------------------------------
(* The inductive invariant: the types, the selection, and no category that *)
(* is shown empty.  The last is what makes the first row of a category,    *)
(* and a row cut to its size, a script.                                    *)

Inv == TypeOK /\ SelectionValid /\ Shown(shown)

SelectedIn(view) == IF view = <<>> THEN {None} ELSE Members(view)

LEMMA SelectedScript ==
    ASSUME NEW view, Shown(view)
    PROVE  /\ SelectedIn(view) \subseteq Files \cup {None}
           /\ Members(view) \subseteq Files
<1>1. Members(view) \subseteq Files
    BY MemberAtRow DEF Shown
<1> QED
    BY <1>1 DEF SelectedIn

\* What the list is after any scan or sort.
LEMMA ListSorted ==
    ASSUME NEW files \in SUBSET Files, NEW mode \in Modes, NEW present,
           SortFilesUpdateModel(files, mode, present)
    PROVE  /\ mFindedFiles' = files /\ mSortMode' = mode
           /\ mScriptInfo' \in Seq(Seq(Files)) /\ Shown(shown')
           /\ UNCHANGED filters
           /\ \A f \in files \cap present : \E g \in Members(mScriptInfo') :
                 /\ Category(g, mode) = Category(f, mode)
                 /\ TitleOf[g] = TitleOf[f]
<1> DEFINE fs == files \cap present
<1>1. fs \in SUBSET Files /\ mScriptInfo' = ExtractScriptsInfo(fs, mode)
    BY DEF SortFilesUpdateModel
<1> HIDE DEF fs
<1>2. /\ mScriptInfo' \in Seq(Seq(Files))
      /\ \A f \in fs : \E g \in Members(mScriptInfo') :
            /\ Category(g, mode) = Category(f, mode)
            /\ TitleOf[g] = TitleOf[f]
    BY <1>1, ListOfScripts
<1>3. Shown(shown')
    BY <1>2, ShownOfList DEF SortFilesUpdateModel
<1> QED
    BY <1>2, <1>3 DEF SortFilesUpdateModel, fs

\* What is selected after any update of the views.
LEMMA ViewsUpdated ==
    ASSUME mScriptInfo' \in Seq(Seq(Files)), Shown(shown'),
           NEW catRow \in Nat, NEW scrRow \in Nat, NEW path,
           Select(Selection(mScriptInfo', shown', path, catRow, scrRow))
    PROVE  /\ {mCurrCategoryRow', mCurrScriptRow'} \subseteq Nat
           /\ current' \in SelectedIn(shown')
           /\ current' \in Files \cup {None}
           /\ shown' = mScriptInfo' /\ path \in Members(shown') => current' = path
<1> DEFINE sel == Selection(mScriptInfo', shown', path, catRow, scrRow)
<1>1. mCurrCategoryRow' = sel.cat /\ mCurrScriptRow' = sel.scr /\ current' = sel.script
    BY DEF Select
<1>2. /\ sel.cat \in Nat /\ sel.scr \in Nat
      /\ shown' = <<>> => sel.script = None
      /\ shown' # <<>> => sel.script \in Members(shown')
      /\ shown' = mScriptInfo' /\ path \in Members(shown') => sel.script = path
    <2>1. sel.cat \in Nat /\ sel.scr \in Nat
        BY SelectionShown
    <2>2. shown' = <<>> => sel.script = None
        BY DEF Selection
    <2>3. shown' # <<>> => sel.script \in Members(shown')
        BY SelectionShown
    <2>4. shown' = mScriptInfo' /\ path \in Members(shown') => sel.script = path
        BY SelectionShown
    <2> HIDE DEF sel
    <2> QED
        BY <2>1, <2>2, <2>3, <2>4
<1> HIDE DEF sel
<1>3. current' \in SelectedIn(shown')
    BY <1>1, <1>2 DEF SelectedIn
<1> QED
    BY <1>1, <1>2, <1>3, SelectedScript

\* The invariant after a step, from what the step did to the list and the selection.
LEMMA InvAfter ==
    ASSUME disk' \subseteq Files, open' \in BOOLEAN,
           lastScript' \in Files \cup {None}, lastScriptPath' \in Files \cup {None},
           mFindedFiles' \subseteq Files, mSortMode' \in Modes,
           mScriptInfo' \in Seq(Seq(Files)), Shown(shown'),
           nameFilter' \in NameFilters, contentFilter' \in ContentFilters,
           {mCurrCategoryRow', mCurrScriptRow'} \subseteq Nat,
           current' \in Files \cup {None}, open' => current' \in SelectedIn(shown')
    PROVE  Inv'
<1>1. TypeOK'
    BY DEF TypeOK, Shown
<1>2. SelectionValid'
    BY DEF SelectionValid, SelectedIn
<1> QED
    BY <1>1, <1>2 DEF Inv

LEMMA SavedScript ==
    ASSUME Inv
    PROVE  Saved \in Files \cup {None}
BY DEF Inv, TypeOK, Saved

-----------------------------------------------------------------------------
(* The steps.                                                              *)

LEMMA EmptyList ==
    /\ <<>> \in Seq(Seq(Files)) /\ Shown(<<>>)
BY EmptySeq DEF Shown

LEMMA InvInit ==
    ASSUME Init
    PROVE  Inv
<1>1. TypeOK
    <2>1. {lastScript, current, lastScriptPath} \subseteq Files \cup {None}
        BY DEF Init
    <2>2. {mScriptInfo, shown} \subseteq Seq(Seq(Files))
        BY EmptyList DEF Init
    <2>3. nameFilter \in NameFilters /\ contentFilter \in ContentFilters
        BY CatalogAssumption DEF Init
    <2>4. {mCurrCategoryRow, mCurrScriptRow} \subseteq Nat
        BY DEF Init
    <2> QED
        BY <2>1, <2>2, <2>3, <2>4 DEF Init, TypeOK, Modes
<1>2. SelectionValid
    BY DEF Init, SelectionValid
<1> QED
    BY <1>1, <1>2, EmptyList DEF Init, Inv

LEMMA OpenStep ==
    ASSUME Inv, Open
    PROVE  /\ Inv'
           /\ shown' = mScriptInfo' /\ lastScript \in Members(shown') => current' = lastScript
<1>1. SortFilesUpdateModel(disk, "byCategory", disk) /\ "byCategory" \in Modes
    BY DEF Open, FindProccedure, Modes
<1>2. disk \subseteq Files /\ lastScript \in Files \cup {None}
    BY DEF Inv, TypeOK
<1>3. /\ mFindedFiles' = disk /\ mSortMode' = "byCategory"
      /\ mScriptInfo' \in Seq(Seq(Files)) /\ Shown(shown') /\ UNCHANGED filters
    BY <1>1, <1>2, ListSorted
<1>4. /\ {mCurrCategoryRow', mCurrScriptRow'} \subseteq Nat
      /\ current' \in SelectedIn(shown') /\ current' \in Files \cup {None}
      /\ shown' = mScriptInfo' /\ lastScript \in Members(shown') => current' = lastScript
    <2>1. Select(Selection(mScriptInfo', shown', lastScript, 0, 0)) /\ 0 \in Nat
        BY DEF Open
    <2> QED
        BY <1>3, <2>1, ViewsUpdated
<1>5. nameFilter' \in NameFilters /\ contentFilter' \in ContentFilters
    BY <1>3 DEF Inv, TypeOK, filters
<1>6. /\ disk' \subseteq Files /\ open' \in BOOLEAN /\ lastScript' \in Files \cup {None}
      /\ lastScriptPath' \in Files \cup {None}
    BY <1>2 DEF Open
<1>7. Inv'
    BY <1>1, <1>2, <1>3, <1>4, <1>5, <1>6, InvAfter
<1> QED
    BY <1>4, <1>7

\* A step that sorts files again and then selects.
LEMMA ResortStep ==
    ASSUME Inv, open' \in BOOLEAN, disk' \subseteq Files, UNCHANGED lastScript,
           NEW files \in SUBSET Files, NEW mode \in Modes, NEW present,
           SortFilesUpdateModel(files, mode, present),
           NEW path \in Files \cup {None}, lastScriptPath' = path,
           NEW catRow \in Nat, NEW scrRow \in Nat,
           Select(Selection(mScriptInfo', shown', path, catRow, scrRow))
    PROVE  /\ Inv'
           /\ shown' = mScriptInfo' /\ path \in Members(shown') => current' = path
<1>1. /\ mFindedFiles' = files /\ mSortMode' = mode
      /\ mScriptInfo' \in Seq(Seq(Files)) /\ Shown(shown') /\ UNCHANGED filters
    BY ListSorted
<1>2. /\ {mCurrCategoryRow', mCurrScriptRow'} \subseteq Nat
      /\ current' \in SelectedIn(shown') /\ current' \in Files \cup {None}
      /\ shown' = mScriptInfo' /\ path \in Members(shown') => current' = path
    BY <1>1, ViewsUpdated
<1>3. nameFilter' \in NameFilters /\ contentFilter' \in ContentFilters
    BY <1>1 DEF Inv, TypeOK, filters
<1>4. lastScript' \in Files \cup {None}
    BY DEF Inv, TypeOK
<1>5. Inv'
    BY <1>1, <1>2, <1>3, <1>4, InvAfter
<1> QED
    BY <1>2, <1>5

LEMMA UpdateListsStep ==
    ASSUME Inv, UNCHANGED <<lastScript, open>>, NEW present \in SUBSET Files,
           disk' \subseteq Files, UpdateLists(present)
    PROVE  /\ Inv'
           /\ shown' = mScriptInfo' /\ Saved \in Members(shown') => current' = Saved
<1>1. /\ SortFilesUpdateModel(present, mSortMode, present) /\ lastScriptPath' = Saved
      /\ Select(Selection(mScriptInfo', shown', Saved, mCurrCategoryRow, mCurrScriptRow))
    BY DEF UpdateLists, FindProccedure, UpdateViewsCurrentIndex
<1>2. /\ mSortMode \in Modes /\ open' \in BOOLEAN
      /\ mCurrCategoryRow \in Nat /\ mCurrScriptRow \in Nat
    BY DEF Inv, TypeOK
<1> QED
    BY <1>1, <1>2, SavedScript, ResortStep

LEMMA RescanStep ==
    ASSUME Inv, Rescan
    PROVE  /\ Inv'
           /\ shown' = mScriptInfo' /\ Saved \in Members(shown') => current' = Saved
<1>1. disk \in SUBSET Files /\ disk' \subseteq Files
    BY DEF Inv, TypeOK, Rescan
<1> QED
    BY <1>1, UpdateListsStep DEF Rescan

LEMMA DeleteStep ==
    ASSUME Inv, Delete
    PROVE  Inv'
<1>1. disk' \in SUBSET Files
    BY DEF Inv, TypeOK, Delete
<1> QED
    BY <1>1, UpdateListsStep DEF Delete

LEMMA SortByStep ==
    ASSUME Inv, NEW mode \in Modes, SortBy(mode)
    PROVE  /\ Inv'
           /\ shown' = mScriptInfo' /\ Saved \in Members(shown') => current' = Saved
<1>1. /\ SortFilesUpdateModel(mFindedFiles, mode, disk) /\ lastScriptPath' = Saved
      /\ Select(Selection(mScriptInfo', shown', Saved, mCurrCategoryRow, mCurrScriptRow))
    BY DEF SortBy, UpdateViewsCurrentIndex
<1>2. /\ mFindedFiles \in SUBSET Files /\ disk' \subseteq Files /\ open' \in BOOLEAN
      /\ mCurrCategoryRow \in Nat /\ mCurrScriptRow \in Nat /\ UNCHANGED lastScript
    BY DEF Inv, TypeOK, SortBy
<1> QED
    BY <1>1, <1>2, SavedScript, ResortStep

\* The script saved before is selected first, then the new one.
LEMMA SaveNewFileStep ==
    ASSUME Inv, NEW f \in Files, SaveNewFile(f)
    PROVE  /\ Inv'
           /\ shown' = mScriptInfo' /\ f \in Members(shown') => current' = f
<1> DEFINE first == Selection(mScriptInfo', shown', Saved, mCurrCategoryRow, mCurrScriptRow)
<1>1. disk' \in SUBSET Files /\ open' \in BOOLEAN /\ mSortMode \in Modes
    BY DEF Inv, TypeOK, SaveNewFile
<1>2. SortFilesUpdateModel(disk', mSortMode, disk')
    BY DEF SaveNewFile, FindProccedure
<1>3. mScriptInfo' \in Seq(Seq(Files)) /\ Shown(shown')
    BY <1>1, <1>2, ListSorted
<1>4. first.cat \in Nat /\ first.scr \in Nat
    <2>1. mCurrCategoryRow \in Nat /\ mCurrScriptRow \in Nat
        BY DEF Inv, TypeOK
    <2> QED
        BY <1>3, <2>1, SelectionShown
<1>5. Select(Selection(mScriptInfo', shown', f, first.cat, first.scr))
    BY DEF SaveNewFile
<1> HIDE DEF first
<1>6. lastScriptPath' = f /\ UNCHANGED lastScript /\ f \in Files \cup {None}
    BY DEF SaveNewFile
<1> QED
    BY <1>1, <1>2, <1>4, <1>5, <1>6, ResortStep

\* Nothing is looked up in the directory: the filtered list is built of what was found.
LEMMA FilterStep ==
    ASSUME Inv, NEW titles \in NameFilters, NEW files \in ContentFilters,
           Filter(titles, files)
    PROVE  Inv'
<1>1. /\ mScriptInfo' \in Seq(Seq(Files)) /\ mScriptInfo' = mScriptInfo
      /\ mCurrCategoryRow \in Nat /\ mCurrScriptRow \in Nat
    BY DEF Inv, TypeOK, Filter
<1>2. Shown(shown')
    BY <1>1, ShownOfList DEF Filter
<1>3. /\ {mCurrCategoryRow', mCurrScriptRow'} \subseteq Nat
      /\ current' \in SelectedIn(shown') /\ current' \in Files \cup {None}
    <2>1. Select(Selection(mScriptInfo', shown', lastScriptPath, mCurrCategoryRow,
                           mCurrScriptRow))
        BY DEF Filter, UpdateViewsCurrentIndex
    <2> QED
        BY <1>1, <1>2, <2>1, ViewsUpdated
<1>4. nameFilter' \in NameFilters /\ contentFilter' \in ContentFilters
    BY DEF Filter
<1>5. /\ disk' \subseteq Files /\ open' \in BOOLEAN /\ lastScript' \in Files \cup {None}
      /\ lastScriptPath' \in Files \cup {None} /\ mFindedFiles' \subseteq Files
      /\ mSortMode' \in Modes
    BY DEF Filter, Inv, TypeOK
<1> QED
    BY <1>1, <1>2, <1>3, <1>4, <1>5, InvAfter

LEMMA CloseStep ==
    ASSUME Inv, Close
    PROVE  Inv'
<1>1. /\ disk' \subseteq Files /\ lastScript' \in Files \cup {None}
      /\ open' = FALSE /\ lastScriptPath' = None /\ current' = None
    BY DEF Close, LastScriptSetting, Inv, TypeOK
<1>2. mFindedFiles' \subseteq Files /\ mSortMode' \in Modes
    BY DEF Close, Modes
<1>3. mScriptInfo' \in Seq(Seq(Files)) /\ Shown(shown')
    BY EmptyList DEF Close
<1>4. nameFilter' \in NameFilters /\ contentFilter' \in ContentFilters
    BY CatalogAssumption DEF Close
<1>5. {mCurrCategoryRow', mCurrScriptRow'} \subseteq Nat
    BY DEF Close
<1> QED
    BY <1>1, <1>2, <1>3, <1>4, <1>5, InvAfter

\* Steps that leave the list and what is shown alone.
LEMMA ListStays ==
    ASSUME Inv, disk' \subseteq Files, open' \in BOOLEAN,
           open' => current' \in SelectedIn(shown), current' \in Files \cup {None},
           UNCHANGED <<lastScript, mFindedFiles, mSortMode, mScriptInfo, filters, shown,
                       lastScriptPath, rows>>
    PROVE  Inv'
<1>1. /\ lastScript' \in Files \cup {None} /\ lastScriptPath' \in Files \cup {None}
      /\ mFindedFiles' \subseteq Files /\ mSortMode' \in Modes
      /\ mScriptInfo' \in Seq(Seq(Files)) /\ Shown(shown') /\ shown' = shown
    BY DEF Inv, TypeOK
<1>2. /\ nameFilter' \in NameFilters /\ contentFilter' \in ContentFilters
      /\ {mCurrCategoryRow', mCurrScriptRow'} \subseteq Nat
    BY DEF Inv, TypeOK, filters, rows
<1> QED
    BY <1>1, <1>2, InvAfter

LEMMA SelectStep ==
    ASSUME Inv, SelectCategory \/ SelectScript
    PROVE  Inv'
<1>1. Shown(shown) /\ open \in BOOLEAN /\ disk \subseteq Files
    BY DEF Inv, TypeOK
<1>2. PICK k \in DOMAIN shown : \E j \in DOMAIN shown[k] : current' = shown[k][j]
    <2>1. CASE SelectCategory
        <3>1. PICK k \in DOMAIN shown : current' = shown[k][1]
            BY <2>1 DEF SelectCategory
        <3>2. DOMAIN shown = 1..Len(shown)
            BY <1>1, LenProperties DEF Shown
        <3>3. /\ Len(shown[k]) \in Nat /\ Len(shown[k]) # 0
              /\ DOMAIN shown[k] = 1..Len(shown[k])
            BY <1>1, <3>2, ShownCategory
        <3>4. 1 \in DOMAIN shown[k]
            BY <3>3
        <3> QED
            BY <3>1, <3>4
    <2>2. CASE SelectScript
        BY <2>2 DEF SelectScript
    <2> QED
        BY <2>1, <2>2
<1>3. current' \in Members(shown) /\ shown # <<>>
    BY <1>2, MemberAt
<1>4. current' \in SelectedIn(shown) /\ current' \in Files \cup {None}
    BY <1>1, <1>3, SelectedScript DEF SelectedIn
<1>5. /\ UNCHANGED <<disk, open, lastScript, mFindedFiles, mSortMode, mScriptInfo, filters,
                     shown, lastScriptPath, rows>>
    BY DEF SelectCategory, SelectScript
<1> QED
    BY <1>1, <1>4, <1>5, ListStays

LEMMA DiskStep ==
    ASSUME Inv, UNCHANGED <<lastScript, open, mFindedFiles, mSortMode, mScriptInfo, filters,
                            shown, current, lastScriptPath, rows>>,
           disk' \subseteq Files
    PROVE  Inv'
<1>1. /\ open' \in BOOLEAN /\ current' \in Files \cup {None}
      /\ open' => current' \in SelectedIn(shown)
    BY DEF Inv, TypeOK, SelectionValid, SelectedIn
<1> QED
    BY <1>1, ListStays

LEMMA InvNext ==
    ASSUME Inv, [Next]_vars
    PROVE  Inv'
<1>1. CASE UNCHANGED vars
    <2>1. disk' \subseteq Files
        BY <1>1 DEF Inv, TypeOK, vars
    <2> QED
        BY <1>1, <2>1, DiskStep DEF vars
<1>2. CASE DiskChanges
    <2>1. disk' \subseteq Files
        BY <1>2 DEF DiskChanges, Inv, TypeOK
    <2> QED
        BY <1>2, <2>1, DiskStep DEF DiskChanges
<1>3. CASE Open
    BY <1>3, OpenStep
<1>4. CASE Close
    BY <1>4, CloseStep
<1>5. CASE SelectCategory \/ SelectScript
    BY <1>5, SelectStep
<1>6. CASE Rescan
    BY <1>6, RescanStep
<1>7. CASE Delete
    BY <1>7, DeleteStep
<1>8. ASSUME NEW f \in Files, SaveNewFile(f) PROVE Inv'
    BY <1>8, SaveNewFileStep
<1>9. ASSUME NEW mode \in Modes, SortBy(mode) PROVE Inv'
    BY <1>9, SortByStep
<1>10. ASSUME NEW titles \in NameFilters, Filter(titles, contentFilter) PROVE Inv'
    <2>1. contentFilter \in ContentFilters
        BY DEF Inv, TypeOK
    <2> QED
        BY <1>10, <2>1, FilterStep
<1>11. ASSUME NEW files \in ContentFilters, Filter(nameFilter, files) PROVE Inv'
    <2>1. nameFilter \in NameFilters
        BY DEF Inv, TypeOK
    <2> QED
        BY <1>11, <2>1, FilterStep
<1> QED
    BY <1>1, <1>2, <1>3, <1>4, <1>5, <1>6, <1>7, <1>8, <1>9, <1>10, <1>11 DEF Next

-----------------------------------------------------------------------------
(* The theorems.                                                           *)

\* The strengthened invariant: the types, a valid selection, and no empty category shown.
THEOREM InvAlways == Spec => []Inv
<1>1. Init => Inv
    BY InvInit
<1>2. Inv /\ [Next]_vars => Inv'
    BY InvNext
<1> QED
    BY <1>1, <1>2, PTL DEF Spec

\* Every variable of the main window has its type: the lists that are built by category
\* and title, and cut by the filters, are lists of script files.
THEOREM TypesHold == Spec => []TypeOK
<1>1. Inv => TypeOK
    BY DEF Inv
<1> QED
    BY <1>1, InvAlways, PTL

\* Something is selected exactly when something is shown, and it is one of the scripts
\* that are shown (UpdateViewsCurrentIndex and its cut rows).
THEOREM SelectionIsValid == Spec => []SelectionValid
<1>1. Inv => SelectionValid
    BY DEF Inv
<1> QED
    BY <1>1, InvAlways, PTL

\* Rescan, sort, start and save end with the script selected that they mean to select,
\* when it is found and nothing is filtered (Save/RestoreCurrentScriptIndex).
THEOREM SelectionIsKept == Spec => SelectionKept
<1> DEFINE Stays(f) == shown' = mScriptInfo' /\ f \in Members(shown') => current' = f
           Kept == Refreshes(Stays)
<1>1. Inv /\ [Next]_vars => [Kept]_vars
    <2> SUFFICES ASSUME Inv PROVE Kept
        OBVIOUS
    <2>1. ASSUME Rescan \/ \E mode \in Modes : SortBy(mode),
                 shown' = mScriptInfo', current \in Members(shown')
          PROVE  current' = current
        <3>1. Shown(shown')
            BY <2>1, RescanStep, SortByStep DEF Inv
        <3>2. current # None
            BY <2>1, <3>1, SelectedScript, CatalogAssumption
        <3>3. Saved = current
            BY <3>2 DEF Saved
        <3> QED
            BY <2>1, <3>3, RescanStep, SortByStep
    <2>2. ASSUME Open, shown' = mScriptInfo', lastScript \in Members(shown')
          PROVE  current' = lastScript
        BY <2>2, OpenStep
    <2>3. ASSUME NEW f \in Files, SaveNewFile(f), shown' = mScriptInfo', f \in Members(shown')
          PROVE  current' = f
        BY <2>3, SaveNewFileStep
    <2> QED
        BY <2>1, <2>2, <2>3 DEF Refreshes
<1>2. [][Kept]_vars => SelectionKept
    BY PTL DEF SelectionKept, Refreshes
<1> QED
    BY <1>1, <1>2, InvAlways, PTL DEF Spec

\* What every step that builds a list does with it.
LEMMA TwinsListed ==
    ASSUME Inv, NEW files \in SUBSET Files, NEW mode \in Modes, NEW present,
           SortFilesUpdateModel(files, mode, present), disk' = present
    PROVE  \A f \in mFindedFiles' \cap disk' :
              \E g \in Members(mScriptInfo') :
                 /\ Category(g, mSortMode') = Category(f, mSortMode')
                 /\ TitleOf[g] = TitleOf[f]
<1>1. /\ mFindedFiles' = files /\ mSortMode' = mode
      /\ \A f \in files \cap present : \E g \in Members(mScriptInfo') :
            /\ Category(g, mode) = Category(f, mode)
            /\ TitleOf[g] = TitleOf[f]
    BY ListSorted
<1> QED
    BY <1>1

\* No list of scripts loses a script but to one of the same category and title
\* (ExtractScriptsInfo's maps).
THEOREM TwinsOnlyMissing == Spec => OnlyTwinsMissing
<1> DEFINE Listed(f) == \E g \in Members(mScriptInfo') :
                            /\ Category(g, mSortMode') = Category(f, mSortMode')
                            /\ TitleOf[g] = TitleOf[f]
           Twins == mScriptInfo' # mScriptInfo /\ open' =>
                       \A f \in mFindedFiles' \cap disk' :
                           f \notin Members(mScriptInfo') => Listed(f)
<1>1. Inv /\ [Next]_vars => [Twins]_vars
    <2> SUFFICES ASSUME Inv, Next, mScriptInfo' # mScriptInfo, open',
                        NEW f \in mFindedFiles' \cap disk'
                 PROVE  Listed(f)
        OBVIOUS
    <2>1. PICK files \in SUBSET Files, mode \in Modes :
                SortFilesUpdateModel(files, mode, disk')
        <3>1. disk \in SUBSET Files /\ mFindedFiles \in SUBSET Files /\ mSortMode \in Modes
            BY DEF Inv, TypeOK
        <3>2. CASE Open
            BY <3>1, <3>2 DEF Open, FindProccedure, Modes
        <3>3. CASE Rescan
            BY <3>1, <3>3 DEF Rescan, UpdateLists, FindProccedure
        <3>4. CASE Delete
            <4>1. disk' \in SUBSET Files
                BY <3>1, <3>4 DEF Delete
            <4> QED
                BY <3>1, <3>4, <4>1 DEF Delete, UpdateLists, FindProccedure
        <3>5. ASSUME NEW g \in Files, SaveNewFile(g)
              PROVE  SortFilesUpdateModel(disk', mSortMode, disk') /\ disk' \in SUBSET Files
            BY <3>1, <3>5 DEF SaveNewFile, FindProccedure
        <3>6. ASSUME NEW m \in Modes, SortBy(m)
              PROVE  SortFilesUpdateModel(mFindedFiles, m, disk')
            BY <3>6 DEF SortBy
        <3>7. CASE \/ DiskChanges \/ Close \/ SelectCategory \/ SelectScript
                   \/ \E titles \in NameFilters : Filter(titles, contentFilter)
                   \/ \E fs \in ContentFilters : Filter(nameFilter, fs)
            BY <3>7 DEF DiskChanges, Close, SelectCategory, SelectScript, Filter
        <3> QED
            BY <3>1, <3>2, <3>3, <3>4, <3>5, <3>6, <3>7 DEF Next
    <2> QED
        BY <2>1, TwinsListed
<1>2. [][Twins]_vars => OnlyTwinsMissing
    BY PTL DEF OnlyTwinsMissing
<1> QED
    BY <1>1, <1>2, InvAlways, PTL DEF Spec
=============================================================================
