\* Twins by directory and in one list, a name filter, one blank file.
SPECIFICATION Spec
CONSTANTS
    Files <- SomeFiles
    TitleOf <- OwnTitles
    CategoryOf <- SomeCategories
    DirOf <- SomeDirs
    Blank = {3}
    NameFilters <- Names
    ContentFilters <- NoContents
    None = None
INVARIANTS
    TypeOK
    SelectionValid
PROPERTIES
    SelectionKept
    OnlyTwinsMissing
