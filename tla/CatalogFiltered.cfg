\* Own titles in every category, a content filter, no blank file.
SPECIFICATION Spec
CONSTANTS
    Files <- SomeFiles
    TitleOf <- OwnTitles
    CategoryOf <- SomeCategories
    DirOf <- SomeDirs
    Blank = {}
    NameFilters <- NoNames
    ContentFilters <- Contents
    None = None
PROPERTY SelectionKeptFiltered
