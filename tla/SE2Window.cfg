\* Four scripts in three categories, one title twice, one script without a title.
SPECIFICATION Spec
CONSTANTS
    Scripts <- SomeScripts
    TitleOf <- SomeTitles
    CategoryOf <- SomeCategories
    Untitled = {3}
    Faults = {"plugin", "form", "remove"}
    None = None
INVARIANTS
    TypeOK
    ShownIsListed
    SomethingVisible
    EditOnlyWhenAsked
PROPERTIES
    ReloadKeepsScript
    RestartKeepsSelection
