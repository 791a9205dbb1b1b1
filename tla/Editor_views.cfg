SPECIFICATION Spec
CONSTANTS
    Texts <- MCTexts
    EmptyText = ""
    NewItemTitle = "a"
    MaxRecordId = 4
    Typed <- MCTyped
    Trim <- MCTrim
    Files <- MCFiles
    MaxLevelDepth = 2
    MaxRecordCount = 3
INVARIANTS
    TypeOK
    ViewsAgree
    WithinLimits
PROPERTIES
    TypedTextArrives
    NothingElseChanges
    NewRecordSelected
    SavedMeansSeen
