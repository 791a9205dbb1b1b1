SPECIFICATION Spec
CONSTANTS
    Texts <- MCTexts
    EmptyText = ""
    NewItemTitle = "a"
    MaxRecordId = 3
    Typed <- MCTyped
    Trim <- MCTrim
    Files <- MCFiles
    MaxLevelDepth = 2
    MaxRecordCount = 3
INVARIANT EditReadOnlyWithoutItem
