SPECIFICATION Spec
CONSTANTS
    MaxRecordId = 2
    Titles <- MCTitles
    NewItemTitle = "new"
    WritesFail = FALSE
    ReadsFail = TRUE
INVARIANT FailedLoadShowsNothing
