SPECIFICATION WindowSpec
CONSTANTS
  Min = 3
  Half = 2
  Start = 9
  Clients <- MCClients
  StatusBar = 1
  Cursors <- MCCursors
  NULL = NULL
  MaxRecordCount = 2
  MaxLevelDepth = 2
  MaxRecordId = 2
  Titles <- MCTitles
  NewItemTitle = "new"
  WritesFail = TRUE
  ReadsFail = FALSE
  Limit = 2
  MaxText = 2
CHECK_DEADLOCK FALSE
INVARIANTS LoopRight DetailsRight
PROPERTIES SplitterRight DropRight OffersKept DetailsFollow
