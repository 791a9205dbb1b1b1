SPECIFICATION Spec
CONSTANTS
    Texts <- MCTexts
    EmptyText = ""
    NewItemTitle = "t"
    MaxRecordId = 2
    Passwords <- MCPasswords
    Faults <- MCAllFaults
    MaxChanges = 3
INVARIANTS
    TypeOK
    PendingOnlyInTransaction
    CleanMeansSaved
    SaveMeansDurable
    StatusShowsDirty
    Integrity
    SessionKeyOpensFile
PROPERTY ImplementsDocument
