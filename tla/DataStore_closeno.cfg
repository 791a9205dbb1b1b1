SPECIFICATION Spec
CONSTANTS
    Texts <- MCTexts
    EmptyText = ""
    NewItemTitle = "t"
    MaxRecordId = 2
    Passwords <- MCPasswords
    Faults = {}
    MaxChanges = 3
PROPERTY OnlySavingWrites
