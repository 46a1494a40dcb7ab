CONSTANTS
    Columns = 3
    Lines = 5
    DropLines = 2
    KeepLines = 3
    CopiedTo = 1
    ClearLines = 2
    Letters = 16
SPECIFICATION Spec
INVARIANTS TypeOK ReadsAsPrinted
PROPERTY KeepsLatestLines
