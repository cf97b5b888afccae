SPECIFICATION Spec
CONSTANTS
    w1 = w1
    c1 = c1
    None = None
    Window = {w1}
    Late = {c1}
    Home <- HomeDir
    SearchDirs <- Tables
    DataDir <- Data
    Garbled <- NoTable
    Character <- Chars
    Entered <- Changes
    Disk <- Files
    Volatile <- ComeAndGo
    Documents <- InlineTexts
    MaxEdits = 1
CHECK_DEADLOCK FALSE
PROPERTY UntouchedKept
