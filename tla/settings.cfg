SPECIFICATION FairSpec
CONSTANTS
    w1 = w1
    c1 = c1
    None = None
    Window = {w1}
    Late = {c1}
    Home <- HomeDir
    SearchDirs <- Tables
    DataDir <- Data
    Garbled <- NoTable
    Character <- Chars
    Entered <- Changes
    Disk <- Files
    Volatile <- ComeAndGo
    Documents <- TableTexts
    MaxEdits = 2
INVARIANTS TypeOK NeverPartial
PROPERTIES BrokenKept UntouchedKept AppliedInForce ApplyEnds
CHECK_DEADLOCK FALSE
