SPECIFICATION Spec
CONSTANTS
    r1 = r1
    r2 = r2
    Glyph <- Glyphs
    Ascii <- Letters
    Alpha <- Letters
    Word <- AllWords
    Entry <- TwoReadings
    Damaged = "cut"
    Config <- OneConfig
    FirstConfig <- FirstOne
    FirstLines <- NoLines
    Call <- NoCalls
    MaxChanges = 3
    MaxEdits = 0
    MaxFaults = 0
INVARIANTS RecencyRestored
CHECK_DEADLOCK FALSE
