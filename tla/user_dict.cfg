SPECIFICATION Spec
CONSTANTS
    r1 = r1
    r2 = r2
    Glyph <- Glyphs
    Ascii <- Letters
    Alpha <- Letters
    Word <- AllWords
    Entry <- ShortEntries
    Damaged = "cut"
    Config <- Configs
    FirstConfig <- FirstOne
    FirstLines <- Hiding
    Call <- Calls
    MaxChanges = 3
    MaxEdits = 1
    MaxFaults = 1
SYMMETRY Symmetric
INVARIANTS TypeOK LatestFirst CleanMeansSaved DictFollowsConfig
PROPERTIES NothingOverwritten ActsAsStore
CHECK_DEADLOCK FALSE
