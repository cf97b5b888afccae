SPECIFICATION Spec
CONSTANTS
    Glyph <- Glyphs
    Letter <- Letters
    Wildcard = "*"
    Transitions <- Syllables
    KataOverrides <- NoRules
    OkuriAliases <- Aliases
    Script <- Scripts
    InitialPhase = "Hiragana"
    Events <- ConvertEvents
    Lower <- LowerOf
    Digit = {"1"}
    Hex = {"a", "A", "1", "c"}
    Alpha = {"a", "n"}
    SpaceChar = " "
    KanaN = "nn"
    Hash = "#"
    AsciiKeys = {"l"}
    WideKeys = {"L"}
    KatakanaKeys = {"q"}
    AbbrevKeys = {"/"}
    CancelKeys = {"x"}
    InlineCount = 1
    SelectionKeys <- Keys2
    TriggerChars = {",", "wo"}
    ToggleKeys <- Toggles
    RawKeys <- RawToggles
    ViEscape = FALSE
    PurgeYes <- Yes
    PurgeNo <- No
    Decode <- Decoded
    Wide <- WideOf
    Lookups <- AnswersOf4
    Synths <- Synth1
    Tails <- Tail1
    MaxReading = 2
    MaxTyped = 1
    MaxBuffer = 1
    MaxDepth = 1
VIEW EngineAndScreen
CONSTRAINT ConvertExplored
INVARIANTS TypeOK NoPanic RomanInSync PageAligned ListingIsShown
PROPERTIES EveryCandidateOffered LearnsWhatWasVisible ComposingConsumes
