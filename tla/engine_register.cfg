SPECIFICATION Spec
CONSTANTS
    Glyph <- Glyphs
    Letter <- Letters
    Wildcard = "*"
    Transitions <- OneKey
    KataOverrides <- NoRules
    OkuriAliases <- Aliases
    Script <- Scripts
    InitialPhase = "Hiragana"
    Events <- RegisterEvents
    Lower <- LowerOf
    Digit = {"1"}
    Hex = {"a", "A", "1", "c"}
    Alpha = {"a", "n"}
    SpaceChar = " "
    KanaN = "nn"
    Hash = "#"
    AsciiKeys = {"l"}
    WideKeys = {"L"}
    KatakanaKeys = {"q"}
    AbbrevKeys = {"/"}
    CancelKeys = {"x"}
    InlineCount = 1
    SelectionKeys <- Keys2
    TriggerChars = {",", "wo"}
    ToggleKeys <- Toggles
    RawKeys = {}
    ViEscape = TRUE
    PurgeYes <- Yes
    PurgeNo <- No
    Decode <- Decoded
    Wide <- WideOf
    Lookups <- OneOrNone
    Synths <- Synth1
    Tails <- NoTail
    MaxReading = 1
    MaxTyped = 1
    MaxBuffer = 3
    MaxDepth = 2
VIEW EngineAndScreen
INVARIANTS CompositionVisible
PROPERTIES RegistrationSealed OuterFramesFrozen
