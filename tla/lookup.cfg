SPECIFICATION Spec
CONSTANTS
  None = None
  MaxExpansions = 2
  Glyph <- MCGlyph
  ReadingGlyph <- MCReadingGlyph
  WordGlyph <- MCWordGlyph
  FieldGlyph <- MCFieldGlyph
  Starts <- MCSituations
INVARIANTS NumeralsReadBack OfferedAsPromised LearnedComesFirst FilesReadBack
CHECK_DEADLOCK FALSE
