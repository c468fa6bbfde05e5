CONSTANTS
  BuffSize = 16
  Texts <- ShortTexts
  Keys <- SomeKeys
  MaxLayers = 3

SPECIFICATION UseSpec
INVARIANT WrapperTypeOK
INVARIANT BuffersFit
INVARIANT DecodesBack
CHECK_DEADLOCK FALSE
