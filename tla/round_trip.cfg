CONSTANTS
  BuffSize = 16
  Jobs <- FilesAndLines
  Followers <- DecodeLines

SPECIFICATION ProgramSpec
INVARIANT DecodesWhatItEncoded
INVARIANT OptionsInAnyOrder
INVARIANT NoEmptyChunk
PROPERTY ProgramEnds
CHECK_DEADLOCK FALSE
