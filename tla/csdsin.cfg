CONSTANTS
  Contents <- UpToFour
  Sizes = {1, 2, 3}

SPECIFICATION SourceSpec
INVARIANT SourceTypeOK
INVARIANT NoNullCast
INVARIANT EofMeansAll
PROPERTY ImplementsReader
PROPERTY NothingMeansEnd
CHECK_DEADLOCK FALSE
