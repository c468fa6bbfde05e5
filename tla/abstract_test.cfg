CONSTANTS
  NoThread = NoThread
  NoProc = NoProc
  Test = Test
  w1 = w1
  Clients = {Test}
  Workers = {w1}
  Procs = {"func1", "func2", "func3"}
  SpuriousWakeups = TRUE
  Ops = {"coding", "stop", "restart", "recover", "wait"}
  InitialChains <- TestChains

SPECIFICATION TestSpec
INVARIANT NoWorkAfterEnd
INVARIANT PrintsWholeChain
INVARIANT HangsOnlyByRace
PROPERTY TestEnds
CHECK_DEADLOCK FALSE
