CONSTANTS
  c1 = c1
  c2 = c2
  w1 = w1
  w2 = w2
  p1 = p1
  p2 = p2
  NoThread = NoThread
  NoProc = NoProc
  Clients = {c1}
  Workers = {w1}
  Procs = {p1, p2}
  SpuriousWakeups = TRUE
  Ops = {"coding", "install", "stop", "restart", "recover", "wait"}
  Budget <- TwoStops
  InitialChains <- GappedToo

SPECIFICATION MCFairSpec
PROPERTY ResultIsWholeChain
PROPERTY ImplementsChainRun
PROPERTY RunsEndUninterrupted
PROPERTY WorkersEndUninterrupted
CHECK_DEADLOCK FALSE
