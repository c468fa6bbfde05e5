CONSTANTS
  c1 = c1
  c2 = c2
  w1 = w1
  w2 = w2
  p1 = p1
  p2 = p2
  NoThread = NoThread
  NoProc = NoProc
  Clients = {c1}
  Workers = {w1, w2}
  Procs = {p1}
  SpuriousWakeups = FALSE
  Ops = {"coding"}
  Budget <- TwoCodings
  InitialChains <- OneProcedure

SPECIFICATION MCSpec
SYMMETRY ClientsAndWorkers
INVARIANT AtMostOneWorker
CHECK_DEADLOCK FALSE
