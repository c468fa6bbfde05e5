CONSTANTS
  NoThread = NoThread
  NoProc = NoProc
  Main = Main
  w1 = w1
  w2 = w2
  good = good
  bad = bad
  Clients = {Main}
  Workers = {w1, w2}
  Procs = {"xor_encode", "gcwt", "base64_encode", "base64_decode", "xor_decode"}
  SpuriousWakeups = FALSE
  Chunks = {good, bad}
  Malformed = {bad}
  Ops = {"coding", "recover", "wait"}
  InitialChains <- Encoding
  Inputs <- OneChunk

SPECIFICATION MCMainSpec
PROPERTY WaitReturns
CHECK_DEADLOCK FALSE
