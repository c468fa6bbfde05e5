------------------------------- MODULE MainProofs ------------------------------
(***************************************************************************)
(* The coding loop for every input, any number of worker threads and any   *)
(* way the chunks may be malformed: it uses the engine as a client does,   *)
(* never meets the trap of programErrorRecover, and implements Stream.     *)
(***************************************************************************)
EXTENDS MainProperties, CodestreamRunProofs

-----------------------------------------------------------------------------
(* The loop is a client of the engine.                                     *)

LEMMA MainStepEngine == [MainNext]_allVars => [ClientsNext]_vars
<1> SUFFICES ASSUME [MainNext]_allVars
             PROVE  [ClientsNext]_vars
  OBVIOUS
<1>1. Main \in Clients /\ {"coding", "recover", "wait"} \subseteq Ops
  BY MainAssumption
<1>2. CASE MainRead \/ MainReadNothing \/ MainIsShutdown \/ MainIsExecsuccess
           \/ MainOutputs
  BY <1>2 DEF MainRead, MainReadNothing, MainIsShutdown, MainIsExecsuccess, MainOutputs
<1>3. CASE MainCodes
  BY <1>1, <1>3 DEF MainCodes, ClientsNext, Call
<1>4. CASE MainWaits
  BY <1>1, <1>4 DEF MainWaits, ClientsNext, Call
<1>5. CASE MainRecovers
  BY <1>1, <1>5 DEF MainRecovers, ClientsNext, Call
<1>6. CASE MainRecovered \/ CallRuns
  BY <1>1, <1>6 DEF MainRecovered, CallRuns, ClientsNext, EngineStep, ClientStep
<1>7. CASE Spurious \/ \E w \in Workers : CodingStep(w)
  BY <1>7 DEF Spurious, CodingStep, WorkerRuns, RunWrapper, ClientsNext, EngineStep,
              WorkerStep
<1>8. CASE UNCHANGED allVars
  BY <1>8 DEF allVars
<1> QED
  BY <1>2, <1>3, <1>4, <1>5, <1>6, <1>7, <1>8 DEF MainNext, MainStep

\* Everything proved of arbitrary clients holds of the program's loop: it calls the
\* engine as a client may (main_coding of codestream.cc).
THEOREM LoopIsClient == MainSpec => ClientsSpec
<1>1. MainInit => ClientsInit
  BY DEF MainInit
<1> QED
  BY <1>1, MainStepEngine, PTL DEF MainSpec, ClientsSpec

-----------------------------------------------------------------------------
(* The errors the loop can meet.                                           *)

MainLabels ==
  {"idle", "reset_state", "reset_ip", "reset_foe", "coding_init", "coding_start",
   "coding_spawn", "noinit", "recover_ip", "recover_foe", "wait"}

\* The loop never stops, restarts or edits, so the only error is a missing chain,
\* and whenever the state is ERROR that code is still there.
EngineInv ==
  /\ pc[Main] \in MainLabels
  /\ code_procedures \in MainChains /\ ip_end = Len(code_procedures)
  /\ flag_init = (code_procedures # <<>>)
  /\ flag_opdirection = FALSE /\ last_ip_start = 0
  /\ state # "SUSPEND"
  /\ cerror \in {"NOERROR", "NOINIT"}
  /\ state = "ERROR" \/ pc[Main] = "noinit" => cerror = "NOINIT"

LEMMA EngineInit == MainInit => EngineInv
BY MainAssumption, CodestreamAssumption
   DEF MainInit, ClientsInit, InitWith, EngineInv, MainLabels, Threads

LEMMA EngineNext ==
  TypeOK /\ EngineInv /\ [MainNext]_allVars
    => EngineInv' /\ UNCHANGED code_procedures
<1> SUFFICES ASSUME TypeOK, EngineInv, [MainNext]_allVars
             PROVE  EngineInv' /\ UNCHANGED code_procedures
  OBVIOUS
<1> USE MainAssumption, CodestreamAssumption
    DEF TypeOK, PcTypeOK, EngineInv, MainLabels, At, Goto, Threads, ClientLabels,
        WorkerLabels, chainVars, stateVars, flagVars, quietVars
<1>1. CASE MainRead \/ MainReadNothing \/ MainIsShutdown \/ MainIsExecsuccess
           \/ MainOutputs
  BY <1>1 DEF MainRead, MainReadNothing, MainIsShutdown, MainIsExecsuccess,
              MainOutputs, vars
<1>2. CASE MainCodes
  BY <1>2 DEF MainCodes, CodingRefused, CodingAllowed, vars
<1>3. CASE MainWaits \/ MainRecovers
  BY <1>3 DEF MainWaits, WaitForStateMove, MainRecovers, AcquireState
<1>4. CASE MainRecovered
  BY <1>4 DEF MainRecovered, ProgramErrorRecover, RecoverTransition, MoveBoth, MoveTo
<1>5. CASE CallRuns
  <2>1. CASE \/ AcquireState(Main, "reset_state", "reset_ip")
             \/ AcquireIp(Main, "reset_ip", "reset_foe")
             \/ AcquireIp(Main, "recover_ip", "recover_foe")
    BY <2>1 DEF AcquireState, AcquireIp
  <2>2. CASE ResetCodestream(Main) \/ CodingStart(Main)
    BY <2>2 DEF ResetCodestream, CodingStart, MoveBoth
  <2>3. CASE CodingInitialised(Main) \/ NotInitialised(Main, "coding_init")
    BY <2>3 DEF CodingInitialised, NotInitialised
  <2>4. CASE CodingSpawn(Main)
    BY <2>4 DEF CodingSpawn
  <2>5. CASE NoInitState(Main) \/ StateMoved(Main)
    BY <2>5 DEF NoInitState, EnterError, StateMoved
  \* The other operations are never called.
  <2>6. ClientControl(Main) =>
          \/ AcquireState(Main, "reset_state", "reset_ip")
          \/ AcquireIp(Main, "reset_ip", "reset_foe")
          \/ AcquireIp(Main, "recover_ip", "recover_foe")
          \/ ResetCodestream(Main) \/ CodingStart(Main)
          \/ CodingInitialised(Main) \/ NotInitialised(Main, "coding_init")
          \/ CodingSpawn(Main) \/ NoInitState(Main) \/ StateMoved(Main)
    BY DEF ClientControl, InstallFlag, RecordError, ReportError, StopInTime,
           StopTooLate, AcquireIp, StopTest, StopSuspend, RestartResumes,
           RestartFails, RestartError
  <2> QED
    BY <1>5, <2>1, <2>2, <2>3, <2>4, <2>5, <2>6 DEF CallRuns
<1>6. CASE Spurious
  BY <1>6 DEF Spurious, SpuriousWake
<1>7. ASSUME NEW w \in Workers, CodingStep(w)
      PROVE  EngineInv' /\ UNCHANGED code_procedures
  <2>1. CASE RunWrapper(w)
    BY <2>1 DEF RunWrapper, Execute
  <2>2. CASE WorkerCheck(w) \/ WorkerExit(w) \/ WorkerPark(w) \/ WorkerUnparked(w)
             \/ AcquireIp(w, "fetch_ip", "fetch_foe")
    BY <2>2 DEF WorkerCheck, WorkerExit, WorkerPark, WorkerUnparked, AcquireIp
  <2>3. CASE FetchProcedure(w) \/ FetchThrows(w) \/ FetchEnd(w)
    BY <2>3 DEF FetchProcedure, FetchThrows, FetchEnd
  <2>4. CASE Shutdown(w) \/ SaveResult(w)
    BY <2>4 DEF Shutdown, MoveTo, SaveResult
  <2> QED
    BY <1>7, <2>1, <2>2, <2>3, <2>4 DEF CodingStep, WorkerRuns, WorkerControl
<1>8. CASE UNCHANGED allVars
  BY <1>8 DEF allVars, vars
<1> QED
  BY <1>1, <1>2, <1>3, <1>4, <1>5, <1>6, <1>7, <1>8 DEF MainNext, MainStep

LEMMA EngineInvariant == MainSpec => [](TypeOK /\ EngineInv)
BY EngineInit, EngineNext, LoopIsClient, TypeCorrect, PTL DEF MainSpec

\* The catch of main_coding is never needed: programErrorRecover has no reason to
\* throw, whatever an old worker does to the state meanwhile (codestream.cc:123-134).
THEOREM LoopNeverTraps == MainSpec => []NoTrap
<1>1. EngineInv => NoTrap
  BY DEF EngineInv, NoTrap, Trap, RecoverThrows
<1> QED
  BY <1>1, EngineInvariant, PTL

-----------------------------------------------------------------------------
(* The refinement.                                                         *)

\* How many chunks were read, and the one at hand.
Handed == Len(input) - Len(source)

Chunk == input[Handed]

InputInv ==
  /\ input \in Seq(Chunks) /\ source \in Seq(Chunks)
  /\ Len(source) <= Len(input)
  /\ \A i \in 1..Len(source) : source[i] = input[Handed + i]

\* What the first wrapper makes of the chunk.
Halfway ==
  IF code_procedures = EncodeChain THEN <<Chunk, "xor_encode">>
  ELSE IF Chunk \in Malformed THEN Nothing
  ELSE <<Chunk, "base64_decode">>

\* What the whole chain makes of it.
Complete == Coded(Chunk)

\* The buffers after n procedures of the chain.
Stage(n) ==
  /\ n \in {0, 1} => buff1 = <<Chunk>>
  /\ n = 1 => buff2 = Halfway
  /\ n = 2 => buff1 = Halfway
  /\ n = 3 => buff2 = Complete

\* Worker w is the only one, and the chain is done up to the index.
Running(w) ==
  /\ \A v \in Workers \ {w} : pc[v] = "none"
  /\ \/ pc[w] \in {"check", "fetch_ip", "fetch_foe", "save"} /\ Stage(ip)
     \/ pc[w] = "exec" /\ ip # 0 /\ f[w] = code_procedures[ip] /\ Stage(ip - 1)
     \/ pc[w] = "shutdown" /\ Stage(3)

\* No worker is inside the chain, and none will be.
AtRest == state = "SHUTDOWN" /\ \A w \in Workers : pc[w] \in {"none", "check"}

\* From the return of coding() on.
Started ==
  \/ state = "ERROR"
     /\ \A w \in Workers : pc[w] \in {"none", "check", "park", "parked"}
  \/ AtRest /\ buff2 = Complete
  \/ /\ state = "PROGRESSING" /\ code_procedures # <<>> /\ ip \in 0..3
     /\ \E w \in Workers : Running(w)

\* The places of main_coding, with that of its calls.
LoopInv ==
  \/ /\ mpc = "read" /\ pc[Main] = "idle" /\ AtRest
     /\ Len(output) = Handed
  \/ /\ mpc = "coding" /\ pc[Main] = "idle" /\ AtRest
     /\ Len(output) = Handed - 1 /\ buff1 = <<Chunk>>
  \/ /\ mpc = "wait" /\ pc[Main] \in {"reset_state", "reset_ip", "reset_foe", "noinit"}
     /\ AtRest
     /\ Len(output) = Handed - 1 /\ buff1 = <<Chunk>>
  \/ /\ mpc = "wait" /\ pc[Main] \in {"coding_init", "coding_start"} /\ AtRest
     /\ pc[Main] = "coding_start" => code_procedures # <<>>
     /\ Len(output) = Handed - 1 /\ buff1 = <<Chunk>> /\ ip = 0
  \/ /\ mpc = "wait" /\ pc[Main] = "coding_spawn"
     /\ state = "PROGRESSING" /\ \A w \in Workers : pc[w] = "none"
     /\ code_procedures # <<>>
     /\ Len(output) = Handed - 1 /\ buff1 = <<Chunk>> /\ ip = 0
  \/ /\ mpc = "wait" /\ pc[Main] = "idle" /\ Started
     /\ Len(output) = Handed - 1
  \/ /\ mpc = "woken" /\ pc[Main] \in {"wait", "idle"} /\ Started
     /\ Len(output) = Handed - 1
  \/ /\ mpc = "output" /\ pc[Main] = "idle" /\ AtRest
     /\ Len(output) = Handed - 1 /\ buff2 = Complete
  \/ mpc = "exit" /\ pc[Main] = "idle" /\ AtRest

\* What a write of the program can hold.
Data == Seq(Chunks \cup Procs)

\* As long as the loop was not disturbed, what it holds is what it promised.
StreamInv ==
  /\ InputInv
  /\ disturbed \in BOOLEAN
  /\ ~disturbed => LoopInv /\ output \in Seq(Data)

LEMMA StreamInit == MainInit => StreamInv
<1> SUFFICES ASSUME MainInit
             PROVE  StreamInv
  OBVIOUS
<1>1. input \in Seq(Chunks) /\ source = input /\ output = <<>> /\ disturbed = FALSE
  BY DEF MainInit
<1>2. Len(input) \in Nat
  BY <1>1
<1>3. Handed = 0
  BY <1>1, <1>2 DEF Handed
<1>4. InputInv
  BY <1>1, <1>2, <1>3 DEF InputInv
<1>5. mpc = "read" /\ pc[Main] = "idle" /\ AtRest
  BY MainAssumption, CodestreamAssumption
     DEF MainInit, ClientsInit, InitWith, AtRest, Threads
<1>6. output \in Seq(Data) /\ Len(output) = 0
  BY <1>1
<1> QED
  BY <1>1, <1>3, <1>4, <1>5, <1>6 DEF StreamInv, LoopInv

\* The chunk at hand, and what becomes of it, stay as long as no other is read.
LEMMA SameChunk ==
  ASSUME UNCHANGED <<input, source, code_procedures>>
  PROVE  /\ Handed' = Handed /\ Chunk' = Chunk
         /\ Halfway' = Halfway /\ Complete' = Complete
BY DEF Handed, Chunk, Halfway, Complete, Coded

\* A step of a worker leaves the loop where it is.
LEMMA WorkerKeepsLoop ==
  ASSUME TypeOK, NEW w \in Workers, CodingStep(w)
  PROVE  /\ UNCHANGED <<input, source, output, main_error_code, mpc, disturbed>>
         /\ UNCHANGED code_procedures
         /\ pc'[Main] = pc[Main]
         /\ \A v \in Workers \ {w} : pc'[v] = pc[v]
<1> USE MainAssumption, CodestreamAssumption
    DEF TypeOK, PcTypeOK, Goto, Threads, chainVars, loopVars, mainVars
<1>1. CASE RunWrapper(w)
  BY <1>1 DEF RunWrapper, Execute
<1>2. ASSUME UNCHANGED mainVars,
             \/ WorkerCheck(w) \/ WorkerExit(w) \/ WorkerPark(w) \/ WorkerUnparked(w)
             \/ AcquireIp(w, "fetch_ip", "fetch_foe")
      PROVE  /\ UNCHANGED code_procedures /\ pc'[Main] = pc[Main]
             /\ \A v \in Workers \ {w} : pc'[v] = pc[v]
  BY <1>2 DEF WorkerCheck, WorkerExit, WorkerPark, WorkerUnparked, AcquireIp
<1>3. ASSUME UNCHANGED mainVars,
             \/ FetchProcedure(w) \/ FetchThrows(w) \/ FetchEnd(w)
             \/ Shutdown(w) \/ SaveResult(w)
      PROVE  /\ UNCHANGED code_procedures /\ pc'[Main] = pc[Main]
             /\ \A v \in Workers \ {w} : pc'[v] = pc[v]
  BY <1>3 DEF FetchProcedure, FetchThrows, FetchEnd, Shutdown, SaveResult
<1> QED
  BY <1>1, <1>2, <1>3 DEF CodingStep, WorkerRuns, WorkerControl

\* A worker of an earlier run can only leave.
LEMMA RestStep ==
  ASSUME TypeOK, AtRest, NEW w \in Workers, CodingStep(w)
  PROVE  AtRest' /\ UNCHANGED <<buff1, buff2, ip>>
<1> USE DEF AtRest, At
<1>1. WorkerExit(w) /\ UNCHANGED mainVars
  BY DEF CodingStep, WorkerRuns, WorkerControl, RunWrapper, WorkerCheck, WorkerPark,
         WorkerUnparked, AcquireIp, FetchProcedure, FetchThrows, FetchEnd, Shutdown,
         Execute, SaveResult
<1> QED
  BY <1>1 DEF WorkerExit, Goto, TypeOK, PcTypeOK, Threads, chainVars, stateVars,
              mainVars

\* Without a chain a worker of an earlier run finds nothing to do.
LEMMA ErrorStep ==
  ASSUME TypeOK, state = "ERROR",
         \A v \in Workers : pc[v] \in {"none", "check", "park", "parked"},
         NEW w \in Workers, CodingStep(w)
  PROVE  /\ state' = "ERROR"
         /\ \A v \in Workers : pc'[v] \in {"none", "check", "park", "parked"}
<1> USE DEF At
<1>1. WorkerCheck(w) \/ WorkerPark(w) \/ WorkerUnparked(w)
  BY DEF CodingStep, WorkerRuns, WorkerControl, RunWrapper, WorkerExit, AcquireIp,
         FetchProcedure, FetchThrows, FetchEnd, Shutdown, Execute, SaveResult
<1> QED
  BY <1>1 DEF WorkerCheck, WorkerPark, WorkerUnparked, Goto, TypeOK, PcTypeOK, Threads,
              stateVars

\* The chains of the program: three wrappers, none of them null.
LEMMA ChainFacts ==
  ASSUME EngineInv, code_procedures # <<>>
  PROVE  /\ Len(code_procedures) = 3
         /\ code_procedures[1] \notin {"gcwt", NoProc}
         /\ code_procedures[2] = "gcwt" /\ "gcwt" # NoProc
         /\ code_procedures[3] \notin {"gcwt", NoProc}
<1>1. code_procedures \in {EncodeChain, DecodeChain}
  BY DEF EngineInv, MainChains
<1>2. \A p \in {"xor_encode", "gcwt", "base64_encode", "base64_decode", "xor_decode"} :
        p # NoProc
  BY MainAssumption, CodestreamAssumption
<1> QED
  BY <1>1, <1>2 DEF EncodeChain, DecodeChain

\* Appending to a sequence that is written out.
LEMMA AppendToOne ==
  ASSUME NEW x, NEW e
  PROVE  Append(<<x>>, e) = <<x, e>>
<1> DEFINE E == {x, e}
           s == Append(<<x>>, e)
           t == <<x, e>>
<1>1. s \in Seq(E) /\ Len(s) = 2 /\ s[1] = x /\ s[2] = e
  OBVIOUS
<1>2. t \in Seq(E) /\ Len(t) = 2 /\ t[1] = x /\ t[2] = e
  OBVIOUS
<1> HIDE DEF s, t, E
<1>3. Len(s) = Len(t) /\ \A i \in 1..Len(s) : s[i] = t[i]
  BY <1>1, <1>2
<1>4. s = t
  BY <1>1, <1>2, <1>3, SeqEqual
<1> QED
  BY <1>4 DEF s, t

LEMMA AppendToTwo ==
  ASSUME NEW x, NEW y, NEW e
  PROVE  Append(<<x, y>>, e) = <<x, y, e>>
<1> DEFINE E == {x, y, e}
           s == Append(<<x, y>>, e)
           t == <<x, y, e>>
<1>1. s \in Seq(E) /\ Len(s) = 3 /\ s[1] = x /\ s[2] = y /\ s[3] = e
  OBVIOUS
<1>2. t \in Seq(E) /\ Len(t) = 3 /\ t[1] = x /\ t[2] = y /\ t[3] = e
  OBVIOUS
<1> HIDE DEF s, t, E
<1>3. Len(s) = Len(t) /\ \A i \in 1..Len(s) : s[i] = t[i]
  BY <1>1, <1>2
<1>4. s = t
  BY <1>1, <1>2, <1>3, SeqEqual
<1> QED
  BY <1>4 DEF s, t

\* The two halves of a coding.
LEMMA WrappersComplete ==
  ASSUME EngineInv, code_procedures # <<>>
  PROVE  /\ Wrapped(code_procedures[1], <<Chunk>>) = Halfway
         /\ Wrapped(code_procedures[3], Halfway) = Complete
<1>1. \A x, e : Append(<<x>>, e) = <<x, e>> /\ <<x>> # <<>> /\ <<x>>[1] = x
  BY AppendToOne
<1>2. \A x, y, e : /\ Append(<<x, y>>, e) = <<x, y, e>>
                  /\ <<x, y>> # <<>> /\ <<x, y>>[1] = x
  BY AppendToTwo
<1>3. CASE code_procedures = EncodeChain
  <2>1. Halfway = <<Chunk, "xor_encode">>
        /\ Complete = <<Chunk, "xor_encode", "base64_encode">>
    BY <1>3 DEF Halfway, Complete, Coded
  <2>2. code_procedures[1] = "xor_encode" /\ code_procedures[3] = "base64_encode"
    BY <1>3 DEF EncodeChain
  <2> QED
    BY <1>1, <1>2, <2>1, <2>2 DEF Wrapped, Rejects, Nothing
<1>4. CASE code_procedures = DecodeChain
  <2>1. code_procedures # EncodeChain
    BY <1>4 DEF EncodeChain, DecodeChain
  <2>2. code_procedures[1] = "base64_decode" /\ code_procedures[3] = "xor_decode"
    BY <1>4 DEF DecodeChain
  <2>3. CASE Chunk \in Malformed
    BY <1>1, <2>1, <2>2, <2>3 DEF Wrapped, Rejects, Nothing, Halfway, Complete, Coded
  <2>4. CASE Chunk \notin Malformed
    BY <1>1, <1>2, <2>1, <2>2, <2>4
       DEF Wrapped, Rejects, Nothing, Halfway, Complete, Coded
  <2> QED
    BY <2>3, <2>4
<1> QED
  BY <1>3, <1>4 DEF EngineInv, MainChains

\* What the worker of a run does next keeps the run going or completes it.
LEMMA RunStep ==
  ASSUME TypeOK, EngineInv, InputInv, state = "PROGRESSING", code_procedures # <<>>,
         ip \in 0..3, NEW v \in Workers, Running(v), NEW w \in Workers, CodingStep(w)
  PROVE  Started'
<1> USE DEF At
<1>1. w = v
  BY DEF Running, CodingStep, WorkerRuns, WorkerControl, RunWrapper, WorkerCheck,
         WorkerExit, WorkerPark, WorkerUnparked, AcquireIp, FetchProcedure, FetchThrows,
         FetchEnd, Shutdown, Execute, SaveResult
<1>2. UNCHANGED <<input, source, code_procedures>>
  BY WorkerKeepsLoop
<1>3. Chunk' = Chunk /\ Halfway' = Halfway /\ Complete' = Complete
  BY <1>2, SameChunk
<1>4. \A u \in Workers \ {v} : pc'[u] = "none"
  BY <1>1, WorkerKeepsLoop DEF Running
<1>5. pc \in [Threads -> ClientLabels \cup WorkerLabels] /\ v \in Threads
  BY DEF TypeOK, PcTypeOK, Threads
<1>6. f \in [Workers -> Procs \cup {NoProc}]
  BY DEF TypeOK, LocalTypeOK
<1>7. Len(code_procedures) = 3
  BY ChainFacts
<1> DEFINE Going ==
      /\ state' = "PROGRESSING" /\ ip' \in 0..3
      /\ \/ pc'[v] \in {"check", "fetch_ip", "fetch_foe", "save"} /\ Stage(ip)'
         \/ /\ pc'[v] = "exec" /\ ip' # 0
            /\ f'[v] = code_procedures[ip'] /\ Stage(ip - 1)'
         \/ pc'[v] = "shutdown" /\ Stage(3)'
<1>8. Going => Started'
  BY <1>2, <1>4 DEF Started, Running
<1> USE DEF Running, Goto
<1>9. CASE UNCHANGED mainVars /\ (WorkerCheck(v) \/ AcquireIp(v, "fetch_ip", "fetch_foe")
                                  \/ SaveResult(v))
  <2>1. Stage(ip) /\ Stage(ip)'
    BY <1>3, <1>9 DEF WorkerCheck, AcquireIp, SaveResult, Stage, mainVars, chainVars
  <2> QED
    BY <1>5, <1>8, <1>9, <2>1
       DEF WorkerCheck, AcquireIp, SaveResult, chainVars, stateVars
<1>10. CASE UNCHANGED mainVars /\ FetchProcedure(v)
  <2>1. ip \in 0..2 /\ ip' = ip + 1 /\ Stage(ip)
    BY <1>7, <1>10 DEF FetchProcedure, InChain, EngineInv
  <2>2. Stage(ip - 1)'
    BY <1>3, <1>10, <2>1 DEF Stage, mainVars
  <2>3. code_procedures[ip + 1] # NoProc
    BY <2>1, ChainFacts
  <2> QED
    BY <1>2, <1>5, <1>6, <1>8, <1>10, <2>1, <2>2, <2>3 DEF FetchProcedure, stateVars
<1>11. ~FetchThrows(v)
  BY <1>7 DEF FetchThrows, MoreToDo, PastEnd, InChain, EngineInv
<1>12. CASE UNCHANGED mainVars /\ FetchEnd(v)
  <2>1. ip = 3 /\ Stage(3)
    BY <1>7, <1>12 DEF FetchEnd, MoreToDo, PastEnd, EngineInv
  <2>2. Stage(3)'
    BY <1>3, <1>12, <2>1 DEF Stage, mainVars
  <2> QED
    BY <1>5, <1>8, <1>12, <2>1, <2>2 DEF FetchEnd, chainVars, stateVars
<1>13. CASE UNCHANGED mainVars /\ Shutdown(v)
  <2>1. buff2' = Complete'
    BY <1>3, <1>13 DEF Shutdown, Stage, mainVars
  <2>2. AtRest'
    BY <1>4, <1>5, <1>13 DEF Shutdown, MoveTo, AtRest
  <2> QED
    BY <2>1, <2>2 DEF Started
<1>14. CASE RunWrapper(v)
  <2>1. ip \in 1..3 /\ f[v] = code_procedures[ip] /\ Stage(ip - 1) /\ ip' = ip
    BY <1>14 DEF RunWrapper, Execute, chainVars
  <2>2. ASSUME ip = 1 PROVE Stage(ip)'
    <3>1. buff1' = <<Chunk>> /\ buff2' = Halfway
      BY <1>14, <2>1, <2>2, ChainFacts, WrappersComplete DEF RunWrapper, Stage
    <3> QED
      BY <1>3, <2>1, <2>2, <3>1 DEF Stage
  <2>3. ASSUME ip = 2 PROVE Stage(ip)'
    <3>1. buff1' = Halfway
      BY <1>14, <2>1, <2>3, ChainFacts DEF RunWrapper, Stage
    <3> QED
      BY <1>3, <2>1, <2>3, <3>1 DEF Stage
  <2>4. ASSUME ip = 3 PROVE Stage(ip)'
    <3>1. buff2' = Complete
      BY <1>14, <2>1, <2>4, ChainFacts, WrappersComplete DEF RunWrapper, Stage
    <3> QED
      BY <1>3, <2>1, <2>4, <3>1 DEF Stage
  <2>5. Stage(ip)'
    BY <2>1, <2>2, <2>3, <2>4
  <2> QED
    BY <1>5, <1>8, <1>14, <2>1, <2>5 DEF RunWrapper, Execute, stateVars
<1> QED
  BY <1>1, <1>9, <1>10, <1>11, <1>12, <1>13, <1>14
     DEF CodingStep, WorkerRuns, WorkerControl, WorkerExit, WorkerPark, WorkerUnparked

\* A step of a worker while the loop waits, or is about to wait.
LEMMA StartedStep ==
  ASSUME TypeOK, EngineInv, InputInv, Started, NEW w \in Workers, CodingStep(w)
  PROVE  Started'
<1>1. CASE /\ state = "ERROR"
           /\ \A v \in Workers : pc[v] \in {"none", "check", "park", "parked"}
  BY <1>1, ErrorStep DEF Started
<1>2. CASE AtRest /\ buff2 = Complete
  <2>1. AtRest' /\ buff2' = buff2
    BY <1>2, RestStep
  <2>2. Complete' = Complete
    BY WorkerKeepsLoop, SameChunk
  <2> QED
    BY <1>2, <2>1, <2>2 DEF Started
<1>3. CASE /\ state = "PROGRESSING" /\ code_procedures # <<>> /\ ip \in 0..3
           /\ \E v \in Workers : Running(v)
  BY <1>3, RunStep
<1> QED
  BY <1>1, <1>2, <1>3 DEF Started

\* What the loop does besides leaves the run alone.
LEMMA StartedStays ==
  ASSUME UNCHANGED <<state, ip, f, buff1, buff2, code_procedures, input, source>>,
         \A w \in Workers : pc'[w] = pc[w]
  PROVE  (Started => Started') /\ (AtRest => AtRest')
<1>1. Chunk' = Chunk /\ Halfway' = Halfway /\ Complete' = Complete
  BY SameChunk
<1>2. AtRest => AtRest'
  BY DEF AtRest
<1>3. ASSUME NEW w \in Workers, Running(w)
      PROVE  Running(w)'
  <2>1. Stage(ip)' <=> Stage(ip)
    BY <1>1 DEF Stage
  <2>2. Stage(ip - 1)' <=> Stage(ip - 1)
    BY <1>1 DEF Stage
  <2>3. Stage(3)' <=> Stage(3)
    BY <1>1 DEF Stage
  <2> QED
    BY <1>3, <2>1, <2>2, <2>3 DEF Running
<1> QED
  BY <1>1, <1>2, <1>3 DEF Started

\* The chunks read and unread.
LEMMA InputNext ==
  ASSUME InputInv, [MainNext]_allVars
  PROVE  InputInv'
<1>1. CASE MainRead
  <2>1. source # <<>> /\ source' = Tail(source) /\ input' = input
    BY <1>1 DEF MainRead
  <2>2. /\ source' \in Seq(Chunks) /\ Len(source') = Len(source) - 1
        /\ Len(source) \in Nat \ {0} /\ Len(input) \in Nat
        /\ \A i \in 1..Len(source') : source'[i] = source[i + 1]
    BY <2>1 DEF InputInv
  <2>3. Handed' = Handed + 1
    BY <2>1, <2>2 DEF Handed
  <2>4. ASSUME NEW i \in 1..Len(source')
        PROVE  source'[i] = input'[Handed' + i]
    <3>1. source'[i] = source[i + 1] /\ i + 1 \in 1..Len(source)
      BY <2>2
    <3>2. source[i + 1] = input[Handed + (i + 1)]
      BY <3>1 DEF InputInv
    <3>3. Handed \in Int /\ i \in Int
      BY <2>2 DEF Handed
    <3>4. Handed' + i = Handed + (i + 1)
      BY <2>3, <3>3
    <3> QED
      BY <2>1, <3>1, <3>2, <3>4
  <2> QED
    BY <2>1, <2>2, <2>4 DEF InputInv
<1>2. CASE UNCHANGED <<input, source>>
  BY <1>2 DEF InputInv, Handed
<1> QED
  BY <1>1, <1>2
     DEF MainNext, MainStep, MainReadNothing, MainCodes, MainWaits, MainIsShutdown,
         MainIsExecsuccess, MainRecovers, MainRecovered, MainOutputs, CallRuns,
         Spurious,
         CodingStep, WorkerRuns, RunWrapper, allVars, mainVars, loopVars

\* Inside a call of an undisturbed loop: coding(), or waitForStateMove().
LEMMA CallStep ==
  ASSUME TypeOK, EngineInv, LoopInv, CallRuns, ~disturbed'
  PROVE  LoopInv'
<1> USE MainAssumption, CodestreamAssumption
    DEF At, Goto, Threads, TypeOK, PcTypeOK, chainVars, stateVars
<1>1. UNCHANGED <<input, source, output, buff1, buff2, mpc, code_procedures>>
  BY EngineNext DEF CallRuns, MainNext, MainStep, loopVars
<1>2. Handed' = Handed /\ Chunk' = Chunk /\ Halfway' = Halfway /\ Complete' = Complete
  BY <1>1, SameChunk
<1>3. CASE \/ AcquireState(Main, "reset_state", "reset_ip")
           \/ AcquireIp(Main, "reset_ip", "reset_foe")
  <2>1. AtRest => AtRest'
    BY <1>3 DEF AcquireState, AcquireIp, AtRest
  <2> QED
    BY <1>1, <1>2, <1>3, <2>1 DEF AcquireState, AcquireIp, LoopInv
<1>4. CASE ResetCodestream(Main)
  <2>1. AtRest => AtRest'
    BY <1>4 DEF ResetCodestream, MoveBoth, AtRest
  <2> QED
    BY <1>1, <1>2, <1>4, <2>1 DEF ResetCodestream, MoveBoth, LoopInv, EngineInv
<1>5. CASE CodingInitialised(Main) \/ NotInitialised(Main, "coding_init")
  <2>1. AtRest => AtRest'
    BY <1>5 DEF CodingInitialised, NotInitialised, AtRest
  <2> QED
    BY <1>1, <1>2, <1>5, <2>1 DEF CodingInitialised, NotInitialised, LoopInv, EngineInv
<1>6. CASE NoInitState(Main)
  <2>1. mpc = "wait" /\ AtRest /\ Len(output) = Handed - 1
    BY <1>6 DEF NoInitState, LoopInv
  <2>2. Started'
    BY <1>6, <2>1 DEF NoInitState, EnterError, AtRest, Started
  <2> QED
    BY <1>1, <1>2, <1>6, <2>1, <2>2 DEF NoInitState, LoopInv
<1>7. CASE CodingStart(Main)
  <2>1. \A w \in Workers : pc[w] = "none"
    BY <1>7 DEF CallRuns, CodingStart, Live
  <2> QED
    BY <1>1, <1>2, <1>7, <2>1 DEF CodingStart, MoveBoth, LoopInv
<1>8. CASE CodingSpawn(Main)
  <2>1. /\ mpc = "wait" /\ state = "PROGRESSING" /\ code_procedures # <<>>
        /\ \A w \in Workers : pc[w] = "none"
        /\ Len(output) = Handed - 1 /\ buff1 = <<Chunk>> /\ ip = 0
    BY <1>8 DEF CodingSpawn, LoopInv
  <2>2. PICK w \in Workers : pc' = [pc EXCEPT ![Main] = "idle", ![w] = "check"]
    BY <1>8 DEF CodingSpawn
  <2>3. /\ pc'[Main] = "idle" /\ pc'[w] = "check"
        /\ \A v \in Workers \ {w} : pc'[v] = "none"
    BY <2>1, <2>2
  <2>4. state' = state /\ ip' = 0
    BY <1>8, <2>1 DEF CodingSpawn
  <2>5. Stage(ip)'
    BY <1>1, <1>2, <2>1, <2>4 DEF Stage
  <2>6. Started'
    BY <1>1, <2>1, <2>3, <2>4, <2>5 DEF Started, Running
  <2> QED
    BY <1>1, <1>2, <2>1, <2>3, <2>6 DEF LoopInv
<1>9. CASE StateMoved(Main)
  <2>1. Started => Started'
    BY <1>1, <1>9, StartedStays DEF StateMoved, quietVars, localVars
  <2> QED
    BY <1>1, <1>2, <1>9, <2>1 DEF StateMoved, LoopInv
\* The other operations are not called while the loop is undisturbed.
<1>10. /\ pc[Main] # "install_flag" /\ pc[Main] \notin {"uninstall_foe", "uninstall_state"}
       /\ pc[Main] \notin {"stop_ip", "stop_foe", "stop_state", "stop_test", "stop_suspend"}
       /\ pc[Main] \notin {"restart_state", "restart_foe", "recover_ip", "recover_foe"}
  BY DEF LoopInv
<1> QED
  BY <1>3, <1>4, <1>5, <1>6, <1>7, <1>8, <1>9, <1>10
     DEF CallRuns, ClientControl, InstallFlag, RecordError, ReportError, StopInTime,
         StopTooLate, AcquireIp, StopTest, StopSuspend, RestartResumes, RestartFails,
         RestartError

LEMMA CodedType ==
  ASSUME NEW c \in Chunks
  PROVE  Coded(c) \in Data
<1>1. /\ c \in Chunks \cup Procs
      /\ "xor_encode" \in Chunks \cup Procs /\ "base64_encode" \in Chunks \cup Procs
      /\ "base64_decode" \in Chunks \cup Procs /\ "xor_decode" \in Chunks \cup Procs
  BY MainAssumption
<1> DEFINE D == Chunks \cup Procs
<1>2. \A x, y, z \in D : <<x, y, z>> \in Seq(D)
  OBVIOUS
<1>3. <<>> \in Seq(D)
  OBVIOUS
<1> QED
  BY <1>1, <1>2, <1>3 DEF Coded, Nothing, Data

LEMMA ChunkAtHand ==
  ASSUME InputInv, output \in Seq(Data), Len(output) = Handed - 1
  PROVE  Handed \in 1..Len(input) /\ Complete \in Data
<1>1. Handed \in 1..Len(input)
  BY DEF Handed, InputInv
<1>2. Chunk \in Chunks
  BY <1>1 DEF Chunk, InputInv
<1> QED
  BY <1>1, <1>2, CodedType DEF Complete

\* A step of the loop itself, as long as it is not disturbed.
LEMMA LoopStep ==
  ASSUME TypeOK, EngineInv, InputInv, LoopInv, output \in Seq(Data),
         MainStep, ~CallRuns, ~disturbed'
  PROVE  LoopInv'
<1> USE DEF AtMain
<1>1. UNCHANGED code_procedures /\ \A w \in Workers : pc'[w] = pc[w]
  BY EngineNext, MainAssumption, CodestreamAssumption
     DEF MainNext, MainStep, MainRead, MainReadNothing, MainCodes, MainWaits,
         MainIsShutdown, MainIsExecsuccess, MainRecovers, MainRecovered, MainOutputs,
         CodingRefused, CodingAllowed, WaitForStateMove, AcquireState,
         ProgramErrorRecover, Goto, Threads, TypeOK, PcTypeOK, vars
<1>2. pc[Main] # "recover_foe" /\ mpc \notin {"not_shutdown", "recover"}
  BY DEF LoopInv
<1>3. CASE MainRead
  <2>1. /\ mpc = "read" /\ pc[Main] = "idle" /\ AtRest /\ Len(output) = Handed
        /\ source # <<>> /\ buff1' = <<Head(source)>> /\ source' = Tail(source)
        /\ UNCHANGED <<vars, input, output>> /\ mpc' = "coding"
    BY <1>3 DEF MainRead, LoopInv
  <2>2. /\ Len(source') = Len(source) - 1
        /\ Len(source) \in Nat \ {0} /\ Len(input) \in Nat /\ Head(source) = source[1]
    BY <2>1 DEF InputInv
  <2>3. Handed' = Handed + 1 /\ Handed \in Int
    BY <2>1, <2>2 DEF Handed
  <2>4. Head(source) = input[Handed + 1]
    BY <2>2 DEF InputInv
  <2>5. Chunk' = Head(source)
    BY <2>1, <2>3, <2>4 DEF Chunk
  <2>6. AtRest' /\ pc'[Main] = "idle"
    BY <2>1 DEF AtRest, vars, stateVars
  <2> QED
    BY <2>1, <2>3, <2>5, <2>6 DEF LoopInv
<1>4. CASE MainReadNothing
  <2>1. AtRest' /\ pc'[Main] = "idle" /\ mpc' = "exit"
    BY <1>4 DEF MainReadNothing, LoopInv, AtRest, vars, stateVars
  <2> QED
    BY <2>1 DEF LoopInv
<1>5. UNCHANGED <<input, source>> =>
        Handed' = Handed /\ Chunk' = Chunk /\ Complete' = Complete
  BY <1>1, SameChunk
<1>6. CASE MainCodes
  <2>1. /\ mpc = "coding" /\ AtRest /\ Len(output) = Handed - 1 /\ buff1 = <<Chunk>>
        /\ UNCHANGED <<input, source, output, buff1>> /\ mpc' = "wait"
    BY <1>6 DEF MainCodes, LoopInv, loopVars
  <2>2. CodingAllowed(Main)
    BY <1>6, <2>1 DEF MainCodes, CodingRefused, AtRest
  <2>3. pc'[Main] = "reset_state" /\ AtRest'
    BY <1>1, <2>1, <2>2, MainAssumption
       DEF CodingAllowed, Goto, AtRest, TypeOK, PcTypeOK, Threads, stateVars
  <2> QED
    BY <1>5, <2>1, <2>3 DEF LoopInv
<1>7. CASE MainWaits
  <2>1. /\ mpc = "wait" /\ pc[Main] = "idle" /\ Started /\ Len(output) = Handed - 1
        /\ UNCHANGED <<input, source, output, buff1, buff2>> /\ mpc' = "woken"
    BY <1>7 DEF MainWaits, LoopInv, loopVars
  <2>2. pc'[Main] = "wait" /\ UNCHANGED <<state, ip, f>>
    BY <1>7, MainAssumption
       DEF MainWaits, WaitForStateMove, Goto, TypeOK, PcTypeOK, Threads, chainVars,
           quietVars, localVars
  <2>3. Started'
    BY <1>1, <2>1, <2>2, StartedStays
  <2> QED
    BY <1>5, <2>1, <2>2, <2>3 DEF LoopInv
<1>8. CASE MainIsShutdown
  <2>1. /\ mpc = "woken" /\ pc[Main] = "idle" /\ Started /\ Len(output) = Handed - 1
        /\ state = "SHUTDOWN" /\ mpc' = "output"
        /\ UNCHANGED <<vars, input, source, output, buff1, buff2>>
    BY <1>8 DEF MainIsShutdown, LoopInv, loopVars
  <2>2. AtRest /\ buff2 = Complete
    BY <2>1 DEF Started
  <2>3. AtRest' /\ buff2' = Complete' /\ pc'[Main] = "idle"
    BY <1>5, <2>1, <2>2 DEF AtRest, vars, stateVars
  <2> QED
    BY <1>5, <2>1, <2>3 DEF LoopInv
<1>9. CASE MainOutputs
  <2>1. /\ mpc = "output" /\ pc[Main] = "idle" /\ AtRest /\ Len(output) = Handed - 1
        /\ output' = Append(output, buff2) /\ mpc' = "read" /\ buff2 = Complete
        /\ UNCHANGED <<vars, input, source>>
    BY <1>9 DEF MainOutputs, LoopInv
  <2>2. AtRest' /\ pc'[Main] = "idle"
    BY <2>1 DEF AtRest, vars, stateVars
  <2>3. Len(output') = Handed
    BY <2>1, ChunkAtHand
  <2> QED
    BY <1>5, <2>1, <2>2, <2>3 DEF LoopInv
<1> QED
  BY <1>2, <1>3, <1>4, <1>6, <1>7, <1>8, <1>9
     DEF MainStep, MainIsExecsuccess, MainRecovers, MainRecovered,
         ProgramErrorRecover, At

\* The step of anyone, as long as the loop is not disturbed.
LEMMA LoopNext ==
  ASSUME TypeOK, EngineInv, StreamInv, [MainNext]_allVars, ~disturbed, ~disturbed'
  PROVE  LoopInv'
<1> USE DEF StreamInv
<1>1. CASE CallRuns
  BY <1>1, CallStep
<1>2. CASE MainStep /\ ~CallRuns
  BY <1>2, LoopStep
<1>3. ASSUME NEW w \in Workers, CodingStep(w)
      PROVE  LoopInv'
  <2>1. /\ UNCHANGED <<input, source, output, mpc, code_procedures>>
        /\ pc'[Main] = pc[Main]
    BY <1>3, WorkerKeepsLoop
  <2>2. Handed' = Handed /\ Chunk' = Chunk /\ Complete' = Complete
    BY <2>1, SameChunk
  <2>3. AtRest => AtRest' /\ UNCHANGED <<buff1, buff2, ip>>
    BY <1>3, RestStep
  <2>4. Started => Started'
    BY <1>3, StartedStep
  <2>5. pc[w] # "none"
    BY <1>3 DEF CodingStep, WorkerRuns, WorkerControl, RunWrapper, WorkerCheck,
                WorkerExit, WorkerPark, WorkerUnparked, AcquireIp, FetchProcedure,
                FetchThrows, FetchEnd, Shutdown, Execute, SaveResult, At
  <2> QED
    BY <2>1, <2>2, <2>3, <2>4, <2>5 DEF LoopInv
<1>4. CASE Spurious \/ UNCHANGED allVars
  <2>1. UNCHANGED <<state, ip, f, pc, code_procedures, mainVars>>
    BY <1>4 DEF Spurious, SpuriousWake, allVars, vars, chainVars, stateVars, quietVars,
                localVars
  <2>2. UNCHANGED <<input, source, output, buff1, buff2, mpc>>
    BY <2>1 DEF mainVars, loopVars
  <2>3. Handed' = Handed /\ Chunk' = Chunk /\ Complete' = Complete
    BY <2>1, <2>2, SameChunk
  <2>4. (Started => Started') /\ (AtRest => AtRest')
    BY <2>1, <2>2, StartedStays
  <2> QED
    BY <2>1, <2>2, <2>3, <2>4 DEF LoopInv
<1> QED
  BY <1>1, <1>2, <1>3, <1>4 DEF MainNext

\* Only a write changes the output.
LEMMA OutputStep ==
  ASSUME [MainNext]_allVars, ~MainOutputs
  PROVE  output' = output
BY DEF MainNext, MainStep, MainRead, MainReadNothing, MainCodes, MainWaits,
       MainIsShutdown,
       MainIsExecsuccess, MainRecovers, MainRecovered, CallRuns, Spurious, CodingStep,
       WorkerRuns, RunWrapper, allVars, mainVars, loopVars

\* The disturbance lasts, and comes only with the end of a wait or the start of a run.
LEMMA DisturbedStep ==
  ASSUME [MainNext]_allVars, disturbed \in BOOLEAN
  PROVE  /\ disturbed' \in BOOLEAN /\ (disturbed => disturbed')
         /\ disturbed' = disturbed \/ MainIsShutdown \/ CallRuns
<1>1. disturbed' = disturbed \/ MainIsShutdown \/ CallRuns
  BY DEF MainNext, MainStep, MainRead, MainReadNothing, MainCodes, MainWaits,
         MainIsExecsuccess, MainRecovers, MainRecovered, MainOutputs, Spurious,
         CodingStep, WorkerRuns, RunWrapper, allVars, mainVars
<1>2. ASSUME MainIsShutdown \/ CallRuns
      PROVE  disturbed' \in BOOLEAN /\ (disturbed => disturbed')
  BY <1>2, Zenon DEF MainIsShutdown, CallRuns
<1>3. ASSUME disturbed' = disturbed
      PROVE  disturbed' \in BOOLEAN /\ (disturbed => disturbed')
  BY <1>3
<1> QED
  BY <1>1, <1>2, <1>3

LEMMA StreamInvNext ==
  TypeOK /\ EngineInv /\ StreamInv /\ [MainNext]_allVars => StreamInv'
<1> SUFFICES ASSUME TypeOK, EngineInv, StreamInv, [MainNext]_allVars
             PROVE  StreamInv'
  OBVIOUS
<1>1. InputInv'
  BY InputNext DEF StreamInv
<1>2. disturbed' \in BOOLEAN /\ (disturbed => disturbed')
  BY DisturbedStep DEF StreamInv
<1>3. ASSUME ~disturbed'
      PROVE  LoopInv' /\ output' \in Seq(Data)
  <2>1. LoopInv'
    BY <1>2, <1>3, LoopNext DEF StreamInv
  <2>2. LoopInv /\ output \in Seq(Data) /\ InputInv
    BY <1>2, <1>3 DEF StreamInv
  <2>3. CASE MainOutputs
    <3>1. buff2 = Complete /\ Len(output) = Handed - 1
      BY <2>2, <2>3 DEF MainOutputs, AtMain, LoopInv
    <3>2. buff2 \in Data
      BY <2>2, <3>1, ChunkAtHand
    <3> QED
      BY <2>1, <2>2, <2>3, <3>2 DEF MainOutputs
  <2> QED
    BY <2>1, <2>2, <2>3, OutputStep
<1>4. Data' = Data
  BY DEF Data
<1> QED
  BY <1>1, <1>2, <1>3, <1>4 DEF StreamInv

LEMMA StreamInvariant == MainSpec => [](TypeOK /\ EngineInv /\ StreamInv)
BY StreamInit, StreamInvNext, EngineInvariant, PTL DEF MainSpec

\* No worker is inside the chain once main_coding has returned (codestream.cc:136-141).
THEOREM NothingRunsAfterExit == MainSpec => []NoUseAfterExit
<1>1. StreamInv => NoUseAfterExit
  BY DEF StreamInv, LoopInv, AtRest, NoUseAfterExit
<1> QED
  BY <1>1, StreamInvariant, PTL

\* As long as the loop is not disturbed no threads wait for each other's mutexes in a
\* circle: when coding() resets the index under _state_mutex, no worker holds the two
\* mutexes it asks for (codestream_abstract.cc:197, 253-265).
THEOREM LoopNeverDeadlocks == MainSpec => []NoDeadlock
<1>1. TypeOK /\ LockDiscipline /\ DeadlockNeedsStateHolder /\ StreamInv => NoDeadlock
  <2> SUFFICES ASSUME TypeOK, LockDiscipline, DeadlockNeedsStateHolder, StreamInv,
                      ~disturbed, NEW T \in SUBSET Threads, LockCycle(T)
               PROVE  FALSE
    BY DEF NoDeadlock, NoLockCycle
  <2>1. PICK t \in T : state_mutex = t
    BY DEF DeadlockNeedsStateHolder
  <2>2. pc[t] \in StateHeldAt
    BY <2>1 DEF LockDiscipline
  <2>3. t = Main
    BY <2>2, MainAssumption
       DEF TypeOK, PcTypeOK, StateHeldAt, WorkerLabels, Threads
  <2>4. AtRest /\ pc[Main] \in {"reset_ip", "reset_foe"}
    BY <2>2, <2>3 DEF StreamInv, LoopInv, StateHeldAt
  <2>5. PICK u \in T : WaitsFor(Main, u)
    BY <2>3 DEF LockCycle
  <2>6. \/ pc[u] \in IpHeldAt /\ pc[Main] = "reset_ip"
        \/ pc[u] \in FoeHeldAt
    BY <2>4, <2>5
       DEF WaitsFor, StateWantedAt, IpWantedAt, FoeWantedAt, LockDiscipline
  <2> QED
    BY <2>4, <2>6, MainAssumption DEF AtRest, IpHeldAt, FoeHeldAt, Threads
<1> QED
  BY <1>1, StreamInvariant, LoopIsClient, MutexesReturned, DeadlocksCharacterised, PTL

\* The loop neither toggles the direction nor restarts a run, so no worker of the
\* program reads past the chain, where vector::at would throw and end the process, and
\* no run is in progress without a worker (codestream_abstract.cc:255, 213-218).
THEOREM LoopServesRuns == MainSpec => [](NoOutOfRange /\ NoOrphanedRun)
<1>1. "restart" \notin Ops
  BY MainAssumption
<1>2. IndexKept /\ EngineInv => NoOutOfRange
  BY DEF IndexKept, EngineInv, NoOutOfRange
<1> QED
  BY <1>1, <1>2, LoopIsClient, ChainNeverLeft, EngineInvariant, RunsAreServed, PTL

-----------------------------------------------------------------------------
(* The steps of the loop as steps of Stream.                               *)

LEMMA PromisedFacts ==
  ASSUME InputInv
  PROVE  /\ Promised \in Seq(Data) /\ Len(Promised) = Len(input)
         /\ \A i \in 1..Len(input) : Promised[i] = Coded(input[i])
<1>1. DOMAIN input = 1..Len(input) /\ Len(input) \in Nat
      /\ \A i \in 1..Len(input) : input[i] \in Chunks
  BY DEF InputInv
<1>2. \A i \in 1..Len(input) : Coded(input[i]) \in Data
  BY <1>1, CodedType
<1>3. Promised \in [1..Len(input) -> Data]
  BY <1>1, <1>2 DEF Promised
<1>4. Promised \in Seq(Data)
  BY <1>1, <1>3
<1>5. 1..Len(Promised) = 1..Len(input) /\ Len(Promised) \in Nat
  BY <1>3, <1>4
<1> QED
  BY <1>1, <1>3, <1>4, <1>5 DEF Promised

LEMMA StreamStarts == MainInit => S!Init
<1> SUFFICES ASSUME MainInit
             PROVE  S!Init
  OBVIOUS
<1>1. Promised \in Seq(Data)
  BY StreamInit, PromisedFacts DEF StreamInv
<1>2. output = <<>> /\ disturbed = FALSE /\ mpc = "read"
  BY DEF MainInit
<1> QED
  BY <1>1, <1>2 DEF S!Init, Outcome, Data

\* The loop ends only when it has nothing to read, or catches an exception.
LEMMA OutcomeStep ==
  ASSUME [MainNext]_allVars, ~MainReadNothing, ~MainRecovered
  PROVE  Outcome' = Outcome
<1>1. main_error_code' = main_error_code /\ (mpc' = "exit" <=> mpc = "exit")
  BY DEF MainNext, MainStep, MainRead, MainCodes, MainWaits, MainIsShutdown,
         MainIsExecsuccess, MainRecovers, MainOutputs, CallRuns, Spurious, CodingStep,
         WorkerRuns, RunWrapper, AtMain, allVars, mainVars, loopVars
<1> QED
  BY <1>1 DEF Outcome

LEMMA StreamStep ==
  TypeOK /\ EngineInv /\ StreamInv /\ [MainNext]_allVars => [S!Next]_S!streamVars
<1> SUFFICES ASSUME TypeOK, EngineInv, StreamInv, [MainNext]_allVars
             PROVE  [S!Next]_S!streamVars
  OBVIOUS
<1>1. disturbed \in BOOLEAN /\ disturbed' \in BOOLEAN /\ (disturbed => disturbed')
      /\ (disturbed' = disturbed \/ MainIsShutdown \/ CallRuns)
  BY DisturbedStep DEF StreamInv
<1>2. Promised' = Promised
  <2>1. input' = input
    BY DEF MainNext, MainStep, MainRead, MainReadNothing, MainCodes, MainWaits,
           MainIsShutdown, MainIsExecsuccess, MainRecovers, MainRecovered, MainOutputs,
           CallRuns, Spurious, CodingStep, WorkerRuns, RunWrapper, allVars, mainVars,
           loopVars
  <2>2. code_procedures' = code_procedures
    BY EngineNext
  <2> QED
    BY <2>1, <2>2 DEF Promised, Coded
<1>3. CASE disturbed
  BY <1>1, <1>2, <1>3 DEF S!Next, S!Unpromised
<1>4. CASE ~disturbed /\ disturbed'
  <2>1. MainIsShutdown \/ CallRuns
    BY <1>1, <1>4
  <2>2. output' = output /\ Outcome' = Outcome
    BY <2>1 DEF MainIsShutdown, CallRuns, AtMain, Outcome, loopVars
  <2>3. disturbed' = TRUE
    BY <1>1, <1>4
  <2> QED
    BY <1>2, <2>2, <2>3 DEF S!Next, S!Disturb
<1>5. CASE ~disturbed /\ ~disturbed'
  <2>1. LoopInv /\ output \in Seq(Data) /\ InputInv
    BY <1>5 DEF StreamInv
  <2>2. disturbed' = disturbed
    BY <1>1, <1>5
  <2>3. CASE MainOutputs
    <3>1. /\ mpc = "output" /\ mpc' = "read" /\ buff2 = Complete
          /\ Len(output) = Handed - 1 /\ output' = Append(output, buff2)
      BY <2>1, <2>3 DEF MainOutputs, AtMain, LoopInv
    <3>2. Handed \in 1..Len(input)
      BY <2>1, <3>1, ChunkAtHand
    <3>3. Len(output) < Len(Promised) /\ Promised[Len(output) + 1] = Complete
      BY <2>1, <3>1, <3>2, PromisedFacts DEF Complete, Chunk
    <3>4. Outcome = "running" /\ Outcome' = "running"
      BY <3>1 DEF Outcome
    <3> QED
      BY <1>2, <1>5, <2>2, <3>1, <3>3, <3>4 DEF S!Next, S!Write
  <2>4. CASE MainReadNothing
    <3>1. /\ mpc = "read" /\ mpc' = "exit" /\ main_error_code' \in {"ENOE", "ECODING"}
          /\ source = <<>> /\ Len(output) = Handed /\ output' = output
      BY <2>1, <2>4 DEF MainReadNothing, AtMain, LoopInv
    <3>2. Len(output) = Len(Promised)
      BY <2>1, <3>1, PromisedFacts DEF Handed, InputInv
    <3>3. Outcome = "running" /\ Outcome' \in {"ok", "failed"}
      BY <3>1 DEF Outcome
    <3> QED
      BY <1>2, <1>5, <2>2, <3>1, <3>2, <3>3 DEF S!Next, S!Succeed, S!Fail
  <2>5. ~MainRecovered
    BY <2>1 DEF MainRecovered, ProgramErrorRecover, At, LoopInv
  <2>6. CASE ~MainOutputs /\ ~MainReadNothing
    BY <1>2, <2>2, <2>5, <2>6, OutputStep, OutcomeStep DEF S!streamVars
  <2> QED
    BY <2>3, <2>4, <2>6
<1> QED
  BY <1>1, <1>3, <1>4, <1>5

\* The loop implements Stream, for every input, whatever text is malformed, with any
\* number of workers and with spurious wakeups (main_coding, codestream.cc:94-145).
THEOREM LoopImplementsStream == MainSpec => ImplementsStream
BY StreamStarts, StreamStep, StreamInvariant, PTL DEF MainSpec, ImplementsStream, S!Spec

=============================================================================
