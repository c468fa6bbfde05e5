------------------------------ MODULE MainCoding -------------------------------
(***************************************************************************)
(* The coding loop of the program (main_coding of src/src/codestream.cc)   *)
(* around the op-chain engine: it reads a chunk into the first buffer,     *)
(* hands the two buffers to coding(), waits for a state to move and writes *)
(* the second buffer, until the source is empty or broken.                 *)
(*                                                                         *)
(* A chunk is a value of Chunks.  The contents of a buffer, with its       *)
(* length, are a chunk followed by the wrappers that coded it, and Nothing *)
(* when the length is 0.  Both buffers are allocated and large enough, as  *)
(* main() sees to.                                                         *)
(***************************************************************************)
EXTENDS CodestreamClients

CONSTANTS
  Main,        \* the thread of main()
  Chunks,      \* the pieces that readCsdsin cuts the input into
  Malformed    \* those that are not base64 text

EncodeChain == <<"xor_encode", "gcwt", "base64_encode">>

DecodeChain == <<"base64_decode", "gcwt", "xor_decode">>

\* The chain is empty when main_coding is called before main_optionf_eandd.
MainChains == {<<>>, EncodeChain, DecodeChain}

ASSUME MainAssumption ==
  /\ Clients = {Main}
  /\ Ops = {"coding", "recover", "wait"}
  /\ InitialChains \subseteq MainChains
  /\ {"xor_encode", "gcwt", "base64_encode", "base64_decode", "xor_decode"}
       \subseteq Procs
  /\ Malformed \subseteq Chunks

VARIABLES
  input,           \* the chunks of the whole input
  source,          \* chunks not yet read
  buff1, buff2,    \* gcs->buff1 and gcs->buff2 with their lengths
  output,          \* what each std::cout.write was given
  mpc,             \* where main_coding is
  main_error_code,
  disturbed        \* history: main_coding went on before a run was over, or
                   \* coding() moved on while an older worker was alive

loopVars == <<input, source, output, main_error_code>>

mainVars == <<loopVars, buff1, buff2, mpc, disturbed>>

allVars == <<vars, mainVars>>

Nothing == <<>>

\* A wrapper sets the output length to 0 when the codec reports a failure.
Rejects(p, data) ==
  data # Nothing /\ data[1] \in Malformed /\ p = "base64_decode"

\* Faulty: after a failure the second buffer keeps its length.
Wrapped_StaleLength(p, data) ==
  IF data = Nothing \/ Rejects(p, data) THEN buff2 ELSE Append(data, p)

Wrapped(p, data) ==
  IF data = Nothing \/ Rejects(p, data) THEN Nothing ELSE Append(data, p)

-----------------------------------------------------------------------------
(* The loop.                                                               *)

MainInit ==
  /\ ClientsInit
  /\ input \in Seq(Chunks) /\ source = input
  /\ buff1 = Nothing /\ buff2 = Nothing
  /\ output = <<>>
  /\ mpc = "read"
  /\ main_error_code = "ENOE"
  /\ disturbed = FALSE

AtMain(label) == mpc = label /\ ~terminated /\ pc[Main] = "idle"

\* readCsdsin and the assignment of length_of_buff1.
MainRead ==
  /\ AtMain("read") /\ source # <<>>
  /\ buff1' = <<Head(source)>>
  /\ source' = Tail(source)
  /\ mpc' = "coding"
  /\ UNCHANGED <<vars, input, buff2, output, main_error_code,
                 disturbed>>

\* Nothing was read: the source is at its end, or broken.
MainReadNothing ==
  /\ AtMain("read") /\ source = <<>>
  /\ main_error_code' \in {"ENOE", "ECODING"}
  /\ mpc' = "exit"
  /\ UNCHANGED <<vars, input, source, buff1, buff2, output, disturbed>>

MainCodes ==
  /\ AtMain("coding")
  /\ CodingRefused(Main) \/ CodingAllowed(Main)
  /\ mpc' = "wait"
  /\ UNCHANGED <<loopVars, buff1, buff2, disturbed>>

\* Faulty: the loop goes on without waiting.
MainWaits_Skipped ==
  /\ AtMain("wait")
  /\ mpc' = "output"
  /\ UNCHANGED <<vars, loopVars, buff1, buff2, disturbed>>

MainWaits ==
  /\ AtMain("wait")
  /\ WaitForStateMove(Main)
  /\ mpc' = "woken"
  /\ UNCHANGED <<loopVars, buff1, buff2, disturbed>>

MainIsShutdown ==
  /\ AtMain("woken") /\ Free(state_mutex)
  /\ mpc' = IF state = "SHUTDOWN" THEN "output" ELSE "not_shutdown"
  /\ disturbed' = (disturbed \/ state # "SHUTDOWN")
  /\ UNCHANGED <<vars, loopVars, buff1, buff2>>

\* !is_execsuccess(): the loop reports the error and recovers from it.
MainIsExecsuccess ==
  /\ AtMain("not_shutdown") /\ Free(foe_mutex)
  /\ mpc' = IF cerror = "NOERROR" THEN "output" ELSE "recover"
  /\ UNCHANGED <<vars, loopVars, buff1, buff2, disturbed>>

MainRecovers ==
  /\ AtMain("recover")
  /\ AcquireState(Main, "idle", "recover_ip")
  /\ mpc' = "recovering"
  /\ UNCHANGED <<loopVars, buff1, buff2, disturbed>>

\* The exception of programErrorRecover ends the loop with ECODING.
MainRecovered ==
  /\ ProgramErrorRecover(Main)
  /\ mpc' = IF RecoverThrows THEN "exit" ELSE "output"
  /\ main_error_code' = IF RecoverThrows THEN "ECODING" ELSE main_error_code
  /\ UNCHANGED <<input, source, output, buff1, buff2, disturbed>>

MainOutputs ==
  /\ AtMain("output")
  /\ output' = Append(output, buff2)
  /\ mpc' = "read"
  /\ UNCHANGED <<vars, input, source, main_error_code, buff1, buff2,
                 disturbed>>

-----------------------------------------------------------------------------
(* The engine, with the wrappers its workers run.                          *)

\* f(ret_of_f).  Wrappers that overlap race for the buffers; the stream is
\* disturbed then, and nothing is promised of their contents.
RunWrapper(w) ==
  /\ Execute(w)
  /\ IF f[w] = "gcwt"
     THEN buff1' = buff2 /\ buff2' = buff1
     ELSE buff2' = Wrapped(f[w], buff1) /\ UNCHANGED buff1
  /\ UNCHANGED <<loopVars, mpc, disturbed>>

CallRuns ==
  /\ ClientControl(Main)
  /\ disturbed' = \/ disturbed
                  \/ pc[Main] = "coding_start" /\ \E w \in Workers : Live(w)
  /\ UNCHANGED <<loopVars, buff1, buff2, mpc>>

WorkerRuns(w) == WorkerControl(w) /\ UNCHANGED mainVars

Spurious == (\E t \in Threads : SpuriousWake(t)) /\ UNCHANGED mainVars

MainStep ==
  \/ MainRead \/ MainReadNothing \/ MainCodes \/ MainWaits \/ MainIsShutdown
  \/ MainIsExecsuccess \/ MainRecovers \/ MainRecovered \/ MainOutputs
  \/ CallRuns

CodingStep(w) == WorkerRuns(w) \/ RunWrapper(w)

MainNext == MainStep \/ Spurious \/ \E w \in Workers : CodingStep(w)

MainFairness ==
  /\ WF_allVars(MainStep)
  /\ \A w \in Workers : WF_allVars(CodingStep(w))

MainSpec == MainInit /\ [][MainNext]_allVars

=============================================================================
