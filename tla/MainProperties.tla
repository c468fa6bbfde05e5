---------------------------- MODULE MainProperties -----------------------------
(***************************************************************************)
(* What the coding loop promises, and how it implements Stream.            *)
(***************************************************************************)
EXTENDS MainCoding

\* The complete coding of a chunk by the installed chain.
Coded(chunk) ==
  IF code_procedures = EncodeChain THEN <<chunk, "xor_encode", "base64_encode">>
  ELSE IF chunk \in Malformed THEN Nothing
  ELSE <<chunk, "base64_decode", "xor_decode">>

Promised == [i \in DOMAIN input |-> Coded(input[i])]

Outcome ==
  IF mpc # "exit" THEN "running"
  ELSE IF main_error_code = "ENOE" THEN "ok" ELSE "failed"

S == INSTANCE Stream
       WITH promised <- Promised, output <- output, outcome <- Outcome,
            disturbed <- disturbed,
            Data <- Seq(Chunks \cup Procs)

\* The loop writes every chunk of the input once, in order and completely coded,
\* and succeeds or fails only after it wrote all that could be read, as long as
\* waitForStateMove returns for the end of a run and every worker has left its
\* loop before the next coding() starts.
ImplementsStream == S!Spec

\* When the loop has ended no worker is inside the chain, whose wrappers use the
\* buffers that main() frees: at most it still has to see SHUTDOWN and leave.
NoUseAfterExit ==
  mpc = "exit" /\ ~disturbed => \A w \in Workers : pc[w] \in {"none", "check"}

\* The loop never meets the exception of programErrorRecover: whenever the state
\* is ERROR the code of the error is there, whatever worker is still running.
NoTrap == ~Trap

\* As long as no run was begun over a living worker and none was given up, nobody
\* waits for a mutex in a circle, although the reset of coding() nests the mutexes the
\* other way round than the worker that ends.
NoDeadlock == ~disturbed => NoLockCycle

\* If the wait begins while the run is in progress, its end wakes the loop.
WaitAnswered ==
  Main \in migrated_waiters /\ state = "PROGRESSING"
    ~> Main \notin migrated_waiters

\* waitForStateMove returns.
WaitReturns == pc[Main] = "wait" ~> pc[Main] # "wait"

=============================================================================
