-------------------------------- MODULE Stream ---------------------------------
(***************************************************************************)
(* What the coding loop of the program promises its user: the input, cut   *)
(* into chunks, is written chunk by chunk, each once, in order and         *)
(* completely coded, and only a stream that was written to its end counts  *)
(* as a success.                                                           *)
(*                                                                         *)
(* The promise is lost for good once the loop is disturbed, that is once   *)
(* it goes on before the engine is done with a chunk, or hands the next    *)
(* chunk over while the thread that coded the last one still runs.         *)
(***************************************************************************)
EXTENDS Naturals, Sequences

CONSTANT Data        \* what one write can hold

VARIABLES
  promised,   \* the writes that code the whole input
  output,     \* the writes so far
  outcome,    \* "running", "ok" or "failed"
  disturbed

streamVars == <<promised, output, outcome, disturbed>>

Init ==
  /\ promised \in Seq(Data)
  /\ output = <<>>
  /\ outcome = "running"
  /\ disturbed = FALSE

Write ==
  /\ ~disturbed /\ outcome = "running"
  /\ Len(output) < Len(promised)
  /\ output' = Append(output, promised[Len(output) + 1])
  /\ UNCHANGED <<promised, outcome, disturbed>>

Succeed ==
  /\ ~disturbed /\ outcome = "running"
  /\ Len(output) = Len(promised)
  /\ outcome' = "ok"
  /\ UNCHANGED <<promised, output, disturbed>>

\* The source broke: whatever could be read before has been written.
Fail ==
  /\ ~disturbed /\ outcome = "running"
  /\ Len(output) = Len(promised)
  /\ outcome' = "failed"
  /\ UNCHANGED <<promised, output, disturbed>>

Disturb ==
  /\ disturbed' = TRUE
  /\ UNCHANGED <<promised, output, outcome>>

\* Anything may happen to a stream that was disturbed, but it stays disturbed.
Unpromised == disturbed /\ disturbed' /\ UNCHANGED promised

Next == Write \/ Succeed \/ Fail \/ Disturb \/ Unpromised

Spec == Init /\ [][Next]_streamVars

=============================================================================
