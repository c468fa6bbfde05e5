------------------------------- MODULE ChainRun --------------------------------
(***************************************************************************)
(* What the op-chain engine promises those who install procedures at the   *)
(* end of its chain, begin runs over it one at a time, and stop, restart   *)
(* and recover them: a run applies the procedures one by one, from the     *)
(* first slot to the last, and lets its result be seen before it goes on;  *)
(* a run on hold finishes at most the slot it has in hand; and a run is    *)
(* over only when it has applied, and published, all that is installed.    *)
(***************************************************************************)
EXTENDS Naturals, Sequences

CONSTANTS
  Procedures,
  Empty          \* the slot without a procedure

VARIABLES
  chain,         \* the slots
  place,         \* where the run is: see Places
  done,          \* how many slots it is through with
  data,          \* the procedures it has applied
  result,        \* the result that can be seen
  status         \* "going", "held" or "over"

runVars == <<chain, place, done, data, result, status>>

\* No run; a run between two slots; one that has a slot, or the end of the chain, in
\* hand; one that has applied a procedure and not yet published the result.
Places == {"away", "between", "in_hand", "applied"}

Slots == Procedures \cup {Empty}

Init ==
  /\ chain \in Seq(Slots)
  /\ place = "away" /\ done = 0 /\ data = <<>> /\ result = <<>>
  /\ status = "over"

-----------------------------------------------------------------------------
(* The users.                                                              *)

Install ==
  /\ \E p \in Slots : chain' = Append(chain, p)
  /\ UNCHANGED <<place, done, data, result, status>>

\* Before a run the state may change in any way.
Prepare ==
  /\ place = "away"
  /\ status' \in {"going", "held", "over"}
  /\ UNCHANGED <<chain, place, done, data, result>>

Begin ==
  /\ place = "away"
  /\ place' = "between"
  /\ UNCHANGED <<chain, done, data, result, status>>

\* A stop, which may come too late for the end of the run, or an error.
Hold ==
  /\ status' = "held"
  /\ UNCHANGED <<chain, place, done, data, result>>

Resume ==
  /\ status = "held"
  /\ status' = "going"
  /\ UNCHANGED <<chain, place, done, data, result>>

-----------------------------------------------------------------------------
(* The run.                                                                *)

GoOn ==
  /\ place = "between" /\ status = "going"
  /\ place' = "in_hand"
  /\ UNCHANGED <<chain, done, data, result, status>>

PassOver ==
  /\ place = "in_hand" /\ done < Len(chain) /\ chain[done + 1] = Empty
  /\ place' = "between"
  /\ done' = done + 1
  /\ UNCHANGED <<chain, data, result, status>>

Apply ==
  /\ place = "in_hand" /\ done < Len(chain) /\ chain[done + 1] # Empty
  /\ place' = "applied"
  /\ done' = done + 1
  /\ data' = Append(data, chain[done + 1])
  /\ UNCHANGED <<chain, result, status>>

Publish ==
  /\ place = "applied"
  /\ place' = "between"
  /\ result' = data
  /\ UNCHANGED <<chain, done, data, status>>

Finish ==
  /\ place = "in_hand" /\ done = Len(chain) /\ result = data
  /\ place' = "between"
  /\ status' = "over"
  /\ UNCHANGED <<chain, done, data, result>>

Leave ==
  /\ place = "between" /\ status = "over"
  /\ place' = "away" /\ done' = 0 /\ data' = <<>>
  /\ UNCHANGED <<chain, result, status>>

Next ==
  \/ Install \/ Prepare \/ Begin \/ Hold \/ Resume
  \/ GoOn \/ PassOver \/ Apply \/ Publish \/ Finish \/ Leave

Spec == Init /\ [][Next]_runVars

=============================================================================
