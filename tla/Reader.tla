-------------------------------- MODULE Reader ---------------------------------
(***************************************************************************)
(* What a data source promises: from an open source every read returns the *)
(* next piece of what was opened, and nothing only when nothing is left or *)
(* the source has broken; opening an open source changes nothing.          *)
(***************************************************************************)
EXTENDS Naturals, Sequences

CONSTANT Data

VARIABLES
  left,     \* what was opened and not yet read
  got,      \* the last piece
  status    \* "closed", "open" or "broken"

readerVars == <<left, got, status>>

Init == left = <<>> /\ got = <<>> /\ status = "closed"

Open ==
  /\ status = "closed"
  /\ status' = "open" /\ left' \in Seq(Data)
  /\ UNCHANGED got

Read ==
  /\ status = "open"
  /\ \E k \in 0..Len(left) :
       /\ k = 0 => left = <<>>
       /\ got' = SubSeq(left, 1, k)
       /\ left' = SubSeq(left, k + 1, Len(left))
  /\ UNCHANGED status

Break ==
  /\ status = "open"
  /\ got' = <<>> /\ left' = <<>>
  /\ status' = "broken"

ReadNothing ==
  /\ status # "open"
  /\ got' = <<>>
  /\ UNCHANGED <<left, status>>

Close ==
  /\ status # "closed"
  /\ status' = "closed" /\ left' = <<>>
  /\ UNCHANGED got

Next == Open \/ Read \/ Break \/ ReadNothing \/ Close

Spec == Init /\ [][Next]_readerVars

=============================================================================
