------------------------------- MODULE MCWrapper -------------------------------
(***************************************************************************)
(* Bounded instances of WrapperUse.                                        *)
(***************************************************************************)
EXTENDS WrapperUse

\* Bytes at the edges: 0, the = sign, the last of the one-two-map, the largest.
\* The lengths cover every remainder of the division by 3 and the full buffer.
ShortTexts ==
  {<<61>>, <<0, 0>>, <<61, 146>>, <<0, 255, 61>>, <<146, 61, 0, 1>>,
   <<255, 254, 253, 252, 251>>, <<1, 2, 3, 4, 5, 6>>,
   <<7, 7, 7, 7, 7, 7, 7>>, <<0, 61, 61, 61, 61, 61, 61, 61>>}

\* The loop of sortHashList, exchange by exchange, against the definition used.
Exchanged(list, resort) ==
  LET after[n \in 0..Len(list)] ==
        IF n = 0
        THEN list
        ELSE [after[n - 1] EXCEPT ![n] = after[n - 1][n + resort],
                                  ![n + resort] = after[n - 1][n]]
  IN  after[Len(list) - resort]

ASSUME SortHashListAssumption ==
  \A n \in 1..7 : \A resort \in 1..(n - 1) :
    LET list == [i \in 1..n |-> i]
    IN  sortHashList(list, resort) = Exchanged(list, resort)

\* The tables stay without repeated characters, which is what decoding needs
\* (Table in CodecProofs), for every value of _resort, so for every key.
ASSUME TablesAssumption ==
  \A resort \in 0..TextLength - 1 :
    /\ IsInjective(sortHashList(Q_TEXT, resort))
    /\ IsInjective(sortHashList(R_TEXT, resort))

SomeKeys == {0, 11, 300}

=============================================================================
