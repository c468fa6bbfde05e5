------------------------------ MODULE MCClients -------------------------------
(***************************************************************************)
(* Bounded instances of CodestreamClients: operation op is called at most  *)
(* Budget[op] times in all.                                                *)
(***************************************************************************)
EXTENDS ClientsProperties

CONSTANTS
  Budget,
  p1, p2    \* procedures

VARIABLE calls

(* Values for Budget, and the chains the runs start from. *)

Once == [op \in OpNames |-> 1]
TwoCodings == ("coding" :> 2) @@ Once
TwoRecovers == ("coding" :> 2) @@ ("recover" :> 2) @@ Once
TwoStops == ("stop" :> 2) @@ ("restart" :> 2) @@ Once

OneProcedure == {<<>>} \cup {<<p>> : p \in Procs}
GappedToo == {<<>>, <<p1>>, <<p1, NoProc, p2>>}

ClientsAndWorkers == Permutations(Clients) \cup Permutations(Workers)

mcvars == <<vars, calls>>

MCInit == ClientsInit /\ calls = [op \in Ops |-> 0]

ClientCalls ==
  \E c \in Clients, op \in Ops :
    /\ calls[op] < Budget[op]
    /\ Call(c, op)
    /\ calls' = [calls EXCEPT ![op] = @ + 1]

MCNext == ClientCalls \/ (EngineStep /\ UNCHANGED calls)

MCSpec == MCInit /\ [][MCNext]_mcvars

\* Threads that are not blocked keep running; clients may stop calling.
Fairness ==
  /\ \A c \in Clients : WF_mcvars(ClientStep(c) /\ UNCHANGED calls)
  /\ \A w \in Workers : WF_mcvars(WorkerStep(w) /\ UNCHANGED calls)

MCFairSpec == MCSpec /\ Fairness

\* Nobody has called what may hold up a run, or turn it back for ever.
Uninterrupted ==
  \A op \in {"stop", "restart", "recover", "toggle"} \cap Ops : calls[op] = 0

\* A started run comes to its end and every worker thread ends, whatever is
\* installed meanwhile, if no stop, restart, recovery or toggle interferes.
RunsEndUninterrupted == []Uninterrupted => RunsEnd

WorkersEndUninterrupted == []Uninterrupted => WorkersEnd

=============================================================================
