------------------------ MODULE CodestreamProperties --------------------------
(***************************************************************************)
(* What the op-chain engine promises, over the state of CodestreamState.   *)
(* Every specification that composes the engine's operations checks its    *)
(* share of these formulas.                                                *)
(***************************************************************************)
EXTENDS Codestream

-----------------------------------------------------------------------------
(* Type invariant.                                                         *)

Chains == Seq(Procs \cup {NoProc})

ChainTypeOK ==
  /\ code_procedures \in Chains /\ last_op_ret \in Chains
  /\ ip \in Int /\ ip_end \in Nat /\ last_ip_start \in Nat

FlagTypeOK ==
  /\ flag_init \in BOOLEAN /\ flag_opdirection \in BOOLEAN
  /\ cerror \in Errors
  /\ terminated \in BOOLEAN

StateTypeOK ==
  /\ state \in States /\ state_when_error_occur \in States
  /\ work_waiters \in SUBSET Workers /\ migrated_waiters \in SUBSET Clients

LockTypeOK ==
  /\ state_mutex \in Threads \cup {NoThread}
  /\ ip_mutex \in Threads \cup {NoThread}
  /\ foe_mutex \in Threads \cup {NoThread}

PcTypeOK ==
  /\ pc \in [Threads -> ClientLabels \cup WorkerLabels]
  /\ \A c \in Clients : pc[c] \in ClientLabels
  /\ \A w \in Workers : pc[w] \in WorkerLabels

LocalTypeOK ==
  /\ f \in [Workers -> Procs \cup {NoProc}]
  /\ \A w \in Workers : pc[w] = "exec" => f[w] \in Procs
  /\ ret \in [Workers -> Chains]

\* Every variable of a Codestream object and of its threads keeps its type: the
\* pc of a caller and of a worker never mix, and a worker never calls the null
\* function an uninstall left.
TypeOK ==
  ChainTypeOK /\ FlagTypeOK /\ StateTypeOK /\ LockTypeOK /\ PcTypeOK /\ LocalTypeOK

-----------------------------------------------------------------------------
(* Locks.                                                                  *)

\* Each mutex is owned exactly while a thread is at a place that holds it:
\* every early return of stopCode, restartCode, uninstallProcedure and coding
\* gives back what it took, and no mutex has two holders.
LockDiscipline ==
  \A t \in Threads :
    /\ state_mutex = t <=> pc[t] \in StateHeldAt
    /\ ip_mutex = t <=> pc[t] \in IpHeldAt
    /\ foe_mutex = t <=> pc[t] \in FoeHeldAt

WaitsFor(t, u) ==
  \/ pc[t] \in StateWantedAt /\ state_mutex = u
  \/ pc[t] \in IpWantedAt /\ ip_mutex = u
  \/ pc[t] \in FoeWantedAt /\ foe_mutex = u

\* Threads that wait for each other's mutexes in a circle.
LockCycle(S) == S # {} /\ \A t \in S : \E u \in S : WaitsFor(t, u)

\* No threads are deadlocked on the mutexes, whatever the order of the callers'
\* and the workers' critical sections.
NoLockCycle == \A S \in SUBSET Threads : ~LockCycle(S)

\* The header asks for _state_mutex before _ip_mutex before _flag_error_mutex,
\* and most operations nest them the other way.  Every deadlock needs one that
\* obeys: resetCodestream, programErrorRecover or a failing restartCode, which
\* hold _state_mutex while they ask for another.
DeadlockNeedsStateHolder ==
  \A S \in SUBSET Threads :
    LockCycle(S) => \E t \in S : state_mutex = t

-----------------------------------------------------------------------------
(* The chain and its index.                                                *)

\* A worker never reads past the chain: the exception of vector::at, which would
\* terminate the process.
NoOutOfRange == ~terminated

\* The worker compares the index with the recorded end and then reads the vector.  The
\* index goes at most one step beyond either end of the chain, however installs,
\* uninstalls, setStartPoint, switches of the direction, further codings and several
\* live workers interleave.  The process is killed by vector::at only
\* while the direction is right to left, by the step beyond an end: there the comparison
\* _ip >= _ip_start is no test.
IndexKept ==
  /\ ip \in -1..Len(code_procedures)
  /\ terminated => flag_opdirection /\ ip \in {-1, Len(code_procedures)}

\* r lists the procedures of the first n slots of chain, once each and in order:
\* r[i] stands in slot at[i].
InOrder(r, chain, n) ==
  \E at \in [1..Len(r) -> 1..n] :
    /\ \A i, j \in 1..Len(r) : i < j => at[i] < at[j]
    /\ {at[i] : i \in 1..Len(r)} = {k \in 1..n : chain[k] # NoProc}
    /\ \A i \in 1..Len(r) : r[i] = chain[at[i]]

\* The result a worker publishes when it ends the run is the data with every
\* procedure of the chain applied, once each and in the order of the chain,
\* whatever stops, restarts and recoveries happened on the way.
ResultIsWholeChain ==
  [][\A w \in Workers :
       pc[w] = "shutdown" /\ pc'[w] # "shutdown"
         => /\ InOrder(ret[w], code_procedures, Len(code_procedures))
            /\ last_op_ret = ret[w]]_vars

-----------------------------------------------------------------------------
(* Workers and the state they serve.                                       *)

Live(w) == pc[w] # "none"

\* coding() does not start a worker before the latest one was accomplished.
AtMostOneWorker == \A v, w \in Workers : Live(v) /\ Live(w) => v = w

\* No run is begun while the worker of an earlier one is alive.  coding() does not
\* see to it itself: it goes by the state.
NoOverlap ==
  \A c \in Clients :
    pc[c] \in {"reset_foe", "coding_init", "coding_start", "coding_spawn"}
      => \A w \in Workers : ~Live(w)

Served ==
  \/ \E w \in Workers : Live(w)
  \/ \E c \in Clients : pc[c] = "coding_spawn"

\* A run in progress has a worker, or a caller about to start one, however the
\* callers' checks, resets and starts interleave with workers that end.
NoOrphanedRun == state = "PROGRESSING" => Served

-----------------------------------------------------------------------------
(* Errors.                                                                 *)

\* "In state ERROR but no error number": what programErrorRecover throws for.
\* restartCode sets the state first and the error inside the same section.
Trap == RecoverThrows /\ \A c \in Clients : pc[c] # "restart_foe"

\* The trap needs two errors in a row: only then has the state to return to
\* become ERROR itself.  The locks a failing call holds between recording its
\* error and moving the state keep any other reset or recovery out.
TrapNeedsTwoErrors == Trap => state_when_error_occur = "ERROR"

-----------------------------------------------------------------------------
(* Progress.                                                               *)

\* A started run comes to its end.
RunsEnd == state = "PROGRESSING" ~> state = "SHUTDOWN"

\* Every worker thread ends.
WorkersEnd == \A w \in Workers : Live(w) ~> ~Live(w)

=============================================================================
