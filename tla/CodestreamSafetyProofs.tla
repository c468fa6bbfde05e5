------------------------ MODULE CodestreamSafetyProofs ------------------------
(***************************************************************************)
(* The op-chain engine under any clients (CodestreamClients), for every    *)
(* set of threads, procedures and operations: type correctness, who holds  *)
(* the mutexes, which deadlocks are possible, and what holds of the        *)
(* errors, the index and the state of a run.                               *)
(***************************************************************************)
EXTENDS CodestreamClients, SequenceTheorems, TLAPS

-----------------------------------------------------------------------------
(* Types.                                                                  *)

\* emplace: inserting a procedure at a position of the chain gives a chain that is
\* longer by one.
LEMMA InsertAtType ==
  ASSUME NEW E, NEW s \in Seq(E), NEW e \in E, NEW i \in 1..(Len(s) + 1)
  PROVE  InsertAt(s, i, e) \in Seq(E) /\ Len(InsertAt(s, i, e)) = Len(s) + 1
<1>1. Len(s) \in Nat
  OBVIOUS
<1>2. SubSeq(s, 1, i - 1) \in Seq(E) /\ Len(SubSeq(s, 1, i - 1)) = i - 1
  <2>1. 1 \in Int /\ i - 1 \in Int
    BY <1>1
  <2>2. \A k \in 1..(i - 1) : s[k] \in E
    BY <1>1, ElementOfSeq
  <2> QED
    BY <2>1, <2>2, SubSeqProperties
<1>3. SubSeq(s, i, Len(s)) \in Seq(E) /\ Len(SubSeq(s, i, Len(s))) = Len(s) - i + 1
  <2>1. i \in Int /\ Len(s) \in Int
    BY <1>1
  <2>2. \A k \in i..Len(s) : s[k] \in E
    BY <1>1, ElementOfSeq
  <2> QED
    BY <2>1, <2>2, SubSeqProperties
<1>4. <<e>> \in Seq(E) /\ Len(<<e>>) = 1
  OBVIOUS
<1>5. /\ SubSeq(s, 1, i - 1) \o <<e>> \in Seq(E)
      /\ Len(SubSeq(s, 1, i - 1) \o <<e>>) = i
  BY <1>1, <1>2, <1>4, ConcatProperties
<1> DEFINE left == SubSeq(s, 1, i - 1) \o <<e>>
           right == SubSeq(s, i, Len(s))
<1>6. InsertAt(s, i, e) = left \o right
  BY DEF InsertAt
<1> HIDE DEF left, right
<1>7. left \in Seq(E) /\ right \in Seq(E)
  BY <1>3, <1>5 DEF left, right
<1>8. left \o right \in Seq(E) /\ Len(left \o right) = Len(left) + Len(right)
  BY <1>7, ConcatProperties
<1>9. Len(left) + Len(right) = Len(s) + 1
  BY <1>1, <1>3, <1>5 DEF left, right
<1> QED
  BY <1>6, <1>8, <1>9

\* installProcedure with a position, which is legal up to one past the end.
LEMMA InstallAtChain ==
  ASSUME TypeOK, NEW c \in Clients, NEW p \in Procs \cup {NoProc},
         NEW pos \in 0..(Len(code_procedures) + 1), InstallAt(c, p, pos)
  PROVE  /\ code_procedures' \in Chains
         /\ Len(code_procedures') = Len(code_procedures) + 1
         /\ ip_end' = Len(code_procedures) + 1
<1> DEFINE k == IF pos = 0 THEN 0 ELSE pos - 1
<1>1. code_procedures \in Seq(Procs \cup {NoProc}) /\ Len(code_procedures) \in Nat
  BY DEF TypeOK, ChainTypeOK, Chains
<1>2. k + 1 \in 1..(Len(code_procedures) + 1)
  BY <1>1
<1>3. /\ code_procedures' = InsertAt(code_procedures, k + 1, p)
      /\ ip_end' = Len(code_procedures')
  BY DEF InstallAt
<1> HIDE DEF k
<1>4. /\ InsertAt(code_procedures, k + 1, p) \in Seq(Procs \cup {NoProc})
      /\ Len(InsertAt(code_procedures, k + 1, p)) = Len(code_procedures) + 1
  BY <1>1, <1>2, InsertAtType
<1> QED
  BY <1>3, <1>4 DEF Chains

\* A new label of a caller keeps the type of pc; the same for a worker.
LEMMA GotoClient ==
  ASSUME PcTypeOK, NEW c \in Clients, NEW l \in ClientLabels, Goto(c, l)
  PROVE  PcTypeOK' /\ \A w \in Workers : pc'[w] = pc[w]
BY CodestreamAssumption DEF PcTypeOK, Goto, Threads

LEMMA GotoWorker ==
  ASSUME PcTypeOK, NEW v \in Workers, NEW l \in WorkerLabels, Goto(v, l)
  PROVE  PcTypeOK' /\ pc'[v] = l /\ \A w \in Workers \ {v} : pc'[w] = pc[w]
BY CodestreamAssumption DEF PcTypeOK, Goto, Threads

LEMMA TypeInit == ClientsInit => TypeOK
<1> SUFFICES ASSUME NEW chain \in InitialChains, InitWith(chain)
             PROVE  TypeOK
  BY DEF ClientsInit
<1>1. chain \in Chains
  BY ClientsAssumption
<1>2. <<>> \in Chains
  BY DEF Chains
<1>3. /\ pc \in [Threads -> ClientLabels \cup WorkerLabels]
      /\ \A c \in Clients : pc[c] \in ClientLabels
      /\ \A w \in Workers : pc[w] \in WorkerLabels
  BY CodestreamAssumption
     DEF InitWith, Threads, ClientLabels, WorkerLabels
<1>4. f \in [Workers -> Procs \cup {NoProc}] /\ ret \in [Workers -> Chains]
  BY <1>2 DEF InitWith
<1>5. flag_init \in BOOLEAN /\ flag_opdirection \in BOOLEAN /\ terminated \in BOOLEAN
  BY Zenon DEF InitWith
<1>6. /\ code_procedures \in Chains /\ last_op_ret \in Chains
      /\ ip \in Int /\ ip_end \in Nat /\ last_ip_start \in Nat
      /\ cerror \in Errors /\ state \in States /\ state_when_error_occur \in States
  BY <1>1, <1>2 DEF InitWith, States, Errors, Chains
<1>7. /\ state_mutex \in Threads \cup {NoThread} /\ ip_mutex \in Threads \cup {NoThread}
      /\ foe_mutex \in Threads \cup {NoThread}
      /\ work_waiters \in SUBSET Workers /\ migrated_waiters \in SUBSET Clients
  BY DEF InitWith
<1>8. \A w \in Workers : pc[w] # "exec"
  BY CodestreamAssumption DEF InitWith, Threads
<1> QED
  BY <1>3, <1>4, <1>5, <1>6, <1>7, <1>8
     DEF TypeOK, ChainTypeOK, FlagTypeOK, StateTypeOK, LockTypeOK, PcTypeOK,
         LocalTypeOK

\* Every step of a call keeps the types.
LEMMA ClientStepTypes ==
  ASSUME TypeOK, NEW c \in Clients, ClientStep(c)
  PROVE  TypeOK'
<1> USE DEF TypeOK, ChainTypeOK, FlagTypeOK, StateTypeOK, LockTypeOK, LocalTypeOK,
            vars, chainVars, flagVars, stateVars, lockVars, quietVars, localVars
<1>1. CASE InstallFlag(c)
  BY <1>1, GotoClient DEF InstallFlag, ClientLabels
<1>2. CASE \/ RecordError(c, "uninstall_foe", "UNINSTALLPROCFAILED", "uninstall_state")
           \/ RecordError(c, "stop_foe", "SUSPENDFAILED", "stop_state")
  BY <1>2, GotoClient DEF RecordError, Errors, ClientLabels
<1>3. CASE ReportError(c, "uninstall_state") \/ ReportError(c, "stop_state")
  BY <1>3, GotoClient
     DEF ReportError, EnterError, NotifyStateMigrated, States, ClientLabels
<1>4. CASE \/ AcquireState(c, "reset_state", "reset_ip")
           \/ AcquireIp(c, "reset_ip", "reset_foe")
           \/ AcquireIp(c, "recover_ip", "recover_foe")
  BY <1>4, GotoClient DEF AcquireState, AcquireIp, ClientLabels, Threads
<1>5. CASE ResetCodestream(c)
  BY <1>5, GotoClient
     DEF ResetCodestream, MoveBoth, NotifyStateMigrated, States, Errors, ClientLabels
<1>6. CASE CodingInitialised(c) \/ NotInitialised(c, "coding_init")
  BY <1>6, GotoClient
     DEF CodingInitialised, NotInitialised, Errors, ClientLabels, Threads
<1>7. CASE CodingStart(c)
  BY <1>7, GotoClient
     DEF CodingStart, MoveBoth, NotifyStateMigrated, States, ClientLabels
<1>8. CASE CodingSpawn(c)
  BY <1>8, CodestreamAssumption
     DEF CodingSpawn, PcTypeOK, ClientLabels, WorkerLabels, Threads
<1>9. CASE NoInitState(c)
  BY <1>9, GotoClient
     DEF NoInitState, EnterError, NotifyStateMigrated, States, ClientLabels
<1>10. CASE StopInTime(c) \/ StopTooLate(c) \/ StopTest(c)
  BY <1>10, GotoClient
     DEF StopInTime, StopTooLate, StopTest, AcquireIp, ClientLabels, Threads
<1>11. CASE StopSuspend(c)
  BY <1>11, GotoClient
     DEF StopSuspend, MoveTo, NotifyStateMigrated, States, ClientLabels
<1>12. CASE RestartResumes(c)
  BY <1>12, GotoClient
     DEF RestartResumes, MoveTo, NotifyStateMigrated, NotifyWork, States, ClientLabels
<1>13. CASE RestartFails(c)
  BY <1>13, GotoClient
     DEF RestartFails, EnterError, NotifyStateMigrated, States, ClientLabels, Threads
<1>14. CASE RestartError(c) \/ StateMoved(c)
  BY <1>14, GotoClient DEF RestartError, StateMoved, Errors, ClientLabels
<1>15. CASE ProgramErrorRecover(c)
  BY <1>15, GotoClient
     DEF ProgramErrorRecover, RecoverTransition, MoveBoth, MoveTo,
         NotifyStateMigrated, States, Errors, ClientLabels
<1> QED
  BY <1>1, <1>2, <1>3, <1>4, <1>5, <1>6, <1>7, <1>8, <1>9, <1>10, <1>11, <1>12,
     <1>13, <1>14, <1>15
  DEF ClientStep, ClientControl

\* Every step of a worker keeps the types.
LEMMA WorkerStepTypes ==
  ASSUME TypeOK, NEW w \in Workers, WorkerStep(w)
  PROVE  TypeOK'
<1> USE DEF TypeOK, ChainTypeOK, FlagTypeOK, StateTypeOK, LockTypeOK, LocalTypeOK,
            vars, chainVars, flagVars, stateVars, lockVars, quietVars, localVars
<1>1. CASE WorkerCheck(w) \/ WorkerPark(w) \/ WorkerUnparked(w)
  BY <1>1, GotoWorker
     DEF WorkerCheck, WorkerPark, WorkerUnparked, WorkerLabels
<1>2. CASE WorkerExit(w)
  <2>1. <<>> \in Chains
    BY DEF Chains
  <2> QED
    BY <1>2, <2>1, GotoWorker DEF WorkerExit, WorkerLabels
<1>3. CASE AcquireIp(w, "fetch_ip", "fetch_foe")
  BY <1>3, GotoWorker DEF AcquireIp, WorkerLabels, Threads
<1>4. CASE FetchProcedure(w)
  <2>1. code_procedures[ip + 1] \in Procs \cup {NoProc}
    BY <1>4, ElementOfSeq DEF FetchProcedure, InChain, Chains
  <2> QED
    BY <1>4, <2>1, GotoWorker DEF FetchProcedure, WorkerLabels
<1>5. CASE FetchThrows(w)
  BY <1>5 DEF FetchThrows, PcTypeOK
<1>6. CASE FetchEnd(w)
  BY <1>6, GotoWorker DEF FetchEnd, WorkerLabels, Threads
<1>7. CASE Shutdown(w)
  BY <1>7, GotoWorker
     DEF Shutdown, MoveTo, NotifyStateMigrated, States, WorkerLabels
<1>8. CASE Execute(w)
  <2>1. Append(ret[w], f[w]) \in Chains
    BY DEF Chains
  <2> QED
    BY <1>8, <2>1, GotoWorker DEF Execute, WorkerLabels
<1>9. CASE SaveResult(w)
  BY <1>9, GotoWorker DEF SaveResult, WorkerLabels
<1> QED
  BY <1>1, <1>2, <1>3, <1>4, <1>5, <1>6, <1>7, <1>8, <1>9
  DEF WorkerStep, WorkerControl

\* The first step of every call keeps the types.
LEMMA CallTypes ==
  ASSUME TypeOK, NEW c \in Clients, NEW op \in Ops, Call(c, op)
  PROVE  TypeOK'
<1> USE DEF TypeOK, ChainTypeOK, FlagTypeOK, StateTypeOK, LockTypeOK, LocalTypeOK,
            vars, chainVars, flagVars, stateVars, lockVars, quietVars, localVars
<1>1. CASE \E p \in Procs \cup {NoProc} : InstallAppend(c, p)
  <2>1. \A p \in Procs \cup {NoProc} :
          /\ Append(code_procedures, p) \in Chains
          /\ Len(Append(code_procedures, p)) \in Nat
    BY DEF Chains
  <2> QED
    BY <1>1, <2>1, GotoClient DEF InstallAppend, ClientLabels
<1>2. CASE \E p \in Procs \cup {NoProc}, pos \in 0..(Len(code_procedures) + 1) :
             InstallAt(c, p, pos)
  <2>1. PICK p \in Procs \cup {NoProc}, pos \in 0..(Len(code_procedures) + 1) :
          InstallAt(c, p, pos)
    BY <1>2
  <2>2. code_procedures' \in Chains /\ ip_end' \in Nat
    <3>1. Len(code_procedures) \in Nat
      BY DEF Chains
    <3> QED
      BY <2>1, <3>1, InstallAtChain
  <2> QED
    BY <2>1, <2>2, GotoClient DEF InstallAt, ClientLabels
<1>3. CASE \E which \in 0..Len(code_procedures) : Uninstall(c, which)
  <2>1. ASSUME NEW which \in 0..Len(code_procedures), Uninstall(c, which)
        PROVE  code_procedures' \in Chains
    <3>1. code_procedures \in Seq(Procs \cup {NoProc}) /\ Len(code_procedures) \in Nat
      BY DEF Chains
    <3>2. code_procedures' = [code_procedures EXCEPT ![which + 1] = NoProc]
      BY <2>1 DEF Uninstall
    <3>3. CASE which + 1 \in 1..Len(code_procedures)
      BY <3>1, <3>2, <3>3, ExceptSeq DEF Chains
    <3>4. CASE which + 1 \notin 1..Len(code_procedures)
      <4>1. code_procedures' = code_procedures
        BY <3>1, <3>2, <3>4
      <4> QED
        BY <3>1, <4>1 DEF Chains
    <3> QED
      BY <3>3, <3>4
  <2> QED
    BY <1>3, <2>1 DEF Uninstall, PcTypeOK
<1>4. CASE \E which \in 0..Len(code_procedures) : UninstallFails(c, which)
  BY <1>4, GotoClient DEF UninstallFails, AcquireIp, ClientLabels, Threads
<1>5. CASE \E i \in 0..Len(code_procedures) : SetStartPoint(c, i)
  BY <1>5 DEF SetStartPoint, PcTypeOK
<1>6. CASE ToggleOpDirection(c)
  BY <1>6 DEF ToggleOpDirection, PcTypeOK
<1>7. CASE CodingRefused(c) \/ CodingAllowed(c)
  BY <1>7, GotoClient DEF CodingRefused, CodingAllowed, PcTypeOK, ClientLabels
<1>8. CASE StopCode(c) \/ RestartCode(c) \/ NotInitialised(c, "idle")
  BY <1>8, GotoClient
     DEF StopCode, RestartCode, NotInitialised, Errors, ClientLabels, Threads
<1>9. CASE AcquireState(c, "idle", "recover_ip")
  BY <1>9, GotoClient DEF AcquireState, ClientLabels, Threads
<1>10. CASE WaitForStateMove(c)
  BY <1>10, GotoClient DEF WaitForStateMove, ClientLabels
<1> QED
  BY <1>1, <1>2, <1>3, <1>4, <1>5, <1>6, <1>7, <1>8, <1>9, <1>10 DEF Call

LEMMA TypeNext == TypeOK /\ [ClientsNext]_vars => TypeOK'
<1> SUFFICES ASSUME TypeOK, [ClientsNext]_vars
             PROVE  TypeOK'
  OBVIOUS
<1>1. CASE \E c \in Clients : ClientStep(c)
  BY <1>1, ClientStepTypes
<1>2. CASE \E w \in Workers : WorkerStep(w)
  BY <1>2, WorkerStepTypes
<1>3. CASE \E t \in Threads : SpuriousWake(t)
  BY <1>3
     DEF SpuriousWake, TypeOK, ChainTypeOK, FlagTypeOK, StateTypeOK, LockTypeOK,
         PcTypeOK, LocalTypeOK, chainVars, flagVars, lockVars, localVars
<1>4. CASE \E c \in Clients, op \in Ops : Call(c, op)
  BY <1>4, CallTypes
<1>5. CASE UNCHANGED vars
  BY <1>5
     DEF TypeOK, ChainTypeOK, FlagTypeOK, StateTypeOK, LockTypeOK, PcTypeOK,
         LocalTypeOK, vars, chainVars, flagVars, stateVars, lockVars, quietVars,
         localVars
<1> QED
  BY <1>1, <1>2, <1>3, <1>4, <1>5 DEF ClientsNext, EngineStep

\* Whatever the clients call and however they interleave with the workers, every
\* variable of the engine keeps its type (codestream_abstract.cc).
THEOREM TypeCorrect == ClientsSpec => []TypeOK
<1>1. ClientsInit => TypeOK
  BY TypeInit
<1>2. TypeOK /\ [ClientsNext]_vars => TypeOK'
  BY TypeNext
<1> QED
  BY <1>1, <1>2, PTL DEF ClientsSpec

-----------------------------------------------------------------------------
(* Every path gives back what it locked.                                   *)

LEMMA LockInit == ClientsInit => LockDiscipline
BY CodestreamAssumption
   DEF ClientsInit, InitWith, LockDiscipline, Threads, StateHeldAt, IpHeldAt, FoeHeldAt

LEMMA ClientStepLocks ==
  ASSUME TypeOK, LockDiscipline, NEW c \in Clients, ClientStep(c)
  PROVE  LockDiscipline'
<1> USE CodestreamAssumption
    DEF TypeOK, LockTypeOK, PcTypeOK, LockDiscipline, At, Goto, Free, Threads,
        StateHeldAt, IpHeldAt, FoeHeldAt, ClientLabels, WorkerLabels,
        lockVars
<1>1. CASE InstallFlag(c)
  BY <1>1 DEF InstallFlag
<1>2. CASE \/ RecordError(c, "uninstall_foe", "UNINSTALLPROCFAILED", "uninstall_state")
           \/ RecordError(c, "stop_foe", "SUSPENDFAILED", "stop_state")
  BY <1>2 DEF RecordError
<1>3. CASE ReportError(c, "uninstall_state") \/ ReportError(c, "stop_state")
  BY <1>3 DEF ReportError
<1>4. CASE \/ AcquireState(c, "reset_state", "reset_ip")
           \/ AcquireIp(c, "reset_ip", "reset_foe")
           \/ AcquireIp(c, "recover_ip", "recover_foe")
  BY <1>4 DEF AcquireState, AcquireIp
<1>5. CASE ResetCodestream(c)
  BY <1>5 DEF ResetCodestream
<1>6. CASE CodingInitialised(c) \/ NotInitialised(c, "coding_init")
  BY <1>6 DEF CodingInitialised, NotInitialised
<1>7. CASE CodingStart(c)
  BY <1>7 DEF CodingStart
<1>8. CASE CodingSpawn(c)
  BY <1>8 DEF CodingSpawn
<1>9. CASE NoInitState(c)
  BY <1>9 DEF NoInitState
<1>10. CASE StopInTime(c) \/ StopTooLate(c) \/ StopTest(c) \/ StopSuspend(c)
  BY <1>10 DEF StopInTime, StopTooLate, StopTest, StopSuspend, AcquireIp
<1>11. CASE RestartResumes(c) \/ RestartFails(c) \/ RestartError(c) \/ StateMoved(c)
  BY <1>11 DEF RestartResumes, RestartFails, RestartError, StateMoved
<1>12. CASE ProgramErrorRecover(c)
  BY <1>12 DEF ProgramErrorRecover
<1> QED
  BY <1>1, <1>2, <1>3, <1>4, <1>5, <1>6, <1>7, <1>8, <1>9, <1>10, <1>11, <1>12
  DEF ClientStep, ClientControl

LEMMA WorkerStepLocks ==
  ASSUME TypeOK, LockDiscipline, NEW w \in Workers, WorkerStep(w)
  PROVE  LockDiscipline'
<1> USE CodestreamAssumption
    DEF TypeOK, LockTypeOK, PcTypeOK, LockDiscipline, At, Goto, Free, Threads,
        StateHeldAt, IpHeldAt, FoeHeldAt, ClientLabels, WorkerLabels,
        lockVars
<1>1. CASE WorkerCheck(w) \/ WorkerExit(w) \/ WorkerPark(w) \/ WorkerUnparked(w)
  BY <1>1 DEF WorkerCheck, WorkerExit, WorkerPark, WorkerUnparked
<1>2. CASE AcquireIp(w, "fetch_ip", "fetch_foe")
  BY <1>2 DEF AcquireIp
<1>3. CASE FetchProcedure(w) \/ FetchThrows(w) \/ FetchEnd(w)
  BY <1>3 DEF FetchProcedure, FetchThrows, FetchEnd
<1>4. CASE Shutdown(w) \/ Execute(w) \/ SaveResult(w)
  BY <1>4 DEF Shutdown, Execute, SaveResult
<1> QED
  BY <1>1, <1>2, <1>3, <1>4 DEF WorkerStep, WorkerControl

LEMMA CallLocks ==
  ASSUME TypeOK, LockDiscipline, NEW c \in Clients, NEW op \in Ops, Call(c, op)
  PROVE  LockDiscipline'
<1> USE CodestreamAssumption
    DEF TypeOK, LockTypeOK, PcTypeOK, LockDiscipline, At, Goto, Free, Threads,
        StateHeldAt, IpHeldAt, FoeHeldAt, ClientLabels, WorkerLabels,
        lockVars
<1>1. CASE \E p \in Procs \cup {NoProc} :
             \/ InstallAppend(c, p)
             \/ \E pos \in 0..(Len(code_procedures) + 1) : InstallAt(c, p, pos)
  BY <1>1 DEF InstallAppend, InstallAt
<1>2. CASE \E which \in 0..Len(code_procedures) :
             Uninstall(c, which) \/ UninstallFails(c, which)
  BY <1>2 DEF Uninstall, UninstallFails, AcquireIp
<1>3. CASE \/ \E i \in 0..Len(code_procedures) : SetStartPoint(c, i)
           \/ ToggleOpDirection(c)
  BY <1>3 DEF SetStartPoint, ToggleOpDirection
<1>4. CASE CodingRefused(c) \/ CodingAllowed(c)
  BY <1>4 DEF CodingRefused, CodingAllowed, vars
<1>5. CASE StopCode(c) \/ RestartCode(c) \/ NotInitialised(c, "idle")
  BY <1>5 DEF StopCode, RestartCode, NotInitialised
<1>6. CASE AcquireState(c, "idle", "recover_ip") \/ WaitForStateMove(c)
  BY <1>6 DEF AcquireState, WaitForStateMove
<1> QED
  BY <1>1, <1>2, <1>3, <1>4, <1>5, <1>6 DEF Call

LEMMA LockNext == TypeOK /\ LockDiscipline /\ [ClientsNext]_vars => LockDiscipline'
<1> SUFFICES ASSUME TypeOK, LockDiscipline, [ClientsNext]_vars
             PROVE  LockDiscipline'
  OBVIOUS
<1>1. CASE \E t \in Threads : SpuriousWake(t)
  BY <1>1 DEF SpuriousWake, LockDiscipline, lockVars
<1>2. CASE UNCHANGED vars
  BY <1>2 DEF LockDiscipline, lockVars, vars
<1> QED
  BY <1>1, <1>2, ClientStepLocks, WorkerStepLocks, CallLocks
  DEF ClientsNext, EngineStep

\* Every early return, error path and exit of a worker gives back exactly the
\* mutexes it took, and no mutex ever has two holders (the zone macros of
\* codestream_abstract.cc and every method that nests them).
THEOREM MutexesReturned == ClientsSpec => []LockDiscipline
<1>1. ClientsInit => LockDiscipline
  BY LockInit
<1>2. TypeOK /\ LockDiscipline /\ [ClientsNext]_vars => LockDiscipline'
  BY LockNext
<1> QED
  BY <1>1, <1>2, TypeCorrect, PTL DEF ClientsSpec

-----------------------------------------------------------------------------
(* Which deadlocks there are.                                              *)

LEMMA CycleNeedsStateHolder ==
  TypeOK /\ LockDiscipline => DeadlockNeedsStateHolder
<1> SUFFICES ASSUME TypeOK, LockDiscipline, NEW S \in SUBSET Threads, LockCycle(S),
                    \A t \in S : state_mutex # t
             PROVE  FALSE
  BY DEF DeadlockNeedsStateHolder
<1> USE DEF WaitsFor, LockDiscipline, StateHeldAt, IpHeldAt, FoeHeldAt,
            StateWantedAt, IpWantedAt, FoeWantedAt
\* A holder of _flag_error_mutex asks for nothing but _state_mutex.
<1>1. \A t, u \in S : WaitsFor(t, u) => foe_mutex # t
  OBVIOUS
\* A holder of _ip_mutex then asks for _flag_error_mutex only.
<1>2. \A t, u \in S : WaitsFor(t, u) /\ ip_mutex = t => foe_mutex = u
  OBVIOUS
<1>3. \A t \in S : \E u \in S : WaitsFor(t, u)
  BY DEF LockCycle
<1>4. \A t \in S : foe_mutex # t
  BY <1>1, <1>3
<1>5. \A t \in S : ip_mutex # t
  BY <1>2, <1>3, <1>4
<1>6. \A t, u \in S : ~WaitsFor(t, u)
  BY <1>4, <1>5
<1> QED
  BY <1>3, <1>6 DEF LockCycle

\* A deadlock on the mutexes always involves a thread that holds _state_mutex and
\* asks for another: only resetCodestream, programErrorRecover and a failing
\* restartCode can close the circle with the operations that nest the other way.
THEOREM DeadlocksCharacterised == ClientsSpec => []DeadlockNeedsStateHolder
<1>1. TypeOK /\ LockDiscipline => DeadlockNeedsStateHolder
  BY CycleNeedsStateHolder
<1> QED
  BY <1>1, TypeCorrect, MutexesReturned, PTL

-----------------------------------------------------------------------------
(* The errors.                                                             *)

\* Once a failing call has recorded its code no other call can clear it before
\* the state is ERROR, because the clearing needs a mutex the call still holds.
ErrorRecorded ==
  \A c \in Clients :
    pc[c] \in {"uninstall_state", "stop_state", "noinit"} => cerror # "NOERROR"

ErrorInv == ErrorRecorded /\ TrapNeedsTwoErrors

LEMMA ErrorInit == ClientsInit => ErrorInv
BY CodestreamAssumption
   DEF ClientsInit, InitWith, ErrorInv, ErrorRecorded, TrapNeedsTwoErrors, Trap,
       RecoverThrows, Threads

LEMMA ErrorNext ==
  TypeOK /\ LockDiscipline /\ ErrorInv /\ [ClientsNext]_vars => ErrorInv'
<1> SUFFICES ASSUME TypeOK, LockDiscipline, ErrorInv, [ClientsNext]_vars
             PROVE  ErrorInv'
  OBVIOUS
<1> USE CodestreamAssumption
    DEF TypeOK, PcTypeOK, LockTypeOK, LockDiscipline, ErrorInv, ErrorRecorded,
        TrapNeedsTwoErrors, Trap, RecoverThrows, At, Goto, Free, Threads,
        StateHeldAt, IpHeldAt, FoeHeldAt, ClientLabels, WorkerLabels,
        stateVars
<1>1. ASSUME NEW c \in Clients, ClientStep(c)
      PROVE  ErrorInv'
  <2>1. CASE InstallFlag(c)
    BY <2>1 DEF InstallFlag
  <2>2. CASE \/ RecordError(c, "uninstall_foe", "UNINSTALLPROCFAILED", "uninstall_state")
             \/ RecordError(c, "stop_foe", "SUSPENDFAILED", "stop_state")
    BY <2>2 DEF RecordError
  <2>3. CASE ReportError(c, "uninstall_state") \/ ReportError(c, "stop_state")
    BY <2>3 DEF ReportError, EnterError
  <2>4. CASE \/ AcquireState(c, "reset_state", "reset_ip")
             \/ AcquireIp(c, "reset_ip", "reset_foe")
             \/ AcquireIp(c, "recover_ip", "recover_foe")
    BY <2>4 DEF AcquireState, AcquireIp
  <2>5. CASE ResetCodestream(c)
    BY <2>5 DEF ResetCodestream, MoveBoth
  <2>6. CASE CodingInitialised(c) \/ NotInitialised(c, "coding_init")
    BY <2>6 DEF CodingInitialised, NotInitialised
  <2>7. CASE CodingStart(c)
    BY <2>7 DEF CodingStart, MoveBoth
  <2>8. CASE CodingSpawn(c)
    BY <2>8 DEF CodingSpawn
  <2>9. CASE NoInitState(c)
    BY <2>9 DEF NoInitState, EnterError
  <2>10. CASE StopInTime(c) \/ StopTooLate(c) \/ StopTest(c)
    BY <2>10 DEF StopInTime, StopTooLate, StopTest, AcquireIp
  <2>11. CASE StopSuspend(c) \/ RestartResumes(c)
    BY <2>11 DEF StopSuspend, RestartResumes, MoveTo
  <2>12. CASE RestartFails(c)
    BY <2>12 DEF RestartFails, EnterError
  <2>13. CASE RestartError(c) \/ StateMoved(c)
    BY <2>13 DEF RestartError, StateMoved
  <2>14. CASE ProgramErrorRecover(c)
    BY <2>14 DEF ProgramErrorRecover, RecoverTransition, MoveTo, MoveBoth
  <2> QED
    BY <1>1, <2>1, <2>2, <2>3, <2>4, <2>5, <2>6, <2>7, <2>8, <2>9, <2>10, <2>11,
       <2>12, <2>13, <2>14
    DEF ClientStep, ClientControl
<1>2. ASSUME NEW w \in Workers, WorkerStep(w)
      PROVE  ErrorInv'
  <2>1. CASE WorkerCheck(w) \/ WorkerExit(w) \/ WorkerPark(w) \/ WorkerUnparked(w)
    BY <2>1 DEF WorkerCheck, WorkerExit, WorkerPark, WorkerUnparked
  <2>2. CASE AcquireIp(w, "fetch_ip", "fetch_foe")
    BY <2>2 DEF AcquireIp
  <2>3. CASE FetchProcedure(w) \/ FetchThrows(w) \/ FetchEnd(w)
    BY <2>3 DEF FetchProcedure, FetchThrows, FetchEnd
  <2>4. CASE Shutdown(w) \/ Execute(w) \/ SaveResult(w)
    BY <2>4 DEF Shutdown, MoveTo, Execute, SaveResult
  <2> QED
    BY <1>2, <2>1, <2>2, <2>3, <2>4 DEF WorkerStep, WorkerControl
<1>3. ASSUME NEW c \in Clients, NEW op \in Ops, Call(c, op)
      PROVE  ErrorInv'
  <2>1. CASE \E p \in Procs \cup {NoProc} :
               \/ InstallAppend(c, p)
               \/ \E pos \in 0..(Len(code_procedures) + 1) : InstallAt(c, p, pos)
    BY <2>1 DEF InstallAppend, InstallAt
  <2>2. CASE \E which \in 0..Len(code_procedures) :
               Uninstall(c, which) \/ UninstallFails(c, which)
    BY <2>2 DEF Uninstall, UninstallFails, AcquireIp
  <2>3. CASE \/ \E i \in 0..Len(code_procedures) : SetStartPoint(c, i)
             \/ ToggleOpDirection(c)
    BY <2>3 DEF SetStartPoint, ToggleOpDirection
  <2>4. CASE CodingRefused(c) \/ CodingAllowed(c)
    BY <2>4 DEF CodingRefused, CodingAllowed, vars
  <2>5. CASE StopCode(c) \/ RestartCode(c) \/ NotInitialised(c, "idle")
    BY <2>5 DEF StopCode, RestartCode, NotInitialised
  <2>6. CASE AcquireState(c, "idle", "recover_ip") \/ WaitForStateMove(c)
    BY <2>6 DEF AcquireState, WaitForStateMove
  <2> QED
    BY <1>3, <2>1, <2>2, <2>3, <2>4, <2>5, <2>6 DEF Call
<1>4. CASE \E t \in Threads : SpuriousWake(t)
  BY <1>4 DEF SpuriousWake
<1>5. CASE UNCHANGED vars
  BY <1>5 DEF vars
<1> QED
  BY <1>1, <1>2, <1>3, <1>4, <1>5 DEF ClientsNext, EngineStep

\* programErrorRecover throws for "ERROR state but no error number" only when ERROR
\* was entered from ERROR: one error that is recovered from never ends there, for
\* any clients and whatever they interleave (codestream_abstract.cc:480-484).
THEOREM OneErrorIsRecoverable == ClientsSpec => []TrapNeedsTwoErrors
<1>1. ClientsInit => ErrorInv
  BY ErrorInit
<1>2. TypeOK /\ LockDiscipline /\ ErrorInv /\ [ClientsNext]_vars => ErrorInv'
  BY ErrorNext
<1>3. ErrorInv => TrapNeedsTwoErrors
  BY DEF ErrorInv
<1> QED
  BY <1>1, <1>2, <1>3, TypeCorrect, MutexesReturned, PTL DEF ClientsSpec

-----------------------------------------------------------------------------
(* The index.                                                              *)

\* The recorded end is the end of the vector, and the start point lies in the chain.
IndexInv ==
  /\ ip_end = Len(code_procedures)
  /\ last_ip_start \in 0..ip_end
  /\ ip \in -1..ip_end
  /\ terminated => flag_opdirection /\ ip \in {-1, ip_end}

LEMMA IndexInit == ClientsInit => IndexInv
<1> SUFFICES ASSUME NEW chain \in InitialChains, InitWith(chain)
             PROVE  IndexInv
  BY DEF ClientsInit
<1>1. Len(chain) \in Nat
  BY ClientsAssumption DEF Chains
<1> QED
  BY <1>1 DEF InitWith, IndexInv

\* The calls that move the chain, the index or the direction.
LEMMA IndexCalls ==
  ASSUME TypeOK, IndexInv, NEW c \in Clients, NEW op \in Ops, Call(c, op)
  PROVE  IndexInv'
<1>1. code_procedures \in Chains /\ Len(code_procedures) \in Nat
  BY DEF TypeOK, ChainTypeOK, Chains
<1> USE <1>1 DEF IndexInv, chainVars, flagVars, quietVars, vars, At
<1>2. CASE \E p \in Procs \cup {NoProc} : InstallAppend(c, p)
  <2>1. \A p \in Procs \cup {NoProc} :
          Len(Append(code_procedures, p)) = Len(code_procedures) + 1
    BY DEF Chains
  <2> QED
    BY <1>2, <2>1 DEF InstallAppend
<1>3. CASE \E p \in Procs \cup {NoProc}, pos \in 0..(Len(code_procedures) + 1) :
             InstallAt(c, p, pos)
  <2>1. \E p \in Procs \cup {NoProc}, pos \in 0..(Len(code_procedures) + 1) :
          /\ InstallAt(c, p, pos)
          /\ Len(code_procedures') = Len(code_procedures) + 1
    BY <1>3, InstallAtChain
  <2> QED
    BY <2>1 DEF InstallAt
<1>4. CASE \E which \in 0..Len(code_procedures) : Uninstall(c, which)
  <2>1. ASSUME NEW which \in 0..Len(code_procedures), Uninstall(c, which)
        PROVE  Len(code_procedures') = Len(code_procedures)
    BY <2>1, ExceptSeq DEF Uninstall, Installed, Chains
  <2> QED
    BY <1>4, <2>1 DEF Uninstall
<1>5. CASE \E which \in 0..Len(code_procedures) : UninstallFails(c, which)
  BY <1>5 DEF UninstallFails, AcquireIp
<1>6. CASE \E i \in 0..Len(code_procedures) : SetStartPoint(c, i)
  BY <1>6 DEF SetStartPoint
<1>7. CASE ToggleOpDirection(c)
  BY <1>7 DEF ToggleOpDirection
<1>8. CASE CodingRefused(c) \/ CodingAllowed(c)
  BY <1>8 DEF CodingRefused, CodingAllowed
<1>9. CASE StopCode(c) \/ RestartCode(c) \/ NotInitialised(c, "idle")
  BY <1>9 DEF StopCode, RestartCode, NotInitialised
<1>10. CASE AcquireState(c, "idle", "recover_ip") \/ WaitForStateMove(c)
  BY <1>10 DEF AcquireState, WaitForStateMove
<1> QED
  BY <1>2, <1>3, <1>4, <1>5, <1>6, <1>7, <1>8, <1>9, <1>10 DEF Call

LEMMA IndexNext == TypeOK /\ IndexInv /\ [ClientsNext]_vars => IndexInv'
<1> SUFFICES ASSUME TypeOK, IndexInv, [ClientsNext]_vars
             PROVE  IndexInv'
  OBVIOUS
<1>1. code_procedures \in Chains /\ Len(code_procedures) \in Nat
  BY DEF TypeOK, ChainTypeOK, Chains
<1> USE <1>1 DEF IndexInv, chainVars, flagVars, quietVars, vars, At
<1>2. ASSUME NEW c \in Clients, ClientStep(c)
      PROVE  IndexInv'
  <2>1. CASE InstallFlag(c)
    BY <2>1 DEF InstallFlag
  <2>2. CASE \/ RecordError(c, "uninstall_foe", "UNINSTALLPROCFAILED", "uninstall_state")
             \/ RecordError(c, "stop_foe", "SUSPENDFAILED", "stop_state")
             \/ ReportError(c, "uninstall_state") \/ ReportError(c, "stop_state")
             \/ NotInitialised(c, "coding_init") \/ NoInitState(c)
    BY <2>2 DEF RecordError, ReportError, NotInitialised, NoInitState
  <2>3. CASE \/ AcquireState(c, "reset_state", "reset_ip")
             \/ AcquireIp(c, "reset_ip", "reset_foe")
             \/ AcquireIp(c, "recover_ip", "recover_foe")
    BY <2>3 DEF AcquireState, AcquireIp
  <2>4. CASE ResetCodestream(c)
    BY <2>4 DEF ResetCodestream
  <2>5. CASE CodingInitialised(c) \/ CodingStart(c) \/ CodingSpawn(c)
    BY <2>5 DEF CodingInitialised, CodingStart, CodingSpawn
  <2>6. CASE StopInTime(c) \/ StopTooLate(c) \/ StopTest(c) \/ StopSuspend(c)
    BY <2>6 DEF StopInTime, StopTooLate, StopTest, StopSuspend, AcquireIp
  <2>7. CASE RestartResumes(c) \/ RestartFails(c) \/ RestartError(c) \/ StateMoved(c)
    BY <2>7 DEF RestartResumes, RestartFails, RestartError, StateMoved
  <2>8. CASE ProgramErrorRecover(c)
    BY <2>8 DEF ProgramErrorRecover
  <2> QED
    BY <1>2, <2>1, <2>2, <2>3, <2>4, <2>5, <2>6, <2>7, <2>8
    DEF ClientStep, ClientControl
<1>3. ASSUME NEW w \in Workers, WorkerStep(w)
      PROVE  IndexInv'
  <2>1. CASE \/ WorkerCheck(w) \/ WorkerExit(w) \/ WorkerPark(w)
             \/ WorkerUnparked(w) \/ AcquireIp(w, "fetch_ip", "fetch_foe")
    BY <2>1 DEF WorkerCheck, WorkerExit, WorkerPark, WorkerUnparked, AcquireIp
  \* A procedure is fetched from inside the chain, and the index moves by one.
  <2>2. CASE FetchProcedure(w)
    BY <2>2 DEF FetchProcedure, InChain
  \* The comparison with the recorded end is one with the vector's, unless the
  \* direction is reversed.
  <2>3. CASE FetchThrows(w)
    <3>1. MoreToDo /\ ~InChain
      BY <2>3 DEF FetchThrows
    <3>2. flag_opdirection
      BY <3>1 DEF MoreToDo, InChain, PastEnd
    <3>3. ip \in {-1, ip_end}
      BY <3>1 DEF InChain
    <3> QED
      BY <2>3, <3>2, <3>3 DEF FetchThrows
  <2>4. CASE FetchEnd(w) \/ Shutdown(w) \/ Execute(w) \/ SaveResult(w)
    BY <2>4 DEF FetchEnd, Shutdown, Execute, SaveResult
  <2> QED
    BY <1>3, <2>1, <2>2, <2>3, <2>4 DEF WorkerStep, WorkerControl
<1>4. CASE \E c \in Clients, op \in Ops : Call(c, op)
  BY <1>4, IndexCalls
<1>5. CASE \E t \in Threads : SpuriousWake(t)
  BY <1>5 DEF SpuriousWake
<1>6. CASE UNCHANGED vars
  BY <1>6
<1> QED
  BY <1>2, <1>3, <1>4, <1>5, <1>6 DEF ClientsNext, EngineStep

LEMMA IndexCorrect == ClientsSpec => []IndexInv
<1>1. ClientsInit => IndexInv
  BY IndexInit
<1>2. TypeOK /\ IndexInv /\ [ClientsNext]_vars => IndexInv'
  BY IndexNext
<1> QED
  BY <1>1, <1>2, TypeCorrect, PTL DEF ClientsSpec

\* Whatever is installed, uninstalled, reversed and restarted under them, and however
\* many workers run, the index stays within a step of the chain, and vector::at kills
\* the process only by a step beyond an end with the direction reversed
\* (codestream_abstract.cc:94-119, 126-160, 164-169, 253-256).
THEOREM ChainNeverLeft == ClientsSpec => []IndexKept
<1>1. IndexInv => IndexKept
  BY DEF IndexInv, IndexKept
<1> QED
  BY <1>1, IndexCorrect, PTL

-----------------------------------------------------------------------------
(* The runs.                                                               *)

\* A recovery may bring the run back that an error interrupted: it must not have
\* lost its worker in the meantime.
RunInv ==
  /\ NoOrphanedRun
  /\ state = "ERROR" /\ state_when_error_occur = "PROGRESSING" => Served
  /\ \A c \in Clients : pc[c] # "restart_state"

LEMMA RunInit == ClientsInit => RunInv
BY CodestreamAssumption
   DEF ClientsInit, InitWith, RunInv, NoOrphanedRun, Served, Threads

LEMMA RunNext ==
  ASSUME "restart" \notin Ops
  PROVE  TypeOK /\ RunInv /\ [ClientsNext]_vars => RunInv'
<1> SUFFICES ASSUME TypeOK, RunInv, [ClientsNext]_vars
             PROVE  RunInv'
  OBVIOUS
<1> USE CodestreamAssumption
    DEF TypeOK, PcTypeOK, RunInv, NoOrphanedRun, Served, Live, At, Goto, Threads,
        ClientLabels, WorkerLabels, stateVars
<1>1. ASSUME NEW c \in Clients, ClientStep(c)
      PROVE  RunInv'
  <2>1. CASE InstallFlag(c)
    BY <2>1 DEF InstallFlag
  <2>2. CASE \/ RecordError(c, "uninstall_foe", "UNINSTALLPROCFAILED", "uninstall_state")
             \/ RecordError(c, "stop_foe", "SUSPENDFAILED", "stop_state")
    BY <2>2 DEF RecordError
  <2>3. CASE ReportError(c, "uninstall_state") \/ ReportError(c, "stop_state")
    BY <2>3 DEF ReportError, EnterError
  <2>4. CASE \/ AcquireState(c, "reset_state", "reset_ip")
             \/ AcquireIp(c, "reset_ip", "reset_foe")
             \/ AcquireIp(c, "recover_ip", "recover_foe")
    BY <2>4 DEF AcquireState, AcquireIp
  <2>5. CASE ResetCodestream(c)
    BY <2>5 DEF ResetCodestream, MoveBoth
  <2>6. CASE CodingInitialised(c) \/ NotInitialised(c, "coding_init")
    BY <2>6 DEF CodingInitialised, NotInitialised
  <2>7. CASE CodingStart(c)
    BY <2>7 DEF CodingStart, MoveBoth
  <2>8. CASE CodingSpawn(c)
    BY <2>8 DEF CodingSpawn
  <2>9. CASE NoInitState(c)
    BY <2>9 DEF NoInitState, EnterError
  <2>10. CASE StopInTime(c) \/ StopTooLate(c) \/ StopTest(c) \/ StopSuspend(c)
    BY <2>10 DEF StopInTime, StopTooLate, StopTest, StopSuspend, AcquireIp, MoveTo
  <2>11. ~RestartResumes(c) /\ ~RestartFails(c)
    BY DEF RestartResumes, RestartFails
  <2>12. CASE RestartError(c) \/ StateMoved(c)
    BY <2>12 DEF RestartError, StateMoved
  <2>13. CASE ProgramErrorRecover(c)
    BY <2>13 DEF ProgramErrorRecover, RecoverTransition, RecoverThrows, MoveTo, MoveBoth
  <2> QED
    BY <1>1, <2>1, <2>2, <2>3, <2>4, <2>5, <2>6, <2>7, <2>8, <2>9, <2>10, <2>11,
       <2>12, <2>13
    DEF ClientStep, ClientControl
<1>2. ASSUME NEW w \in Workers, WorkerStep(w)
      PROVE  RunInv'
  <2>1. CASE WorkerCheck(w) \/ WorkerPark(w) \/ WorkerUnparked(w)
    BY <2>1 DEF WorkerCheck, WorkerPark, WorkerUnparked
  <2>2. CASE WorkerExit(w)
    BY <2>2 DEF WorkerExit
  <2>3. CASE AcquireIp(w, "fetch_ip", "fetch_foe")
    BY <2>3 DEF AcquireIp
  <2>4. CASE FetchProcedure(w) \/ FetchThrows(w) \/ FetchEnd(w)
    BY <2>4 DEF FetchProcedure, FetchThrows, FetchEnd
  <2>5. CASE Shutdown(w) \/ Execute(w) \/ SaveResult(w)
    BY <2>5 DEF Shutdown, MoveTo, Execute, SaveResult
  <2> QED
    BY <1>2, <2>1, <2>2, <2>3, <2>4, <2>5 DEF WorkerStep, WorkerControl
<1>3. ASSUME NEW c \in Clients, NEW op \in Ops, Call(c, op)
      PROVE  RunInv'
  <2>1. CASE \E p \in Procs \cup {NoProc} :
               \/ InstallAppend(c, p)
               \/ \E pos \in 0..(Len(code_procedures) + 1) : InstallAt(c, p, pos)
    BY <2>1 DEF InstallAppend, InstallAt
  <2>2. CASE \E which \in 0..Len(code_procedures) :
               Uninstall(c, which) \/ UninstallFails(c, which)
    BY <2>2 DEF Uninstall, UninstallFails, AcquireIp
  <2>3. CASE \/ \E i \in 0..Len(code_procedures) : SetStartPoint(c, i)
             \/ ToggleOpDirection(c)
    BY <2>3 DEF SetStartPoint, ToggleOpDirection
  <2>4. CASE CodingRefused(c) \/ CodingAllowed(c)
    BY <2>4 DEF CodingRefused, CodingAllowed, vars
  <2>5. CASE StopCode(c) \/ NotInitialised(c, "idle")
    BY <2>5 DEF StopCode, NotInitialised
  <2>6. CASE AcquireState(c, "idle", "recover_ip") \/ WaitForStateMove(c)
    BY <2>6 DEF AcquireState, WaitForStateMove
  <2> QED
    BY <1>3, <2>1, <2>2, <2>3, <2>4, <2>5, <2>6 DEF Call
<1>4. CASE \E t \in Threads : SpuriousWake(t)
  BY <1>4 DEF SpuriousWake
<1>5. CASE UNCHANGED vars
  BY <1>5 DEF vars
<1> QED
  BY <1>1, <1>2, <1>3, <1>4, <1>5 DEF ClientsNext, EngineStep

\* As long as nobody calls restartCode a run in progress always has a thread that
\* carries it on, through every error, recovery and late suspend
\* (codestream_abstract.cc:212-218, 245-248).
THEOREM RunsAreServed ==
  ASSUME "restart" \notin Ops
  PROVE  ClientsSpec => []NoOrphanedRun
<1>1. ClientsInit => RunInv
  BY RunInit
<1>2. TypeOK /\ RunInv /\ [ClientsNext]_vars => RunInv'
  BY RunNext
<1>3. RunInv => NoOrphanedRun
  BY DEF RunInv
<1> QED
  BY <1>1, <1>2, <1>3, TypeCorrect, PTL DEF ClientsSpec

=============================================================================
