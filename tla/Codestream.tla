------------------------------ MODULE Codestream ------------------------------
(***************************************************************************)
(* The operations of the op-chain engine, src/src/codestream_abstract.cc.  *)
(*                                                                         *)
(* A step is one critical section.  A section entered while another mutex  *)
(* is held is a step of its own, so that every order of nested             *)
(* acquisitions, and every deadlock, is a behaviour of the model.  The     *)
(* releases belong to the last body: no thread acquires anything between   *)
(* two releases.                                                           *)
(***************************************************************************)
EXTENDS CodestreamState

-----------------------------------------------------------------------------
(* Faulty variants, X_Fault for the operation X below.  No specification   *)
(* uses them: each is a plausible slip in the code that one of the         *)
(* properties must expose.                                                 *)

\* A failing restartCode returns with _state_mutex locked.
RestartError_KeepsLock(c) ==
  /\ At(c, "restart_foe") /\ Free(foe_mutex)
  /\ cerror' = "RECOVERFAILED"
  /\ Goto(c, "idle")
  /\ UNCHANGED <<chainVars, stateVars, lockVars, quietVars>>

\* The section of _ip_mutex ends once the error code is recorded.
RecordError_Unlocks(c, from, code, to) ==
  /\ At(c, from) /\ Free(foe_mutex)
  /\ cerror' = code
  /\ ip_mutex' = NoThread
  /\ Goto(c, to)
  /\ UNCHANGED <<chainVars, stateVars, state_mutex, foe_mutex, quietVars>>

\* The slot is taken out of the chain and the recorded end is not moved.
Uninstall_Shrinks(c, which) ==
  /\ At(c, "idle") /\ Free(ip_mutex) /\ Installed(which)
  /\ code_procedures' = RemoveAt(code_procedures, which + 1)
  /\ UNCHANGED <<ip, ip_end, last_ip_start, last_op_ret, cerror, stateVars, lockVars,
                 pc, quietVars>>

\* The worker ends without moving the state to SHUTDOWN.
FetchEnd_JustLeaves(w) ==
  /\ At(w, "fetch_foe") /\ Free(foe_mutex)
  /\ ~flag_opdirection /\ PastEnd
  /\ ip_mutex' = NoThread
  /\ Goto(w, "none")
  /\ UNCHANGED <<chainVars, cerror, stateVars, state_mutex, foe_mutex,
                 quietVars>>

\* restartCode begins the chain again.
RestartResumes_FromStart(c) ==
  /\ At(c, "restart_state") /\ Free(state_mutex)
  /\ state = "SUSPEND"
  /\ MoveTo("PROGRESSING")
  /\ NotifyWork
  /\ ip' = last_ip_start
  /\ Goto(c, "idle")
  /\ UNCHANGED <<code_procedures, ip_end, last_ip_start, last_op_ret, flagVars, cerror,
                 lockVars, localVars, terminated>>

\* restartCode moves the state and does not notify the worker.
RestartResumes_Silent(c) ==
  /\ At(c, "restart_state") /\ Free(state_mutex)
  /\ state = "SUSPEND"
  /\ MoveTo("PROGRESSING")
  /\ Goto(c, "idle")
  /\ UNCHANGED <<chainVars, cerror, lockVars, quietVars>>

\* The worker that ends leaves the section of _ip_mutex open.
Shutdown_KeepsIp(w) ==
  /\ At(w, "shutdown") /\ Free(state_mutex)
  /\ MoveTo("SHUTDOWN")
  /\ foe_mutex' = NoThread
  /\ Goto(w, "check")
  /\ UNCHANGED <<chainVars, cerror, state_mutex, ip_mutex, quietVars>>

\* The worker goes on unless there is an error, also when it has been stopped.
WorkerCheck_IgnoresStop(w) ==
  /\ At(w, "check") /\ Free(state_mutex)
  /\ state # "SHUTDOWN"
  /\ Goto(w, IF state = "ERROR" THEN "park" ELSE "fetch_ip")
  /\ UNCHANGED <<chainVars, cerror, stateVars, lockVars, quietVars>>

\* stopCode keeps _flag_error_mutex until it returns.
StopCode_KeepsLock(c) ==
  /\ At(c, "idle") /\ Free(foe_mutex)
  /\ flag_init
  /\ foe_mutex' = c
  /\ Goto(c, "stop_ip")
  /\ UNCHANGED <<chainVars, cerror, stateVars, state_mutex, ip_mutex, quietVars>>

\* The index does not move over an empty slot.
FetchProcedure_StuckOnGap(w) ==
  LET proc == code_procedures[ip + 1]
  IN  /\ At(w, "fetch_foe") /\ Free(foe_mutex)
      /\ InChain
      /\ f' = [f EXCEPT ![w] = proc]
      /\ ip' = IF proc = NoProc THEN ip ELSE ip + 1
      /\ ip_mutex' = NoThread
      /\ Goto(w, IF proc = NoProc THEN "check" ELSE "exec")
      /\ UNCHANGED <<code_procedures, ip_end, last_ip_start, last_op_ret, flagVars,
                     cerror, stateVars, state_mutex, foe_mutex, work_waiters,
                     ret, terminated>>

\* An empty slot is called like any other.
FetchProcedure_RunsGap(w) ==
  /\ At(w, "fetch_foe") /\ Free(foe_mutex)
  /\ InChain
  /\ f' = [f EXCEPT ![w] = code_procedures[ip + 1]]
  /\ ip' = ip + 1
  /\ ip_mutex' = NoThread
  /\ Goto(w, "exec")
  /\ UNCHANGED <<code_procedures, ip_end, last_ip_start, last_op_ret, flagVars, cerror,
                 stateVars, state_mutex, foe_mutex, work_waiters, ret, terminated>>

\* The end of a run is not notified.
Shutdown_Silent(w) ==
  /\ At(w, "shutdown") /\ Free(state_mutex)
  /\ state' = "SHUTDOWN"
  /\ ip_mutex' = NoThread /\ foe_mutex' = NoThread
  /\ Goto(w, "check")
  /\ UNCHANGED <<chainVars, cerror, state_when_error_occur, migrated_waiters,
                 state_mutex, quietVars>>

\* The "not initialised" exit moves the state and records no error.
NotInitialised_NoCode(c, from) ==
  /\ At(c, from) /\ Free(foe_mutex)
  /\ ~flag_init
  /\ foe_mutex' = c
  /\ Goto(c, "noinit")
  /\ UNCHANGED <<chainVars, cerror, stateVars, state_mutex, ip_mutex, quietVars>>

\* The worker waits for more work instead of ending.
Shutdown_Waits(w) ==
  /\ At(w, "shutdown") /\ Free(state_mutex)
  /\ MoveTo("SHUTDOWN")
  /\ ip_mutex' = NoThread /\ foe_mutex' = NoThread
  /\ Goto(w, "park")
  /\ UNCHANGED <<chainVars, cerror, state_mutex, quietVars>>

-----------------------------------------------------------------------------
(* Steps that several operations share.                                    *)

\* The state an error interrupts is what programErrorRecover can return to.
EnterError ==
  /\ state_when_error_occur' = state
  /\ state' = "ERROR"
  /\ NotifyStateMigrated

\* A failing uninstallProcedure or stopCode records its error code, then moves
\* the state to ERROR, holding _ip_mutex throughout.
RecordError(c, from, code, to) ==
  /\ At(c, from) /\ Free(foe_mutex)
  /\ cerror' = code
  /\ Goto(c, to)
  /\ UNCHANGED <<chainVars, stateVars, lockVars, quietVars>>

ReportError(c, from) ==
  /\ At(c, from) /\ Free(state_mutex)
  /\ EnterError
  /\ ip_mutex' = NoThread
  /\ Goto(c, "idle")
  /\ UNCHANGED <<chainVars, cerror, state_mutex, foe_mutex, quietVars>>

\* The "not initialised" exit of coding, stopCode and restartCode, when nothing
\* was ever installed: _state_mutex is taken inside _flag_error_mutex.
NotInitialised(c, from) ==
  /\ At(c, from) /\ Free(foe_mutex)
  /\ ~flag_init
  /\ cerror' = "NOINIT"
  /\ foe_mutex' = c
  /\ Goto(c, "noinit")
  /\ UNCHANGED <<chainVars, stateVars, state_mutex, ip_mutex, quietVars>>

NoInitState(c) ==
  /\ At(c, "noinit") /\ Free(state_mutex)
  /\ EnterError
  /\ foe_mutex' = NoThread
  /\ Goto(c, "idle")
  /\ UNCHANGED <<chainVars, cerror, state_mutex, ip_mutex, quietVars>>

-----------------------------------------------------------------------------
(* installProcedure, without and with a position.                          *)

InstallAppend(c, p) ==
  /\ At(c, "idle") /\ Free(ip_mutex)
  /\ code_procedures' = Append(code_procedures, p)
  /\ ip_end' = Len(code_procedures')
  /\ Goto(c, "install_flag")
  /\ UNCHANGED <<ip, last_ip_start, last_op_ret, cerror, stateVars, lockVars,
                 quietVars>>

\* The iterator is begin() + (pos == 0 ? 0 : pos - 1); at most one past the end.
InstallAt(c, p, pos) ==
  LET k == IF pos = 0 THEN 0 ELSE pos - 1
  IN  /\ At(c, "idle") /\ Free(ip_mutex)
      /\ code_procedures' = InsertAt(code_procedures, k + 1, p)
      /\ ip_end' = Len(code_procedures')
      /\ Goto(c, "install_flag")
      /\ UNCHANGED <<ip, last_ip_start, last_op_ret, cerror, stateVars,
                     lockVars, quietVars>>

InstallFlag(c) ==
  /\ At(c, "install_flag") /\ Free(foe_mutex)
  /\ flag_init' = TRUE
  /\ Goto(c, "idle")
  /\ UNCHANGED <<chainVars, flag_opdirection, cerror, stateVars, lockVars,
                 work_waiters, localVars, terminated>>

-----------------------------------------------------------------------------
(* uninstallProcedure: the slot becomes null; an unused or empty slot is    *)
(* an error, reported with _ip_mutex held throughout.                      *)

Uninstall(c, which) ==
  /\ At(c, "idle") /\ Free(ip_mutex) /\ Installed(which)
  /\ code_procedures' = [code_procedures EXCEPT ![which + 1] = NoProc]
  /\ UNCHANGED <<ip, ip_end, last_ip_start, last_op_ret, cerror, stateVars, lockVars,
                 pc, quietVars>>

UninstallFails(c, which) ==
  /\ ~Installed(which)
  /\ AcquireIp(c, "idle", "uninstall_foe")

-----------------------------------------------------------------------------
(* setStartPoint and toggleOpDirection.                                    *)

SetStartPoint(c, i) ==
  /\ At(c, "idle") /\ Free(ip_mutex)
  /\ i < ip_end
  /\ ip' = i /\ last_ip_start' = i
  /\ UNCHANGED <<code_procedures, ip_end, last_op_ret, cerror, stateVars, lockVars, pc,
                 quietVars>>

ToggleOpDirection(c) ==
  /\ At(c, "idle") /\ Free(foe_mutex)
  /\ flag_opdirection' = ~flag_opdirection
  /\ UNCHANGED <<chainVars, flag_init, cerror, stateVars, lockVars,
                 work_waiters, pc, localVars, terminated>>

-----------------------------------------------------------------------------
(* coding, with the resetCodestream it calls, down to the start of a       *)
(* detached worker.                                                        *)

CodingRefused(c) ==
  /\ At(c, "idle") /\ Free(state_mutex)
  /\ state # "SHUTDOWN"
  /\ UNCHANGED vars

CodingAllowed(c) ==
  /\ At(c, "idle") /\ Free(state_mutex)
  /\ state = "SHUTDOWN"
  /\ Goto(c, "reset_state")
  /\ UNCHANGED <<chainVars, cerror, stateVars, lockVars, quietVars>>

ResetCodestream(c) ==
  /\ At(c, "reset_foe") /\ Free(foe_mutex)
  /\ MoveBoth("SHUTDOWN")
  /\ cerror' = "NOERROR"
  /\ ip' = last_ip_start
  /\ state_mutex' = NoThread /\ ip_mutex' = NoThread
  /\ Goto(c, "coding_init")
  /\ UNCHANGED <<code_procedures, ip_end, last_ip_start, last_op_ret, foe_mutex,
                 quietVars>>

CodingInitialised(c) ==
  /\ At(c, "coding_init") /\ Free(foe_mutex)
  /\ flag_init
  /\ Goto(c, "coding_start")
  /\ UNCHANGED <<chainVars, cerror, stateVars, lockVars, quietVars>>

CodingStart(c) ==
  /\ At(c, "coding_start") /\ Free(state_mutex)
  /\ MoveBoth("PROGRESSING")
  /\ Goto(c, "coding_spawn")
  /\ UNCHANGED <<chainVars, cerror, lockVars, quietVars>>

CodingSpawn(c) ==
  /\ At(c, "coding_spawn")
  /\ \E w \in Workers :
       /\ pc[w] = "none"
       /\ pc' = [pc EXCEPT ![c] = "idle", ![w] = "check"]
  /\ UNCHANGED <<chainVars, cerror, stateVars, lockVars, quietVars>>

-----------------------------------------------------------------------------
(* stopCode.                                                               *)

StopCode(c) ==
  /\ At(c, "idle") /\ Free(foe_mutex)
  /\ flag_init
  /\ Goto(c, "stop_ip")
  /\ UNCHANGED <<chainVars, cerror, stateVars, lockVars, quietVars>>

StopInTime(c) ==
  /\ At(c, "stop_ip") /\ Free(ip_mutex)
  /\ ~PastEnd
  /\ Goto(c, "stop_test")
  /\ UNCHANGED <<chainVars, cerror, stateVars, lockVars, quietVars>>

StopTooLate(c) ==
  /\ PastEnd
  /\ AcquireIp(c, "stop_ip", "stop_foe")

\* is_processing() takes and releases _state_mutex before the state changes.
StopTest(c) ==
  /\ At(c, "stop_test") /\ Free(state_mutex)
  /\ Goto(c, IF state = "PROGRESSING" THEN "stop_suspend" ELSE "idle")
  /\ UNCHANGED <<chainVars, cerror, stateVars, lockVars, quietVars>>

StopSuspend(c) ==
  /\ At(c, "stop_suspend") /\ Free(state_mutex)
  /\ MoveTo("SUSPEND")
  /\ Goto(c, "idle")
  /\ UNCHANGED <<chainVars, cerror, lockVars, quietVars>>

-----------------------------------------------------------------------------
(* restartCode.                                                            *)

RestartCode(c) ==
  /\ At(c, "idle") /\ Free(foe_mutex)
  /\ flag_init
  /\ Goto(c, "restart_state")
  /\ UNCHANGED <<chainVars, cerror, stateVars, lockVars, quietVars>>

RestartResumes(c) ==
  /\ At(c, "restart_state") /\ Free(state_mutex)
  /\ state = "SUSPEND"
  /\ MoveTo("PROGRESSING")
  /\ NotifyWork
  /\ Goto(c, "idle")
  /\ UNCHANGED <<chainVars, flagVars, cerror, lockVars, localVars, terminated>>

RestartFails(c) ==
  /\ At(c, "restart_state") /\ Free(state_mutex)
  /\ state # "SUSPEND"
  /\ EnterError
  /\ state_mutex' = c
  /\ Goto(c, "restart_foe")
  /\ UNCHANGED <<chainVars, cerror, ip_mutex, foe_mutex, quietVars>>

RestartError(c) ==
  /\ At(c, "restart_foe") /\ Free(foe_mutex)
  /\ cerror' = "RECOVERFAILED"
  /\ state_mutex' = NoThread
  /\ Goto(c, "idle")
  /\ UNCHANGED <<chainVars, stateVars, ip_mutex, foe_mutex, quietVars>>

-----------------------------------------------------------------------------
(* programErrorRecover: takes all three mutexes, then acts on _cerror.  It *)
(* throws to its caller when the state is ERROR and no error is recorded.  *)

RecoverThrows == state = "ERROR" /\ cerror = "NOERROR"

\* The three ways the switch over _cerror moves the state, all clear the error.
RecoverTransition ==
  \/ cerror = "NOINIT" /\ MoveBoth("SHUTDOWN")
  \/ cerror = "UNINSTALLPROCFAILED" /\ MoveTo("SUSPEND")
  \/ /\ cerror \in {"SUSPENDFAILED", "RECOVERFAILED"}
     /\ MoveTo(state_when_error_occur)

ProgramErrorRecover(c) ==
  /\ At(c, "recover_foe") /\ Free(foe_mutex)
  /\ \/ /\ state = "ERROR" /\ cerror # "NOERROR"
        /\ RecoverTransition
        /\ cerror' = "NOERROR"
     \/ /\ state # "ERROR" \/ RecoverThrows
        /\ UNCHANGED <<cerror, stateVars>>
  /\ state_mutex' = NoThread /\ ip_mutex' = NoThread
  /\ Goto(c, "idle")
  /\ UNCHANGED <<chainVars, foe_mutex, quietVars>>

-----------------------------------------------------------------------------
(* waitForStateMove: a wait without a predicate, on a private mutex.       *)

WaitForStateMove(c) ==
  /\ At(c, "idle")
  /\ migrated_waiters' = migrated_waiters \cup {c}
  /\ Goto(c, "wait")
  /\ UNCHANGED <<chainVars, cerror, state, state_when_error_occur, lockVars,
                 quietVars>>

StateMoved(c) ==
  /\ At(c, "wait")
  /\ c \notin migrated_waiters
  /\ Goto(c, "idle")
  /\ UNCHANGED <<chainVars, cerror, stateVars, lockVars, quietVars>>

-----------------------------------------------------------------------------
(* startCode: the loop of a worker.                                        *)

\* The state check at work_condition_check.
WorkerCheck(w) ==
  /\ At(w, "check") /\ Free(state_mutex)
  /\ state # "SHUTDOWN"
  /\ Goto(w, IF state = "PROGRESSING" THEN "fetch_ip" ELSE "park")
  /\ UNCHANGED <<chainVars, cerror, stateVars, lockVars, quietVars>>

\* The thread ends; its id, f and ret are ready for another thread.
WorkerExit(w) ==
  /\ At(w, "check") /\ Free(state_mutex)
  /\ state = "SHUTDOWN"
  /\ f' = [f EXCEPT ![w] = NoProc]
  /\ ret' = [ret EXCEPT ![w] = <<>>]
  /\ Goto(w, "none")
  /\ UNCHANGED <<chainVars, flagVars, cerror, stateVars, lockVars,
                 work_waiters, terminated>>

\* _state_mutex was released before the wait begins.
WorkerPark(w) ==
  /\ At(w, "park")
  /\ work_waiters' = work_waiters \cup {w}
  /\ Goto(w, "parked")
  /\ UNCHANGED <<chainVars, flagVars, cerror, stateVars, lockVars, localVars,
                 terminated>>

WorkerUnparked(w) ==
  /\ At(w, "parked")
  /\ w \notin work_waiters
  /\ Goto(w, "check")
  /\ UNCHANGED <<chainVars, cerror, stateVars, lockVars, quietVars>>

\* Whether the worker goes on.  Right to left the test is _ip >= _ip_start on
\* unsigned operands with _ip_start = 0: it always holds.
MoreToDo == flag_opdirection \/ ~PastEnd

\* An empty slot is skipped: the worker goes straight back to the check.
FetchProcedure(w) ==
  LET proc == code_procedures[ip + 1]
  IN  /\ At(w, "fetch_foe") /\ Free(foe_mutex)
      /\ MoreToDo /\ InChain
      /\ f' = [f EXCEPT ![w] = proc]
      /\ ip' = IF flag_opdirection THEN ip - 1 ELSE ip + 1
      /\ ip_mutex' = NoThread
      /\ Goto(w, IF proc = NoProc THEN "check" ELSE "exec")
      /\ UNCHANGED <<code_procedures, ip_end, last_ip_start, last_op_ret, flagVars,
                     cerror, stateVars, state_mutex, foe_mutex, work_waiters,
                     ret, terminated>>

\* vector::at throws for an index outside the chain and nothing catches it.
FetchThrows(w) ==
  /\ At(w, "fetch_foe") /\ Free(foe_mutex)
  /\ MoreToDo /\ ~InChain
  /\ terminated' = TRUE
  /\ UNCHANGED <<chainVars, flagVars, cerror, stateVars, lockVars,
                 work_waiters, pc, localVars>>

FetchEnd(w) ==
  /\ At(w, "fetch_foe") /\ Free(foe_mutex)
  /\ ~MoreToDo
  /\ foe_mutex' = w
  /\ Goto(w, "shutdown")
  /\ UNCHANGED <<chainVars, cerror, stateVars, state_mutex, ip_mutex,
                 quietVars>>

Shutdown(w) ==
  /\ At(w, "shutdown") /\ Free(state_mutex)
  /\ MoveTo("SHUTDOWN")
  /\ ip_mutex' = NoThread /\ foe_mutex' = NoThread
  /\ Goto(w, "check")
  /\ UNCHANGED <<chainVars, cerror, state_mutex, quietVars>>

\* The procedure runs without any mutex, so two workers may overlap here.
Execute(w) ==
  /\ At(w, "exec")
  /\ ret' = [ret EXCEPT ![w] = Append(@, f[w])]
  /\ Goto(w, "save")
  /\ UNCHANGED <<chainVars, flagVars, cerror, stateVars, lockVars,
                 work_waiters, f, terminated>>

SaveResult(w) ==
  /\ At(w, "save") /\ Free(ip_mutex)
  /\ last_op_ret' = ret[w]
  /\ f' = [f EXCEPT ![w] = NoProc]
  /\ Goto(w, "check")
  /\ UNCHANGED <<code_procedures, ip, ip_end, last_ip_start, flagVars, cerror,
                 stateVars, lockVars, work_waiters, ret, terminated>>

-----------------------------------------------------------------------------
(* Condition variables may return without a notification.                  *)

SpuriousWake(t) ==
  /\ SpuriousWakeups /\ ~terminated
  /\ t \in work_waiters \cup migrated_waiters
  /\ work_waiters' = work_waiters \ {t}
  /\ migrated_waiters' = migrated_waiters \ {t}
  /\ UNCHANGED <<chainVars, flagVars, cerror, state, state_when_error_occur,
                 lockVars, pc, localVars, terminated>>

-----------------------------------------------------------------------------
(* What a client inside a call does next, and what a worker does.          *)

ClientControl(c) ==
  \/ InstallFlag(c)
  \/ RecordError(c, "uninstall_foe", "UNINSTALLPROCFAILED", "uninstall_state")
  \/ ReportError(c, "uninstall_state")
  \/ AcquireState(c, "reset_state", "reset_ip")
  \/ AcquireIp(c, "reset_ip", "reset_foe")
  \/ ResetCodestream(c)
  \/ CodingInitialised(c) \/ NotInitialised(c, "coding_init")
  \/ CodingStart(c) \/ CodingSpawn(c)
  \/ NoInitState(c)
  \/ StopInTime(c) \/ StopTooLate(c)
  \/ RecordError(c, "stop_foe", "SUSPENDFAILED", "stop_state")
  \/ ReportError(c, "stop_state")
  \/ StopTest(c) \/ StopSuspend(c)
  \/ RestartResumes(c) \/ RestartFails(c) \/ RestartError(c)
  \/ AcquireIp(c, "recover_ip", "recover_foe")
  \/ StateMoved(c)

ClientStep(c) == ClientControl(c) \/ ProgramErrorRecover(c)

WorkerControl(w) ==
  \/ WorkerCheck(w) \/ WorkerExit(w) \/ WorkerPark(w) \/ WorkerUnparked(w)
  \/ AcquireIp(w, "fetch_ip", "fetch_foe")
  \/ FetchProcedure(w) \/ FetchThrows(w) \/ FetchEnd(w)
  \/ Shutdown(w) \/ SaveResult(w)

WorkerStep(w) == WorkerControl(w) \/ Execute(w)

EngineStep ==
  \/ \E c \in Clients : ClientStep(c)
  \/ \E w \in Workers : WorkerStep(w)
  \/ \E t \in Threads : SpuriousWake(t)

=============================================================================
