------------------------------ MODULE AbstractTest ------------------------------
(***************************************************************************)
(* The test program of the engine, src/src/codestream_abstract_test.cc: it *)
(* starts a run, stops it at once, restarts it or recovers from a stop     *)
(* that failed, waits for the end of the run, and prints what has become   *)
(* of its int.  The engine and the int are destroyed when main() returns.  *)
(***************************************************************************)
EXTENDS CodestreamClients

CONSTANT Test        \* the thread of main()

\* What the functions of codestream_abstract_test.h are installed as.
TestChain == <<NoProc, "func1", "func2", "func3">>

ASSUME TestAssumption ==
  /\ Clients = {Test}
  /\ Ops = {"coding", "stop", "restart", "recover", "wait"}
  /\ InitialChains = {TestChain}
  /\ {"func1", "func2", "func3"} \subseteq Procs

VARIABLES
  tpc,      \* where main() is
  value,    \* the int: the functions that were applied to it
  a,        \* whether getLastResult returned a pointer, which is &value
  r,        \* the functions applied to the int that was printed last
  cdsret,   \* the state processStateExplain told
  status,   \* what main() returns; Running until then
  lost      \* history: the races that were lost, see below

testVars == <<tpc, value, a, r, cdsret, status, lost>>

allVars == <<vars, testVars>>

Running == -1

\* Each of these steps comes too late for the one it relies on:
\*   late_stop        SUSPEND is set over a state that is no longer PROGRESSING
\*   late_restart     the run has ended after it was suspended
\*   late_park        the worker starts to wait for a restart that has happened
\*   late_wait        main() starts to wait for an end that has happened
\*   silent_recovery  a worker waits when the error is recovered
Losses == {"late_stop", "late_restart", "late_park", "late_wait", "silent_recovery"}

Lose(loss, happens) == lost' = IF happens THEN lost \cup {loss} ELSE lost

TestInit ==
  /\ ClientsInit
  /\ tpc = "coding"
  /\ value = <<>> /\ a = FALSE /\ r = <<>> /\ cdsret = "fff"
  /\ status = Running
  /\ lost = {}

-----------------------------------------------------------------------------
(* main()                                                                  *)

AtTest(label) == tpc = label /\ ~terminated /\ pc[Test] = "idle"

Calls(from, op, to) ==
  /\ AtTest(from)
  /\ Call(Test, op)
  /\ tpc' = to
  /\ UNCHANGED <<value, a, r, cdsret, status>>

\* A question that is answered under _state_mutex: is_suspend, is_processing and
\* is_shutdown.
Asks(from, s, yes, no) ==
  /\ AtTest(from) /\ Free(state_mutex)
  /\ tpc' = IF state = s THEN yes ELSE no
  /\ UNCHANGED <<vars, value, a, r, cdsret, lost>>

\* Faulty: whatever ends the wait counts as the end of the run.
IsShutdown_AnyMove == Asks("woken", "SHUTDOWN", "explain", "explain") /\ UNCHANGED status

TestCoding == Calls("coding", "coding", "stop") /\ UNCHANGED lost

TestStop == Calls("stop", "stop", "is_suspend") /\ UNCHANGED lost

IsSuspend == Asks("is_suspend", "SUSPEND", "get", "recover") /\ UNCHANGED status

\* _last_op_ret is read under _state_mutex, and what it points to under none.
GetLastResult(from, to) ==
  /\ AtTest(from) /\ Free(state_mutex)
  /\ a' = (last_op_ret # <<>>)
  /\ tpc' = to
  /\ UNCHANGED <<vars, value, r, cdsret, status, lost>>

PrintValue ==
  /\ AtTest("print") \/ AtTest("print_last")
  /\ r' = IF a THEN value ELSE r
  /\ \/ tpc = "print" /\ tpc' = "restart" /\ UNCHANGED status
     \/ tpc = "print_last" /\ tpc' = "return" /\ status' = 0
  /\ UNCHANGED <<vars, value, a, cdsret, lost>>

TestRestart == Calls("restart", "restart", "wait") /\ UNCHANGED lost

TestRecover == Calls("recover", "recover", "recovering") /\ UNCHANGED lost

\* The exception of programErrorRecover is printed, and main() returns 1.
Recovered ==
  /\ tpc = "recovering"
  /\ ProgramErrorRecover(Test)
  /\ IF RecoverThrows
     THEN tpc' = "return" /\ status' = 1
     ELSE tpc' = "is_processing" /\ UNCHANGED status
  /\ Lose("silent_recovery",
          state' = "PROGRESSING" /\ \E w \in Workers : pc[w] \in {"park", "parked"})
  /\ UNCHANGED <<value, a, r, cdsret>>

IsProcessing ==
  /\ Asks("is_processing", "PROGRESSING", "wait", "return")
  /\ status' = IF state = "PROGRESSING" THEN Running ELSE 2

TestWaits ==
  /\ Calls("wait", "wait", "woken")
  /\ Lose("late_wait", state = "SHUTDOWN")

IsShutdown == Asks("woken", "SHUTDOWN", "explain", "wait") /\ UNCHANGED status

processStateExplain ==
  /\ AtTest("explain") /\ Free(state_mutex)
  /\ cdsret' = state
  /\ tpc' = "get_last"
  /\ UNCHANGED <<vars, value, a, r, status, lost>>

\* ~Codestream, which clears the chain and leaves its recorded end.  The object and the
\* int are gone, but a detached worker goes on over them until the process ends: what is
\* left in their place still holds the last values.
Destroy ==
  /\ AtTest("return") /\ Free(ip_mutex)
  /\ code_procedures' = <<>>
  /\ tpc' = "destroyed"
  /\ UNCHANGED <<ip, ip_end, last_ip_start, last_op_ret, cerror, stateVars, lockVars, pc,
                 quietVars, value, a, r, cdsret, status, lost>>

\* The return from main() ends the process, and the detached threads with it.
ProcessEnds ==
  /\ AtTest("destroyed")
  /\ tpc' = "ended"
  /\ UNCHANGED <<vars, value, a, r, cdsret, status, lost>>

\* The rest of a call.
InCall ==
  /\ ClientControl(Test)
  /\ \/ pc[Test] = "stop_suspend" /\ Lose("late_stop", state # "PROGRESSING")
     \/ pc[Test] = "restart_state" /\ Lose("late_restart", state # "SUSPEND")
     \/ pc[Test] \notin {"stop_suspend", "restart_state"} /\ UNCHANGED lost
  /\ UNCHANGED <<tpc, value, a, r, cdsret, status>>

TestStep ==
  \/ TestCoding \/ TestStop \/ IsSuspend \/ TestRestart \/ TestRecover
  \/ GetLastResult("get", "print") \/ GetLastResult("get_last", "print_last")
  \/ PrintValue \/ Recovered \/ IsProcessing \/ TestWaits \/ IsShutdown
  \/ processStateExplain \/ Destroy \/ ProcessEnds \/ InCall

-----------------------------------------------------------------------------
(* The worker, until the process ends.                                     *)

RunFunction(w) ==
  /\ Execute(w)
  /\ value' = Append(value, f[w])
  /\ UNCHANGED <<tpc, a, r, cdsret, status, lost>>

RunWorker(w) ==
  /\ WorkerControl(w)
  /\ Lose("late_park", pc[w] = "park" /\ state = "PROGRESSING")
  /\ UNCHANGED <<tpc, value, a, r, cdsret, status>>

TestWorker(w) == tpc # "ended" /\ (RunFunction(w) \/ RunWorker(w))

Wakes ==
  /\ tpc # "ended"
  /\ \E t \in Threads : SpuriousWake(t)
  /\ UNCHANGED testVars

TestNext == TestStep \/ Wakes \/ \E w \in Workers : TestWorker(w)

TestFairness ==
  /\ WF_allVars(TestStep)
  /\ \A w \in Workers : WF_allVars(TestWorker(w))

TestSpec == TestInit /\ [][TestNext]_allVars /\ TestFairness

-----------------------------------------------------------------------------
(* Properties.                                                             *)

\* The last value is printed, and the engine and the int are destroyed, when no
\* worker is at work any more: it cannot apply a function, write _last_op_ret,
\* which getLastResult reads under another mutex, or look at the chain.  It may
\* still be on its way out, or wait for ever.
NoWorkAfterEnd ==
  tpc \in {"explain", "get_last", "print_last", "return", "destroyed", "ended"}
    => \A w \in Workers : pc[w] \in {"none", "check", "park", "parked"}

\* When main() returns 0, what it printed is the int with every function applied
\* once and in order, whatever the stop, the restart and the recovery have met.
PrintsWholeChain ==
  status = 0 => r = <<"func1", "func2", "func3">> /\ cdsret = "SHUTDOWN"

\* main() waits for a notification that nobody is left to give: the workers have
\* ended, or wait for one themselves.
Stuck ==
  /\ Test \in migrated_waiters
  /\ \A w \in Workers : pc[w] = "none" \/ w \in work_waiters

\* Both condition variables are waited on without a predicate and after the mutex is
\* released.  main() sleeps for ever only if it has lost one of the five races, and
\* no other order of its calls, the worker's sections and the wake-ups gets there.
HangsOnlyByRace == Stuck => lost # {}

\* main() returns, unless it loses one of the five races or is caught in a
\* deadlock: there is no other way for the program to hang.
TestEnds ==
  [](lost = {} /\ NoLockCycle) => <>(tpc = "ended")

\* A worker that waits is woken once the run is in progress again.
SleeperWoken ==
  \A w \in Workers :
    w \in work_waiters /\ state = "PROGRESSING" ~> w \notin work_waiters

=============================================================================
