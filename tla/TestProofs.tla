------------------------------ MODULE TestProofs -------------------------------
(***************************************************************************)
(* The test program of the engine, for any number of worker ids and every  *)
(* interleaving: what it prints, what is still at work when it destroys    *)
(* the engine, and what it takes for it to hang.                           *)
(***************************************************************************)
EXTENDS AbstractTest, CodestreamRunProofs

-----------------------------------------------------------------------------
(* The program is a client of the engine until it destroys it.             *)

LEMMA TestStepEngine ==
  ASSUME [TestNext]_allVars
  PROVE  [ClientsNext]_vars \/ Destroy
<1>1. Test \in Clients /\ {"coding", "stop", "restart", "recover", "wait"} \subseteq Ops
  BY TestAssumption
<1>2. CASE \/ IsSuspend \/ GetLastResult("get", "print")
           \/ GetLastResult("get_last", "print_last") \/ PrintValue \/ IsProcessing
           \/ IsShutdown \/ processStateExplain \/ ProcessEnds
  BY <1>2 DEF IsSuspend, GetLastResult, PrintValue, IsProcessing, IsShutdown,
              processStateExplain, ProcessEnds, Asks
<1>3. CASE TestCoding \/ TestStop \/ TestRestart \/ TestRecover \/ TestWaits
  BY <1>1, <1>3 DEF TestCoding, TestStop, TestRestart, TestRecover, TestWaits, Calls,
                    ClientsNext
<1>4. CASE Recovered \/ InCall
  BY <1>1, <1>4 DEF Recovered, InCall, ClientsNext, EngineStep, ClientStep
<1>5. CASE Wakes \/ \E w \in Workers : TestWorker(w)
  BY <1>5 DEF Wakes, TestWorker, RunFunction, RunWorker, ClientsNext, EngineStep,
              WorkerStep
<1>6. CASE UNCHANGED allVars
  BY <1>6 DEF allVars
<1> QED
  BY <1>2, <1>3, <1>4, <1>5, <1>6 DEF TestNext, TestStep

LEMMA TestTypes ==
  TypeOK /\ LockDiscipline /\ [TestNext]_allVars => TypeOK' /\ LockDiscipline'
<1> SUFFICES ASSUME TypeOK, LockDiscipline, [TestNext]_allVars
             PROVE  TypeOK' /\ LockDiscipline'
  OBVIOUS
<1>1. CASE [ClientsNext]_vars
  BY <1>1, TypeNext, LockNext
<1>2. CASE Destroy
  <2>1. /\ code_procedures' = <<>>
        /\ UNCHANGED <<ip, ip_end, last_ip_start, last_op_ret, cerror, stateVars,
                       lockVars, pc, quietVars>>
    BY <1>2 DEF Destroy
  <2>2. <<>> \in Chains
    BY DEF Chains
  <2>3. TypeOK'
    BY <2>1, <2>2
    DEF TypeOK, ChainTypeOK, FlagTypeOK, StateTypeOK, LockTypeOK, PcTypeOK,
        LocalTypeOK, stateVars, lockVars, quietVars, flagVars, localVars
  <2>4. LockDiscipline'
    BY <2>1 DEF LockDiscipline, lockVars
  <2> QED
    BY <2>3, <2>4
<1> QED
  BY <1>1, <1>2, TestStepEngine

-----------------------------------------------------------------------------
(* Where main() is, and where the call it makes.                           *)

CallLabels(label) ==
  CASE label = "stop"       -> {"idle", "reset_state", "reset_ip", "reset_foe",
                                "coding_init", "coding_start", "coding_spawn"}
    [] label = "is_suspend" -> {"idle", "stop_ip", "stop_foe", "stop_state",
                                "stop_test", "stop_suspend"}
    [] label = "wait"       -> {"idle", "restart_state", "restart_foe"}
    [] label = "recovering" -> {"recover_ip", "recover_foe"}
    [] label = "woken"      -> {"idle", "wait"}
    [] OTHER                -> {"idle"}

TestLabels ==
  {"coding", "stop", "is_suspend", "get", "print", "restart", "wait", "woken",
   "recover", "recovering", "is_processing", "explain", "get_last", "print_last",
   "return", "destroyed", "ended"}

\* The engine is initialised, runs left to right from slot 0 and keeps its chain
\* until it is destroyed; the index stays in the chain.  Its end is kept longer.
Gone == tpc \in {"destroyed", "ended"}

Control ==
  /\ tpc \in TestLabels /\ pc[Test] \in CallLabels(tpc)
  /\ ip_end = 4 /\ (~Gone => code_procedures = TestChain)
  /\ flag_init /\ ~flag_opdirection /\ last_ip_start = 0 /\ ~terminated
  /\ ip \in 0..4
  /\ migrated_waiters # {} => pc[Test] = "wait"

\* Over a destroyed engine no worker is at work.
Vacated ==
  Gone => \A w \in Workers : pc[w] \in {"none", "check", "park", "parked"}

\* The run is not begun.
Before == tpc = "coding" \/ (tpc = "stop" /\ pc[Test] # "idle")

\* A step of main() inside a call.
CallStep ==
  \/ /\ tpc = "stop"
     /\ \/ AcquireState(Test, "reset_state", "reset_ip")
        \/ AcquireIp(Test, "reset_ip", "reset_foe")
        \/ ResetCodestream(Test) \/ CodingInitialised(Test) \/ CodingStart(Test)
        \/ CodingSpawn(Test)
  \/ /\ tpc = "is_suspend"
     /\ \/ StopInTime(Test) \/ StopTooLate(Test) \/ StopTest(Test) \/ StopSuspend(Test)
        \/ RecordError(Test, "stop_foe", "SUSPENDFAILED", "stop_state")
        \/ ReportError(Test, "stop_state")
  \/ /\ tpc = "wait"
     /\ RestartResumes(Test) \/ RestartFails(Test) \/ RestartError(Test)
  \/ tpc = "recovering" /\ AcquireIp(Test, "recover_ip", "recover_foe")
  \/ tpc = "woken" /\ StateMoved(Test)

LEMMA InCallSteps ==
  ASSUME Control, InCall
  PROVE  CallStep
<1>1. ClientControl(Test) /\ pc[Test] \in CallLabels(tpc) /\ flag_init
  BY DEF Control, InCall
<1>2. ~InstallFlag(Test) /\ ~NotInitialised(Test, "coding_init") /\ ~NoInitState(Test)
  BY <1>1 DEF CallLabels, InstallFlag, NotInitialised, NoInitState, At
<1>3. /\ ~RecordError(Test, "uninstall_foe", "UNINSTALLPROCFAILED", "uninstall_state")
      /\ ~ReportError(Test, "uninstall_state")
  BY <1>1 DEF CallLabels, RecordError, ReportError, At
<1>4. CASE \/ AcquireState(Test, "reset_state", "reset_ip")
           \/ AcquireIp(Test, "reset_ip", "reset_foe")
           \/ AcquireIp(Test, "recover_ip", "recover_foe")
  BY <1>1, <1>4 DEF CallLabels, AcquireState, AcquireIp, At, CallStep
<1>5. CASE ResetCodestream(Test) \/ CodingInitialised(Test) \/ CodingStart(Test)
  BY <1>1, <1>5 DEF CallLabels, ResetCodestream, CodingInitialised, CodingStart, At,
                    CallStep
<1>6. CASE CodingSpawn(Test)
  BY <1>1, <1>6 DEF CallLabels, CodingSpawn, At, CallStep
<1>7. CASE StopInTime(Test) \/ StopTooLate(Test) \/ StopTest(Test) \/ StopSuspend(Test)
  BY <1>1, <1>7 DEF CallLabels, StopInTime, StopTooLate, StopTest, StopSuspend,
                    AcquireIp, At, CallStep
<1>8. CASE \/ RecordError(Test, "stop_foe", "SUSPENDFAILED", "stop_state")
           \/ ReportError(Test, "stop_state")
  BY <1>1, <1>8 DEF CallLabels, RecordError, ReportError, At, CallStep
<1>9. CASE RestartResumes(Test) \/ RestartFails(Test) \/ RestartError(Test)
           \/ StateMoved(Test)
  BY <1>1, <1>9 DEF CallLabels, RestartResumes, RestartFails, RestartError, StateMoved,
                    At, CallStep
<1> QED
  BY <1>1, <1>2, <1>3, <1>4, <1>5, <1>6, <1>7, <1>8, <1>9 DEF ClientControl

LEMMA ControlInit == TestInit => Control
<1> SUFFICES ASSUME TestInit
             PROVE  Control
  OBVIOUS
<1>1. InitWith(TestChain) /\ tpc = "coding"
  BY TestAssumption DEF TestInit, ClientsInit
<1>2. pc[Test] = "idle"
  BY <1>1, TestAssumption DEF InitWith, Threads
<1>3. TestChain # <<>>
  <2>1. Len(TestChain) = 4
    BY DEF TestChain
  <2> QED
    BY <2>1
<1>4. flag_init /\ ~flag_opdirection /\ ~terminated
  BY <1>1, <1>3, Zenon DEF InitWith
<1>5. Len(TestChain) = 4
  BY DEF TestChain
<1> QED
  BY <1>1, <1>2, <1>4, <1>5 DEF InitWith, Control, TestLabels, CallLabels

\* A step of main() outside the engine.
LEMMA ControlAsks ==
  ASSUME TypeOK, Control,
         \/ IsSuspend \/ GetLastResult("get", "print")
         \/ GetLastResult("get_last", "print_last") \/ PrintValue \/ IsProcessing
         \/ IsShutdown \/ processStateExplain \/ Destroy \/ ProcessEnds
  PROVE  Control'
<1>1. UNCHANGED <<ip, ip_end, last_ip_start, stateVars, pc, quietVars>> /\ pc[Test] = "idle"
  BY DEF IsSuspend, GetLastResult, PrintValue, IsProcessing, IsShutdown,
         processStateExplain, Destroy, ProcessEnds, Asks, AtTest, vars, chainVars
<1>2. ~Gone' => ~Gone /\ UNCHANGED code_procedures
  BY DEF IsSuspend, GetLastResult, PrintValue, IsProcessing, IsShutdown, Gone,
         processStateExplain, Destroy, ProcessEnds, Asks, AtTest, vars, chainVars
<1>3. tpc' \in TestLabels /\ "idle" \in CallLabels(tpc')
  BY DEF IsSuspend, GetLastResult, PrintValue, IsProcessing, IsShutdown,
         processStateExplain, Destroy, ProcessEnds, Asks, AtTest, TestLabels, CallLabels
<1> QED
  BY <1>1, <1>2, <1>3 DEF Control, stateVars, quietVars, flagVars

\* A step of a call.
LEMMA ControlKept ==
  ASSUME Control, ~Gone, tpc' \in TestLabels, pc'[Test] \in CallLabels(tpc'),
         UNCHANGED <<code_procedures, ip_end, last_ip_start, flagVars, terminated>>,
         ip' \in {ip, last_ip_start}, migrated_waiters' = {} \/ pc'[Test] = "wait"
  PROVE  Control'
BY DEF Control, flagVars

\* The first step of a call.
LEMMA ControlCalls ==
  ASSUME TypeOK, Control,
         TestCoding \/ TestStop \/ TestRestart \/ TestRecover \/ TestWaits
  PROVE  Control'
<1>1. Test \in Threads /\ pc \in [Threads -> ClientLabels \cup WorkerLabels]
  BY TestAssumption DEF TypeOK, PcTypeOK, Threads
<1>2. ~Gone /\ pc[Test] = "idle" /\ migrated_waiters = {} /\ flag_init
  BY DEF Gone, TestCoding, TestStop, TestRestart, TestRecover, TestWaits, Calls, AtTest, Control
<1> USE <1>1, <1>2, ControlKept
    DEF Calls, Call, At, Goto, TestLabels, CallLabels, chainVars, stateVars, quietVars
<1>3. CASE TestCoding
  <2>1. tpc' = "stop" /\ (CodingRefused(Test) \/ CodingAllowed(Test))
    BY <1>3 DEF TestCoding
  <2> QED
    BY <2>1 DEF CodingRefused, CodingAllowed, vars
<1>4. CASE TestStop
  BY <1>4 DEF TestStop, StopCode, NotInitialised
<1>5. CASE TestRestart
  BY <1>5 DEF TestRestart, RestartCode, NotInitialised
<1>6. CASE TestRecover
  BY <1>6 DEF TestRecover, AcquireState
<1>7. CASE TestWaits
  BY <1>7 DEF TestWaits, WaitForStateMove
<1> QED
  BY <1>3, <1>4, <1>5, <1>6, <1>7

\* Nobody else waits for the state to move.
LEMMA MainIsNotified ==
  ASSUME TypeOK, Control, NotifyStateMigrated
  PROVE  migrated_waiters' = {}
BY TestAssumption DEF TypeOK, StateTypeOK, NotifyStateMigrated

\* After a step of a call main() waits for nothing.
LEMMA CallNotifies ==
  ASSUME TypeOK, Control, CallStep
  PROVE  migrated_waiters' = {}
<1>1. NotifyStateMigrated \/ UNCHANGED migrated_waiters
  BY DEF CallStep, AcquireState, AcquireIp, ResetCodestream, CodingInitialised,
     CodingStart, CodingSpawn, StopInTime, StopTooLate, StopTest, StopSuspend,
     RecordError, ReportError, RestartResumes, RestartFails, RestartError, StateMoved,
     EnterError, MoveTo, MoveBoth, stateVars
<1>2. pc[Test] # "wait" \/ StateMoved(Test)
  BY DEF CallStep, AcquireState, AcquireIp, ResetCodestream, CodingInitialised,
     CodingStart, CodingSpawn, StopInTime, StopTooLate, StopTest, StopSuspend,
     RecordError, ReportError, RestartResumes, RestartFails, RestartError, At
<1>3. StateMoved(Test) => migrated_waiters = {}
  BY TestAssumption DEF StateMoved, TypeOK, StateTypeOK
<1>4. pc[Test] # "wait" => migrated_waiters = {}
  BY DEF Control
<1> QED
  BY <1>1, <1>2, <1>3, <1>4, MainIsNotified

\* The rest of it.
LEMMA ControlCallStep ==
  ASSUME TypeOK, Control, CallStep, UNCHANGED tpc
  PROVE  Control'
<1>1. /\ Test \in Threads /\ pc \in [Threads -> ClientLabels \cup WorkerLabels]
      /\ Test \notin Workers
  BY TestAssumption, CodestreamAssumption DEF TypeOK, PcTypeOK, Threads
<1>2. /\ ~Gone /\ tpc' \in TestLabels
      /\ pc[Test] # "wait" => migrated_waiters = {}
  BY DEF CallStep, TestLabels, Control, Gone
<1>3. migrated_waiters' = {}
  BY CallNotifies
<1>4. /\ UNCHANGED <<code_procedures, ip_end, last_ip_start, flagVars, terminated>>
      /\ ip' \in {ip, last_ip_start}
  BY DEF CallStep, AcquireState, AcquireIp, ResetCodestream, CodingInitialised,
     CodingStart, CodingSpawn, StopInTime, StopTooLate, StopTest, StopSuspend,
     RecordError, ReportError, RestartResumes, RestartFails, RestartError, StateMoved,
     chainVars, quietVars
<1>5. pc'[Test] \in CallLabels(tpc)
  <2> USE <1>1 DEF CallStep, Goto, CallLabels
  <2>1. CASE tpc = "stop"
    BY <2>1 DEF AcquireState, AcquireIp, ResetCodestream, CodingInitialised,
                CodingStart, CodingSpawn
  <2>2. CASE tpc = "is_suspend"
    BY <2>2 DEF StopInTime, StopTooLate, StopTest, StopSuspend, RecordError,
                ReportError, AcquireIp
  <2>3. CASE tpc = "wait"
    BY <2>3 DEF RestartResumes, RestartFails, RestartError
  <2>4. CASE tpc = "recovering" \/ tpc = "woken"
    BY <2>4 DEF AcquireIp, StateMoved
  <2> QED
    BY <2>1, <2>2, <2>3, <2>4
<1> QED
  BY <1>2, <1>3, <1>4, <1>5, ControlKept

LEMMA ControlRecovered ==
  ASSUME TypeOK, Control, Recovered
  PROVE  Control'
<1>1. Test \in Threads /\ pc \in [Threads -> ClientLabels \cup WorkerLabels]
  BY TestAssumption DEF TypeOK, PcTypeOK, Threads
<1>2. migrated_waiters = {} /\ migrated_waiters' = {}
  BY TestAssumption
  DEF Recovered, ProgramErrorRecover, RecoverTransition, MoveTo, MoveBoth,
      NotifyStateMigrated, Control, At, stateVars
<1>3. /\ UNCHANGED <<chainVars, quietVars>> /\ pc'[Test] = "idle"
      /\ tpc = "recovering" /\ tpc' \in {"return", "is_processing"}
  BY <1>1 DEF Recovered, ProgramErrorRecover, Goto
<1> QED
  BY <1>2, <1>3 DEF Control, Gone, TestLabels, CallLabels, chainVars, quietVars, flagVars

\* The worker leaves the chain's end alone: ip < 4 where it fetches.
LEMMA ControlWorker ==
  ASSUME TypeOK, Control, Vacated, NEW w \in Workers, WorkerStep(w), UNCHANGED tpc
  PROVE  Control'
<1>1. /\ w \in Threads /\ pc \in [Threads -> ClientLabels \cup WorkerLabels]
      /\ Test \in Threads /\ w # Test
  BY TestAssumption, CodestreamAssumption DEF TypeOK, PcTypeOK, Threads
<1>2. ~Gone => Len(code_procedures) = 4
  BY DEF Control, TestChain
<1>3. ~FetchThrows(w)
  <2>1. CASE Gone
    BY <2>1 DEF FetchThrows, Vacated, At
  <2>2. CASE ~Gone
    <3>1. Len(code_procedures) = 4 /\ ip_end = 4 /\ ip \in 0..4 /\ ~flag_opdirection
      BY <1>2, <2>2 DEF Control
    <3>2. MoreToDo => InChain
      BY <3>1 DEF MoreToDo, InChain, PastEnd
    <3> QED
      BY <3>2 DEF FetchThrows
  <2> QED
    BY <2>1, <2>2
<1>4. /\ UNCHANGED <<code_procedures, ip_end, last_ip_start, flagVars, terminated>>
      /\ \E l \in WorkerLabels : Goto(w, l)
  BY <1>3 DEF WorkerStep, WorkerControl, WorkerCheck, WorkerExit, WorkerPark,
         WorkerUnparked, AcquireIp, FetchProcedure, FetchEnd, Shutdown, SaveResult,
         Execute, chainVars, quietVars, WorkerLabels
<1>5. migrated_waiters' \subseteq migrated_waiters
  BY <1>3 DEF WorkerStep, WorkerControl, WorkerCheck, WorkerExit, WorkerPark,
         WorkerUnparked, AcquireIp, FetchProcedure, FetchEnd, Shutdown, SaveResult,
         Execute, MoveTo, NotifyStateMigrated, stateVars
<1>6. ip' \in 0..4
  <2>1. CASE FetchProcedure(w)
    <3>1. ~Gone
      BY <2>1 DEF FetchProcedure, Vacated, At
    <3>2. Len(code_procedures) = 4 /\ ip \in 0..4 /\ ~flag_opdirection
      BY <1>2, <3>1 DEF Control
    <3>3. ip < 4 /\ ip' = ip + 1
      BY <2>1, <3>2 DEF FetchProcedure, InChain
    <3> QED
      BY <3>2, <3>3
  <2>2. CASE ~FetchProcedure(w)
    BY <2>2, <1>3
    DEF WorkerStep, WorkerControl, WorkerCheck, WorkerExit, WorkerPark,
        WorkerUnparked, AcquireIp, FetchEnd, Shutdown, SaveResult, Execute, chainVars,
        Control
  <2> QED
    BY <2>1, <2>2
<1>7. pc'[Test] = pc[Test]
  BY <1>1, <1>4 DEF Goto
<1> QED
  BY <1>4, <1>5, <1>6, <1>7 DEF Control, Gone, flagVars

LEMMA ControlWakes ==
  ASSUME Control, NEW t \in Threads, SpuriousWake(t), UNCHANGED tpc
  PROVE  Control'
BY DEF SpuriousWake, Control, Gone, chainVars, flagVars

LEMMA ControlNext == TypeOK /\ Control /\ Vacated /\ [TestNext]_allVars => Control'
<1> SUFFICES ASSUME TypeOK, Control, Vacated, [TestNext]_allVars
             PROVE  Control'
  OBVIOUS
<1>1. CASE InCall
  BY <1>1, InCallSteps, ControlCallStep DEF InCall
<1>2. CASE \E w \in Workers : TestWorker(w)
  BY <1>2, ControlWorker DEF TestWorker, RunFunction, RunWorker, WorkerStep
<1>3. CASE Wakes
  BY <1>3, ControlWakes DEF Wakes, testVars
<1>4. CASE UNCHANGED allVars
  BY <1>4 DEF allVars, testVars, vars, chainVars, stateVars, quietVars, flagVars, Control,
             Gone
<1> QED
  BY <1>1, <1>2, <1>3, <1>4, ControlAsks, ControlCalls, ControlRecovered
  DEF TestNext, TestStep

-----------------------------------------------------------------------------
(* The data and the state.                                                 *)

\* What has become of the int behind the first k slots.
Prefix(k) ==
  CASE k = 2 -> <<"func1">>
    [] k = 3 -> <<"func1", "func2">>
    [] k = 4 -> <<"func1", "func2", "func3">>
    [] OTHER -> <<>>

\* The worker's data, the int and the last result, which trails behind in save.
Holds(w, k, saved) == ret[w] = Prefix(k) /\ value = Prefix(k) /\ last_op_ret = Prefix(saved)

Data(w) ==
  \/ pc[w] = "none" /\ ret[w] = <<>>
  \/ pc[w] \in {"check", "park", "parked", "fetch_ip", "fetch_foe"} /\ Holds(w, ip, ip)
  \/ pc[w] = "exec" /\ ip >= 2 /\ f[w] = TestChain[ip] /\ Holds(w, ip - 1, ip - 1)
  \/ pc[w] = "save" /\ ip >= 2 /\ Holds(w, ip, ip - 1)
  \/ pc[w] = "shutdown" /\ ip = 4 /\ Holds(w, 4, 4)

NoWorker == \A w \in Workers : pc[w] = "none"

BeginInv ==
  Before =>
    /\ NoWorker /\ value = <<>> /\ last_op_ret = <<>>
    /\ state = IF pc[Test] = "coding_spawn" THEN "PROGRESSING" ELSE "SHUTDOWN"
    /\ pc[Test] \in {"coding_init", "coding_start", "coding_spawn"} => ip = 0

DataInv == AtMostOneWorker /\ \A w \in Workers : Data(w)

Finished ==
  /\ ip = 4 /\ value = Prefix(4) /\ last_op_ret = Prefix(4)
  /\ \A w \in Workers : pc[w] \in {"none", "check", "park", "parked"}

\* The run has ended, or an error hides that it has.
Ended ==
  \/ state = "SHUTDOWN"
  \/ state = "ERROR" /\ state_when_error_occur = "SHUTDOWN"

EndInv == ~Before /\ (NoWorker \/ Ended) => Finished

Going == state \in {"PROGRESSING", "SHUTDOWN"}

Halted == state \in {"SUSPEND", "SHUTDOWN"}

StopFailed ==
  /\ state = "ERROR" /\ cerror = "SUSPENDFAILED"
  /\ state_when_error_occur \in {"PROGRESSING", "SHUTDOWN"}

RestartFailed ==
  /\ state = "ERROR" /\ state_when_error_occur = "SHUTDOWN"
  /\ "late_restart" \in lost

Ending == {"explain", "get_last", "print_last", "return", "destroyed", "ended"}

\* The states main() can meet at each of its questions.
StateInv ==
  /\ \/ tpc = "stop" /\ ~Before
     \/ tpc = "is_suspend" /\ pc[Test] # "idle"
     \/ tpc = "is_processing"
     => Going
  /\ pc[Test] = "stop_state" => cerror = "SUSPENDFAILED"
  /\ tpc = "is_suspend" /\ pc[Test] = "idle" => Halted \/ StopFailed
  /\ tpc \in {"get", "print", "restart"} => Halted
  /\ tpc = "wait" /\ pc[Test] = "restart_state" => Halted
  /\ tpc = "wait" /\ pc[Test] = "restart_foe" => RestartFailed
  /\ tpc = "wait" /\ pc[Test] = "idle" => Going \/ RestartFailed
  /\ tpc = "woken" => Going \/ RestartFailed
  /\ tpc \in {"recover", "recovering"} => state = "SHUTDOWN" \/ StopFailed
  /\ tpc \in Ending => state = "SHUTDOWN"

PrintInv ==
  /\ tpc = "print_last" => a
  /\ tpc \in {"get_last", "print_last"} => cdsret = "SHUTDOWN"
  /\ tpc \notin {"return", "destroyed", "ended"} => status = Running
  /\ status = 0 => r = Prefix(4) /\ cdsret = "SHUTDOWN"

\* Who waits for a notification that has been given already has lost a race.
LostInv ==
  /\ \A w \in work_waiters :
       /\ pc[w] = "parked"
       /\ state = "PROGRESSING" => lost \cap {"late_park", "silent_recovery"} # {}
  /\ migrated_waiters # {} /\ state = "SHUTDOWN" => "late_wait" \in lost
  /\ ~Before /\ NoWorker => Ended \/ "late_stop" \in lost

LEMMA AppendToOne ==
  ASSUME NEW S, NEW x \in S, NEW y \in S
  PROVE  Append(<<x>>, y) = <<x, y>>
<1> DEFINE s == Append(<<x>>, y)
           t == <<x, y>>
<1>1. s \in Seq(S) /\ Len(s) = 2 /\ s[1] = x /\ s[2] = y
  OBVIOUS
<1>2. t \in Seq(S) /\ Len(t) = 2 /\ t[1] = x /\ t[2] = y
  OBVIOUS
<1>3. 1..2 = {1, 2}
  OBVIOUS
<1> HIDE DEF s, t
<1>4. s = t
  BY <1>1, <1>2, <1>3, SeqEqual
<1> QED
  BY <1>4 DEF s, t

LEMMA AppendToTwo ==
  ASSUME NEW S, NEW x \in S, NEW y \in S, NEW z \in S
  PROVE  Append(<<x, y>>, z) = <<x, y, z>>
<1> DEFINE s == Append(<<x, y>>, z)
           t == <<x, y, z>>
<1>1. s \in Seq(S) /\ Len(s) = 3 /\ s[1] = x /\ s[2] = y /\ s[3] = z
  OBVIOUS
<1>2. t \in Seq(S) /\ Len(t) = 3 /\ t[1] = x /\ t[2] = y /\ t[3] = z
  OBVIOUS
<1>3. 1..3 = {1, 2, 3}
  OBVIOUS
<1> HIDE DEF s, t
<1>4. s = t
  BY <1>1, <1>2, <1>3, SeqEqual
<1> QED
  BY <1>4 DEF s, t

\* The functions of the chain, one after the other.
LEMMA PrefixGrows ==
  /\ Prefix(0) = <<>> /\ Prefix(1) = <<>> /\ Prefix(4) # <<>>
  /\ TestChain[1] = NoProc /\ Len(TestChain) = 4
  /\ \A k \in 2..4 :
       TestChain[k] # NoProc /\ Append(Prefix(k - 1), TestChain[k]) = Prefix(k)
<1>1. /\ Prefix(0) = <<>> /\ Prefix(1) = <<>>
      /\ Prefix(2) = <<"func1">> /\ Prefix(3) = <<"func1", "func2">>
      /\ Prefix(4) = <<"func1", "func2", "func3">>
  BY DEF Prefix
<1>2. /\ TestChain[1] = NoProc /\ TestChain[2] = "func1" /\ TestChain[3] = "func2"
      /\ TestChain[4] = "func3" /\ Len(TestChain) = 4
  BY DEF TestChain
<1>3. "func1" \in Procs /\ "func2" \in Procs /\ "func3" \in Procs
  BY TestAssumption
<1>4. Append(Prefix(1), TestChain[2]) = Prefix(2)
  <2>1. Append(<<>>, "func1") = <<"func1">>
    OBVIOUS
  <2> QED
    BY <2>1, <1>1, <1>2
<1>5. Append(Prefix(2), TestChain[3]) = Prefix(3)
  <2>1. Append(<<"func1">>, "func2") = <<"func1", "func2">>
    BY <1>3, AppendToOne
  <2> QED
    BY <2>1, <1>1, <1>2, Zenon
<1>6. Append(Prefix(3), TestChain[4]) = Prefix(4)
  <2>1. Append(<<"func1", "func2">>, "func3") = <<"func1", "func2", "func3">>
    BY <1>3, AppendToTwo
  <2> QED
    BY <2>1, <1>1, <1>2, Zenon
<1>7. Prefix(4) # <<>>
  <2>1. Len(<<"func1", "func2", "func3">>) = 3
    OBVIOUS
  <2> QED
    BY <2>1, <1>1
<1>8. ASSUME NEW k \in 2..4
      PROVE  TestChain[k] # NoProc /\ Append(Prefix(k - 1), TestChain[k]) = Prefix(k)
  <2>1. \/ k = 2 /\ k - 1 = 1
        \/ k = 3 /\ k - 1 = 2
        \/ k = 4 /\ k - 1 = 3
    OBVIOUS
  <2>2. TestChain[2] # NoProc /\ TestChain[3] # NoProc /\ TestChain[4] # NoProc
    BY <1>2, <1>3, CodestreamAssumption
  <2> QED
    BY <2>1, <2>2, <1>4, <1>5, <1>6
<1> QED
  BY <1>1, <1>2, <1>7, <1>8

LEMMA TestInvInit == TestInit => DataInv /\ BeginInv /\ EndInv /\ StateInv /\ PrintInv /\ LostInv
<1> SUFFICES ASSUME TestInit
             PROVE  DataInv /\ BeginInv /\ EndInv /\ StateInv /\ PrintInv /\ LostInv
  OBVIOUS
<1>1. InitWith(TestChain) /\ tpc = "coding"
  BY TestAssumption DEF TestInit, ClientsInit
<1>2. /\ pc[Test] = "idle"
      /\ \A w \in Workers : pc[w] = "none" /\ ret[w] = <<>>
  BY <1>1, TestAssumption, CodestreamAssumption DEF InitWith, Threads
<1>3. work_waiters = {} /\ migrated_waiters = {}
  BY <1>1 DEF InitWith
<1>4. state = "SHUTDOWN" /\ last_op_ret = <<>>
  BY <1>1 DEF InitWith
<1>5. DataInv
  BY <1>2 DEF DataInv, AtMostOneWorker, Live, Data
<1>6. BeginInv /\ EndInv
  BY <1>1, <1>2, <1>4 DEF BeginInv, EndInv, Before, NoWorker, TestInit
<1>7. StateInv
  BY <1>1, <1>2 DEF StateInv, Ending
<1>8. PrintInv /\ LostInv
  BY <1>1, <1>3 DEF PrintInv, LostInv, TestInit, Running, Before
<1> QED
  BY <1>5, <1>6, <1>7, <1>8

-----------------------------------------------------------------------------
(* The steps, as far as the data, the state and the threads go.            *)

DataVars == <<ip, last_op_ret, f, ret, value>>

StateNow == <<state, state_when_error_occur, cerror>>

\* main() asks, prints or destroys the engine.
QuietSteps ==
  \/ IsSuspend \/ GetLastResult("get", "print") \/ GetLastResult("get_last", "print_last")
  \/ PrintValue \/ IsProcessing \/ IsShutdown \/ processStateExplain
  \/ Destroy \/ ProcessEnds

LEMMA QuietFrame ==
  ASSUME QuietSteps
  PROVE  /\ UNCHANGED <<DataVars, StateNow, pc, work_waiters, migrated_waiters, lost>>
         /\ pc[Test] = "idle"
         /\ tpc \notin {"coding", "stop"} /\ tpc' \notin {"coding", "stop"}
BY DEF QuietSteps, IsSuspend, GetLastResult, PrintValue, IsProcessing, IsShutdown,
       processStateExplain, Destroy, ProcessEnds, Asks, AtTest, DataVars, StateNow,
       vars, chainVars,
       stateVars, quietVars, localVars

LEMMA WorkerFrame ==
  ASSUME TypeOK, NEW label, Goto(Test, label)
  PROVE  pc'[Test] = label /\ \A w \in Workers : pc'[w] = pc[w]
BY TestAssumption, CodestreamAssumption DEF TypeOK, PcTypeOK, Goto, Threads

\* main() makes a call: the label it enters is the first of the call.
FirstSteps ==
  \/ tpc = "coding" /\ tpc' = "stop" /\ CodingAllowed(Test)
  \/ tpc = "stop" /\ tpc' = "is_suspend" /\ StopCode(Test)
  \/ tpc = "restart" /\ tpc' = "wait" /\ RestartCode(Test)
  \/ tpc = "recover" /\ tpc' = "recovering" /\ AcquireState(Test, "idle", "recover_ip")
  \/ tpc = "wait" /\ tpc' = "woken" /\ WaitForStateMove(Test)

LEMMA FirstStepsAre ==
  ASSUME Control, BeginInv,
         TestCoding \/ TestStop \/ TestRestart \/ TestRecover \/ TestWaits
  PROVE  /\ FirstSteps /\ pc[Test] = "idle"
         /\ UNCHANGED <<value, a, r, cdsret, status>>
         /\ IF tpc = "wait" THEN Lose("late_wait", state = "SHUTDOWN") ELSE UNCHANGED lost
<1> USE DEF Calls, AtTest, Call, FirstSteps
<1>1. CASE TestCoding
  <2>1. state = "SHUTDOWN"
    BY <1>1 DEF TestCoding, BeginInv, Before
  <2> QED
    BY <1>1, <2>1 DEF TestCoding, CodingRefused
<1>2. flag_init
  BY DEF Control
<1>3. CASE TestStop
  BY <1>2, <1>3 DEF TestStop, NotInitialised
<1>4. CASE TestRestart
  BY <1>2, <1>4 DEF TestRestart, NotInitialised
<1>5. CASE TestRecover \/ TestWaits
  BY <1>5 DEF TestRecover, TestWaits
<1> QED
  BY <1>1, <1>3, <1>4, <1>5

LEMMA FirstFrame ==
  ASSUME TypeOK, FirstSteps, UNCHANGED value
  PROVE  /\ UNCHANGED <<DataVars, StateNow, work_waiters>>
         /\ \A w \in Workers : pc'[w] = pc[w]
         /\ pc'[Test] = CASE tpc = "coding"  -> "reset_state"
                          [] tpc = "stop"    -> "stop_ip"
                          [] tpc = "restart" -> "restart_state"
                          [] tpc = "recover" -> "recover_ip"
                          [] tpc = "wait"    -> "wait"
         /\ migrated_waiters' = migrated_waiters \cup (IF tpc = "wait" THEN {Test} ELSE {})
<1>1. /\ UNCHANGED <<DataVars, StateNow, work_waiters>>
      /\ migrated_waiters' = migrated_waiters \cup (IF tpc = "wait" THEN {Test} ELSE {})
  BY DEF FirstSteps, CodingAllowed, StopCode, RestartCode, AcquireState,
         WaitForStateMove, DataVars, StateNow, chainVars, stateVars, quietVars, localVars
<1>2. CASE tpc = "coding"
  BY <1>1, <1>2, WorkerFrame DEF FirstSteps, CodingAllowed
<1>3. CASE tpc = "stop"
  BY <1>1, <1>3, WorkerFrame DEF FirstSteps, StopCode
<1>4. CASE tpc = "restart"
  BY <1>1, <1>4, WorkerFrame DEF FirstSteps, RestartCode
<1>5. CASE tpc = "recover"
  BY <1>1, <1>5, WorkerFrame DEF FirstSteps, AcquireState
<1>6. CASE tpc = "wait"
  BY <1>1, <1>6, WorkerFrame DEF FirstSteps, WaitForStateMove
<1> QED
  BY <1>2, <1>3, <1>4, <1>5, <1>6 DEF FirstSteps

\* The rest of a call leaves the data and the worker alone, but for the reset and the
\* start of the worker.
LEMMA CallFrame ==
  ASSUME TypeOK, CallStep, UNCHANGED value
  PROVE  /\ ~ResetCodestream(Test) => UNCHANGED DataVars
         /\ ~CodingSpawn(Test) => \A w \in Workers : pc'[w] = pc[w]
         /\ ~RestartResumes(Test) => UNCHANGED work_waiters
<1>1. /\ ~ResetCodestream(Test) => UNCHANGED DataVars
      /\ ~RestartResumes(Test) => UNCHANGED work_waiters
  BY DEF CallStep, AcquireState, AcquireIp, CodingInitialised, ResetCodestream,
     CodingStart, CodingSpawn, StopInTime, StopTooLate, StopTest, StopSuspend,
     RecordError, ReportError, RestartResumes, RestartFails, RestartError, StateMoved,
     DataVars, chainVars, quietVars, localVars
<1>2. ~CodingSpawn(Test) => \E l \in ClientLabels : Goto(Test, l)
  BY DEF CallStep, AcquireState, AcquireIp, ResetCodestream, CodingInitialised,
     CodingStart, StopInTime, StopTooLate, StopTest, StopSuspend,
     RecordError, ReportError, RestartResumes, RestartFails, RestartError, StateMoved,
     ClientLabels
<1> QED
  BY <1>1, <1>2, WorkerFrame

LEMMA RecoveredFrame ==
  ASSUME TypeOK, Recovered
  PROVE  /\ UNCHANGED <<DataVars, work_waiters>>
         /\ tpc = "recovering" /\ tpc' \in {"return", "is_processing"}
         /\ pc'[Test] = "idle" /\ \A w \in Workers : pc'[w] = pc[w]
BY WorkerFrame
   DEF Recovered, ProgramErrorRecover, DataVars, chainVars, quietVars, localVars

\* Nothing that the data depends on moves.
LEMMA DataKept ==
  ASSUME UNCHANGED DataVars, \A w \in Workers : pc'[w] = pc[w]
  PROVE  /\ DataInv => DataInv'
         /\ Finished' <=> Finished
         /\ NoWorker' <=> NoWorker
BY DEF DataVars, DataInv, AtMostOneWorker, Live, Data, Holds, Finished, NoWorker

-----------------------------------------------------------------------------
(* The data.                                                               *)

\* A step of the worker moves the index, the int and the results together.
LEMMA DataWorker ==
  ASSUME TypeOK, Control, Vacated, DataInv, NEW w \in Workers, TestWorker(w)
  PROVE  DataInv'
<1>1. /\ pc \in [Threads -> ClientLabels \cup WorkerLabels] /\ w \in Threads
      /\ f \in [Workers -> Procs \cup {NoProc}] /\ ret \in [Workers -> Chains]
  BY DEF TypeOK, PcTypeOK, LocalTypeOK, Threads
<1>2. pc[w] # "none" /\ Data(w)
  BY DEF TestWorker, RunFunction, RunWorker, WorkerControl, WorkerCheck, WorkerExit,
         WorkerPark, WorkerUnparked, AcquireIp, FetchProcedure, FetchThrows, FetchEnd,
         Shutdown, SaveResult, Execute, At, DataInv
<1>3. \A v \in Workers \ {w} : pc[v] = "none" /\ ret[v] = <<>>
  BY <1>2 DEF DataInv, AtMostOneWorker, Live, Data
<1>4. /\ ip \in 0..4 /\ ip_end = 4 /\ ~flag_opdirection
      /\ pc[w] = "fetch_foe" => code_procedures = TestChain
  BY DEF Control, Vacated
\* It is enough to look at the worker itself.
<1>5. ASSUME NEW label, Goto(w, label), \A v \in Workers \ {w} : ret'[v] = ret[v],
             Data(w)'
      PROVE  DataInv'
  <2>1. \A v \in Workers \ {w} : pc'[v] = "none" /\ ret'[v] = <<>>
    BY <1>1, <1>3, <1>5 DEF Goto, Threads
  <2> QED
    BY <2>1, <1>5 DEF DataInv, AtMostOneWorker, Live, Data
\* A step that moves only the worker's place.
<1>6. ASSUME NEW label \in {"check", "park", "parked", "fetch_ip", "fetch_foe"},
             Goto(w, label), UNCHANGED DataVars,
             pc[w] \in {"check", "park", "parked", "fetch_ip", "fetch_foe", "shutdown"}
      PROVE  DataInv'
  <2>1. Holds(w, ip, ip)
    BY <1>2, <1>6 DEF Data
  <2>2. Data(w)'
    BY <2>1, <1>1, <1>6 DEF Data, Holds, Goto, DataVars
  <2> QED
    BY <2>2, <1>5, <1>6 DEF DataVars
<1> USE DEF At, chainVars, quietVars, localVars
<1>7. CASE RunFunction(w)
  <2>1. /\ pc[w] = "exec" /\ Goto(w, "save") /\ UNCHANGED chainVars
        /\ ret' = [ret EXCEPT ![w] = Append(@, f[w])] /\ value' = Append(value, f[w])
    BY <1>7 DEF RunFunction, Execute
  <2>2. ip \in 2..4 /\ f[w] = TestChain[ip] /\ Holds(w, ip - 1, ip - 1)
    BY <2>1, <1>2, <1>4 DEF Data
  <2>3. Append(Prefix(ip - 1), f[w]) = Prefix(ip)
    BY <2>2, PrefixGrows
  <2>4. ret'[w] = Prefix(ip) /\ value' = Prefix(ip) /\ last_op_ret' = Prefix(ip - 1)
    BY <2>1, <2>2, <2>3, <1>1 DEF Holds
  <2>5. Data(w)'
    BY <2>1, <2>2, <2>4, <1>1 DEF Data, Holds, Goto
  <2>6. \A v \in Workers \ {w} : ret'[v] = ret[v]
    BY <2>1, <1>1
  <2> QED
    BY <2>1, <2>5, <2>6, <1>5
<1>8. CASE RunWorker(w)
  <2>1. WorkerControl(w) /\ UNCHANGED value
    BY <1>8 DEF RunWorker
  <2>2. CASE WorkerCheck(w)
    <3>1. CASE state = "PROGRESSING"
      BY <2>1, <2>2, <3>1, <1>6 DEF WorkerCheck, DataVars
    <3>2. CASE state # "PROGRESSING"
      BY <2>1, <2>2, <3>2, <1>6 DEF WorkerCheck, DataVars
    <3> QED
      BY <3>1, <3>2
  <2>3. CASE WorkerExit(w)
    <3>1. Goto(w, "none") /\ ret' = [ret EXCEPT ![w] = <<>>]
      BY <2>3 DEF WorkerExit
    <3>2. Data(w)' /\ \A v \in Workers \ {w} : ret'[v] = ret[v]
      BY <3>1, <1>1 DEF Data, Goto
    <3> QED
      BY <3>1, <3>2, <1>5
  <2>4. CASE WorkerPark(w) \/ WorkerUnparked(w)
    BY <2>1, <2>4, <1>6 DEF WorkerPark, WorkerUnparked, DataVars
  <2>5. CASE AcquireIp(w, "fetch_ip", "fetch_foe")
    BY <2>1, <2>5, <1>6 DEF AcquireIp, DataVars
  <2>6. CASE FetchProcedure(w)
    <3> DEFINE proc == code_procedures[ip + 1]
               to == IF proc = NoProc THEN "check" ELSE "exec"
    <3>1. /\ pc[w] = "fetch_foe" /\ InChain /\ ip' = ip + 1 /\ f' = [f EXCEPT ![w] = proc]
          /\ UNCHANGED <<ret, last_op_ret>> /\ Goto(w, to)
      BY <2>6, <1>4 DEF FetchProcedure
    <3>2. ip \in 0..3 /\ proc = TestChain[ip + 1] /\ Holds(w, ip, ip)
      <4>1. code_procedures = TestChain /\ Len(TestChain) = 4
        BY <3>1, <1>4, PrefixGrows
      <4> QED
        BY <3>1, <4>1, <1>2, <1>4 DEF InChain, Data
    <3>3. CASE ip = 0
      <4>1. proc = NoProc /\ Prefix(ip) = Prefix(ip')
        BY <3>1, <3>2, <3>3, PrefixGrows
      <4>2. Holds(w, ip, ip)' /\ pc'[w] = "check"
        BY <4>1, <3>1, <3>2, <2>1, <1>1 DEF Holds, Goto
      <4>3. Data(w)'
        BY <4>2 DEF Data
      <4> QED
        BY <4>3, <3>1, <1>5
    <3>4. CASE ip \in 1..3
      <4>1. proc # NoProc /\ ip' >= 2 /\ ip' - 1 = ip
        BY <3>1, <3>2, <3>4, PrefixGrows
      <4>2. pc'[w] = "exec" /\ f'[w] = TestChain[ip']
        BY <4>1, <3>1, <3>2, <1>1 DEF Goto
      <4>3. Holds(w, ip - 1, ip - 1)'
        BY <4>1, <3>1, <3>2, <2>1 DEF Holds
      <4>4. Data(w)'
        BY <4>1, <4>2, <4>3 DEF Data
      <4> QED
        BY <4>4, <3>1, <1>5
    <3> QED
      BY <3>2, <3>3, <3>4
  <2>7. CASE FetchThrows(w)
    BY <2>1, <2>7, DataKept DEF FetchThrows, DataVars
  <2>8. CASE FetchEnd(w)
    <3>1. /\ pc[w] = "fetch_foe" /\ ~MoreToDo /\ Goto(w, "shutdown")
          /\ UNCHANGED DataVars
      BY <2>1, <2>8 DEF FetchEnd, DataVars
    <3>2. ip = 4 /\ Holds(w, 4, 4)
      BY <3>1, <1>2, <1>4, PrefixGrows DEF MoreToDo, PastEnd, Data
    <3>3. Data(w)'
      BY <3>1, <3>2, <1>1 DEF Data, Holds, Goto, DataVars
    <3> QED
      BY <3>1, <3>3, <1>5 DEF DataVars
  <2>9. CASE Shutdown(w)
    BY <2>1, <2>9, <1>6 DEF Shutdown, DataVars
  <2>10. CASE SaveResult(w)
    <3>1. /\ pc[w] = "save" /\ Goto(w, "check") /\ last_op_ret' = ret[w]
          /\ UNCHANGED <<ip, ret>>
      BY <2>10 DEF SaveResult
    <3>2. Holds(w, ip, ip - 1)
      BY <3>1, <1>2 DEF Data
    <3>3. Data(w)'
      BY <3>1, <3>2, <2>1, <1>1 DEF Data, Holds, Goto
    <3> QED
      BY <3>1, <3>3, <1>5
  <2> QED
    BY <2>1, <2>2, <2>3, <2>4, <2>5, <2>6, <2>7, <2>8, <2>9, <2>10 DEF WorkerControl
<1> QED
  BY <1>7, <1>8 DEF TestWorker

LEMMA DataNext ==
  TypeOK /\ Control /\ Vacated /\ BeginInv /\ DataInv /\ [TestNext]_allVars => DataInv'
<1> SUFFICES ASSUME TypeOK, Control, Vacated, BeginInv, DataInv, [TestNext]_allVars
             PROVE  DataInv'
  OBVIOUS
<1>1. CASE QuietSteps
  BY <1>1, QuietFrame, DataKept
<1>2. CASE TestCoding \/ TestStop \/ TestRestart \/ TestRecover \/ TestWaits
  BY <1>2, FirstStepsAre, FirstFrame, DataKept
<1>3. CASE Recovered
  BY <1>3, RecoveredFrame, DataKept
<1>4. CASE InCall
  <2>1. CallStep /\ UNCHANGED <<tpc, value>>
    BY <1>4, InCallSteps DEF InCall
  <2>2. CASE ResetCodestream(Test)
    <3>1. tpc = "stop" /\ pc[Test] = "reset_foe"
      BY <2>1, <2>2 DEF CallStep, ResetCodestream, At, Control, CallLabels
    <3>2. NoWorker /\ \A w \in Workers : pc'[w] = pc[w]
      BY <3>1, <2>1, <2>2, CallFrame
      DEF BeginInv, Before, ResetCodestream, CodingSpawn, At
    <3>3. UNCHANGED ret
      BY <2>2 DEF ResetCodestream, quietVars, localVars
    <3> QED
      BY <3>2, <3>3 DEF NoWorker, DataInv, AtMostOneWorker, Live, Data
  <2>3. CASE CodingSpawn(Test)
    <3>1. tpc = "stop" /\ pc[Test] = "coding_spawn"
      BY <2>1, <2>3 DEF CallStep, CodingSpawn, At, Control, CallLabels
    <3>2. NoWorker /\ value = <<>> /\ last_op_ret = <<>> /\ ip = 0
      BY <3>1 DEF BeginInv, Before
    <3>3. PICK w \in Workers : pc' = [pc EXCEPT ![Test] = "idle", ![w] = "check"]
      BY <2>3 DEF CodingSpawn
    <3>4. pc'[w] = "check" /\ \A v \in Workers \ {w} : pc'[v] = "none"
      BY <3>2, <3>3, CodestreamAssumption, TestAssumption
      DEF NoWorker, TypeOK, PcTypeOK, Threads
    <3>5. UNCHANGED DataVars /\ \A v \in Workers : ret[v] = <<>>
      BY <3>2, <2>1, <2>3 DEF CodingSpawn, DataVars, chainVars, quietVars, localVars,
                              DataInv, Data, NoWorker
    <3>6. Data(w)'
      BY <3>2, <3>4, <3>5, PrefixGrows DEF Data, Holds, DataVars
    <3>7. \A v \in Workers \ {w} : Data(v)'
      BY <3>4, <3>5 DEF Data, DataVars
    <3> QED
      BY <3>4, <3>6, <3>7 DEF DataInv, AtMostOneWorker, Live
  <2>4. CASE ~ResetCodestream(Test) /\ ~CodingSpawn(Test)
    BY <2>1, <2>4, CallFrame, DataKept
  <2> QED
    BY <2>2, <2>3, <2>4
<1>5. CASE \E w \in Workers : TestWorker(w)
  BY <1>5, DataWorker
<1>6. CASE Wakes
  BY <1>6, DataKept DEF Wakes, SpuriousWake, DataVars, chainVars, localVars, testVars
<1>7. CASE UNCHANGED allVars
  BY <1>7, DataKept
  DEF allVars, vars, DataVars, chainVars, quietVars, localVars, testVars
<1> QED
  BY <1>1, <1>2, <1>3, <1>4, <1>5, <1>6, <1>7 DEF TestNext, TestStep, QuietSteps

-----------------------------------------------------------------------------
(* The begin and the end of the run.                                       *)

\* What a step of the worker leaves of main() and of the state.
LEMMA WorkerKeeps ==
  ASSUME TypeOK, NEW w \in Workers, TestWorker(w)
  PROVE  /\ UNCHANGED <<tpc, a, r, cdsret, status, cerror, state_when_error_occur>>
         /\ pc'[Test] = pc[Test] /\ pc[w] # "none"
         /\ ~Shutdown(w) => UNCHANGED <<state, migrated_waiters>>
         /\ ~Shutdown(w) \/ (state' = "SHUTDOWN" /\ pc[w] = "shutdown")
         /\ lost \subseteq lost'
<1>1. Test # w /\ Test \in Threads /\ pc \in [Threads -> ClientLabels \cup WorkerLabels]
  BY TestAssumption, CodestreamAssumption DEF TypeOK, PcTypeOK, Threads
<1>2. /\ UNCHANGED <<tpc, a, r, cdsret, status>> /\ WorkerStep(w)
      /\ lost \subseteq lost'
  BY DEF TestWorker, RunFunction, RunWorker, WorkerStep, Lose
<1>3. /\ UNCHANGED <<cerror, state_when_error_occur>>
      /\ ~Shutdown(w) => UNCHANGED <<state, migrated_waiters>>
      /\ ~Shutdown(w) \/ (state' = "SHUTDOWN" /\ pc[w] = "shutdown")
  BY <1>2 DEF WorkerStep, WorkerControl, WorkerCheck, WorkerExit, WorkerPark,
     WorkerUnparked, AcquireIp, FetchProcedure, FetchThrows, FetchEnd, Shutdown,
     SaveResult, Execute, MoveTo, stateVars, At
<1>4. pc[w] # "none" /\ (UNCHANGED pc \/ \E l \in WorkerLabels : Goto(w, l))
  BY <1>2 DEF WorkerStep, WorkerControl, WorkerCheck, WorkerExit, WorkerPark,
     WorkerUnparked, AcquireIp, FetchProcedure, FetchThrows, FetchEnd, Shutdown,
     SaveResult, Execute, WorkerLabels, At
<1>5. pc'[Test] = pc[Test]
  BY <1>1, <1>4 DEF Goto
<1> QED
  BY <1>2, <1>3, <1>4, <1>5

\* Spurious wake-ups and stuttering.
LEMMA WakesKeep ==
  ASSUME Wakes \/ UNCHANGED allVars
  PROVE  /\ UNCHANGED <<tpc, a, r, cdsret, status, lost, DataVars, StateNow, pc>>
         /\ work_waiters' \subseteq work_waiters
         /\ migrated_waiters' \subseteq migrated_waiters
BY DEF Wakes, SpuriousWake, allVars, testVars, vars, DataVars, StateNow, chainVars,
       stateVars, quietVars, localVars

LEMMA BeginNext ==
  TypeOK /\ Control /\ BeginInv /\ [TestNext]_allVars => BeginInv'
<1> SUFFICES ASSUME TypeOK, Control, BeginInv, [TestNext]_allVars, Before'
             PROVE  /\ NoWorker' /\ value' = <<>> /\ last_op_ret' = <<>>
                    /\ state' = IF pc'[Test] = "coding_spawn" THEN "PROGRESSING"
                                ELSE "SHUTDOWN"
                    /\ pc'[Test] \in {"coding_init", "coding_start", "coding_spawn"}
                         => ip' = 0
  BY DEF BeginInv
<1>1. CASE QuietSteps
  BY <1>1, QuietFrame DEF Before
<1>2. CASE TestCoding \/ TestStop \/ TestRestart \/ TestRecover \/ TestWaits
  <2>1. FirstSteps /\ pc[Test] = "idle" /\ UNCHANGED value
    BY <1>2, FirstStepsAre
  <2>2. tpc = "coding" /\ pc'[Test] = "reset_state"
    BY <2>1, FirstFrame DEF FirstSteps, Before
  <2>3. NoWorker' /\ UNCHANGED <<DataVars, StateNow>>
    BY <2>1, <2>2, FirstFrame, DataKept DEF BeginInv, Before
  <2> QED
    BY <2>1, <2>2, <2>3 DEF BeginInv, Before, DataVars, StateNow
<1>3. CASE Recovered
  BY <1>3, RecoveredFrame DEF Before
<1>4. CASE InCall
  <2>1. CallStep /\ UNCHANGED <<tpc, value>>
    BY <1>4, InCallSteps DEF InCall
  <2>2. tpc = "stop" /\ ~CodingSpawn(Test)
    BY <2>1, CodestreamAssumption, TestAssumption
    DEF Before, CallStep, CodingSpawn, TypeOK, PcTypeOK, Threads
  <2>3. Before
    BY <2>1, <2>2
    DEF Before, CallStep, AcquireState, AcquireIp, ResetCodestream, CodingInitialised,
        CodingStart, At
  <2>4. NoWorker'
    BY <2>1, <2>2, <2>3, CallFrame DEF BeginInv, NoWorker
  <2>5. Test \in Threads /\ pc \in [Threads -> ClientLabels \cup WorkerLabels]
    BY TestAssumption DEF TypeOK, PcTypeOK, Threads
  <2> USE <2>1, <2>2, <2>3, <2>4, <2>5 DEF BeginInv, At, Goto
  <2>6. CASE AcquireState(Test, "reset_state", "reset_ip") \/ AcquireIp(Test, "reset_ip", "reset_foe")
    BY <2>6 DEF AcquireState, AcquireIp, chainVars, stateVars
  <2>7. CASE ResetCodestream(Test)
    BY <2>7 DEF ResetCodestream, MoveBoth, Control
  <2>8. CASE CodingInitialised(Test)
    BY <2>8 DEF CodingInitialised, chainVars, stateVars
  <2>9. CASE CodingStart(Test)
    BY <2>9 DEF CodingStart, MoveBoth, chainVars
  <2> QED
    BY <2>6, <2>7, <2>8, <2>9 DEF CallStep
<1>5. CASE \E w \in Workers : TestWorker(w)
  BY <1>5, WorkerKeeps DEF BeginInv, Before, NoWorker
<1>6. CASE Wakes \/ UNCHANGED allVars
  BY <1>6, WakesKeep DEF BeginInv, Before, NoWorker, DataVars, StateNow
<1> QED
  BY <1>1, <1>2, <1>3, <1>4, <1>5, <1>6 DEF TestNext, TestStep, QuietSteps

\* How a step moves the state.
LEMMA EndNext ==
  /\ TypeOK /\ Control /\ BeginInv /\ DataInv /\ EndInv /\ StateInv
  /\ [TestNext]_allVars
  => EndInv'
<1> SUFFICES ASSUME TypeOK, Control, BeginInv, DataInv, EndInv, StateInv,
                    [TestNext]_allVars, ~Before', NoWorker' \/ Ended'
             PROVE  Finished'
  BY DEF EndInv
<1>1. CASE QuietSteps
  BY <1>1, QuietFrame, DataKept DEF Before, EndInv, Ended, StateNow
<1>2. CASE TestCoding \/ TestStop \/ TestRestart \/ TestRecover \/ TestWaits
  <2>1. FirstSteps /\ pc[Test] = "idle" /\ UNCHANGED value
    BY <1>2, FirstStepsAre
  <2>2. ~Before
    BY <2>1, FirstFrame DEF FirstSteps, Before
  <2> QED
    BY <2>1, <2>2, FirstFrame, DataKept DEF EndInv, Ended, StateNow
<1>3. CASE Recovered
  <2>1. ~Before /\ (state = "SHUTDOWN" \/ StopFailed)
    BY <1>3, RecoveredFrame DEF Before, StateInv
  <2>2. Ended' => Ended
    BY <1>3, <2>1
    DEF Recovered, ProgramErrorRecover, RecoverTransition, MoveTo, MoveBoth, Ended,
        StopFailed, RecoverThrows, stateVars
  <2> QED
    BY <1>3, <2>1, <2>2, RecoveredFrame, DataKept DEF EndInv
<1>4. CASE InCall
  <2>1. CallStep /\ UNCHANGED <<tpc, value>>
    BY <1>4, InCallSteps DEF InCall
  <2>2. CASE tpc = "stop"
    <3>1. CASE CodingSpawn(Test)
      <4>1. \E w \in Workers : pc'[w] = "check"
        BY <3>1, CodestreamAssumption, TestAssumption
        DEF CodingSpawn, TypeOK, PcTypeOK, Threads
      <4>2. state' = "PROGRESSING"
        BY <2>2, <3>1 DEF CodingSpawn, BeginInv, Before, stateVars, At
      <4> QED
        BY <4>1, <4>2 DEF NoWorker, Ended
    <3>2. CASE ~CodingSpawn(Test)
      <4>1. pc'[Test] # "idle"
        BY <2>1, <2>2, <3>2, TestAssumption
        DEF CallStep, AcquireState, AcquireIp, ResetCodestream, CodingInitialised,
            CodingStart, Goto, TypeOK, PcTypeOK, Threads
      <4> QED
        BY <2>1, <2>2, <4>1 DEF Before
    <3> QED
      BY <3>1, <3>2
  <2>3. CASE tpc # "stop"
    <3>1. ~Before
      BY <2>1, <2>3 DEF Before, CallStep
    <3>2. ~ResetCodestream(Test) /\ ~CodingSpawn(Test)
      BY <2>3 DEF ResetCodestream, CodingSpawn, At, Control, CallLabels
    <3>3. Ended' => Ended
      BY <2>1, <2>3
      DEF CallStep, StopInTime, StopTooLate, StopTest, StopSuspend, AcquireIp,
          RecordError, ReportError, RestartResumes, RestartFails, RestartError,
          StateMoved, EnterError, MoveTo, Ended, stateVars
    <3> QED
      BY <2>1, <3>1, <3>2, <3>3, CallFrame, DataKept DEF EndInv
  <2> QED
    BY <2>2, <2>3
<1>5. ASSUME NEW w \in Workers, TestWorker(w)
      PROVE  Finished'
  <2>1. ~Before /\ pc[w] # "none" /\ Data(w)
    BY <1>5, WorkerKeeps DEF Before, DataInv
  <2>2. /\ pc \in [Threads -> ClientLabels \cup WorkerLabels] /\ w \in Threads
        /\ \A v \in Workers \ {w} : pc[v] = "none"
    BY <2>1 DEF TypeOK, PcTypeOK, Threads, DataInv, AtMostOneWorker, Live
  <2>3. CASE Shutdown(w)
    <3>1. /\ UNCHANGED DataVars /\ Goto(w, "check") /\ pc[w] = "shutdown"
      BY <1>5, <2>3
      DEF TestWorker, RunFunction, RunWorker, Execute, Shutdown, At, DataVars, chainVars,
          quietVars, localVars
    <3> QED
      BY <3>1, <2>1, <2>2 DEF Data, Holds, Finished, Goto, DataVars, Threads
  <2>4. CASE ~Shutdown(w)
    <3>1. UNCHANGED <<state, state_when_error_occur>>
      BY <1>5, <2>4, WorkerKeeps
    <3>2. Ended
      <4>1. CASE WorkerExit(w)
        BY <4>1 DEF WorkerExit, Ended
      <4>2. CASE ~WorkerExit(w)
        <5>1. pc'[w] # "none"
          BY <1>5, <2>1, <2>2, <4>2
          DEF TestWorker, RunFunction, RunWorker, WorkerControl, WorkerCheck, WorkerPark,
              WorkerUnparked, AcquireIp, FetchProcedure, FetchThrows, FetchEnd, Shutdown,
              SaveResult, Execute, Goto
        <5> QED
          BY <5>1, <3>1 DEF NoWorker, Ended
      <4> QED
        BY <4>1, <4>2
    <3>3. Finished /\ state # "PROGRESSING"
      BY <2>1, <3>2 DEF EndInv, Ended
    <3>4. pc[w] \in {"check", "park", "parked"}
      BY <2>1, <3>3 DEF Finished
    <3>5. /\ UNCHANGED <<ip, value, last_op_ret>>
          /\ \E l \in {"none", "check", "park", "parked"} : Goto(w, l)
      BY <1>5, <3>3, <3>4
      DEF TestWorker, RunFunction, RunWorker, WorkerControl, WorkerCheck, WorkerExit,
          WorkerPark, WorkerUnparked, AcquireIp, FetchProcedure, FetchThrows, FetchEnd,
          Shutdown, SaveResult, Execute, At, chainVars
    <3> QED
      BY <3>3, <3>5, <2>2 DEF Finished, Goto, Threads
  <2> QED
    BY <2>3, <2>4
<1>6. CASE Wakes \/ UNCHANGED allVars
  BY <1>6, WakesKeep, DataKept DEF Before, EndInv, Ended, StateNow
<1> QED
  BY <1>1, <1>2, <1>3, <1>4, <1>5, <1>6 DEF TestNext, TestStep, QuietSteps

\* What main() learns from its questions.
LEMMA StateNext ==
  /\ TypeOK /\ Control /\ BeginInv /\ DataInv /\ EndInv /\ StateInv
  /\ [TestNext]_allVars
  => StateInv'
<1> SUFFICES ASSUME TypeOK, Control, BeginInv, DataInv, EndInv, StateInv,
                    [TestNext]_allVars
             PROVE  StateInv'
  OBVIOUS
<1> USE DEF StateInv, Going, Halted, StopFailed, RestartFailed, Ending
<1>1. CASE QuietSteps
  <2>1. UNCHANGED <<StateNow, pc, lost>> /\ pc[Test] = "idle"
    BY <1>1, QuietFrame
  <2>2. CASE IsSuspend \/ IsProcessing \/ IsShutdown
    BY <2>1, <2>2 DEF IsSuspend, IsProcessing, IsShutdown, Asks, AtTest, StateNow
  <2>3. CASE GetLastResult("get", "print") \/ GetLastResult("get_last", "print_last")
    BY <2>1, <2>3 DEF GetLastResult, AtTest, StateNow
  <2>4. CASE PrintValue \/ processStateExplain \/ Destroy \/ ProcessEnds
    BY <2>1, <2>4
    DEF PrintValue, processStateExplain, Destroy, ProcessEnds, AtTest, StateNow
  <2> QED
    BY <1>1, <2>2, <2>3, <2>4 DEF QuietSteps
<1>2. CASE TestCoding \/ TestStop \/ TestRestart \/ TestRecover \/ TestWaits
  <2>1. FirstSteps /\ pc[Test] = "idle" /\ UNCHANGED value /\ lost \subseteq lost'
    BY <1>2, FirstStepsAre DEF Lose
  <2> QED
    BY <2>1, FirstFrame DEF FirstSteps, Before, StateNow
<1>3. CASE Recovered
  <2>1. /\ pc'[Test] = "idle"
        /\ state = "SHUTDOWN" \/ StopFailed
    BY <1>3, RecoveredFrame
  <2>2. Going' /\ tpc' = "is_processing"
    BY <1>3, <2>1
    DEF Recovered, ProgramErrorRecover, RecoverTransition, RecoverThrows, MoveTo,
        MoveBoth, stateVars
  <2> QED
    BY <2>1, <2>2
<1>4. CASE InCall
  <2>1. CallStep /\ UNCHANGED <<tpc, value>> /\ lost \subseteq lost'
    BY <1>4, InCallSteps DEF InCall, Lose
  <2>2. Test \in Threads /\ pc \in [Threads -> ClientLabels \cup WorkerLabels]
    BY TestAssumption DEF TypeOK, PcTypeOK, Threads
  <2> USE <2>1, <2>2 DEF CallStep, At, Goto, stateVars
  <2>3. CASE tpc = "stop"
    <3>1. CASE CodingSpawn(Test)
      <4>1. pc'[Test] = "idle" /\ Going'
        BY <2>3, <3>1, CodestreamAssumption, TestAssumption
        DEF CodingSpawn, BeginInv, Before
      <4> QED
        BY <2>3, <4>1
    <3>2. CASE ~CodingSpawn(Test)
      <4>1. pc'[Test] \notin {"idle", "stop_state"}
        BY <2>3, <3>2
        DEF AcquireState, AcquireIp, ResetCodestream, CodingInitialised, CodingStart
      <4> QED
        BY <2>3, <4>1 DEF Before
    <3> QED
      BY <3>1, <3>2
  <2>4. CASE tpc = "is_suspend"
    BY <2>4 DEF StopInTime, StopTooLate, StopTest, StopSuspend, AcquireIp, RecordError,
                ReportError, EnterError, MoveTo
  <2>5. CASE tpc = "wait"
    <3>1. CASE RestartResumes(Test)
      BY <2>5, <3>1 DEF RestartResumes, MoveTo
    <3>2. CASE RestartFails(Test)
      <4>1. pc[Test] = "restart_state" /\ state = "SHUTDOWN"
        BY <2>5, <3>2 DEF RestartFails
      <4>2. "late_restart" \in lost'
        BY <1>4, <4>1 DEF InCall, Lose
      <4> QED
        BY <2>5, <3>2, <4>1, <4>2 DEF RestartFails, EnterError
    <3>3. CASE RestartError(Test)
      BY <2>5, <3>3 DEF RestartError
    <3> QED
      BY <2>5, <3>1, <3>2, <3>3
  <2>6. CASE tpc = "recovering"
    BY <2>6 DEF AcquireIp
  <2>7. CASE tpc = "woken"
    BY <2>7 DEF StateMoved
  <2> QED
    BY <2>3, <2>4, <2>5, <2>6, <2>7
<1>5. ASSUME NEW w \in Workers, TestWorker(w)
      PROVE  StateInv'
  <2>1. /\ UNCHANGED <<tpc, cerror, state_when_error_occur>> /\ pc'[Test] = pc[Test]
        /\ lost \subseteq lost' /\ pc[w] # "none"
        /\ ~Shutdown(w) => UNCHANGED state
        /\ ~Shutdown(w) \/ (state' = "SHUTDOWN" /\ pc[w] = "shutdown")
    BY <1>5, WorkerKeeps
  <2>2. ~Before /\ (pc[w] = "shutdown" => ~Ended)
    BY <2>1 DEF BeginInv, NoWorker, EndInv, Finished
  <2>3. CASE Shutdown(w)
    BY <2>1, <2>2, <2>3 DEF Ended, Before
  <2>4. CASE ~Shutdown(w)
    BY <2>1, <2>4 DEF Before
  <2> QED
    BY <2>3, <2>4
<1>6. CASE Wakes \/ UNCHANGED allVars
  BY <1>6, WakesKeep DEF StateNow, Before
<1> QED
  BY <1>1, <1>2, <1>3, <1>4, <1>5, <1>6 DEF TestNext, TestStep, QuietSteps

-----------------------------------------------------------------------------
(* What is printed.                                                        *)

LEMMA PrintNext ==
  /\ TypeOK /\ Control /\ BeginInv /\ EndInv /\ StateInv /\ PrintInv
  /\ [TestNext]_allVars
  => PrintInv'
<1> SUFFICES ASSUME TypeOK, Control, BeginInv, EndInv, StateInv, PrintInv,
                    [TestNext]_allVars
             PROVE  PrintInv'
  OBVIOUS
<1> USE DEF PrintInv, Running
<1>1. CASE QuietSteps
  <2>1. tpc \in Ending => state = "SHUTDOWN" /\ value = Prefix(4) /\ last_op_ret # <<>>
    BY PrefixGrows DEF StateInv, EndInv, Ended, Finished, Before, Ending
  <2>2. CASE IsSuspend
    BY <2>2 DEF IsSuspend, Asks, AtTest
  <2>3. CASE IsProcessing
    BY <2>3 DEF IsProcessing, Asks, AtTest
  <2>4. CASE IsShutdown
    BY <2>4 DEF IsShutdown, Asks, AtTest
  <2>5. CASE GetLastResult("get", "print")
    BY <2>5 DEF GetLastResult, AtTest
  <2>6. CASE GetLastResult("get_last", "print_last")
    BY <2>1, <2>6 DEF GetLastResult, AtTest, Ending
  <2>7. CASE PrintValue
    BY <2>1, <2>7 DEF PrintValue, AtTest, Ending
  <2>8. CASE processStateExplain
    BY <2>1, <2>8 DEF processStateExplain, AtTest, Ending
  <2>9. CASE Destroy \/ ProcessEnds
    BY <2>9 DEF Destroy, ProcessEnds, AtTest
  <2> QED
    BY <1>1, <2>2, <2>3, <2>4, <2>5, <2>6, <2>7, <2>8, <2>9 DEF QuietSteps
<1>2. CASE TestCoding \/ TestStop \/ TestRestart \/ TestRecover \/ TestWaits
  BY <1>2, FirstStepsAre DEF FirstSteps
<1>3. CASE Recovered
  BY <1>3 DEF Recovered
<1>4. CASE InCall
  BY <1>4 DEF InCall
<1>5. CASE \E w \in Workers : TestWorker(w)
  BY <1>5, WorkerKeeps
<1>6. CASE Wakes \/ UNCHANGED allVars
  BY <1>6, WakesKeep
<1> QED
  BY <1>1, <1>2, <1>3, <1>4, <1>5, <1>6 DEF TestNext, TestStep, QuietSteps

-----------------------------------------------------------------------------
(* Who waits for what.                                                     *)

\* A worker that waits: it is the only one, and one notification takes it out.
LEMMA OneIsNotified ==
  ASSUME TypeOK, DataInv, LostInv, NotifyWork
  PROVE  work_waiters' = {}
<1>1. \A v, w \in work_waiters : v = w
  BY DEF LostInv, DataInv, AtMostOneWorker, Live, TypeOK, StateTypeOK
<1> QED
  BY <1>1 DEF NotifyWork

LEMMA LostNext ==
  /\ TypeOK /\ Control /\ BeginInv /\ DataInv /\ EndInv /\ StateInv /\ LostInv
  /\ [TestNext]_allVars
  => LostInv'
<1> SUFFICES ASSUME TypeOK, Control, BeginInv, DataInv, EndInv, StateInv, LostInv,
                    [TestNext]_allVars
             PROVE  LostInv'
  OBVIOUS
<1>1. CASE QuietSteps
  BY <1>1, QuietFrame DEF LostInv, StateNow, Before, NoWorker, Ended
<1>2. CASE TestCoding \/ TestStop \/ TestRestart \/ TestRecover \/ TestWaits
  <2>1. /\ FirstSteps /\ pc[Test] = "idle" /\ UNCHANGED value /\ lost \subseteq lost'
        /\ tpc = "wait" /\ state = "SHUTDOWN" => "late_wait" \in lost'
    BY <1>2, FirstStepsAre DEF Lose
  <2>2. /\ UNCHANGED <<StateNow, work_waiters>> /\ \A w \in Workers : pc'[w] = pc[w]
        /\ migrated_waiters' # migrated_waiters => tpc = "wait"
    BY <2>1, FirstFrame
  <2>3. ~Before' => ~Before
    BY <2>1, FirstFrame DEF FirstSteps, Before
  <2>4. work_waiters \subseteq Workers
    BY DEF TypeOK, StateTypeOK
  <2> QED
    BY <2>1, <2>2, <2>3, <2>4 DEF LostInv, StateNow, NoWorker, Ended
<1>3. CASE Recovered
  <2>1. /\ UNCHANGED work_waiters /\ \A w \in Workers : pc'[w] = pc[w]
        /\ tpc = "recovering" /\ tpc' \in {"return", "is_processing"}
        /\ pc'[Test] = "idle"
    BY <1>3, RecoveredFrame
  <2>2. migrated_waiters' = {}
    <3>1. Control'
      BY <1>3, ControlRecovered
    <3> QED
      BY <2>1, <3>1 DEF Control
  <2>3. /\ state = "SHUTDOWN" \/ StopFailed
        /\ ~Before /\ ~Before'
    BY <2>1 DEF StateInv, Before
  <2>4. lost \subseteq lost' /\ (Ended => Ended')
    BY <1>3, <2>3
    DEF Recovered, Lose, ProgramErrorRecover, RecoverTransition, RecoverThrows, MoveTo,
        MoveBoth, StopFailed, Ended, stateVars
  <2>5. ASSUME NEW w \in work_waiters, state' = "PROGRESSING"
        PROVE  "silent_recovery" \in lost'
    <3>1. w \in Workers /\ pc[w] = "parked"
      BY <2>5 DEF LostInv, TypeOK, StateTypeOK
    <3> QED
      BY <1>3, <2>5, <3>1 DEF Recovered, Lose
  <2>6. work_waiters \subseteq Workers
    BY DEF TypeOK, StateTypeOK
  <2> QED
    BY <2>1, <2>2, <2>3, <2>4, <2>5, <2>6 DEF LostInv, NoWorker
<1>4. CASE InCall
  <2>1. CallStep /\ UNCHANGED <<tpc, value>> /\ lost \subseteq lost'
    BY <1>4, InCallSteps DEF InCall, Lose
  <2>2. migrated_waiters' = {}
    BY <2>1, CallNotifies
  <2>3. work_waiters \subseteq Workers
    BY DEF TypeOK, StateTypeOK
  \* The waiting worker, when the run starts or goes on.
  <2>4. \A w \in work_waiters' :
          /\ pc'[w] = "parked"
          /\ state' = "PROGRESSING" => lost' \cap {"late_park", "silent_recovery"} # {}
    <3>1. CASE tpc = "stop"
      <4>1. Before /\ UNCHANGED work_waiters
        BY <2>1, <3>1, CallFrame
        DEF Before, CallStep, AcquireState, AcquireIp, ResetCodestream,
            CodingInitialised, CodingStart, CodingSpawn, RestartResumes, At
      <4>2. work_waiters = {}
        BY <4>1, <2>3 DEF BeginInv, NoWorker, LostInv
      <4> QED
        BY <4>1, <4>2
    <3>2. CASE RestartResumes(Test)
      BY <3>2, OneIsNotified DEF RestartResumes
    <3>3. CASE tpc # "stop" /\ ~RestartResumes(Test)
      <4>1. state' = "PROGRESSING" => state = "PROGRESSING"
        BY <2>1, <3>3
        DEF CallStep, StopInTime, StopTooLate, StopTest, StopSuspend, AcquireIp,
            RecordError, ReportError, RestartFails, RestartError, StateMoved, EnterError,
            MoveTo, stateVars
      <4>2. UNCHANGED work_waiters /\ \A w \in Workers : pc'[w] = pc[w]
        <5>1. ~CodingSpawn(Test)
          BY <3>3 DEF CodingSpawn, At, Control, CallLabels
        <5> QED
          BY <2>1, <3>3, <5>1, CallFrame
      <4> QED
        BY <2>1, <2>3, <4>1, <4>2 DEF LostInv
    <3> QED
      BY <3>1, <3>2, <3>3
  \* The run that has no worker.
  <2>5. ~Before' /\ NoWorker' => Ended' \/ "late_stop" \in lost'
    <3>1. CASE CodingSpawn(Test)
      BY <3>1, CodestreamAssumption, TestAssumption
      DEF CodingSpawn, NoWorker, TypeOK, PcTypeOK, Threads
    <3>2. CASE ~CodingSpawn(Test)
      <4> SUFFICES ASSUME ~Before', NoWorker'
                   PROVE  Ended' \/ "late_stop" \in lost'
        OBVIOUS
      <4>1. tpc # "stop"
        BY <2>1, <3>2, TestAssumption
        DEF Before, CallStep, AcquireState, AcquireIp, ResetCodestream,
            CodingInitialised, CodingStart, Goto, TypeOK, PcTypeOK, Threads
      <4>2. ~Before /\ NoWorker
        BY <2>1, <3>2, <4>1, CallFrame DEF Before, NoWorker, CallStep
      <4>3. CASE "late_stop" \in lost
        BY <2>1, <4>3
      <4>4. CASE Ended
        <5>1. CASE StopSuspend(Test)
          <6>1. pc[Test] = "stop_suspend" /\ tpc = "is_suspend"
            BY <5>1 DEF StopSuspend, At, Control, CallLabels
          <6>2. state = "SHUTDOWN"
            BY <4>4, <6>1 DEF StateInv, Going, Ended
          <6> QED
            BY <1>4, <6>1, <6>2 DEF InCall, Lose
        <5>2. CASE RestartResumes(Test)
          <6>1. state = "SUSPEND"
            BY <5>2 DEF RestartResumes
          <6> QED
            BY <4>4, <6>1 DEF Ended
        <5>3. CASE ReportError(Test, "stop_state")
          <6>1. tpc = "is_suspend" /\ pc[Test] = "stop_state"
            BY <5>3 DEF ReportError, At, Control, CallLabels
          <6>2. state = "SHUTDOWN"
            BY <4>4, <6>1 DEF StateInv, Going, Ended
          <6> QED
            BY <5>3, <6>2 DEF ReportError, EnterError, Ended
        <5>4. CASE RestartFails(Test)
          <6>1. state = "SHUTDOWN"
            BY <5>4 DEF RestartFails, At, StateInv, Halted, Control, CallLabels
          <6> QED
            BY <5>4, <6>1 DEF RestartFails, EnterError, Ended
        <5>5. CASE /\ ~StopSuspend(Test) /\ ~RestartResumes(Test)
                   /\ ~ReportError(Test, "stop_state") /\ ~RestartFails(Test)
          BY <2>1, <4>1, <4>4, <5>5
          DEF CallStep, StopInTime, StopTooLate, StopTest, AcquireIp, RecordError,
              RestartError, StateMoved, Ended, stateVars
        <5> QED
          BY <5>1, <5>2, <5>3, <5>4, <5>5
      <4> QED
        BY <4>2, <4>3, <4>4 DEF LostInv
    <3> QED
      BY <3>1, <3>2
  <2> QED
    BY <2>2, <2>4, <2>5 DEF LostInv
<1>5. ASSUME NEW w \in Workers, TestWorker(w)
      PROVE  LostInv'
  <2>1. /\ UNCHANGED <<tpc, state_when_error_occur>> /\ pc'[Test] = pc[Test]
        /\ pc[w] # "none" /\ lost \subseteq lost'
        /\ ~Shutdown(w) => UNCHANGED <<state, migrated_waiters>>
        /\ ~Shutdown(w) \/ state' = "SHUTDOWN"
    BY <1>5, WorkerKeeps
  <2>2. /\ pc \in [Threads -> ClientLabels \cup WorkerLabels] /\ w \in Threads
        /\ work_waiters \subseteq Workers /\ ~Before /\ ~Before'
    BY <2>1 DEF TypeOK, PcTypeOK, StateTypeOK, Threads, BeginInv, NoWorker, Before
  \* Nobody else is alive, so nobody else waits.
  <2>3. work_waiters \subseteq {w}
    BY <2>1, <2>2 DEF LostInv, DataInv, AtMostOneWorker, Live
  <2>4. migrated_waiters' # {} /\ state' = "SHUTDOWN" => "late_wait" \in lost'
    <3>1. CASE Shutdown(w)
      BY <3>1, MainIsNotified DEF Shutdown, MoveTo
    <3>2. CASE ~Shutdown(w)
      BY <2>1, <3>2 DEF LostInv
    <3> QED
      BY <3>1, <3>2
  <2>5. NoWorker' => Ended'
    <3>1. CASE WorkerExit(w)
      BY <3>1 DEF WorkerExit, Ended, stateVars
    <3>2. CASE ~WorkerExit(w)
      <4>1. pc'[w] # "none"
        BY <1>5, <2>1, <2>2, <3>2
        DEF TestWorker, RunFunction, RunWorker, WorkerControl, WorkerCheck, WorkerPark,
            WorkerUnparked, AcquireIp, FetchProcedure, FetchThrows, FetchEnd, Shutdown,
            SaveResult, Execute, Goto
      <4> QED
        BY <4>1 DEF NoWorker
    <3> QED
      BY <3>1, <3>2
  <2>6. \A v \in work_waiters' :
          /\ pc'[v] = "parked"
          /\ state' = "PROGRESSING" => lost' \cap {"late_park", "silent_recovery"} # {}
    <3>1. CASE WorkerPark(w)
      <4>1. work_waiters' = {w} /\ pc'[w] = "parked" /\ UNCHANGED state /\ pc[w] = "park"
        BY <2>2, <2>3, <3>1 DEF WorkerPark, Goto, stateVars, At
      <4>2. RunWorker(w)
        BY <1>5, <4>1 DEF TestWorker, RunFunction, Execute, At
      <4>3. state = "PROGRESSING" => "late_park" \in lost'
        BY <4>1, <4>2 DEF RunWorker, Lose
      <4> QED
        BY <4>1, <4>3
    <3>2. CASE ~WorkerPark(w)
      <4>1. UNCHANGED work_waiters
        BY <1>5, <3>2
        DEF TestWorker, RunFunction, RunWorker, WorkerControl, WorkerCheck, WorkerExit,
            WorkerUnparked, AcquireIp, FetchProcedure, FetchThrows, FetchEnd, Shutdown,
            SaveResult, Execute, quietVars
      <4>2. work_waiters = {}
        <5>1. w \notin work_waiters
          BY <1>5, <3>2
          DEF TestWorker, RunFunction, RunWorker, WorkerControl, WorkerCheck, WorkerExit,
              WorkerUnparked, AcquireIp, FetchProcedure, FetchThrows, FetchEnd, Shutdown,
              SaveResult, Execute, At, LostInv
        <5> QED
          BY <5>1, <2>3
      <4> QED
        BY <4>1, <4>2
    <3> QED
      BY <3>1, <3>2
  <2> QED
    BY <2>4, <2>5, <2>6 DEF LostInv
<1>6. CASE Wakes \/ UNCHANGED allVars
  BY <1>6, WakesKeep DEF LostInv, StateNow, Before, NoWorker, Ended
<1> QED
  BY <1>1, <1>2, <1>3, <1>4, <1>5, <1>6 DEF TestNext, TestStep, QuietSteps

-----------------------------------------------------------------------------
(* The theorems.                                                           *)

TestInv ==
  /\ TypeOK /\ LockDiscipline
  /\ Control /\ BeginInv /\ DataInv /\ EndInv /\ StateInv /\ PrintInv /\ LostInv

LEMMA TestInvariant == TestSpec => []TestInv
<1>1. TestInit => TestInv
  <2>1. TestInit => ClientsInit
    BY DEF TestInit
  <2> QED
    BY <2>1, TypeInit, LockInit, ControlInit, TestInvInit DEF TestInv
<1>2. TestInv => Vacated
  BY DEF TestInv, Vacated, Gone, StateInv, Ending, EndInv, Ended, Finished, Before
<1>3. TestInv /\ [TestNext]_allVars => TestInv'
  BY <1>2, TestTypes, ControlNext, BeginNext, DataNext, EndNext, StateNext, PrintNext, LostNext
  DEF TestInv
<1> QED
  BY <1>1, <1>3, PTL DEF TestSpec

\* When the test program prints its last value and destroys the engine and the int, no
\* worker can apply a function, publish a result or look at the chain any more, for
\* every interleaving of the stop, the restart or the recovery with the worker
\* (codestream_abstract_test.cc:62-67).
THEOREM NothingWorksAtTheEnd == TestSpec => []NoWorkAfterEnd
<1>1. TestInv => NoWorkAfterEnd
  BY DEF TestInv, NoWorkAfterEnd, StateInv, Ending, EndInv, Ended, Finished, Before
<1> QED
  BY <1>1, TestInvariant, PTL

\* If main() of the test program returns 0 it has printed the int with every function
\* applied once and in order, and SHUTDOWN (codestream_abstract_test.cc:62-67).
THEOREM PrintedValueIsWhole == TestSpec => []PrintsWholeChain
<1>1. TestInv => PrintsWholeChain
  <2>1. Prefix(4) = <<"func1", "func2", "func3">>
    BY DEF Prefix
  <2> QED
    BY <2>1 DEF TestInv, PrintsWholeChain, PrintInv
<1> QED
  BY <1>1, TestInvariant, PTL

\* The test program waits for a notification that nobody is left to give only after it
\* has lost one of the five races: no other order of its calls, the worker's sections,
\* notifications and spurious wake-ups loses a wake-up
\* (codestream_abstract.cc:240-242, 336-339, 529-535).
THEOREM OnlyRacesHang == TestSpec => []HangsOnlyByRace
<1>1. TestInv => HangsOnlyByRace
  <2> SUFFICES ASSUME TestInv, Stuck
               PROVE  lost # {}
    BY DEF HangsOnlyByRace
  <2>1. tpc = "woken" /\ migrated_waiters # {} /\ ~Before
    BY DEF TestInv, Stuck, Control, CallLabels, Before
  <2>2. CASE RestartFailed
    BY <2>2 DEF RestartFailed
  <2>3. CASE state = "SHUTDOWN"
    BY <2>1, <2>3 DEF TestInv, LostInv
  <2>4. CASE state = "PROGRESSING"
    <3>1. CASE NoWorker
      BY <2>1, <2>4, <3>1 DEF TestInv, LostInv, Ended
    <3>2. CASE ~NoWorker
      BY <2>4, <3>2 DEF TestInv, LostInv, NoWorker, Stuck
    <3> QED
      BY <3>1, <3>2
  <2> QED
    BY <2>1, <2>2, <2>3, <2>4 DEF TestInv, StateInv, Going
<1> QED
  BY <1>1, TestInvariant, PTL

\* The test program begins its run over no living worker: it is a client of the kind
\* RunAppliesWholeChain speaks of (codestream_abstract_test.cc:25).
THEOREM TestBeginsAlone == TestSpec => []NoOverlap
<1>1. TestInv => NoOverlap
  BY TestAssumption
  DEF TestInv, NoOverlap, Live, Control, CallLabels, BeginInv, Before, NoWorker
<1> QED
  BY <1>1, TestInvariant, PTL

=============================================================================
