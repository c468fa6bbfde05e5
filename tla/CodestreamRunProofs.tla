-------------------------- MODULE CodestreamRunProofs --------------------------
(***************************************************************************)
(* What a run does to the data, for every number of clients, workers and   *)
(* calls, as long as the clients install at the end and begin no run over  *)
(* a living worker: it applies the whole chain, and implements ChainRun.   *)
(***************************************************************************)
EXTENDS ClientsProperties, CodestreamSafetyProofs

-----------------------------------------------------------------------------
(* A result that lists the chain in order (InOrder).                       *)

\* Nothing is applied before the first slot.
LEMMA InOrderNothing ==
  ASSUME NEW chain
  PROVE  InOrder(<<>>, chain, 0)
<1> DEFINE at == [i \in 1..0 |-> i]
<1>1. Len(<<>>) = 0 /\ 1..0 = {}
  OBVIOUS
<1>2. at \in [1..Len(<<>>) -> 1..0]
  BY <1>1
<1>3. /\ \A i, j \in 1..Len(<<>>) : i < j => at[i] < at[j]
      /\ {at[i] : i \in 1..Len(<<>>)} = {k \in 1..0 : chain[k] # NoProc}
      /\ \A i \in 1..Len(<<>>) : <<>>[i] = chain[at[i]]
  BY <1>1
<1> QED
  BY <1>2, <1>3 DEF InOrder

\* An empty slot adds nothing.
LEMMA InOrderGap ==
  ASSUME NEW r \in Chains, NEW chain, NEW n \in Nat,
         chain[n + 1] = NoProc, InOrder(r, chain, n)
  PROVE  InOrder(r, chain, n + 1)
<1>1. PICK at \in [1..Len(r) -> 1..n] :
        /\ \A i, j \in 1..Len(r) : i < j => at[i] < at[j]
        /\ {at[i] : i \in 1..Len(r)} = {k \in 1..n : chain[k] # NoProc}
        /\ \A i \in 1..Len(r) : r[i] = chain[at[i]]
  BY DEF InOrder
<1>2. at \in [1..Len(r) -> 1..(n + 1)]
  OBVIOUS
<1>3. {k \in 1..(n + 1) : chain[k] # NoProc} = {k \in 1..n : chain[k] # NoProc}
  OBVIOUS
<1> QED
  BY <1>1, <1>2, <1>3 DEF InOrder

\* The procedure of the next slot extends the list.
LEMMA InOrderApply ==
  ASSUME NEW r \in Chains, NEW chain, NEW n \in Nat, NEW p \in Procs,
         chain[n + 1] = p, InOrder(r, chain, n)
  PROVE  InOrder(Append(r, p), chain, n + 1)
<1> DEFINE m == Len(r)
<1>1. PICK at \in [1..m -> 1..n] :
        /\ \A i, j \in 1..m : i < j => at[i] < at[j]
        /\ {at[i] : i \in 1..m} = {k \in 1..n : chain[k] # NoProc}
        /\ \A i \in 1..m : r[i] = chain[at[i]]
  BY DEF InOrder
<1>2. /\ m \in Nat /\ Len(Append(r, p)) = m + 1
      /\ \A i \in 1..m : Append(r, p)[i] = r[i]
      /\ Append(r, p)[m + 1] = p
  BY DEF Chains
<1> DEFINE new == [i \in 1..(m + 1) |-> IF i = m + 1 THEN n + 1 ELSE at[i]]
<1> HIDE DEF m
<1>3. new \in [1..(m + 1) -> 1..(n + 1)]
  BY <1>2
<1>4. \A i \in 1..m : new[i] = at[i] /\ at[i] \in 1..n
  BY <1>2
<1>5. new[m + 1] = n + 1
  BY <1>2
<1> HIDE DEF new
<1>6. ASSUME NEW i \in 1..(m + 1), NEW j \in 1..(m + 1), i < j
      PROVE  new[i] < new[j]
  <2>1. i \in 1..m
    BY <1>2, <1>6
  <2>2. CASE j = m + 1
    BY <2>1, <2>2, <1>4, <1>5
  <2>3. CASE j \in 1..m
    BY <2>1, <2>3, <1>1, <1>4, <1>6
  <2> QED
    BY <2>2, <2>3, <1>2
<1>7. \A i \in 1..(m + 1) : Append(r, p)[i] = chain[new[i]]
  BY <1>1, <1>2, <1>4, <1>5
<1>8. {new[i] : i \in 1..(m + 1)} = {k \in 1..(n + 1) : chain[k] # NoProc}
  <2>1. ASSUME NEW i \in 1..(m + 1)
        PROVE  new[i] \in {k \in 1..(n + 1) : chain[k] # NoProc}
    <3>1. CASE i = m + 1
      BY <3>1, <1>5, CodestreamAssumption
    <3>2. CASE i \in 1..m
      BY <3>2, <1>1, <1>4
    <3> QED
      BY <3>1, <3>2, <1>2
  <2>2. ASSUME NEW k \in 1..(n + 1), chain[k] # NoProc
        PROVE  \E i \in 1..(m + 1) : new[i] = k
    <3>1. CASE k = n + 1
      BY <3>1, <1>2, <1>5
    <3>2. CASE k \in 1..n
      <4>1. k \in {at[i] : i \in 1..m}
        BY <3>2, <2>2, <1>1
      <4> QED
        BY <4>1, <1>2, <1>4
    <3> QED
      BY <3>1, <3>2
  <2> QED
    BY <2>1, <2>2
<1> HIDE DEF new
<1>9. Len(Append(r, p)) = m + 1 /\ new \in [1..(m + 1) -> 1..(n + 1)]
  BY <1>2, <1>3
<1> QED
  BY <1>6, <1>7, <1>8, <1>9 DEF InOrder

\* What is installed behind the first n slots does not matter to them.
LEMMA InOrderInstall ==
  ASSUME NEW r, NEW chain \in Chains, NEW p, NEW n \in 0..Len(chain),
         InOrder(r, chain, n)
  PROVE  InOrder(r, Append(chain, p), n)
<1>1. PICK at \in [1..Len(r) -> 1..n] :
        /\ \A i, j \in 1..Len(r) : i < j => at[i] < at[j]
        /\ {at[i] : i \in 1..Len(r)} = {k \in 1..n : chain[k] # NoProc}
        /\ \A i \in 1..Len(r) : r[i] = chain[at[i]]
  BY DEF InOrder
<1>2. \A k \in 1..n : Append(chain, p)[k] = chain[k]
  BY DEF Chains
<1>3. {k \in 1..n : Append(chain, p)[k] # NoProc} = {k \in 1..n : chain[k] # NoProc}
  BY <1>2
<1>4. \A i \in 1..Len(r) : r[i] = Append(chain, p)[at[i]]
  BY <1>1, <1>2
<1> QED
  BY <1>1, <1>3, <1>4 DEF InOrder

\* An empty list leaves no procedure out, and a list that is not empty found one.
LEMMA InOrderEmpty ==
  ASSUME NEW r \in Chains, NEW chain, NEW n \in Nat, InOrder(r, chain, n)
  PROVE  r = <<>> <=> \A k \in 1..n : chain[k] = NoProc
<1>1. PICK at \in [1..Len(r) -> 1..n] :
        {at[i] : i \in 1..Len(r)} = {k \in 1..n : chain[k] # NoProc}
  BY DEF InOrder
<1>2. Len(r) \in Nat /\ (r = <<>> <=> Len(r) = 0)
  BY EmptySeq DEF Chains
<1>3. ASSUME r = <<>>, NEW k \in 1..n
      PROVE  chain[k] = NoProc
  BY <1>1, <1>2, <1>3
<1>4. ASSUME r # <<>>
      PROVE  \E k \in 1..n : chain[k] # NoProc
  <2>1. 1 \in 1..Len(r)
    BY <1>2, <1>4
  <2>2. at[1] \in {k \in 1..n : chain[k] # NoProc}
    BY <1>1, <2>1
  <2> QED
    BY <2>2
<1> QED
  BY <1>3, <1>4

-----------------------------------------------------------------------------
(* The result.                                                             *)

\* The data a worker has is the chain up to some slot, and what it has saved of it.
Applied(w, n) == InOrder(ret[w], code_procedures, n)

Published(w) == ret[w] # <<>> => last_op_ret = ret[w]

Progress(w) ==
  \/ pc[w] = "none" /\ ret[w] = <<>>
  \/ /\ pc[w] \in {"check", "park", "parked", "fetch_ip", "fetch_foe"}
     /\ Applied(w, ip) /\ Published(w)
  \/ /\ pc[w] = "exec" /\ ip # 0 /\ f[w] = code_procedures[ip]
     /\ Applied(w, ip - 1) /\ Published(w)
  \/ pc[w] = "save" /\ Applied(w, ip)
  \/ /\ pc[w] = "shutdown" /\ ip = Len(code_procedures)
     /\ Applied(w, ip) /\ Published(w)

\* The index is where the only worker is, and every run starts from slot 0.
IndexIsProgress ==
  /\ last_ip_start = 0 /\ ~flag_opdirection /\ ip \in 0..Len(code_procedures)
  /\ \A c \in Clients :
       pc[c] \in {"coding_init", "coding_start", "coding_spawn"} => ip = 0

\* An old result is in the way of a run that applies nothing: there is none.
SomethingInstalled ==
  last_op_ret # <<>> =>
    \E i \in 1..Len(code_procedures) : code_procedures[i] # NoProc

WholeInv ==
  /\ IndexIsProgress
  /\ SomethingInstalled
  /\ AtMostOneWorker
  /\ \A w \in Workers : Progress(w)

LEMMA WholeInit == ClientsInit => WholeInv
<1> SUFFICES ASSUME NEW chain \in InitialChains, InitWith(chain)
             PROVE  WholeInv
  BY DEF ClientsInit
<1>1. Len(code_procedures) \in Nat
  BY ClientsAssumption DEF InitWith, Chains
<1>2. \A w \in Workers : pc[w] = "none" /\ ret[w] = <<>>
  BY CodestreamAssumption DEF InitWith, Threads
<1> QED
  BY <1>1, <1>2
     DEF InitWith, WholeInv, IndexIsProgress, SomethingInstalled, AtMostOneWorker,
         Live, Progress, Threads

\* A caller's step that leaves the chain and the workers alone.
LEMMA WholeKept ==
  ASSUME WholeInv, UNCHANGED <<chainVars, flag_opdirection, localVars>>,
         \A w \in Workers : pc'[w] = pc[w],
         \A c \in Clients :
           pc'[c] \in {"coding_init", "coding_start", "coding_spawn"}
             => pc[c] \in {"coding_init", "coding_start", "coding_spawn"}
  PROVE  WholeInv'
BY DEF WholeInv, IndexIsProgress, SomethingInstalled, AtMostOneWorker, Live,
       Progress, Applied, Published, chainVars, localVars

\* Of a call's steps only the reset moves the index, when no worker is alive, and
\* only the spawn touches a worker.
LEMMA WholeClientStep ==
  ASSUME TypeOK, NoOverlap, WholeInv, NEW c \in Clients, ClientStep(c)
  PROVE  WholeInv'
<1> USE CodestreamAssumption DEF TypeOK, PcTypeOK, At, Goto, Threads,
        chainVars, flagVars, quietVars, localVars
<1>1. CASE InstallFlag(c)
  BY <1>1, WholeKept DEF InstallFlag
<1>2. CASE \/ RecordError(c, "uninstall_foe", "UNINSTALLPROCFAILED", "uninstall_state")
           \/ RecordError(c, "stop_foe", "SUSPENDFAILED", "stop_state")
           \/ ReportError(c, "uninstall_state") \/ ReportError(c, "stop_state")
           \/ NotInitialised(c, "coding_init") \/ NoInitState(c)
  BY <1>2, WholeKept DEF RecordError, ReportError, NotInitialised, NoInitState
<1>3. CASE \/ AcquireState(c, "reset_state", "reset_ip")
           \/ AcquireIp(c, "reset_ip", "reset_foe")
           \/ AcquireIp(c, "recover_ip", "recover_foe")
  BY <1>3, WholeKept DEF AcquireState, AcquireIp
<1>4. CASE ResetCodestream(c)
  <2>1. \A w \in Workers : pc[w] = "none" /\ pc'[w] = "none"
    BY <1>4 DEF ResetCodestream, NoOverlap, Live
  <2>2. /\ UNCHANGED <<code_procedures, last_ip_start, last_op_ret,
                       flag_opdirection, f, ret>>
        /\ ip' = 0
    BY <1>4 DEF ResetCodestream, WholeInv, IndexIsProgress
  <2>3. Len(code_procedures) \in Nat
    BY DEF ChainTypeOK, Chains
  <2> QED
    BY <2>1, <2>2, <2>3
    DEF WholeInv, IndexIsProgress, SomethingInstalled, AtMostOneWorker, Live, Progress
<1>5. CASE CodingInitialised(c) \/ CodingStart(c)
  BY <1>5, WholeKept DEF CodingInitialised, CodingStart
<1>6. CASE CodingSpawn(c)
  <2>1. PICK w \in Workers : /\ pc[w] = "none"
                             /\ pc' = [pc EXCEPT ![c] = "idle", ![w] = "check"]
    BY <1>6 DEF CodingSpawn
  <2>2. \A v \in Workers : pc[v] = "none"
    BY <1>6 DEF CodingSpawn, NoOverlap, Live
  <2>3. pc'[w] = "check" /\ \A v \in Workers \ {w} : pc'[v] = "none"
    BY <2>1, <2>2
  <2>4. UNCHANGED <<chainVars, flag_opdirection, localVars>>
    BY <1>6 DEF CodingSpawn
  <2>5. ip = 0 /\ ret[w] = <<>>
    BY <1>6, <2>1 DEF CodingSpawn, WholeInv, IndexIsProgress, Progress
  <2>6. InOrder(<<>>, code_procedures, 0)
    BY InOrderNothing
  <2>7. Progress(w)'
    BY <2>3, <2>4, <2>5, <2>6 DEF Progress, Applied, Published
  <2>8. \A v \in Workers \ {w} : Progress(v)'
    BY <2>2, <2>3, <2>4 DEF WholeInv, Progress
  <2>9. IndexIsProgress' /\ SomethingInstalled'
    BY <2>1, <2>4, <2>5 DEF WholeInv, IndexIsProgress, SomethingInstalled
  <2> QED
    BY <2>3, <2>7, <2>8, <2>9 DEF WholeInv, AtMostOneWorker, Live
<1>7. CASE StopInTime(c) \/ StopTooLate(c) \/ StopTest(c) \/ StopSuspend(c)
  BY <1>7, WholeKept DEF StopInTime, StopTooLate, StopTest, StopSuspend, AcquireIp
<1>8. CASE RestartResumes(c) \/ RestartFails(c) \/ RestartError(c) \/ StateMoved(c)
  BY <1>8, WholeKept DEF RestartResumes, RestartFails, RestartError, StateMoved
<1>9. CASE ProgramErrorRecover(c)
  BY <1>9, WholeKept DEF ProgramErrorRecover
<1> QED
  BY <1>1, <1>2, <1>3, <1>4, <1>5, <1>6, <1>7, <1>8, <1>9
  DEF ClientStep, ClientControl

\* A step of the only worker moves the index and its data together.
LEMMA WholeWorkerStep ==
  ASSUME TypeOK, IndexInv, NoOverlap, WholeInv, NEW w \in Workers, WorkerStep(w)
  PROVE  WholeInv'
<1> USE CodestreamAssumption DEF At, chainVars, flagVars, quietVars, localVars
<1>1. pc[w] # "none"
  BY DEF WorkerStep, WorkerControl, WorkerCheck, WorkerExit, WorkerPark,
         WorkerUnparked, AcquireIp, FetchProcedure, FetchThrows, FetchEnd,
         Shutdown, SaveResult, Execute
<1>2. \A v \in Workers \ {w} : pc[v] = "none" /\ ret[v] = <<>>
  BY <1>1 DEF WholeInv, AtMostOneWorker, Live, Progress
<1>3. \A c \in Clients : pc[c] \notin {"coding_init", "coding_start", "coding_spawn"}
  BY <1>1 DEF NoOverlap, Live
<1>4. pc \in [Threads -> ClientLabels \cup WorkerLabels] /\ w \in Threads
  BY DEF TypeOK, PcTypeOK, Threads
<1>5. /\ f \in [Workers -> Procs \cup {NoProc}] /\ ret \in [Workers -> Chains]
      /\ Len(code_procedures) \in Nat
      /\ pc[w] = "exec" => f[w] \in Procs
  BY DEF TypeOK, ChainTypeOK, LocalTypeOK, Chains
\* It is enough to look at the worker itself, and at the index.
<1>6. ASSUME NEW l, Goto(w, l),
             \A v \in Workers \ {w} : ret'[v] = ret[v],
             UNCHANGED <<code_procedures, last_ip_start, flag_opdirection>>,
             ip' \in 0..Len(code_procedures), SomethingInstalled', Progress(w)'
      PROVE  WholeInv'
  <2>1. /\ \A v \in Workers \ {w} : pc'[v] = "none" /\ ret'[v] = <<>>
        /\ \A c \in Clients : pc'[c] = pc[c]
    BY <1>2, <1>4, <1>6 DEF Goto, Threads
  <2>2. \A v \in Workers : Progress(v)'
    BY <2>1, <1>6 DEF Progress
  <2>3. AtMostOneWorker'
    BY <2>1 DEF AtMostOneWorker, Live
  <2>4. IndexIsProgress'
    BY <2>1, <1>3, <1>6 DEF WholeInv, IndexIsProgress
  <2> QED
    BY <2>2, <2>3, <2>4, <1>6 DEF WholeInv
<1>7. /\ IndexIsProgress /\ SomethingInstalled /\ Progress(w)
      /\ ip \in 0..Len(code_procedures)
  BY DEF WholeInv, IndexIsProgress
<1>8. CASE WorkerCheck(w)
  <2> DEFINE to == IF state = "PROGRESSING" THEN "fetch_ip" ELSE "park"
  <2>1. Goto(w, to) /\ UNCHANGED <<chainVars, flag_opdirection, ret>>
    BY <1>8 DEF WorkerCheck
  <2>2. SomethingInstalled' /\ Progress(w)'
    BY <2>1, <1>4, <1>7, <1>8
    DEF WorkerCheck, Goto, SomethingInstalled, Progress, Applied, Published
  <2> QED
    BY <2>1, <2>2, <1>6, <1>7
<1>9. CASE WorkerExit(w)
  <2>1. /\ Goto(w, "none") /\ UNCHANGED <<chainVars, flag_opdirection>>
        /\ ret' = [ret EXCEPT ![w] = <<>>]
    BY <1>9 DEF WorkerExit
  <2>2. SomethingInstalled' /\ Progress(w)' /\ \A v \in Workers \ {w} : ret'[v] = ret[v]
    BY <2>1, <1>4, <1>5, <1>7 DEF Goto, SomethingInstalled, Progress
  <2> QED
    BY <2>1, <2>2, <1>6, <1>7
<1>10. CASE WorkerPark(w)
  <2>1. Goto(w, "parked") /\ UNCHANGED <<chainVars, flag_opdirection, ret>>
    BY <1>10 DEF WorkerPark
  <2>2. SomethingInstalled' /\ Progress(w)'
    BY <2>1, <1>4, <1>7, <1>10
    DEF WorkerPark, Goto, SomethingInstalled, Progress, Applied, Published
  <2> QED
    BY <2>1, <2>2, <1>6, <1>7
<1>11. CASE WorkerUnparked(w)
  <2>1. Goto(w, "check") /\ UNCHANGED <<chainVars, flag_opdirection, ret>>
    BY <1>11 DEF WorkerUnparked
  <2>2. SomethingInstalled' /\ Progress(w)'
    BY <2>1, <1>4, <1>7, <1>11
    DEF WorkerUnparked, Goto, SomethingInstalled, Progress, Applied, Published
  <2> QED
    BY <2>1, <2>2, <1>6, <1>7
<1>12. CASE AcquireIp(w, "fetch_ip", "fetch_foe")
  <2>1. Goto(w, "fetch_foe") /\ UNCHANGED <<chainVars, flag_opdirection, ret>>
    BY <1>12 DEF AcquireIp
  <2>2. SomethingInstalled' /\ Progress(w)'
    BY <2>1, <1>4, <1>7, <1>12
    DEF AcquireIp, Goto, SomethingInstalled, Progress, Applied, Published
  <2> QED
    BY <2>1, <2>2, <1>6, <1>7
<1>13. CASE FetchProcedure(w)
  <2> DEFINE proc == code_procedures[ip + 1]
             to == IF proc = NoProc THEN "check" ELSE "exec"
  <2>1. /\ pc[w] = "fetch_foe" /\ InChain
        /\ f' = [f EXCEPT ![w] = proc]
        /\ ip' = IF flag_opdirection THEN ip - 1 ELSE ip + 1
        /\ Goto(w, to)
        /\ UNCHANGED <<code_procedures, last_ip_start, last_op_ret,
                       flag_opdirection, ret>>
    BY <1>13 DEF FetchProcedure
  <2>2. ip' = ip + 1 /\ ip' \in 0..Len(code_procedures)
    BY <2>1, <1>5, <1>7 DEF IndexIsProgress, InChain
  <2>3. ip \in Nat /\ Applied(w, ip) /\ Published(w)
    BY <2>1, <1>7 DEF Progress
  <2>4. f'[w] = proc /\ pc'[w] = to
    BY <2>1, <1>4, <1>5 DEF Goto
  <2>5. Published(w)'
    BY <2>1, <2>3 DEF Published
  <2>6. Progress(w)'
    <3>1. CASE proc = NoProc
      <4>1. InOrder(ret[w], code_procedures, ip + 1)
        BY <3>1, <2>3, <1>5, InOrderGap DEF Applied
      <4> QED
        BY <4>1, <3>1, <2>1, <2>2, <2>4, <2>5 DEF Progress, Applied
    <3>2. CASE proc # NoProc
      <4>1. Applied(w, ip - 1)'
        BY <2>1, <2>2, <2>3 DEF Applied
      <4> QED
        BY <4>1, <3>2, <2>1, <2>2, <2>3, <2>4, <2>5 DEF Progress
    <3> QED
      BY <3>1, <3>2
  <2>7. SomethingInstalled'
    BY <2>1, <1>7 DEF SomethingInstalled
  <2> QED
    BY <2>1, <2>2, <2>6, <2>7, <1>6
<1>14. CASE FetchThrows(w)
  BY <1>14, WholeKept DEF FetchThrows
<1>15. CASE FetchEnd(w)
  <2>1. /\ pc[w] = "fetch_foe" /\ ~MoreToDo /\ Goto(w, "shutdown")
        /\ UNCHANGED <<chainVars, flag_opdirection, ret>>
    BY <1>15 DEF FetchEnd
  <2>2. ip = Len(code_procedures)
    BY <2>1, <1>5, <1>7 DEF MoreToDo, PastEnd, IndexIsProgress, IndexInv
  <2>3. SomethingInstalled' /\ Progress(w)'
    BY <2>1, <2>2, <1>4, <1>7
    DEF Goto, SomethingInstalled, Progress, Applied, Published
  <2> QED
    BY <2>1, <2>3, <1>6, <1>7
<1>16. CASE Shutdown(w)
  <2>1. /\ pc[w] = "shutdown" /\ Goto(w, "check")
        /\ UNCHANGED <<chainVars, flag_opdirection, ret>>
    BY <1>16 DEF Shutdown
  <2>2. SomethingInstalled' /\ Progress(w)'
    BY <2>1, <1>4, <1>7 DEF Goto, SomethingInstalled, Progress, Applied, Published
  <2> QED
    BY <2>1, <2>2, <1>6, <1>7
<1>17. CASE SaveResult(w)
  <2>1. /\ pc[w] = "save" /\ Goto(w, "check") /\ last_op_ret' = ret[w]
        /\ UNCHANGED <<code_procedures, ip, last_ip_start, flag_opdirection, ret>>
    BY <1>17 DEF SaveResult
  <2>2. ip \in Nat /\ InOrder(ret[w], code_procedures, ip)
    BY <2>1, <1>7 DEF Progress, Applied
  <2>3. SomethingInstalled'
    <3>1. last_op_ret' # <<>> => \E k \in 1..ip : code_procedures[k] # NoProc
      BY <2>1, <2>2, <1>5, InOrderEmpty
    <3> QED
      BY <3>1, <2>1, <1>7 DEF SomethingInstalled
  <2>4. Progress(w)'
    BY <2>1, <2>2, <1>4 DEF Goto, Progress, Applied, Published
  <2> QED
    BY <2>1, <2>3, <2>4, <1>6, <1>7
<1>18. CASE Execute(w)
  <2>1. /\ pc[w] = "exec" /\ Goto(w, "save") /\ ret' = [ret EXCEPT ![w] = Append(@, f[w])]
        /\ UNCHANGED <<chainVars, flag_opdirection>>
    BY <1>18 DEF Execute
  <2>2. /\ ip - 1 \in Nat /\ (ip - 1) + 1 = ip /\ f[w] \in Procs
        /\ code_procedures[ip] = f[w]
        /\ InOrder(ret[w], code_procedures, ip - 1)
    BY <2>1, <1>5, <1>7 DEF Progress, Applied
  <2>3. InOrder(Append(ret[w], f[w]), code_procedures, ip)
    <3> DEFINE n == ip - 1
    <3>1. n \in Nat /\ code_procedures[n + 1] = f[w] /\ InOrder(ret[w], code_procedures, n)
      BY <2>2
    <3>2. InOrder(Append(ret[w], f[w]), code_procedures, n + 1)
      <4> HIDE DEF n
      <4> QED
        BY <3>1, <2>2, <1>5, InOrderApply
    <3> QED
      BY <3>2, <2>2
  <2>4. /\ ret'[w] = Append(ret[w], f[w])
        /\ \A v \in Workers \ {w} : ret'[v] = ret[v]
    BY <2>1, <1>5
  <2>5. SomethingInstalled' /\ Progress(w)'
    BY <2>1, <2>3, <2>4, <1>4, <1>7 DEF Goto, SomethingInstalled, Progress, Applied
  <2> QED
    BY <2>1, <2>4, <2>5, <1>6, <1>7
<1> QED
  BY <1>8, <1>9, <1>10, <1>11, <1>12, <1>13, <1>14, <1>15, <1>16, <1>17, <1>18
  DEF WorkerStep, WorkerControl

\* A procedure that is appended waits behind the index; at the end of a run, where
\* the worker must have seen every slot, _ip_mutex keeps installs out.
LEMMA WholeInstall ==
  ASSUME TypeOK, LockDiscipline, WholeInv, NEW c \in Clients,
         NEW p \in Procs \cup {NoProc}, InstallAppend(c, p)
  PROVE  WholeInv'
<1>1. /\ code_procedures' = Append(code_procedures, p)
      /\ UNCHANGED <<ip, last_ip_start, last_op_ret, flag_opdirection, f, ret>>
      /\ Goto(c, "install_flag") /\ Free(ip_mutex)
  BY DEF InstallAppend, quietVars, flagVars, localVars
<1>2. /\ \A w \in Workers : pc'[w] = pc[w]
      /\ \A d \in Clients :
           pc'[d] \in {"coding_init", "coding_start", "coding_spawn"} => pc'[d] = pc[d]
  BY <1>1, CodestreamAssumption DEF TypeOK, PcTypeOK, Goto, Threads
<1>3. code_procedures \in Chains /\ Len(code_procedures) \in Nat
  BY DEF TypeOK, ChainTypeOK, Chains
<1>4. /\ Len(code_procedures') = Len(code_procedures) + 1
      /\ \A i \in 1..Len(code_procedures) : code_procedures'[i] = code_procedures[i]
  BY <1>1, <1>3 DEF Chains
<1>5. \A w \in Workers : pc[w] # "shutdown"
  BY <1>1, CodestreamAssumption DEF LockDiscipline, Free, IpHeldAt, Threads
<1>6. IndexIsProgress'
  BY <1>1, <1>2, <1>3, <1>4 DEF WholeInv, IndexIsProgress
<1>7. SomethingInstalled'
  BY <1>1, <1>3, <1>4 DEF WholeInv, SomethingInstalled
<1>8. AtMostOneWorker'
  BY <1>2 DEF WholeInv, AtMostOneWorker, Live
<1>9. ASSUME NEW w \in Workers
      PROVE  Progress(w)'
  <2>1. ip \in 0..Len(code_procedures) /\ Progress(w)
    BY DEF WholeInv, IndexIsProgress
  <2>2. \A n \in 0..Len(code_procedures) : Applied(w, n) => Applied(w, n)'
    BY <1>1, <1>3, InOrderInstall DEF Applied
  <2>3. Published(w) => Published(w)'
    BY <1>1 DEF Published
  <2>4. CASE pc[w] = "exec"
    <3>1. ip - 1 \in 0..Len(code_procedures) /\ ip \in 1..Len(code_procedures)
      BY <2>1, <2>4, <1>3 DEF Progress
    <3>2. Applied(w, ip - 1)' /\ Published(w)' /\ f'[w] = code_procedures'[ip']
      <4>1. Applied(w, ip - 1) /\ Published(w) /\ f[w] = code_procedures[ip]
        BY <2>1, <2>4 DEF Progress
      <4>2. InOrder(ret[w], code_procedures', ip - 1)
        BY <4>1, <3>1, <1>1, <1>3, InOrderInstall DEF Applied
      <4> QED
        BY <4>1, <4>2, <3>1, <2>3, <1>1, <1>4 DEF Applied
    <3> QED
      BY <3>1, <3>2, <2>4, <1>1, <1>2 DEF Progress
  <2>5. CASE pc[w] # "exec"
    <3>1. Applied(w, ip) => Applied(w, ip)'
      BY <2>1, <1>1, <1>3, InOrderInstall DEF Applied
    <3> QED
      BY <3>1, <2>1, <2>3, <2>5, <1>1, <1>2, <1>5 DEF Progress
  <2> QED
    BY <2>4, <2>5
<1> QED
  BY <1>6, <1>7, <1>8, <1>9 DEF WholeInv

\* What the clients of the theorem do: no insert, no uninstall, no setStartPoint, no
\* change of direction.
AppendOnlyOps == {"install", "coding", "stop", "restart", "recover", "wait"}

LEMMA WholeNext ==
  ASSUME Ops \subseteq AppendOnlyOps
  PROVE  /\ TypeOK /\ LockDiscipline /\ IndexInv /\ NoOverlap /\ WholeInv
         /\ [ClientsNext]_vars
         => WholeInv'
<1> SUFFICES ASSUME TypeOK, LockDiscipline, IndexInv, NoOverlap, WholeInv,
                    [ClientsNext]_vars
             PROVE  WholeInv'
  OBVIOUS
<1>1. ASSUME NEW c \in Clients, ClientStep(c)
      PROVE  WholeInv'
  BY <1>1, WholeClientStep
<1>2. ASSUME NEW w \in Workers, WorkerStep(w)
      PROVE  WholeInv'
  BY <1>2, WholeWorkerStep
<1>3. ASSUME NEW c \in Clients, NEW op \in Ops, Call(c, op)
      PROVE  WholeInv'
  <2> USE CodestreamAssumption DEF TypeOK, PcTypeOK, At, Goto, Threads,
          chainVars, flagVars, quietVars, localVars
  <2>1. CASE \E p \in Procs \cup {NoProc} : InstallAppend(c, p)
    BY <2>1, WholeInstall
  <2>2. CASE CodingRefused(c) \/ CodingAllowed(c)
    BY <2>2, WholeKept DEF CodingRefused, CodingAllowed, vars
  <2>3. CASE StopCode(c) \/ RestartCode(c) \/ NotInitialised(c, "idle")
    BY <2>3, WholeKept DEF StopCode, RestartCode, NotInitialised
  <2>4. CASE AcquireState(c, "idle", "recover_ip") \/ WaitForStateMove(c)
    BY <2>4, WholeKept DEF AcquireState, WaitForStateMove
  <2>5. op \in AppendOnlyOps
    BY <1>3
  <2> QED
    BY <1>3, <2>1, <2>2, <2>3, <2>4, <2>5 DEF Call, AppendOnlyOps
<1>4. CASE \E t \in Threads : SpuriousWake(t)
  BY <1>4, WholeKept DEF SpuriousWake, flagVars
<1>5. CASE UNCHANGED vars
  BY <1>5, WholeKept DEF vars, quietVars, flagVars
<1> QED
  BY <1>1, <1>2, <1>3, <1>4, <1>5 DEF ClientsNext, EngineStep

\* At the end of a run the result that can be seen is that of the whole chain.
LEMMA PublishedAtEnd ==
  ASSUME TypeOK, WholeInv, NEW w \in Workers, pc[w] = "shutdown"
  PROVE  ip = Len(code_procedures) /\ last_op_ret = ret[w]
<1>1. /\ ip = Len(code_procedures)
      /\ InOrder(ret[w], code_procedures, Len(code_procedures)) /\ Published(w)
  BY DEF WholeInv, Progress, Applied
<1>2. ret[w] \in Chains /\ Len(code_procedures) \in Nat
  BY DEF TypeOK, LocalTypeOK, ChainTypeOK, Chains
<1>3. ret[w] = <<>> => last_op_ret = <<>>
  BY <1>1, <1>2, InOrderEmpty DEF WholeInv, SomethingInstalled
<1> QED
  BY <1>1, <1>3 DEF Published

\* A run that ends has applied every installed procedure once and in order, and has
\* published exactly that, for any chain, any number of callers that install, stop,
\* restart, recover and wait, and any interleaving with the worker: as long as no run
\* is begun over a living worker (codestream_abstract.cc:197-205, 236-290).
THEOREM RunAppliesWholeChain ==
  ASSUME Ops \subseteq AppendOnlyOps
  PROVE  ClientsSpec /\ []NoOverlap => ResultIsWholeChain
<1> DEFINE AtEnd ==
      \A w \in Workers : pc[w] = "shutdown" =>
        /\ InOrder(ret[w], code_procedures, Len(code_procedures))
        /\ last_op_ret = ret[w]
<1>1. ClientsInit => WholeInv
  BY WholeInit
<1>2. /\ TypeOK /\ LockDiscipline /\ IndexInv /\ NoOverlap /\ WholeInv
      /\ [ClientsNext]_vars
      => WholeInv'
  BY WholeNext
<1>3. TypeOK /\ WholeInv => AtEnd
  BY PublishedAtEnd DEF WholeInv, Progress, Applied
<1>4. AtEnd => [\A w \in Workers :
                  pc[w] = "shutdown" /\ pc'[w] # "shutdown"
                    => /\ InOrder(ret[w], code_procedures, Len(code_procedures))
                       /\ last_op_ret = ret[w]]_vars
  OBVIOUS
<1> QED
  BY <1>1, <1>2, <1>3, <1>4, TypeCorrect, MutexesReturned, IndexCorrect, PTL
  DEF ClientsSpec, ResultIsWholeChain

-----------------------------------------------------------------------------
(* The state of a run: only its own end declares it over.                  *)

\* A recovery from ERROR to SHUTDOWN that no end of a run calls for needs the error of
\* a missing chain.  That code can be recorded only before the first run, and when a run
\* has begun over it, every other error brings a code of its own; restartCode is the
\* one call that enters ERROR first and records its code in the same section.
StatusInv ==
  /\ \A c \in Clients :
       /\ pc[c] \notin {"uninstall_foe", "uninstall_state"}
       /\ pc[c] = "noinit" => ~flag_init
       /\ pc[c] \in {"coding_start", "coding_spawn", "stop_ip", "stop_foe", "stop_state"}
            => flag_init
       /\ pc[c] = "stop_state" => cerror # "NOINIT"
  /\ Working => flag_init
  /\ state = "ERROR" /\ (Working \/ \E c \in Clients : pc[c] = "coding_spawn")
       => cerror # "NOINIT" \/ \E c \in Clients : pc[c] = "restart_foe"

LEMMA StatusInit == ClientsInit => StatusInv
BY CodestreamAssumption
   DEF ClientsInit, InitWith, StatusInv, Working, Live, Threads

LEMMA StatusClientStep ==
  ASSUME TypeOK, LockDiscipline, StatusInv, NEW c \in Clients, ClientStep(c)
  PROVE  StatusInv'
<1> USE CodestreamAssumption DEF TypeOK, PcTypeOK, At, Goto, Threads, Working, Live,
        StatusInv, flagVars, quietVars
<1>1. CASE InstallFlag(c)
  <2>1. \A d \in Clients : pc[d] # "noinit"
    BY <1>1 DEF InstallFlag, Free, LockDiscipline, FoeHeldAt
  <2> QED
    BY <1>1, <2>1 DEF InstallFlag, stateVars
<1>2. CASE \/ RecordError(c, "uninstall_foe", "UNINSTALLPROCFAILED", "uninstall_state")
           \/ ReportError(c, "uninstall_state")
  BY <1>2 DEF RecordError, ReportError
<1>3. CASE RecordError(c, "stop_foe", "SUSPENDFAILED", "stop_state")
  BY <1>3 DEF RecordError, stateVars
<1>4. CASE ReportError(c, "stop_state")
  BY <1>4 DEF ReportError, EnterError
<1>5. CASE \/ AcquireState(c, "reset_state", "reset_ip")
           \/ AcquireIp(c, "reset_ip", "reset_foe")
           \/ AcquireIp(c, "recover_ip", "recover_foe")
  BY <1>5 DEF AcquireState, AcquireIp, stateVars
<1>6. CASE ResetCodestream(c)
  BY <1>6 DEF ResetCodestream, MoveBoth
<1>7. CASE NotInitialised(c, "coding_init")
  BY <1>7 DEF NotInitialised, stateVars
<1>8. CASE CodingInitialised(c)
  BY <1>8 DEF CodingInitialised, stateVars
<1>9. CASE CodingStart(c)
  BY <1>9 DEF CodingStart, MoveBoth
<1>10. CASE CodingSpawn(c)
  <2>1. PICK w \in Workers : /\ pc[w] = "none"
                             /\ pc' = [pc EXCEPT ![c] = "idle", ![w] = "check"]
    BY <1>10 DEF CodingSpawn
  <2>2. UNCHANGED <<flag_init, state, cerror>>
    BY <1>10 DEF CodingSpawn, stateVars
  <2>3. flag_init /\ (state = "ERROR" => cerror # "NOINIT"
                        \/ \E d \in Clients \ {c} : pc[d] = "restart_foe")
    BY <1>10 DEF CodingSpawn
  <2>4. \A d \in Clients : pc'[d] = IF d = c THEN "idle" ELSE pc[d]
    BY <2>1
  <2> QED
    BY <2>2, <2>3, <2>4
<1>11. CASE NoInitState(c)
  BY <1>11 DEF NoInitState, EnterError
<1>12. CASE StopInTime(c) \/ StopTooLate(c) \/ StopTest(c)
  BY <1>12 DEF StopInTime, StopTooLate, StopTest, AcquireIp, stateVars
<1>13. CASE StopSuspend(c)
  BY <1>13 DEF StopSuspend, MoveTo
<1>14. CASE RestartResumes(c)
  BY <1>14 DEF RestartResumes, MoveTo
<1>15. CASE RestartFails(c)
  BY <1>15 DEF RestartFails, EnterError
<1>16. CASE RestartError(c)
  BY <1>16 DEF RestartError, stateVars
<1>17. CASE StateMoved(c)
  BY <1>17 DEF StateMoved, stateVars
<1>18. CASE ProgramErrorRecover(c)
  <2>1. \A d \in Clients : pc[d] # "restart_foe"
    BY <1>18 DEF ProgramErrorRecover, LockDiscipline, StateHeldAt
  <2> QED
    BY <1>18, <2>1 DEF ProgramErrorRecover, RecoverThrows, stateVars
<1> QED
  BY <1>1, <1>2, <1>3, <1>4, <1>5, <1>6, <1>7, <1>8, <1>9, <1>10, <1>11, <1>12, <1>13,
     <1>14, <1>15, <1>16, <1>17, <1>18
  DEF ClientStep, ClientControl

LEMMA StatusWorkerStep ==
  ASSUME TypeOK, StatusInv, NEW w \in Workers, WorkerStep(w)
  PROVE  StatusInv'
<1> USE CodestreamAssumption DEF TypeOK, PcTypeOK, At, Goto, Threads, flagVars, quietVars
<1>1. /\ Live(w) /\ \A c \in Clients : pc'[c] = pc[c]
      /\ UNCHANGED <<flag_init, cerror>>
      /\ state' = state \/ state' = "SHUTDOWN"
  BY DEF WorkerStep, WorkerControl, WorkerCheck, WorkerExit, WorkerPark,
         WorkerUnparked, AcquireIp, FetchProcedure, FetchThrows, FetchEnd,
         Shutdown, MoveTo, SaveResult, Execute, Live, stateVars
<1>2. Working
  BY <1>1 DEF Working
<1> QED
  BY <1>1, <1>2 DEF StatusInv

LEMMA StatusNext ==
  ASSUME Ops \subseteq AppendOnlyOps
  PROVE  TypeOK /\ LockDiscipline /\ StatusInv /\ [ClientsNext]_vars => StatusInv'
<1> SUFFICES ASSUME TypeOK, LockDiscipline, StatusInv, [ClientsNext]_vars
             PROVE  StatusInv'
  OBVIOUS
<1>1. ASSUME NEW c \in Clients, ClientStep(c)
      PROVE  StatusInv'
  BY <1>1, StatusClientStep
<1>2. ASSUME NEW w \in Workers, WorkerStep(w)
      PROVE  StatusInv'
  BY <1>2, StatusWorkerStep
<1>3. ASSUME NEW c \in Clients, NEW op \in Ops, Call(c, op)
      PROVE  StatusInv'
  <2> USE CodestreamAssumption DEF TypeOK, PcTypeOK, At, Goto, Threads, Working, Live,
          StatusInv, flagVars, quietVars, stateVars
  <2>1. CASE \E p \in Procs \cup {NoProc} : InstallAppend(c, p)
    BY <2>1 DEF InstallAppend
  <2>2. CASE CodingRefused(c) \/ CodingAllowed(c)
    BY <2>2 DEF CodingRefused, CodingAllowed, vars
  <2>3. CASE StopCode(c) \/ RestartCode(c) \/ NotInitialised(c, "idle")
    BY <2>3 DEF StopCode, RestartCode, NotInitialised
  <2>4. CASE AcquireState(c, "idle", "recover_ip") \/ WaitForStateMove(c)
    BY <2>4 DEF AcquireState, WaitForStateMove
  <2>5. op \in AppendOnlyOps
    BY <1>3
  <2> QED
    BY <1>3, <2>1, <2>2, <2>3, <2>4, <2>5 DEF Call, AppendOnlyOps
<1>4. CASE (\E t \in Threads : SpuriousWake(t)) \/ UNCHANGED vars
  BY <1>4 DEF SpuriousWake, vars, flagVars, quietVars, stateVars, StatusInv, Working, Live
<1> QED
  BY <1>1, <1>2, <1>3, <1>4 DEF ClientsNext, EngineStep

-----------------------------------------------------------------------------
(* The refinement of ChainRun.                                             *)

\* The thread that has the run is the one that lives, before a step and after it.
LEMMA TheOneWorker ==
  ASSUME AtMostOneWorker, AtMostOneWorker', NEW w \in Workers
  PROVE  /\ Live(w) => Working /\ TheWorker = w
         /\ Live(w)' => Working' /\ TheWorker' = w
<1>1. ASSUME Live(w)
      PROVE  Working /\ TheWorker = w
  <2>1. TheWorker \in Workers /\ Live(TheWorker)
    BY <1>1 DEF TheWorker
  <2> QED
    BY <1>1, <2>1 DEF Working, AtMostOneWorker
<1>2. ASSUME Live(w)'
      PROVE  Working' /\ TheWorker' = w
  <2>1. TheWorker' \in Workers /\ pc'[TheWorker'] # "none"
    BY <1>2 DEF TheWorker, Live
  <2> QED
    BY <1>2, <2>1 DEF Working, AtMostOneWorker, Live
<1> QED
  BY <1>1, <1>2

\* A step that leaves the workers alone leaves the run where it is.
LEMMA RunStays ==
  ASSUME AtMostOneWorker, AtMostOneWorker',
         \A w \in Workers : pc'[w] = pc[w],
         ret' = ret, ip' = ip \/ ~Working
  PROVE  UNCHANGED <<Place, Done, RunData, Working>>
<1>1. Working' = Working
  BY DEF Working, Live
<1>2. CASE ~Working
  BY <1>1, <1>2 DEF Place, Done, RunData
<1>3. CASE Working
  <2>1. PICK w \in Workers : Live(w)
    BY <1>3 DEF Working
  <2>2. TheWorker = w /\ TheWorker' = w
    BY <2>1, TheOneWorker DEF Live
  <2> QED
    BY <1>1, <1>3, <2>2 DEF Place, Done, RunData
<1> QED
  BY <1>2, <1>3

\* Of the state the clients see only this: a run is put on hold, or goes on; it is never
\* declared over while a worker has it.
Moves ==
  \/ Status' = Status \/ Status' = "held"
  \/ Status = "held" /\ Status' = "going"
  \/ ~Working

LEMMA StatusMoves ==
  ASSUME TypeOK, LockDiscipline, NoOverlap, StatusInv, NEW c \in Clients, ClientStep(c)
  PROVE  Moves
<1> USE DEF Moves, Status
<1>1. CASE state' = state /\ state_when_error_occur' = state_when_error_occur
  BY <1>1
<1>2. CASE EnterError
  BY <1>2 DEF EnterError, TypeOK, StateTypeOK, States
<1>3. CASE ResetCodestream(c) \/ CodingStart(c)
  BY <1>3 DEF ResetCodestream, CodingStart, At, NoOverlap, Working
<1>4. CASE StopSuspend(c)
  BY <1>4 DEF StopSuspend, MoveTo
<1>5. CASE RestartResumes(c)
  BY <1>5 DEF RestartResumes, MoveTo
<1>6. CASE ProgramErrorRecover(c)
  <2>1. CASE state = "ERROR" /\ RecoverTransition
    <3>1. \A d \in Clients : pc[d] # "restart_foe"
      BY <1>6, CodestreamAssumption
      DEF ProgramErrorRecover, At, LockDiscipline, StateHeldAt, Threads
    <3>2. CASE cerror = "NOINIT"
      BY <2>1, <3>1, <3>2 DEF StatusInv
    <3>3. CASE cerror # "NOINIT"
      BY <2>1, <3>3
      DEF RecoverTransition, MoveTo, TypeOK, StateTypeOK, States
    <3> QED
      BY <3>2, <3>3
  <2>2. CASE UNCHANGED stateVars
    BY <2>2, <1>1 DEF stateVars
  <2> QED
    BY <1>6, <2>1, <2>2 DEF ProgramErrorRecover
<1> QED
  BY <1>1, <1>2, <1>3, <1>4, <1>5, <1>6
  DEF ClientStep, ClientControl, InstallFlag, RecordError, ReportError, AcquireState,
      AcquireIp, CodingInitialised, NotInitialised, CodingSpawn, NoInitState,
      StopInTime, StopTooLate, StopTest, RestartFails, RestartError, StateMoved,
      stateVars

\* What Moves allows is a step of ChainRun.
LEMMA MovesOfRun ==
  ASSUME Moves, UNCHANGED <<Place, Done, RunData, code_procedures, last_op_ret>>
  PROVE  [Run!Next]_Run!runVars
<1>1. CASE Status' = Status
  BY <1>1 DEF Run!runVars
<1>2. CASE Status' = "held"
  BY <1>2 DEF Run!Next, Run!Hold
<1>3. CASE Status = "held" /\ Status' = "going"
  BY <1>3 DEF Run!Next, Run!Resume
<1>4. CASE ~Working
  <2>1. Place = "away" /\ Status' \in {"going", "held", "over"}
    BY <1>4 DEF Place, Status
  <2> QED
    BY <2>1 DEF Run!Next, Run!Prepare
<1> QED
  BY <1>1, <1>2, <1>3, <1>4 DEF Moves

LEMMA ChainRunStarts == ClientsInit => Run!Init
<1> SUFFICES ASSUME ClientsInit
             PROVE  Run!Init
  OBVIOUS
<1>1. /\ code_procedures \in Chains /\ last_op_ret = <<>> /\ state = "SHUTDOWN"
      /\ \A w \in Workers : pc[w] = "none"
  BY ClientsAssumption, CodestreamAssumption DEF ClientsInit, InitWith, Threads
<1>2. ~Working
  BY <1>1 DEF Working, Live
<1> QED
  BY <1>1, <1>2 DEF Run!Init, Run!Slots, Chains, Place, Done, RunData, Status

\* A call begins the run, or leaves it where it is.
LEMMA ChainRunClientStep ==
  ASSUME TypeOK, LockDiscipline, NoOverlap, WholeInv, WholeInv', StatusInv,
         NEW c \in Clients, ClientStep(c)
  PROVE  [Run!Next]_Run!runVars
<1>1. AtMostOneWorker /\ AtMostOneWorker'
  BY DEF WholeInv
<1>2. CASE CodingSpawn(c)
  <2>1. PICK w \in Workers : /\ pc[w] = "none"
                             /\ pc' = [pc EXCEPT ![c] = "idle", ![w] = "check"]
    BY <1>2 DEF CodingSpawn
  <2>2. pc'[w] = "check" /\ Live(w)'
    BY <2>1, CodestreamAssumption DEF TypeOK, PcTypeOK, Threads, Live
  <2>3. ~Working /\ Working' /\ TheWorker' = w
    BY <1>1, <1>2, <2>2, TheOneWorker DEF CodingSpawn, At, NoOverlap, Working
  <2>4. /\ ip = 0 /\ ret[w] = <<>>
        /\ UNCHANGED <<code_procedures, ip, last_op_ret, ret, state,
                       state_when_error_occur>>
    BY <1>2, <2>1
    DEF CodingSpawn, At, WholeInv, IndexIsProgress, Progress, chainVars, stateVars,
        quietVars, localVars
  <2>5. /\ Place = "away" /\ Place' = "between"
        /\ UNCHANGED <<Done, RunData, Status>>
    BY <2>2, <2>3, <2>4 DEF Place, Done, RunData, Status
  <2> QED
    BY <2>4, <2>5 DEF Run!Next, Run!Begin
<1>3. CASE ~CodingSpawn(c)
  <2>1. \A w \in Workers : pc'[w] = pc[w]
    BY <1>3, CodestreamAssumption
    DEF TypeOK, PcTypeOK, Threads, Goto, ClientStep, ClientControl, InstallFlag,
        RecordError, ReportError, AcquireState, AcquireIp, ResetCodestream,
        CodingInitialised, NotInitialised, CodingStart, NoInitState, StopInTime,
        StopTooLate, StopTest, StopSuspend, RestartResumes, RestartFails, RestartError,
        StateMoved, ProgramErrorRecover
  <2>2. /\ UNCHANGED <<code_procedures, last_op_ret, ret>>
        /\ ip' = ip \/ ResetCodestream(c)
    BY <1>3
    DEF ClientStep, ClientControl, InstallFlag, RecordError, ReportError,
        AcquireState, AcquireIp, ResetCodestream, CodingInitialised, NotInitialised,
        CodingStart, NoInitState, StopInTime, StopTooLate, StopTest, StopSuspend,
        RestartResumes, RestartFails, RestartError, StateMoved, ProgramErrorRecover,
        chainVars, quietVars, localVars
  <2>3. ip' = ip \/ ~Working
    BY <2>2 DEF ResetCodestream, At, NoOverlap, Working
  <2>4. UNCHANGED <<Place, Done, RunData, Working>>
    BY <1>1, <2>1, <2>2, <2>3, RunStays
  <2> QED
    BY <2>2, <2>4, StatusMoves, MovesOfRun
<1> QED
  BY <1>2, <1>3

\* The only worker does what the run does.
LEMMA ChainRunWorkerStep ==
  ASSUME TypeOK, WholeInv, WholeInv', NEW w \in Workers, WorkerStep(w)
  PROVE  [Run!Next]_Run!runVars
<1> USE DEF At, chainVars, flagVars, quietVars, localVars, stateVars
<1>1. Live(w)
  BY DEF WorkerStep, WorkerControl, WorkerCheck, WorkerExit, WorkerPark,
         WorkerUnparked, AcquireIp, FetchProcedure, FetchThrows, FetchEnd,
         Shutdown, SaveResult, Execute, Live
<1>2. AtMostOneWorker /\ AtMostOneWorker'
  BY DEF WholeInv
<1>3. Working /\ TheWorker = w
  BY <1>1, <1>2, TheOneWorker
<1>4. pc'[w] # "none" => Working' /\ TheWorker' = w
  BY <1>2, TheOneWorker DEF Live
<1>5. pc \in [Threads -> ClientLabels \cup WorkerLabels] /\ w \in Threads
  BY DEF TypeOK, PcTypeOK, Threads
<1>6. /\ ret \in [Workers -> Chains] /\ code_procedures \in Chains
      /\ Len(code_procedures) \in Nat
      /\ ip \in 0..Len(code_procedures) /\ ~flag_opdirection /\ Progress(w)
  BY DEF TypeOK, ChainTypeOK, LocalTypeOK, Chains, WholeInv, IndexIsProgress
\* The place and the numbers of a worker that stays alive.
<1>7. ASSUME pc'[w] # "none"
      PROVE  /\ Place = IF pc[w] \in {"check", "park", "parked"} THEN "between"
                        ELSE IF pc[w] = "save" THEN "applied" ELSE "in_hand"
             /\ Place' = IF pc'[w] \in {"check", "park", "parked"} THEN "between"
                         ELSE IF pc'[w] = "save" THEN "applied" ELSE "in_hand"
             /\ Done = IF pc[w] = "exec" THEN ip - 1 ELSE ip
             /\ Done' = IF pc'[w] = "exec" THEN ip' - 1 ELSE ip'
             /\ RunData = ret[w] /\ RunData' = ret'[w]
  BY <1>3, <1>4, <1>7 DEF Place, Done, RunData
<1>8. CASE WorkerCheck(w)
  <2>1. /\ pc[w] = "check" /\ UNCHANGED <<code_procedures, ip, last_op_ret, ret, Status>>
        /\ pc'[w] = IF state = "PROGRESSING" THEN "fetch_ip" ELSE "park"
    BY <1>5, <1>8 DEF WorkerCheck, Goto, Status
  <2>2. CASE state = "PROGRESSING"
    BY <2>1, <2>2, <1>7 DEF Run!Next, Run!GoOn, Status
  <2>3. CASE state # "PROGRESSING"
    BY <2>1, <2>3, <1>7 DEF Run!runVars
  <2> QED
    BY <2>2, <2>3
<1>9. CASE WorkerExit(w)
  <2>1. /\ pc[w] = "check" /\ Status = "over"
        /\ UNCHANGED <<code_procedures, last_op_ret, Status>>
        /\ pc' = [pc EXCEPT ![w] = "none"]
    BY <1>9 DEF WorkerExit, Goto, Status
  <2>2. ~Working'
    BY <2>1, <1>1, <1>2, <1>5 DEF Working, Live, AtMostOneWorker
  <2>3. Place = "between" /\ Place' = "away" /\ Done' = 0 /\ RunData' = <<>>
    BY <2>1, <2>2, <1>3 DEF Place, Done, RunData
  <2> QED
    BY <2>1, <2>3 DEF Run!Next, Run!Leave
<1>10. CASE WorkerPark(w) \/ WorkerUnparked(w) \/ AcquireIp(w, "fetch_ip", "fetch_foe")
  <2>1. /\ \/ pc[w] \in {"park", "parked"} /\ pc'[w] \in {"check", "parked"}
           \/ pc[w] = "fetch_ip" /\ pc'[w] = "fetch_foe"
        /\ UNCHANGED <<code_procedures, ip, last_op_ret, ret, Status>>
    BY <1>5, <1>10 DEF WorkerPark, WorkerUnparked, AcquireIp, Goto, Status
  <2> QED
    BY <2>1, <1>7 DEF Run!runVars
<1>11. CASE FetchProcedure(w)
  <2> DEFINE proc == code_procedures[ip + 1]
  <2>1. /\ pc[w] = "fetch_foe" /\ ip < Len(code_procedures) /\ ip' = ip + 1
        /\ UNCHANGED <<code_procedures, last_op_ret, ret, Status>>
        /\ pc'[w] = IF proc = NoProc THEN "check" ELSE "exec"
    BY <1>5, <1>6, <1>11 DEF FetchProcedure, InChain, Goto, Status
  <2>2. CASE proc = NoProc
    <3>1. /\ Place = "in_hand" /\ Place' = "between" /\ Done = ip /\ Done' = Done + 1
          /\ RunData' = RunData
      BY <2>1, <2>2, <1>7
    <3> QED
      BY <3>1, <2>1, <2>2 DEF Run!Next, Run!PassOver
  <2>3. CASE proc # NoProc
    <3>1. UNCHANGED <<Place, Done, RunData>>
      BY <2>1, <2>3, <1>6, <1>7
    <3> QED
      BY <3>1, <2>1 DEF Run!runVars
  <2> QED
    BY <2>2, <2>3
<1>12. CASE FetchThrows(w) \/ FetchEnd(w)
  <2>1. /\ pc[w] = "fetch_foe" /\ pc'[w] \in {"fetch_foe", "shutdown"}
        /\ UNCHANGED <<code_procedures, ip, last_op_ret, ret, Status>>
    BY <1>5, <1>12 DEF FetchThrows, FetchEnd, Goto, Status
  <2> QED
    BY <2>1, <1>7 DEF Run!runVars
<1>13. CASE Shutdown(w)
  <2>1. /\ pc[w] = "shutdown" /\ pc'[w] = "check" /\ Status' = "over"
        /\ UNCHANGED <<code_procedures, ip, last_op_ret, ret>>
    BY <1>5, <1>13 DEF Shutdown, MoveTo, Goto, Status
  <2>2. ip = Len(code_procedures) /\ last_op_ret = ret[w]
    BY <2>1, PublishedAtEnd
  <2> QED
    BY <2>1, <2>2, <1>7 DEF Run!Next, Run!Finish
<1>14. CASE SaveResult(w)
  <2>1. /\ pc[w] = "save" /\ pc'[w] = "check" /\ last_op_ret' = ret[w]
        /\ UNCHANGED <<code_procedures, ip, ret, Status>>
    BY <1>5, <1>14 DEF SaveResult, Goto, Status
  <2> QED
    BY <2>1, <1>7 DEF Run!Next, Run!Publish
<1>15. CASE Execute(w)
  <2>1. /\ pc[w] = "exec" /\ pc'[w] = "save" /\ ret'[w] = Append(ret[w], f[w])
        /\ UNCHANGED <<code_procedures, ip, last_op_ret, Status>>
    BY <1>5, <1>6, <1>15 DEF Execute, Goto, Status
  <2>2. ip \in 1..Len(code_procedures) /\ f[w] = code_procedures[ip] /\ f[w] # NoProc
    BY <2>1, <1>6, CodestreamAssumption DEF Progress, TypeOK, LocalTypeOK
  <2>3. /\ Place = "in_hand" /\ Place' = "applied" /\ Done = ip - 1 /\ Done' = ip
        /\ RunData' = Append(RunData, f[w])
    BY <2>1, <1>7
  <2>4. /\ Done + 1 = ip /\ Done' = Done + 1 /\ Done < Len(code_procedures)
        /\ code_procedures[Done + 1] = f[w]
    BY <2>2, <2>3, <1>6
  <2> QED
    BY <2>1, <2>2, <2>3, <2>4 DEF Run!Next, Run!Apply
<1> QED
  BY <1>8, <1>9, <1>10, <1>11, <1>12, <1>13, <1>14, <1>15 DEF WorkerStep, WorkerControl

\* The first step of a call installs, or is none of ChainRun.
LEMMA ChainRunCall ==
  ASSUME Ops \subseteq AppendOnlyOps, TypeOK, WholeInv, WholeInv',
         NEW c \in Clients, NEW op \in Ops, Call(c, op)
  PROVE  [Run!Next]_Run!runVars
<1> USE DEF chainVars, flagVars, quietVars, localVars, stateVars
<1>1. op \in AppendOnlyOps
  OBVIOUS
<1>2. /\ \A w \in Workers : pc'[w] = pc[w]
      /\ UNCHANGED <<ret, ip, last_op_ret, state, state_when_error_occur>>
      /\ \/ UNCHANGED code_procedures
         \/ \E p \in Procs \cup {NoProc} : code_procedures' = Append(code_procedures, p)
  BY <1>1, CodestreamAssumption
  DEF Call, AppendOnlyOps, TypeOK, PcTypeOK, Threads, Goto, InstallAppend, CodingRefused,
      CodingAllowed, StopCode, RestartCode, NotInitialised, AcquireState,
      WaitForStateMove, vars
<1>3. UNCHANGED <<Place, Done, RunData, Status>>
  BY <1>2, RunStays DEF WholeInv, Status
<1>4. CASE UNCHANGED code_procedures
  BY <1>2, <1>3, <1>4 DEF Run!runVars
<1>5. CASE \E p \in Procs \cup {NoProc} : code_procedures' = Append(code_procedures, p)
  BY <1>2, <1>3, <1>5 DEF Run!Next, Run!Install, Run!Slots
<1> QED
  BY <1>2, <1>4, <1>5

LEMMA ChainRunStep ==
  ASSUME Ops \subseteq AppendOnlyOps
  PROVE  /\ TypeOK /\ LockDiscipline /\ NoOverlap /\ StatusInv
         /\ WholeInv /\ WholeInv' /\ [ClientsNext]_vars
         => [Run!Next]_Run!runVars
<1> SUFFICES ASSUME TypeOK, LockDiscipline, NoOverlap, StatusInv, WholeInv, WholeInv',
                    [ClientsNext]_vars
             PROVE  [Run!Next]_Run!runVars
  OBVIOUS
<1>1. ASSUME NEW c \in Clients, ClientStep(c)
      PROVE  [Run!Next]_Run!runVars
  BY <1>1, ChainRunClientStep
<1>2. ASSUME NEW w \in Workers, WorkerStep(w)
      PROVE  [Run!Next]_Run!runVars
  BY <1>2, ChainRunWorkerStep
<1>3. ASSUME NEW c \in Clients, NEW op \in Ops, Call(c, op)
      PROVE  [Run!Next]_Run!runVars
  BY <1>3, ChainRunCall
<1>4. CASE (\E t \in Threads : SpuriousWake(t)) \/ UNCHANGED vars
  <2>1. UNCHANGED <<code_procedures, ip, last_op_ret, ret, pc, state,
                    state_when_error_occur>>
    BY <1>4 DEF SpuriousWake, vars, chainVars, flagVars, quietVars, localVars, stateVars
  <2>2. UNCHANGED <<Place, Done, RunData, Status>>
    BY <2>1, RunStays DEF WholeInv, Status
  <2> QED
    BY <2>1, <2>2 DEF Run!runVars
<1> QED
  BY <1>1, <1>2, <1>3, <1>4 DEF ClientsNext, EngineStep

\* The engine implements ChainRun for any number of callers that install at the end,
\* stop, restart, recover and wait, in any interleaving with the worker, as long as no
\* run is begun over a living worker: the procedures are applied one by one, each result
\* is published before the next procedure is fetched, a run on hold finishes at most
\* what it has in hand, and only its own end declares it over
\* (codestream_abstract.cc:229-276, 307-312, 335-348, 476-526).
THEOREM EngineImplementsChainRun ==
  ASSUME Ops \subseteq AppendOnlyOps
  PROVE  ClientsSpec /\ []NoOverlap => ImplementsChainRun
<1>1. ClientsInit => WholeInv /\ StatusInv /\ Run!Init
  BY WholeInit, StatusInit, ChainRunStarts
<1>2. /\ TypeOK /\ LockDiscipline /\ IndexInv /\ NoOverlap /\ WholeInv
      /\ [ClientsNext]_vars
      => WholeInv'
  BY WholeNext
<1>3. TypeOK /\ LockDiscipline /\ StatusInv /\ [ClientsNext]_vars => StatusInv'
  BY StatusNext
<1>4. /\ TypeOK /\ LockDiscipline /\ NoOverlap /\ StatusInv
      /\ WholeInv /\ WholeInv' /\ [ClientsNext]_vars
      => [Run!Next]_Run!runVars
  BY ChainRunStep
<1> QED
  BY <1>1, <1>2, <1>3, <1>4, TypeCorrect, MutexesReturned, IndexCorrect, PTL
  DEF ClientsSpec, ImplementsChainRun, Run!Spec

=============================================================================
