--------------------------- MODULE CodestreamState ---------------------------
(***************************************************************************)
(* The state of the op-chain engine of src/src/codestream_abstract.cc and  *)
(* the vocabulary its operations (module Codestream) are written in.       *)
(*                                                                         *)
(* A Codestream object is shared by the threads that call its public       *)
(* methods (Clients) and by the detached threads that coding() starts      *)
(* (Workers).  Three mutexes guard it and two condition variables connect  *)
(* the callers and the workers.                                            *)
(***************************************************************************)
EXTENDS Integers, SequencesExt

CONSTANTS
  Clients,         \* threads that call the public methods
  Workers,         \* ids of worker threads: bounds the workers alive at once
  NoThread,        \* "nobody": the owner of a free mutex
  Procs,           \* the function objects that can be installed
  NoProc,          \* the null function object an uninstall leaves behind
  SpuriousWakeups  \* whether a condition variable may wake without a notify

ASSUME CodestreamAssumption ==
  /\ Clients \cap Workers = {}
  /\ NoThread \notin Clients \cup Workers
  /\ NoProc \notin Procs
  /\ SpuriousWakeups \in BOOLEAN

VARIABLES
  \* guarded by _ip_mutex
  code_procedures,  \* the chain
  ip,               \* 0-based index of the next procedure, a signed short
  ip_end,           \* _ip_end, and _cp_end, which is always set with it; _ip_start is 0
  last_ip_start,
  last_op_ret,      \* procedures applied to the data to give the last result;
                    \* <<>> is the initial null pointer
  \* guarded by _flag_error_mutex
  flag_init,
  flag_opdirection, \* FALSE: left to right, TRUE: right to left
  cerror,
  \* guarded by _state_mutex
  state,
  state_when_error_occur,
  \* owners of the mutexes
  state_mutex,
  ip_mutex,
  foe_mutex,
  \* threads blocked in the condition variables
  work_waiters,     \* _work_condition
  migrated_waiters, \* _state_migrated_condition
  \* control and locals of the threads
  pc,
  f,                \* startCode's f: the procedure a worker has fetched
  ret,              \* startCode's ret_of_f: procedures a worker has applied to vec
  terminated        \* std::terminate: an exception left a thread

chainVars == <<code_procedures, ip, ip_end, last_ip_start, last_op_ret>>
flagVars  == <<flag_init, flag_opdirection>>
stateVars == <<state, state_when_error_occur, migrated_waiters>>
lockVars  == <<state_mutex, ip_mutex, foe_mutex>>
localVars == <<f, ret>>

\* What few operations touch.
quietVars == <<flagVars, work_waiters, localVars, terminated>>

vars == <<chainVars, cerror, stateVars, lockVars, pc, quietVars>>

Threads == Clients \cup Workers

States == {"PROGRESSING", "SUSPEND", "SHUTDOWN", "ERROR"}

\* ERROR_INSTALLPROCFAILED is declared and handled but never raised.
Errors == {"NOERROR", "NOINIT", "UNINSTALLPROCFAILED", "SUSPENDFAILED",
           "RECOVERFAILED"}

ClientLabels ==
  {"idle", "install_flag", "uninstall_foe", "uninstall_state",
   "reset_state", "reset_ip", "reset_foe", "coding_init", "coding_start",
   "coding_spawn", "noinit", "stop_ip", "stop_foe", "stop_state",
   "stop_test", "stop_suspend", "restart_state", "restart_foe",
   "recover_ip", "recover_foe", "wait"}

WorkerLabels ==
  {"none", "check", "park", "parked", "fetch_ip", "fetch_foe", "shutdown",
   "exec", "save"}

\* Where a thread holds each mutex.
StateHeldAt == {"reset_ip", "reset_foe", "recover_ip", "recover_foe",
                "restart_foe"}
IpHeldAt    == {"reset_foe", "recover_foe", "stop_foe", "stop_state",
                "uninstall_foe", "uninstall_state", "fetch_foe", "shutdown"}
FoeHeldAt   == {"noinit", "shutdown"}

\* Where a thread that is inside a call needs each mutex for its next step.
StateWantedAt == {"reset_state", "coding_start", "noinit", "stop_state",
                  "stop_test", "stop_suspend", "restart_state",
                  "uninstall_state", "check", "shutdown"}
IpWantedAt    == {"reset_ip", "recover_ip", "stop_ip", "fetch_ip", "save"}
FoeWantedAt   == {"install_flag", "uninstall_foe", "reset_foe", "coding_init",
                  "stop_foe", "restart_foe", "recover_foe", "fetch_foe"}

-----------------------------------------------------------------------------
(* The constructor, followed by the installation of chain (<<>> for none). *)
InitWith(chain) ==
  /\ code_procedures = chain /\ ip_end = Len(chain)
  /\ ip = 0 /\ last_ip_start = 0 /\ last_op_ret = <<>>
  /\ flag_init = (chain # <<>>)
  /\ flag_opdirection = FALSE
  /\ cerror = "NOERROR"
  /\ state = "SHUTDOWN" /\ state_when_error_occur = "SHUTDOWN"
  /\ state_mutex = NoThread /\ ip_mutex = NoThread /\ foe_mutex = NoThread
  /\ work_waiters = {} /\ migrated_waiters = {}
  /\ pc = [t \in Threads |-> IF t \in Clients THEN "idle" ELSE "none"]
  /\ f = [w \in Workers |-> NoProc]
  /\ ret = [w \in Workers |-> <<>>]
  /\ terminated = FALSE

At(t, label) == ~terminated /\ pc[t] = label

Goto(t, label) == pc' = [pc EXCEPT ![t] = label]

Free(mutex) == mutex = NoThread

\* notify_one: wakes one of the waiting threads, or nobody if none waits yet.
NotifyStateMigrated ==
  \/ migrated_waiters = {} /\ UNCHANGED migrated_waiters
  \/ \E c \in migrated_waiters : migrated_waiters' = migrated_waiters \ {c}

NotifyWork ==
  \/ work_waiters = {} /\ UNCHANGED work_waiters
  \/ \E w \in work_waiters : work_waiters' = work_waiters \ {w}

MoveTo(s) ==
  /\ state' = s
  /\ UNCHANGED state_when_error_occur
  /\ NotifyStateMigrated

MoveBoth(s) ==
  /\ state' = s /\ state_when_error_occur' = s
  /\ NotifyStateMigrated

\* The indices vector::at accepts.
InChain == ip \in 0..(Len(code_procedures) - 1)

\* _ip >= _ip_end.  The operands are a short and a size_t, so a negative _ip
\* compares as a huge index.
PastEnd == ip < 0 \/ ip >= ip_end

Installed(which) == which < ip_end /\ code_procedures[which + 1] # NoProc

-----------------------------------------------------------------------------
(* Taking a mutex that is still held in the next step.                     *)

AcquireState(t, from, to) ==
  /\ At(t, from) /\ Free(state_mutex)
  /\ state_mutex' = t
  /\ Goto(t, to)
  /\ UNCHANGED <<chainVars, cerror, stateVars, ip_mutex, foe_mutex, quietVars>>

AcquireIp(t, from, to) ==
  /\ At(t, from) /\ Free(ip_mutex)
  /\ ip_mutex' = t
  /\ Goto(t, to)
  /\ UNCHANGED <<chainVars, cerror, stateVars, state_mutex, foe_mutex, quietVars>>

=============================================================================
