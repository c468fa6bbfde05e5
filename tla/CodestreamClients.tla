-------------------------- MODULE CodestreamClients ---------------------------
(***************************************************************************)
(* A Codestream object and client threads that call its public methods, in *)
(* any order and from any number of threads, choosing among the operations *)
(* in Ops.                                                                 *)
(***************************************************************************)
EXTENDS CodestreamProperties

CONSTANTS
  Ops,            \* the operations the clients use
  InitialChains   \* the chains installed before the threads start

OpNames == {"install", "install_at", "uninstall", "setstart", "toggle",
            "coding", "stop", "restart", "recover", "wait"}

ASSUME ClientsAssumption ==
  /\ Ops \subseteq OpNames
  /\ InitialChains \subseteq Chains

ClientsInit == \E chain \in InitialChains : InitWith(chain)

\* The first step of a call of operation op by client c.
Call(c, op) ==
  \/ /\ op = "install"
     /\ \E p \in Procs \cup {NoProc} : InstallAppend(c, p)
  \/ /\ op = "install_at"
     /\ \E p \in Procs \cup {NoProc}, pos \in 0..(Len(code_procedures) + 1) :
          InstallAt(c, p, pos)
  \/ /\ op = "uninstall"
     /\ \E which \in 0..Len(code_procedures) :
          Uninstall(c, which) \/ UninstallFails(c, which)
  \/ op = "setstart" /\ \E i \in 0..Len(code_procedures) : SetStartPoint(c, i)
  \/ op = "toggle" /\ ToggleOpDirection(c)
  \/ op = "coding" /\ (CodingRefused(c) \/ CodingAllowed(c))
  \/ op = "stop" /\ (StopCode(c) \/ NotInitialised(c, "idle"))
  \/ op = "restart" /\ (RestartCode(c) \/ NotInitialised(c, "idle"))
  \/ op = "recover" /\ AcquireState(c, "idle", "recover_ip")
  \/ op = "wait" /\ WaitForStateMove(c)

ClientsNext == EngineStep \/ \E c \in Clients, op \in Ops : Call(c, op)

ClientsSpec == ClientsInit /\ [][ClientsNext]_vars

=============================================================================
