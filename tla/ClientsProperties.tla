--------------------------- MODULE ClientsProperties ---------------------------
(***************************************************************************)
(* How the engine implements ChainRun for its clients.                     *)
(***************************************************************************)
EXTENDS CodestreamClients

\* The thread that has the run.
Working == \E w \in Workers : Live(w)

TheWorker == CHOOSE w \in Workers : Live(w)

Place ==
  IF ~Working THEN "away"
  ELSE IF pc[TheWorker] \in {"check", "park", "parked"} THEN "between"
  ELSE IF pc[TheWorker] = "save" THEN "applied"
  ELSE "in_hand"

\* The index moves when the slot is fetched, the data when its procedure has run.
Done ==
  IF ~Working THEN 0
  ELSE IF pc[TheWorker] = "exec" THEN ip - 1
  ELSE ip

RunData == IF ~Working THEN <<>> ELSE ret[TheWorker]

\* An error that comes after the end of a run is recovered to it.
Status ==
  IF state = "PROGRESSING" THEN "going"
  ELSE IF \/ state = "SHUTDOWN"
          \/ state = "ERROR" /\ state_when_error_occur = "SHUTDOWN"
       THEN "over"
  ELSE "held"

Run == INSTANCE ChainRun
         WITH chain <- code_procedures, place <- Place, done <- Done, data <- RunData,
              result <- last_op_ret, status <- Status,
              Procedures <- Procs, Empty <- NoProc

\* A run applies the installed procedures one by one and publishes each result; while
\* the object is suspended or in error it finishes at most the procedure it has fetched;
\* and only a worker that has come to the end of the chain declares a run over, whatever
\* stops, restarts, errors and recoveries race with it.
ImplementsChainRun == Run!Spec

=============================================================================
