------------------------- MODULE MCProcessLifecycle -------------------------
(***************************************************************************)
(* Process-lifecycle commands for TLC: a launch, a stop, and a launch that *)
(* names the id of the first and the operation of the second.              *)
(***************************************************************************)
EXTENDS ProcessLifecycle

ThreeCommands ==
  {[id |-> "a", op |-> 1, kind |-> "launch_new"],
   [id |-> "b", op |-> 2, kind |-> "stop"],
   [id |-> "a", op |-> 2, kind |-> "launch_new"]}

\* Handlers overlap until the first failed write or crash, and come one by one after it.
\* So does the one that writes more records than can be opened.
OverlapUntilFault ==
  faults + crashes > 0 \/ Len(lines) > MaxIntentRecords =>
    Cardinality({c \in Callers : call[c] # Idle}) <= 1

\* That record is written without a failure, and then the service is restarted.
RestartedWhenFull ==
  /\ Len(lines) > MaxIntentRecords => Crash
  /\ Len(lines) = MaxIntentRecords /\ lines' # lines => faults = 0
  /\ Len(lines) = MaxIntentRecords => faults' = faults
=============================================================================
