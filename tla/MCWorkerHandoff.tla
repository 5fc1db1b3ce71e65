-------------------------- MODULE MCWorkerHandoff --------------------------
(* The worker handoff with the values of WorkerHandoff.cfg: two handoffs   *)
(* compete for one episode while the worker is started up to three times.  *)
EXTENDS WorkerHandoff
=============================================================================
