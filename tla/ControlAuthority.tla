-------------------------- MODULE ControlAuthority --------------------------
(***************************************************************************)
(* ControlAuthority of context_control/state.rs and state/*.rs: the gate   *)
(* of one run (pause, commit, adopt, resume, stop), its ledger of          *)
(* unresolved operations, its idempotent commands and its bounded event    *)
(* log.  The authority is a value: its owners keep it in memory and write  *)
(* it to a journal.  A transition is the condition under which the code    *)
(* accepts it and the authority it leaves.  What the code refuses leaves   *)
(* the authority as it was, and a command whose key was used before is     *)
(* answered with the stored receipt or refused.                            *)
(*                                                                         *)
(* A command names the control version, and where the code asks for them   *)
(* the revision and the boundary, it expects: the conditions below are     *)
(* those of a command that names the current ones, any other is refused.   *)
(* active_revision_id is the plan epoch under another name, and gate_epoch *)
(* changes only together with the control version.                         *)
(***************************************************************************)
EXTENDS Integers, FiniteSets

CONSTANTS
  Keys,          \* idempotency keys
  OperationIds,  \* operation ids
  Observations,  \* records [gen, id]: generation and state id
  NoReceipt,
  NoCatalog,     \* catalog_sha256 of "catalog-unavailable"
  MaxEvents      \* max_control_events

Effects == {"pause_requested", "revision_committed", "resume_accepted"}
ControlReceipts == [effect: Effects, version: Nat, plan: Nat]

GateStatus == {"Running", "PauseRequested", "PausedReady", "PausedStale",
               "PausedCommitted", "Stopped"}

ASSUME AuthorityAssumption ==
  /\ \A o \in Observations : o.gen \in Nat
  /\ MaxEvents \in Nat
  /\ NoCatalog \notin Observations
  /\ NoReceipt \notin ControlReceipts

-----------------------------------------------------------------------------
(* The authority.  The catalog is the observation whose legal actions it   *)
(* digests.  An unresolved operation carries the plan it was admitted      *)
(* under, which the code does not keep.                                    *)

Authorities ==
  [status: GateStatus, version: Nat, plan: Nat, paused: BOOLEAN, stopped: BOOLEAN,
   unresolved: SUBSET [id: OperationIds, plan: Nat],
   seen: Observations \union [gen: Nat, id: {NoCatalog}],
   catalog: Observations \union {NoCatalog}, epoch: Nat,
   commands: [Keys -> ControlReceipts \union {NoReceipt}], events: Nat]

NewAuthority(o) ==
  [status |-> "Running", version |-> 1, plan |-> 1, paused |-> FALSE, stopped |-> FALSE,
   unresolved |-> {}, seen |-> o, catalog |-> NoCatalog, epoch |-> 1,
   commands |-> [k \in Keys |-> NoReceipt], events |-> 0]

\* The fields a caller compares: ContextBoundary.
Boundary(a) == [seen |-> a.seen, catalog |-> a.catalog, epoch |-> a.epoch, version |-> a.version]

Reserves(a, n) == a.events + n <= MaxEvents
Unused(a, k) == a.commands[k] = NoReceipt

\* The receipt of a command that took effect, and its n events.
Issue(a, k, effect, n) ==
  [a EXCEPT !.commands[k] = [effect |-> effect, version |-> a.version, plan |-> a.plan],
            !.events = @ + n]

-----------------------------------------------------------------------------
(* The gate.                                                               *)

MayPause(a, k) == Unused(a, k) /\ ~a.stopped /\ ~a.paused /\ Reserves(a, 1)
Pause(a, k) ==
  Issue([a EXCEPT !.paused = TRUE, !.version = @ + 1,
                  !.status = IF a.unresolved = {} THEN "PausedReady" ELSE "PauseRequested"],
        k, "pause_requested", 1)

MayCommit(a, k) == Unused(a, k) /\ a.paused /\ a.status = "PausedReady" /\ Reserves(a, 2)
Commit(a, k) ==
  Issue([a EXCEPT !.plan = @ + 1, !.version = @ + 1, !.status = "PausedCommitted"],
        k, "revision_committed", 2)

\* Fault: the ledger of unresolved operations is not asked.
MayAdoptUnderWork(a, k) == Unused(a, k) /\ ~a.stopped /\ Reserves(a, 1)

MayAdopt(a, k) == Unused(a, k) /\ ~a.stopped /\ a.unresolved = {} /\ Reserves(a, 1)
Adopt(a, k) == Issue([a EXCEPT !.plan = @ + 1, !.version = @ + 1], k, "revision_committed", 1)

MayResume(a, k) ==
  Unused(a, k) /\ ~a.stopped /\ a.paused /\ a.unresolved = {} /\ Reserves(a, 1)
Resume(a, k) ==
  Issue([a EXCEPT !.paused = FALSE, !.version = @ + 1, !.status = "Running"],
        k, "resume_accepted", 1)

Stop(a) ==
  [a EXCEPT !.stopped = TRUE, !.paused = TRUE, !.status = "Stopped",
            !.version = @ + 1, !.events = @ + 1]

-----------------------------------------------------------------------------
(* Boundaries.                                                             *)

\* The digest it leaves is of no observation.
AdvanceBoundary(a) ==
  [a EXCEPT !.seen = [gen |-> @.gen + 1, id |-> NoCatalog], !.events = @ + 1,
            !.status = IF a.paused THEN "PausedStale" ELSE @]

MayObserve(a, o) == o.gen > a.seen.gen \/ o = a.seen
RecordObservation(a, o, catalog) == [a EXCEPT !.seen = o, !.catalog = catalog]

-----------------------------------------------------------------------------
(* Operations.                                                             *)

AdmitsPlan(a, plan) == ~a.paused /\ ~a.stopped /\ plan = a.plan
InFlight(a, x) == \E u \in a.unresolved : u.id = x

MayAdmit(a, x, plan) == AdmitsPlan(a, plan) /\ ~InFlight(a, x) /\ Reserves(a, 1)
AdmitOperation(a, x) ==
  [a EXCEPT !.unresolved = @ \union {[id |-> x, plan |-> a.plan]}, !.events = @ + 1]

Others(a, x) == {u \in a.unresolved : u.id # x}
\* The settlement that empties the ledger of a requested pause makes it ready.
MakesReady(a, x) == a.paused /\ a.status = "PauseRequested" /\ Others(a, x) = {}
MaySettle(a, x) == InFlight(a, x) /\ Reserves(a, IF MakesReady(a, x) THEN 2 ELSE 1)
SettleOperation(a, x) ==
  [a EXCEPT !.unresolved = Others(a, x),
            !.status = IF MakesReady(a, x) THEN "PausedReady" ELSE @,
            !.events = @ + (IF MakesReady(a, x) THEN 2 ELSE 1)]

\* retain_unknown_operation only records the event.
MayRetain(a, x) == InFlight(a, x) /\ Reserves(a, 1)
RetainUnknown(a) == [a EXCEPT !.events = @ + 1]

-----------------------------------------------------------------------------
\* ControlAuthority::recover, under the selected bound.
Recoverable(a) == a.events <= MaxEvents
Recover(a) == [a EXCEPT !.epoch = @ + 1]
=============================================================================
