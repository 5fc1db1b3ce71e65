----------------------------- MODULE DurableRun -----------------------------
(***************************************************************************)
(* One durable runtime-v3 episode: the runtime process that decides,       *)
(* dispatches actions to the game host, waits for their effect and records *)
(* all of it in the execution store, the host at the other end of a lossy  *)
(* wire, and the model provider.  The process may die between any two of   *)
(* its transactions and be started again with --resume.                    *)
(*                                                                         *)
(* A call that reads the host is one step with the transaction that        *)
(* installs its answer: the host's own steps commute with the process's    *)
(* transactions, and a crash in between is a crash before the call.  A     *)
(* dispatch is not a read: its request travels on the wire, and may arrive *)
(* after the process that sent it gave up on it or died.                   *)
(*                                                                         *)
(* An observation is the host's generation: a generation names one state   *)
(* of the game, with its stage and its catalog of legal actions.  The      *)
(* host, which is not part of the repository, is assumed never to lower    *)
(* its generation, to apply an operation identity at most once, and to     *)
(* report an operation settled or rejected only when it is.                *)
(***************************************************************************)
EXTENDS ExecutionStore

CONSTANTS RunLineage,     \* the run, episode and attempt the process is configured for
          Stage,          \* generation -> "ready", "blocked", "unknown" or "terminal"
          MaxGeneration,
          MaxSteps,       \* EpisodeRunnerConfig.max_steps
          MaxAttempts,    \* RecoveryController.max_attempts
          MaxPolls        \* StabilityBarrier.max_polls, for idle waits

Generations == 0..MaxGeneration
Statuses == {"accepted", "settled", "rejected", "unknown"}

\* Observations are generations, decisions are numbered by the step that makes
\* them and their reservation and provider execution ids by the decision.
ASSUME RunAssumption ==
  /\ MaxGeneration \in Nat /\ MaxSteps \in Nat \ {0}
  /\ MaxAttempts \in Nat \ {0} /\ MaxPolls \in Nat \ {0}
  /\ Stage \in [Generations -> {"ready", "blocked", "unknown", "terminal"}]
  /\ RunLineage \in Lineages
  /\ Boundaries = Generations /\ Payloads = Generations
  /\ Results = Statuses \union {"terminal"}
  /\ Decisions = 1..MaxSteps
  /\ Reservations = Decisions /\ ProviderExecutions = Decisions

VARIABLES proc,    \* the memory of the runtime process
          inputs,  \* decisions.input_fingerprint: decision -> observation
          host,    \* the game host: its generation and its record of operations
          wire,    \* operations whose dispatch request is on its way
          calls    \* decision -> provider calls made for it

runVars == <<proc, inputs, host, wire, calls>>

RunEpisode == RunLineage.episode
RunAttempt == RunLineage.attempt

Down == [phase |-> "down", step |-> 0, op |-> None, before |-> 0, status |-> "none",
         obs |-> None, boundary |-> None, next |-> 0, tries |-> 0,
         resuming |-> FALSE, historical |-> FALSE]

RunInit ==
  /\ Init
  /\ proc = Down
  /\ inputs = [d \in Decisions |-> None]
  /\ host = [generation |-> 0, ops |-> [o \in Operations |-> "absent"]]
  /\ wire = {}
  /\ calls = [d \in Decisions |-> 0]

-----------------------------------------------------------------------------
(* Continuations: where the process goes on.                               *)

Goto(p, phase) == [p EXCEPT !.phase = phase, !.tries = 0]

\* Any error of the runner ends in mark_interrupted_unknown.
Fail(p) == Goto(p, "failing")

\* run_inner: the step limit is an error of its own.
NextStep(p) ==
  IF p.step + 1 < MaxSteps
  THEN [Goto(p, "observe") EXCEPT !.step = @ + 1, !.op = None, !.status = "none"]
  ELSE Fail(p)

\* route_observation.
Route(p) ==
  CASE Stage[p.obs] = "terminal" -> Goto(p, "complete")
    [] Stage[p.obs] = "blocked"  -> [Goto(p, "idle") EXCEPT !.before = p.obs]
    [] Stage[p.obs] = "ready"    -> Goto(p, "decide")
    [] Stage[p.obs] = "unknown"  -> Fail(p)

\* Fault: a stage the machine does not know is taken for the end of the game.
SettledAtUnknown(p) ==
  IF Stage[p.obs] \in {"terminal", "unknown"} THEN Goto(p, "complete") ELSE NextStep(p)

\* accept_observation after a settled transition: the report of a terminal
\* stage, the next step, or the error of a stage the machine does not accept.
Settled(p) ==
  CASE Stage[p.obs] = "terminal" -> Goto(p, "complete")
    [] Stage[p.obs] = "unknown"  -> Fail(p)
    [] OTHER -> NextStep(p)

\* Fault: the attempts are not counted.
RetryForever(p) == IF ~p.resuming THEN p ELSE Fail(p)

\* RecoveryController.recover: PortFailure is retried within the budget; the
\* pass over the retained operations at launch has no such loop.
PortFailure(p) ==
  IF ~p.resuming /\ p.tries + 1 < MaxAttempts THEN [p EXCEPT !.tries = @ + 1] ELSE Fail(p)

-----------------------------------------------------------------------------
(* Checkpoints.                                                            *)

Written(a) == {s \in SequenceNumbers : checkpoints[<<a, s>>] # None}
NextSequence ==
  IF Written(RunAttempt) = {} THEN 0
  ELSE 1 + CHOOSE s \in Written(RunAttempt) : \A x \in Written(RunAttempt) : x <= s
LastCheckpoint ==
  IF NextSequence = 0 THEN None ELSE checkpoints[<<RunAttempt, NextSequence - 1>>]

\* verify_resume_boundary and the room for one more checkpoint: MaxSequence
\* stands for the exhausted sequence counter.
Installable(p, g) == p.boundary \in {None, g} /\ p.next <= MaxSequence

\* install: the observation becomes current and is checkpointed; `q` is the
\* process after it.
Install(p, g, q) ==
  /\ Installable(p, g)
  /\ SaveCheckpoint(RunLineage, p.next, g, attempts[RunAttempt].fingerprint)
  /\ proc' = q

Installed(p, g) == [p EXCEPT !.obs = g, !.boundary = None, !.next = @ + 1]

-----------------------------------------------------------------------------
(* Opening the store and launching.                                        *)

\* The worker endpoint admits the episode before it starts its runtime child.
WorkerAdmits ==
  /\ proc.phase = "down"
  /\ \E f \in Fingerprints : StartNewEpisode(RunLineage, f)
  /\ UNCHANGED runVars

Opened == [Down EXCEPT !.phase = "reconcile", !.boundary = LastCheckpoint, !.next = NextSequence]

\* A run without --resume requires an episode the store does not hold.
OpenNew ==
  /\ proc.phase = "down"
  /\ \E f \in Fingerprints : StartNewEpisode(RunLineage, f)
  /\ \E h \in BOOLEAN : proc' = [Opened EXCEPT !.historical = h]
  /\ UNCHANGED <<inputs, host, wire, calls>>

\* A run with --resume continues an active episode of its own lineage; a
\* completed, interrupted or changed one ends the process with nothing done.
OpenResume ==
  /\ proc.phase = "down"
  /\ CurrentLineage(RunLineage)
  /\ \E f \in Fingerprints : attempts[RunAttempt].fingerprint = f
  /\ \E h \in BOOLEAN : proc' = [Opened EXCEPT !.historical = h]
  /\ UNCHANGED <<vars, inputs, host, wire, calls>>

\* Allocation, MCP start-up or an operation that stays unresolved.
LaunchFails ==
  /\ proc.phase = "reconcile"
  /\ proc' = Fail(proc)
  /\ UNCHANGED <<vars, inputs, host, wire, calls>>

\* reconcile_pending_operations takes the retained operations one by one.
ReconcileRetained(o) ==
  /\ proc.phase = "reconcile"
  /\ o \in PendingOperations(RunEpisode)
  /\ proc' = [Goto(proc, "recover") EXCEPT !.op = o, !.resuming = TRUE]
  /\ UNCHANGED <<vars, inputs, host, wire, calls>>

\* All retained operations are resolved: the latest checkpoint is the boundary
\* that the first fresh observation must equal.
Launched ==
  /\ proc.phase = "reconcile"
  /\ PendingOperations(RunEpisode) = {}
  /\ proc' = [Goto(proc, "observe") EXCEPT
                !.boundary = LastCheckpoint, !.resuming = FALSE, !.op = None]
  /\ UNCHANGED <<vars, inputs, host, wire, calls>>

-----------------------------------------------------------------------------
(* Observing.                                                              *)

\* prepare_observation; a stage the machine does not know is reobserved once.
Observe ==
  LET g == host.generation  p == Installed(proc, g) IN
  /\ proc.phase = "observe"
  /\ Install(proc, g, IF Stage[g] = "unknown" THEN Goto(p, "refresh") ELSE Route(p))
  /\ UNCHANGED <<inputs, host, wire, calls>>

\* The call, the boundary check or the checkpoint fails.
ObserveFails ==
  /\ proc.phase \in {"observe", "idle"}
  /\ proc' = Fail(proc)
  /\ UNCHANGED <<vars, inputs, host, wire, calls>>

\* reobserve inside prepare_observation ("refresh") and at the end of a step
\* that changed nothing ("reobserve").
Reobserve ==
  LET g == host.generation  p == Installed(proc, g) IN
  /\ proc.phase \in {"refresh", "reobserve"}
  /\ Install(proc, g, CASE Stage[g] = "unknown" -> Fail(p)
                        [] Stage[g] # "unknown" /\ proc.phase = "refresh" -> Route(p)
                        [] OTHER -> NextStep(p))
  /\ UNCHANGED <<inputs, host, wire, calls>>

\* A transient failure is retried; a terminal one, or an observation that cannot
\* be parsed or checkpointed, is not.
ReobserveFails ==
  /\ proc.phase \in {"refresh", "reobserve"}
  /\ proc' \in {PortFailure(proc), Fail(proc)}
  /\ UNCHANGED <<vars, inputs, host, wire, calls>>

\* Waiting for blocked input ("idle"), or because the policy says so ("pause"):
\* every poll is an observation and a checkpoint.
IdlePoll ==
  LET g == host.generation  p == Installed(proc, g) IN
  /\ proc.phase \in {"idle", "pause"}
  /\ Install(proc, g,
       CASE g > proc.before /\ proc.phase = "idle" ->
              IF Stage[g] = "blocked" THEN NextStep(p) ELSE Route(p)
         [] g > proc.before /\ proc.phase = "pause" ->
              IF Stage[g] = "unknown" THEN Fail(p) ELSE NextStep(p)
         [] g <= proc.before /\ proc.tries + 1 < MaxPolls -> [p EXCEPT !.tries = @ + 1]
         [] OTHER -> IF proc.phase = "idle" THEN Fail(p) ELSE Goto(p, "reobserve"))
  /\ UNCHANGED <<inputs, host, wire, calls>>

\* handle_wait turns every error of the barrier into a reobservation.
PauseFails ==
  /\ proc.phase = "pause"
  /\ proc' = Goto(proc, "reobserve")
  /\ UNCHANGED <<vars, inputs, host, wire, calls>>

-----------------------------------------------------------------------------
(* Deciding.                                                               *)

\* The model execution id of a step: it restarts with the process.
Execution == proc.step + 1

\* record_decision finds the id in use for another input.
DecisionConflict ==
  /\ Exists(decisions[Execution])
  /\ inputs[Execution] # proc.obs

\* resume_for_decision refuses, the legal actions cannot be read, or the id is
\* in use: the policy fails.
DecideFails ==
  /\ proc.phase = "decide"
  /\ proc' = Fail(proc)
  /\ UNCHANGED <<vars, inputs, host, wire, calls>>

\* Fault: the gate of resume_for_decision is left out and a stored decision is
\* used in whatever state it is.
ReuseAny ==
  /\ proc.phase = "decide"
  /\ Exists(decisions[Execution]) /\ inputs[Execution] = proc.obs
  /\ proc' = Goto(proc, "reserve")
  /\ UNCHANGED <<vars, inputs, host, wire, calls>>

\* A completed decision for the same input is replayed.  Any other stored one is
\* taken as it is: pending and unknown ones do not pass resume_for_decision.
ReuseDecision ==
  /\ proc.phase = "decide"
  /\ NothingPending(RunEpisode)
  /\ Exists(decisions[Execution]) /\ inputs[Execution] = proc.obs
  /\ proc' = Goto(proc, IF decisions[Execution].state = "completed" THEN "act" ELSE "reserve")
  /\ UNCHANGED <<vars, inputs, host, wire, calls>>

DecideFresh ==
  /\ proc.phase = "decide"
  /\ NothingPending(RunEpisode)
  /\ RecordDecision(RunLineage, Execution)
  /\ inputs' = [inputs EXCEPT ![Execution] = proc.obs]
  /\ proc' = Goto(proc, "reserve")
  /\ UNCHANGED <<host, wire, calls>>

\* reserve_provider: a reservation of the same identity is returned whatever its
\* state is.
Reserve ==
  /\ proc.phase = "reserve"
  /\ \/ ReserveProvider(Execution, Execution, Execution, MaxUnits)
     \/ Exists(reservations[Execution]) /\ UNCHANGED vars
  /\ proc' = Goto(proc, "invoke")
  /\ UNCHANGED <<inputs, host, wire, calls>>

\* The request is sent to the provider; ProviderNotStarted is the error that
\* proves it was not.
Invoke ==
  /\ proc.phase = "invoke"
  /\ calls' = [calls EXCEPT ![Execution] = @ + 1]
  /\ proc' = Goto(proc, "answer")
  /\ UNCHANGED <<vars, inputs, host, wire>>

InvokeNotStarted ==
  /\ proc.phase = "invoke"
  /\ \/ FailProvider(Execution, 0)
     \/ reservations[Execution].state # "reserved" /\ UNCHANGED vars
  /\ proc' = Fail(proc)
  /\ UNCHANGED <<inputs, host, wire, calls>>

AnswerDecision ==
  /\ proc.phase = "answer"
  /\ CompleteProvider(Execution, MaxUnits)
  /\ proc' = Goto(proc, "act")
  /\ UNCHANGED <<inputs, host, wire, calls>>

\* A malformed answer fails the call, an outage leaves it unknown; a result that
\* the store no longer takes is an error of its own.
AnswerFails ==
  /\ proc.phase = "answer"
  /\ \/ FailProvider(Execution, 0)
     \/ MarkProviderUnknown(Execution, 0)
     \/ reservations[Execution].state # "reserved" /\ UNCHANGED vars
  /\ proc' = Fail(proc)
  /\ UNCHANGED <<inputs, host, wire, calls>>

-----------------------------------------------------------------------------
(* Acting.                                                                 *)

\* dispatch_action: the intent of a fresh operation against the current
\* observation.  A wait or a reobservation needs no operation.
RecordIntent(o) ==
  /\ proc.phase = "act"
  /\ RecordOperationIntent(RunLineage, o, proc.obs)
  /\ proc' = [Goto(proc, "dispatch") EXCEPT !.op = o, !.before = proc.obs]
  /\ UNCHANGED <<inputs, host, wire, calls>>

ChooseWait ==
  /\ proc.phase = "act"
  /\ proc' = [Goto(proc, "pause") EXCEPT !.before = proc.obs]
  /\ UNCHANGED <<vars, inputs, host, wire, calls>>

ChooseReobserve ==
  /\ proc.phase = "act"
  /\ proc' = Goto(proc, "reobserve")
  /\ UNCHANGED <<vars, inputs, host, wire, calls>>

\* The policy releases or stops the episode, or the store has no room for the
\* intent, which leaves nothing to reconcile.
ActFails ==
  /\ proc.phase = "act"
  /\ proc' = Fail(proc)
  /\ UNCHANGED <<vars, inputs, host, wire, calls>>

\* The row says may_have_been_dispatched before the request leaves.
MarkDispatched ==
  /\ proc.phase = "dispatch"
  /\ MarkOperationDispatched(proc.op, operations[proc.op].payload)
  /\ proc' = Goto(proc, "send")
  /\ UNCHANGED <<inputs, host, wire, calls>>

\* Fault: the request leaves before the row says so.
SendFirst ==
  /\ proc.phase \in {"dispatch", "send"}
  /\ wire' = wire \union {proc.op}
  /\ proc' = Goto(proc, "sent")
  /\ UNCHANGED <<vars, inputs, host, calls>>

Send ==
  /\ proc.phase = "send"
  /\ wire' = wire \union {proc.op}
  /\ proc' = Goto(proc, "sent")
  /\ UNCHANGED <<vars, inputs, host, calls>>

\* What the host may answer about an operation; an answer may be late.
Answers(o) ==
  CASE host.ops[o] = "absent"   -> {"unknown"}
    [] host.ops[o] = "admitted" -> {"accepted", "unknown"}
    [] host.ops[o] = "settled"  -> {"accepted", "settled", "unknown"}
    [] host.ops[o] = "rejected" -> {"rejected", "unknown"}

\* The answer to a dispatch: every answer but unknown carries an observation,
\* which is checkpointed before the result of the operation is recorded.
DispatchAnswered(status) ==
  LET g == host.generation IN
  /\ proc.phase = "sent"
  /\ proc.op \notin wire
  /\ status \in Answers(proc.op)
  /\ IF status = "unknown"
     THEN proc' = [Goto(proc, "record") EXCEPT !.status = status] /\ UNCHANGED vars
     ELSE Install(proc, g, [Goto(Installed(proc, g), "record") EXCEPT !.status = status])
  /\ UNCHANGED <<inputs, host, wire, calls>>

\* The answer is lost, malformed or cannot be installed.
DispatchLost ==
  /\ proc.phase = "sent"
  /\ proc' = Goto(proc, "recover")
  /\ UNCHANGED <<vars, inputs, host, wire, calls>>

\* handle_receipt.
AfterDispatch(p) ==
  CASE p.status \in {"accepted", "settled"} -> Goto(p, "settle")
    [] p.status = "rejected" -> Goto(p, "reobserve")
    [] p.status = "unknown" -> Goto(p, "recover")

\* record_durable_receipt.
RecordReceipt ==
  /\ proc.phase = "record"
  /\ RecordOperationResult(proc.op, operations[proc.op].payload, proc.status, proc.status)
  /\ proc' = AfterDispatch(proc)
  /\ UNCHANGED <<inputs, host, wire, calls>>

-----------------------------------------------------------------------------
(* Waiting for the effect of an operation: "settle" after a dispatch, "await" *)
(* after a reconciliation that did not resolve it.                         *)

\* The host reports the effect with a fresh observation.
WaitWitnessed ==
  LET g == host.generation IN
  /\ proc.phase \in {"settle", "await"}
  /\ host.ops[proc.op] = "settled"
  /\ Install(proc, g, Goto(Installed(proc, g),
                            IF proc.phase = "settle" THEN "witness" ELSE "awaited"))
  /\ UNCHANGED <<inputs, host, wire, calls>>

\* Timeout, recovery required, or a lost answer.  After a reconciliation there is
\* no second chance: UncertainMutation.
WaitFails ==
  /\ proc.phase \in {"settle", "await"}
  /\ proc' = IF proc.phase = "settle" THEN Goto(proc, "recover") ELSE Fail(proc)
  /\ UNCHANGED <<vars, inputs, host, wire, calls>>

\* Reconciling a settled answer: a row that is settled already stays so.
ReconcileSettled(o) ==
  \/ operations[o].state \in {"settled", "reconciled"} /\ UNCHANGED vars
  \/ ReconcileOperation(o, operations[o].payload, "settled")

\* record_durable_wait, then verify_settlement and the machine, whose error
\* settle_dispatch hands to recover_action.
RecordWait ==
  /\ proc.phase \in {"witness", "awaited"}
  /\ ReconcileSettled(proc.op)
  /\ proc' = IF Stage[proc.obs] = "unknown" /\ proc.phase = "witness"
             THEN Goto(proc, "recover") ELSE Settled(proc)
  /\ UNCHANGED <<inputs, host, wire, calls>>

-----------------------------------------------------------------------------
(* Reconciling an operation whose outcome is not known.                    *)

Final(status) == status \in {"settled", "rejected"}

\* Fault: an operation the host has no final word on is taken as rejected.
UnresolvedIsRejected(p) ==
  CASE p.resuming -> [Goto(p, "reconcile") EXCEPT !.op = None]
    [] ~p.resuming /\ p.status = "settled" -> Settled(p)
    [] OTHER -> Goto(p, "reobserve")

\* reconcile_uncertain and, for a retained operation, the pass at launch.
AfterReconcile(p) ==
  CASE p.resuming -> IF Final(p.status)
                     THEN [Goto(p, "reconcile") EXCEPT !.op = None, !.status = "none"]
                     ELSE Fail(p)
    [] ~p.resuming /\ p.status = "settled"  -> Settled(p)
    [] ~p.resuming /\ p.status = "rejected" -> Goto(p, "reobserve")
    [] OTHER -> Goto(p, "await")

\* The host's recovery call, or, with a recovery authority, the historical lookup
\* and reconciliation followed by a reobservation.  A final answer clears the
\* resume boundary and installs a fresh observation before the row is resolved.
\* The historical path leaves the row alone when there is no final answer.
ReconcileAnswered(status) ==
  LET g == host.generation  p == [proc EXCEPT !.boundary = None, !.status = status] IN
  /\ proc.phase = "recover"
  /\ status \in Answers(proc.op)
  /\ IF Final(status)
     THEN Install(p, g, [Installed(p, g) EXCEPT !.phase = "resolve"])
     ELSE /\ proc' = IF proc.historical
                     THEN AfterReconcile([proc EXCEPT !.status = "unknown"])
                     ELSE [proc EXCEPT !.status = status, !.phase = "resolve"]
          /\ UNCHANGED vars
  /\ UNCHANGED <<inputs, host, wire, calls>>

\* The answer is lost or malformed, or the connection cannot be made again.
ReconcileLost ==
  /\ proc.phase = "recover"
  /\ proc' \in {PortFailure(proc), Fail(proc)}
  /\ UNCHANGED <<vars, inputs, host, wire, calls>>

\* Fault: what the host could not tell is recorded as a rejection.
RecordUnknownAsRejected(o, status) ==
  \/ status = "settled" /\ ReconcileSettled(o)
  \/ status # "settled" /\ ReconcileOperation(o, operations[o].payload, "rejected")

\* record_reconciled_durable_receipt: what a reconciliation writes.  Unknown and
\* accepted answers are provisional: they never replace earlier evidence.
RecordReconciled(o, status) ==
  LET state == operations[o].state  payload == operations[o].payload IN
  \/ status = "settled" /\ ~proc.historical /\ ReconcileSettled(o)
  \/ status = "settled" /\ proc.historical /\ ReconcileOperation(o, payload, "settled")
  \/ status = "rejected" /\ ReconcileOperation(o, payload, "rejected")
  \/ status = "accepted" /\ RecordOperationResult(o, payload, "accepted", status)
  \/ /\ status = "accepted" /\ operations[o].result = "accepted"
     /\ state \in {"accepted", "unknown"} /\ UNCHANGED vars
  \/ status = "unknown" /\ state = "unknown" /\ UNCHANGED vars
  \/ status = "unknown" /\ state = "accepted" /\ RecordOperationResult(o, payload, "unknown", None)
  \/ /\ status = "unknown" /\ state \notin {"accepted", "unknown"}
     /\ RecordOperationResult(o, payload, "unknown", status)

\* The transition is not one the store takes, or a repeated provisional answer
\* has a digest other than the recorded one.
RefusesReconciled(o, status) ==
  LET state == operations[o].state IN
  CASE status = "settled" ->
         state = "rejected" \/ (proc.historical /\ state \in ResolvedOperationStates)
    [] status = "rejected" -> state \in ResolvedOperationStates
    [] status = "accepted" -> state # "may_have_been_dispatched"
    [] status = "unknown" -> state \in ResolvedOperationStates \union {"intent_recorded"}

Resolve ==
  /\ proc.phase = "resolve"
  /\ RecordReconciled(proc.op, proc.status)
  /\ proc' = AfterReconcile(proc)
  /\ UNCHANGED <<inputs, host, wire, calls>>

\* The store refuses the write: the whole reconciliation is retried.
ResolveFails ==
  /\ proc.phase = "resolve"
  /\ RefusesReconciled(proc.op, proc.status)
  /\ proc' = PortFailure([proc EXCEPT !.phase = "recover"])
  /\ UNCHANGED <<vars, inputs, host, wire, calls>>

-----------------------------------------------------------------------------
(* Ending.                                                                 *)

\* complete_observation.
Complete ==
  /\ proc.phase = "complete"
  /\ proc.next = NextSequence /\ LastCheckpoint = proc.obs
  /\ RecordCompletion(RunLineage, "completed", proc.next - 1, "terminal")
  /\ proc' = Down
  /\ UNCHANGED <<inputs, host, wire, calls>>

\* Closing the lease, the MCP process, the gateway or the provider fails, or the
\* completion is refused.
CompleteFails ==
  /\ proc.phase = "complete"
  /\ proc' = Fail(proc)
  /\ UNCHANGED <<vars, inputs, host, wire, calls>>

MarkInterrupted ==
  /\ proc.phase = "failing"
  /\ MarkInterruptedUnknown(RunEpisode)
  /\ proc' = Down
  /\ UNCHANGED <<inputs, host, wire, calls>>

\* The process dies: its memory is gone, what it sent is not.
Crash ==
  /\ proc.phase # "down"
  /\ proc' = Down
  /\ UNCHANGED <<vars, inputs, host, wire, calls>>

-----------------------------------------------------------------------------
(* The host and the wire (external).                                       *)

\* A request is admitted when it is about the current, actionable state and its
\* operation is new; otherwise the operation is rejected for good.
HostReceives(o) ==
  /\ o \in wire
  /\ wire' = wire \ {o}
  /\ host' = [host EXCEPT !.ops[o] =
                IF @ # "absent" THEN @
                ELSE IF operations[o].payload = host.generation /\ Stage[host.generation] = "ready"
                     THEN "admitted" ELSE "rejected"]
  /\ UNCHANGED <<vars, proc, inputs, calls>>

HostSettles(o) ==
  /\ host.ops[o] = "admitted"
  /\ host.generation < MaxGeneration
  /\ host' = [host EXCEPT !.ops[o] = "settled", !.generation = @ + 1]
  /\ UNCHANGED <<vars, proc, inputs, wire, calls>>

HostRefuses(o) ==
  /\ host.ops[o] = "admitted"
  /\ host' = [host EXCEPT !.ops[o] = "rejected"]
  /\ UNCHANGED <<vars, proc, inputs, wire, calls>>

\* The game moves on by itself, through an animation or a screen it cannot name.
HostAdvances ==
  /\ Stage[host.generation] \in {"blocked", "unknown"}
  /\ host.generation < MaxGeneration
  /\ host' = [host EXCEPT !.generation = @ + 1]
  /\ UNCHANGED <<vars, proc, inputs, wire, calls>>

WireLoses(o) ==
  /\ o \in wire
  /\ wire' = wire \ {o}
  /\ UNCHANGED <<vars, proc, inputs, host, calls>>

-----------------------------------------------------------------------------
LaunchStep ==
  LaunchFails \/ Launched \/ \E o \in Operations : ReconcileRetained(o)

ObserveStep ==
  Observe \/ ObserveFails \/ Reobserve \/ ReobserveFails \/ IdlePoll \/ PauseFails

DecideStep ==
  \/ DecideFails \/ ReuseDecision \/ DecideFresh \/ Reserve
  \/ Invoke \/ InvokeNotStarted \/ AnswerDecision \/ AnswerFails

ActStep ==
  \/ \E o \in Operations : RecordIntent(o)
  \/ ChooseWait \/ ChooseReobserve \/ ActFails
  \/ MarkDispatched \/ Send \/ DispatchLost \/ RecordReceipt
  \/ \E status \in Statuses : DispatchAnswered(status)
  \/ WaitWitnessed \/ WaitFails \/ RecordWait

RecoverStep ==
  \/ \E status \in Statuses : ReconcileAnswered(status)
  \/ ReconcileLost \/ Resolve \/ ResolveFails

EndStep == Complete \/ CompleteFails \/ MarkInterrupted

\* What the process does once it is open.
RunStep ==
  LaunchStep \/ ObserveStep \/ DecideStep \/ ActStep \/ RecoverStep \/ EndStep

HostStep ==
  \/ \E o \in Operations : HostReceives(o) \/ HostSettles(o) \/ HostRefuses(o) \/ WireLoses(o)
  \/ HostAdvances

RunNext == WorkerAdmits \/ OpenNew \/ OpenResume \/ RunStep \/ Crash \/ HostStep

RunSpec == RunInit /\ [][RunNext]_<<vars, runVars>>

\* Every call of the process has a timeout, so the process always takes its next
\* step; whether it is started again, and what the host does, is not promised.
FairRunSpec == RunSpec /\ WF_<<vars, runVars>>(RunStep)

-----------------------------------------------------------------------------
(* Properties.                                                             *)

Phases ==
  {"down", "reconcile", "observe", "refresh", "reobserve", "idle", "pause", "decide",
   "reserve", "invoke", "answer", "act", "dispatch", "send", "sent", "record", "settle",
   "witness", "recover", "resolve", "await", "awaited", "complete", "failing"}

Deciding == proc.phase \in {"decide", "reserve", "invoke", "answer", "act"}

\* The memory of the process.
Processes ==
  [phase: Phases, step: 0..MaxSteps - 1, op: Operations \union {None},
   before: Generations, status: Statuses \union {"none"},
   obs: Generations \union {None}, boundary: Generations \union {None},
   next: 0..MaxSequence + 1, tries: 0..MaxAttempts + MaxPolls,
   resuming: BOOLEAN, historical: BOOLEAN]

\* Type invariant of the run, on top of the store's.
RunTypeOK ==
  /\ TypeOK
  /\ proc \in Processes
  /\ inputs \in [Decisions -> Generations \union {None}]
  /\ host \in [generation: Generations,
               ops: [Operations -> {"absent", "admitted", "settled", "rejected"}]]
  /\ wire \subseteq Operations
  /\ calls \in [Decisions -> Nat]

\* dispatch_action writes may_have_been_dispatched before the request leaves, so a
\* crash never leaves an action at the host, or on its way there, that the store
\* does not know of or holds for not sent.
DispatchRecorded ==
  \A o \in Operations : o \in wire \/ host.ops[o] # "absent" =>
    operations[o].state \notin {"absent", "intent_recorded"}

\* The outcome the store holds for an operation: none, open, applied or refused.
Recorded(o) ==
  CASE operations[o].state = "absent" -> "none"
    [] UnresolvedOperation(o) -> "open"
    [] operations[o].state = "settled" -> "applied"
    [] operations[o].state = "reconciled" /\ operations[o].result = "settled" -> "applied"
    [] OTHER -> "refused"

\* The outcome of an operation at the host.
Effect(o) ==
  CASE host.ops[o] = "settled" -> "applied"
    [] host.ops[o] = "rejected" -> "refused"
    [] OTHER -> "none"

\* "Never ask policy for a replacement while the host may still be executing the
\* admitted action" (runner_recovery.rs): whenever the policy is asked, in a fresh
\* or a resumed process, no earlier action is on its way or being executed, the
\* store has the true outcome of every one of them, and what the policy sees is
\* the state the host is in and the last one the store holds.
DecidesOnSettledWorld ==
  Deciding =>
    /\ wire = {}
    /\ \A o \in Operations : host.ops[o] # "admitted"
    /\ \A o \in Operations : Effect(o) # "none" => Recorded(o) = Effect(o)
    /\ proc.obs = host.generation
    /\ proc.next = NextSequence /\ proc.obs = LastCheckpoint

\* An episode that reaches a terminal stage can be completed: record_completion is
\* never refused for want of a checkpoint or because something is unresolved.
CompletionAdmissible ==
  proc.phase = "complete" =>
    /\ CurrentLineage(RunLineage)
    /\ NothingPending(RunEpisode)
    /\ proc.next = NextSequence /\ LastCheckpoint = proc.obs /\ Stage[proc.obs] = "terminal"

\* A completion is about the state the game really ended in.
CompletedAtTheEnd ==
  completions[RunEpisode] # NoCompletion =>
    /\ Stage[host.generation] = "terminal"
    /\ checkpoints[<<RunAttempt, completions[RunEpisode].sequence>>] = host.generation

\* "A mismatch cannot be turned into a new provider decision"
\* (runtime_v3_durable_checkpoints.rs): a process starts from the state the
\* durable trajectory ends with, so the trajectory has no gap across a crash.
ResumeContinues ==
  [][proc.phase = "observe" /\ proc.step = 0
       /\ proc'.phase \notin {"observe", "failing", "down"} =>
       LastCheckpoint \in {None, proc'.obs}]_<<vars, runVars>>

\* A provider call that was cut off, or whose outcome is unknown, is never made
\* again: the only call made twice is one that is recorded as failed.
UncertainCallNotRepeated ==
  [][\A d \in Decisions : calls'[d] > calls[d] /\ calls[d] > 0 =>
       reservations[d].state = "failed"]_<<vars, runVars>>

\* A resumed process continues the durable trajectory and repeats no call whose outcome
\* is uncertain.
ResumesSafely == ResumeContinues /\ UncertainCallNotRepeated

\* The run is a serial, at-most-once, truthfully recorded sequence of actions.
Actions == INSTANCE SerialActions WITH
  effect <- [o \in Operations |-> Effect(o)],
  recorded <- [o \in Operations |-> Recorded(o)]
ImplementsSerialActions == Actions!Spec

\* Every process ends: it completes the episode, marks it interrupted or dies.
RunEnds == proc.phase # "down" ~> proc.phase = "down"

\* reserve_provider "can inspect this reservation and conservatively retain it as
\* unknown instead of charging twice" (store_provider.rs): a restart never makes
\* a second call for a decision.
ProviderCalledOnce == \A d \in Decisions : calls[d] <= 1

\* "rerun with --resume after reviewing pending state" (runtime_v3_durable.rs) and
\* the admission gate of resume_for_decision: with nothing pending and a verified
\* observation, a resumed process may decide.
ResumedRunMayDecide ==
  proc.phase = "decide" /\ NothingPending(RunEpisode) => ~DecisionConflict

\* An action on the wire or at the host is one the store holds for possibly sent, and the
\* memory of the process always has what its next call needs.
RunSound == RunTypeOK /\ DispatchRecorded

\* A terminal observation can be completed when it is reached, and what is recorded as
\* completed is the true end of the game.
CompletionSound == CompletionAdmissible /\ CompletedAtTheEnd
=============================================================================
