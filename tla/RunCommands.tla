---------------------------- MODULE RunCommands ----------------------------
(***************************************************************************)
(* The commands of one live workflow run: management/service_ops.rs        *)
(* (command), store_sqlite_ops.rs (accept_command, apply_command), the     *)
(* live port's execution_commands.rs with node.rs, node_decision.rs and    *)
(* node_recovery.rs, and the part of workflow/runtime.rs that they drive.  *)
(*                                                                         *)
(* Callers are threads of the service.  A command is accepted in one store *)
(* transaction, applied to the live run under the run's lock, and recorded *)
(* in another transaction after the lock is free.  A Step crosses the      *)
(* provider or the game; the intent is durable before it does.  The        *)
(* submission that registered the run is still to write its last snapshot  *)
(* when the first commands can arrive.  A crash loses the live run.        *)
(***************************************************************************)
EXTENDS Naturals, FiniteSets

CONSTANTS
    Callers,       \* threads that serve commands
    NoCaller,
    Commands,      \* command ids
    KindOf,        \* [Commands -> Kinds]: the kind is part of the request
    Setups,        \* records [commands, route, retry, maxSteps, maxCalls]: the commands
                   \* clients send, the edges of the graph, whether they send one again
                   \* that was released, and the limits of the definition
    EndsAs,        \* status of the terminal node
    MaxEffects     \* bound: identities of exchanges and actions

Kinds == {"pause", "resume", "cancel", "step"}
Nodes == {"observe", "decide", "act", "end"}
Outcomes == {"Ok", "Error", "Unavailable"}
Ids == 1..MaxEffects
NoId == 0

ASSUME CommandAssumption ==
    /\ NoCaller \notin Callers
    /\ IsFiniteSet(Commands)
    /\ KindOf \in [Commands -> Kinds]
    /\ Setups \subseteq [commands: SUBSET Commands, retry: BOOLEAN, maxSteps: Nat, maxCalls: Nat,
                        route: [Nodes \X Outcomes -> Nodes \cup {"none"}]]
    /\ EndsAs \in {"Completed", "Failed", "NeedsOperator"}
    /\ MaxEffects \in Nat

VARIABLES
    setup,      \* fixed
    snapshot,   \* durable run: revision, status, pending operation, cleanup
    row,        \* durable command rows
    expected,   \* expected_revision of an accepted command
    run,        \* the live run, in memory
    registered, \* the registry of the port holds the run
    lock,       \* holder of the run's lock
    caller,     \* per thread: where it is, its command, what it will record
    submission, \* where the submission is that registered the run
    effect,     \* outside: what became of each identity
    exchanges,  \* outside: the identities that are provider exchanges
    lease       \* outside: the session's lease

commandsVars == <<setup, snapshot, row, expected, run, registered, lock, caller, submission,
          effect, exchanges, lease>>

outside == <<effect, exchanges, lease>>
durable == <<snapshot, row, expected>>

Idle == [at |-> "idle"]

CommandsInit ==
    /\ setup \in Setups
    /\ snapshot = [revision |-> 1, status |-> "Created", pending |-> NoId,
                   cleanup |-> "NotStarted"]
    /\ row = [c \in Commands |-> "absent"]
    /\ expected = [c \in Commands |-> 0]
    /\ run = [rt |-> "Running", cancelled |-> FALSE, pending |-> NoId,
              resolved |-> "no", held |-> NoId, answered |-> FALSE,
              cleanup |-> "NotStarted", node |-> "observe", steps |-> 0,
              calls |-> 0, fresh |-> FALSE]
    /\ registered = TRUE
    /\ lock = NoCaller
    /\ caller = [t \in Callers |-> Idle]
    /\ submission = "registered"
    /\ effect = [i \in Ids |-> "unused"]
    /\ exchanges = {}
    /\ lease = "held"

----------------------------------------------------------------------------
(* The store's transactions.                                               *)

\* accept_command and the checks of `command` after it.  A command that gets
\* its stored response, Pending, or a stale revision changes nothing and is
\* no step.  A released row goes on as it is: it is not put in flight again.
Admissible(c) ==
    \/ setup.retry /\ row[c] = "released" /\ expected[c] = snapshot.revision
    \/ row[c] = "absent" /\ \A d \in Commands : row[d] # "inflight"

Accept(t, c) ==
    /\ caller[t] = Idle
    /\ Admissible(c)
    /\ row' = [row EXCEPT ![c] = IF @ = "absent" THEN "inflight" ELSE @]
    /\ expected' = [expected EXCEPT ![c] = snapshot.revision]
    /\ caller' = [caller EXCEPT ![t] = [at |-> "accepted", command |-> c]]
    /\ UNCHANGED <<snapshot, run, registered, lock, submission, outside>>

\* release_command: only a row without a response.
Released(c) == [row EXCEPT ![c] = IF @ = "inflight" THEN "released" ELSE @]

\* record_operation_intent: the revision is the command's and no other
\* operation is durable.
IntentAccepted(c) == snapshot.revision = expected[c] /\ snapshot.pending = NoId

\* apply_command of the store: the revision must be the next one.
Fits(a) == a.revision = snapshot.revision + 1

Record(t) ==
    LET c == caller[t].command  a == caller[t].application IN
    /\ caller[t].at = "record"
    /\ caller' = [caller EXCEPT ![t] = Idle]
    /\ IF row[c] # "done" /\ Fits(a)
       THEN /\ snapshot' = a
            /\ row' = [row EXCEPT ![c] = "done"]
       ELSE UNCHANGED <<snapshot, row>>
    /\ UNCHANGED <<expected, run, registered, lock, submission, outside>>

\* The application is not recorded: its snapshot does not bind or its evidence
\* does not validate, the event log is full, or SQLite fails.  The live run went
\* on; the command stays in flight and the durable run stays behind.
RecordFails(t) ==
    /\ caller[t].at = "record"
    /\ caller' = [caller EXCEPT ![t] = Idle]
    /\ UNCHANGED <<durable, run, registered, lock, submission, outside>>

----------------------------------------------------------------------------
(* The live port.                                                          *)

\* The lookup of the run; without it the command stays in flight.
Lookup(t) ==
    /\ caller[t].at = "accepted"
    /\ caller' = [caller EXCEPT ![t] = IF registered THEN [@ EXCEPT !.at = "found"] ELSE Idle]
    /\ UNCHANGED <<snapshot, row, expected, run, registered, lock, submission, outside>>

\* The pending operation that is published: an action, else a held attempt.
PublishedActionOnly(r) == r.pending
Published(r) == IF r.pending # NoId THEN r.pending ELSE r.held

\* application: what caller t will record of run r.
Application(t, r, status) ==
    [at |-> "record", command |-> caller[t].command,
     application |-> [revision |-> expected[caller[t].command] + 1, status |-> status,
                      pending |-> Published(r),
                      cleanup |-> r.cleanup]]

\* The port returns Ok with an application, and lets go of the lock.
Applies(t, r, status) ==
    /\ run' = r
    /\ lock' = NoCaller
    /\ caller' = [caller EXCEPT ![t] = Application(t, r, status)]
    /\ UNCHANGED <<durable, registered, submission>>

\* The port returns an error: the service releases the command, or keeps it in
\* flight when the class is Unresolved or WriteStateUnknown.
Refuses(t, r, class) ==
    /\ run' = r
    /\ lock' = NoCaller
    /\ caller' = [caller EXCEPT ![t] = Idle]
    /\ row' = IF class = "Unresolved" THEN row ELSE Released(caller[t].command)
    /\ UNCHANGED <<snapshot, expected, registered, submission>>

\* The port goes on under the lock.
GoesOn(t, r, at) ==
    /\ run' = r
    /\ lock' = t
    /\ caller' = [caller EXCEPT ![t].at = at]
    /\ UNCHANGED <<durable, registered, submission>>

\* cleanup_session: stop and release, each of which can fail.  The lease is
\* released though the stop failed, and a failed release may have reached the game.
Cleaned(r, ok) == [r EXCEPT !.cleanup = IF ok THEN "Complete" ELSE "NeedsOperator"]
LeasesAfter(ok) == IF ok THEN {"released"} ELSE {lease, "released"}

Enters(t, kind) ==
    /\ caller[t].at = "found"
    /\ KindOf[caller[t].command] = kind
    /\ lock = NoCaller

Always == TRUE
NotCancelled == ~run.cancelled

CancelDominates(t, kind) ==
    /\ Enters(t, kind)
    /\ run.cancelled
    /\ Applies(t, run, "Cancelled")
    /\ UNCHANGED outside

\* The session refuses to pause or resume, or its answer is not known.
SessionErrors == {"Unavailable", "Unresolved"}

Pause(t) ==
    /\ Enters(t, "pause")
    /\ NotCancelled
    /\ \/ \E class \in SessionErrors : Refuses(t, run, class)
       \/ IF run.rt = "Running"
          THEN Applies(t, [run EXCEPT !.rt = "Paused"], "Paused")
          ELSE Refuses(t, run, "Conflict")
    /\ UNCHANGED outside

Resume(t) ==
    /\ Enters(t, "resume")
    /\ NotCancelled
    /\ \/ \E class \in SessionErrors : Refuses(t, run, class)
       \/ IF run.rt = "Paused"
          THEN Applies(t, [run EXCEPT !.rt = "Running"], "Running")
          ELSE Refuses(t, run, "Conflict")
    /\ UNCHANGED outside

\* reconcile_pending: what it can return.  "unknown" is an unresolved receipt or
\* a failed call, "other" a receipt of another operation.
Reconciled ==
    IF run.pending = NoId THEN {"none"}
    ELSE {"unknown", "other"} \cup ({effect[run.pending]} \cap {"settled", "refused"})

Cancel(t, answer, ok) ==
    /\ Enters(t, "cancel")
    /\ answer \in Reconciled
    /\ UNCHANGED <<effect, exchanges>>
    /\ IF answer = "unknown"
       THEN Applies(t, run, "NeedsOperator") /\ UNCHANGED lease
       ELSE LET r == Cleaned([run EXCEPT !.cancelled = TRUE,
                                         !.pending = IF answer = "other" THEN @ ELSE NoId,
                                         !.resolved = "no"], ok) IN
            /\ lease' \in LeasesAfter(ok)
            /\ IF answer = "other" THEN Refuses(t, r, "Conflict")
               ELSE Applies(t, r, IF ok THEN "Cancelled" ELSE "NeedsOperator")

\* bind_dispatch_context: "ok" where the node needs no binding.
Bindings == IF run.node = "decide" THEN {"ok", "Unavailable", "Unresolved"} ELSE {"ok"}

\* check_context_binding_history_capacity, before the port is called.
HistoryFull(t) ==
    /\ caller[t].at = "accepted"
    /\ KindOf[caller[t].command] = "step"
    /\ row' = Released(caller[t].command)
    /\ caller' = [caller EXCEPT ![t] = Idle]
    /\ UNCHANGED <<snapshot, expected, run, registered, lock, submission, outside>>

\* The head of Step: reconcile, re-open, bind.
StepBegins(t, answer, bound) ==
    /\ Enters(t, "step")
    /\ NotCancelled
    /\ UNCHANGED outside
    /\ IF run.rt = "Paused" THEN Refuses(t, run, "Conflict")
       ELSE /\ answer \in Reconciled
            /\ CASE answer = "unknown" -> Refuses(t, run, "Unresolved")
                 [] answer = "other" -> Refuses(t, run, "Conflict")
                 [] OTHER ->
                    LET r == [run EXCEPT !.resolved = IF answer = "none" THEN @ ELSE answer,
                                         !.rt = IF @ = "NeedsOperator" THEN "Running" ELSE @] IN
                    /\ bound \in Bindings
                    /\ IF bound = "ok" THEN GoesOn(t, r, "node") ELSE Refuses(t, r, bound)

\* What a RuntimeFault makes of the run: fail, stop and release.
Fails(t, r, ok) ==
    /\ Applies(t, Cleaned([r EXCEPT !.rt = "Failed"], ok), IF ok THEN "Failed" ELSE "NeedsOperator")
    /\ lease' \in LeasesAfter(ok)

Exhausts(t, r, ok) ==
    /\ Applies(t, Cleaned(r, ok), "NeedsOperator")
    /\ lease' \in LeasesAfter(ok)

\* UnknownEffect: the run needs an operator and its session is left alone.
Unknown(t, r) ==
    /\ Applies(t, [r EXCEPT !.rt = "NeedsOperator"], "NeedsOperator")
    /\ UNCHANGED lease

\* The node succeeded with an outcome: the edge decides; without one the run fails.
Edge(r, outcome) == setup.route[<<r.node, outcome>>]

Advances(t, r, outcome, ok) ==
    LET next == Edge(r, outcome)
        s == [r EXCEPT !.steps = @ + 1, !.node = IF next = "none" THEN @ ELSE next] IN
    IF next = "none" THEN Fails(t, s, ok)
    ELSE Applies(t, s, "Running") /\ UNCHANGED lease

AtNode(t, node) ==
    /\ caller[t].at = "node"
    /\ run.rt = "Running"
    /\ run.steps < setup.maxSteps
    /\ run.node = node

NotSteppable(t, ok) ==
    /\ caller[t].at = "node"
    /\ run.rt # "Running"
    /\ Fails(t, run, ok)
    /\ UNCHANGED <<effect, exchanges>>

StepsExhausted(t, ok) ==
    /\ caller[t].at = "node"
    /\ run.rt = "Running"
    /\ run.steps >= setup.maxSteps
    /\ Exhausts(t, [run EXCEPT !.rt = "NeedsOperator"], ok)
    /\ UNCHANGED <<effect, exchanges>>

\* The terminal node: release only, and a failed release needs an operator.
End(t, ok) ==
    LET r == Cleaned([run EXCEPT !.rt = EndsAs, !.steps = @ + 1], ok) IN
    /\ AtNode(t, "end")
    /\ Applies(t, r, IF ok THEN EndsAs ELSE "NeedsOperator")
    /\ lease' \in LeasesAfter(ok)
    /\ UNCHANGED <<effect, exchanges>>

\* observe: a new observation makes an earlier proposal stale.
Observe(t, seen, ok) ==
    /\ AtNode(t, "observe")
    /\ IF seen THEN Advances(t, [run EXCEPT !.fresh = FALSE], "Ok", ok) ELSE Fails(t, run, ok)
    /\ UNCHANGED <<effect, exchanges>>

FirstUnused == CHOOSE i \in Ids : effect[i] = "unused" /\ \A j \in Ids : effect[j] = "unused" => i <= j
Mintable == \E i \in Ids : effect[i] = "unused"

\* hold_decision_attempt: the intent is durable, then the attempt is held.
AttemptHeld(t, i) ==
    /\ run' = [run EXCEPT !.held = i, !.answered = FALSE]
    /\ snapshot' = [snapshot EXCEPT !.pending = i]
    /\ effect' = [effect EXCEPT ![i] = "intent"]
    /\ exchanges' = exchanges \cup {i}
    /\ caller' = [caller EXCEPT ![t].at = "exchange"]
    /\ UNCHANGED <<row, expected, registered, lock, submission, lease>>

\* decide_with_held_attempt up to the exchange.
HoldAttempt(t, readable, ok) ==
    /\ AtNode(t, "decide")
    /\ run.held = NoId
    /\ IF run.calls >= setup.maxCalls
       THEN Exhausts(t, run, ok) /\ UNCHANGED <<effect, exchanges>>
       ELSE /\ Mintable
            /\ IF readable /\ IntentAccepted(caller[t].command)
               THEN AttemptHeld(t, FirstUnused)
               ELSE Fails(t, run, ok) /\ UNCHANGED <<effect, exchanges>>

\* finish_decision of an answer: an action, a decision without one, or one that
\* cannot be used, which keeps the attempt with its answer.
Decided(t, r, reply, ok) ==
    CASE reply = "action" -> Advances(t, [r EXCEPT !.fresh = TRUE], "Ok", ok)
      [] reply = "none" -> Advances(t, r, "Unavailable", ok)
      [] reply = "unusable" -> Fails(t, [r EXCEPT !.answered = TRUE], ok)

\* retry_held_decision: the decision that was answered, or no exchange at all.
\* The catalog may not be readable, or no longer be the admitted one.
RetryHeld(t, catalog, ok) ==
    /\ AtNode(t, "decide")
    /\ run.held # NoId
    /\ CASE catalog = "unreadable" -> Fails(t, run, ok)
         [] catalog = "same" /\ run.answered ->
              Decided(t, [run EXCEPT !.held = NoId], "action", ok)
         [] OTHER -> Unknown(t, run)
    /\ UNCHANGED <<effect, exchanges>>

\* decide_for and what is made of its result.
Replies == {"action", "none", "unusable", "lost", "paused", "refused"}

\* The attempt is held as long as its exchange may stand or its answer is not used.
HeldAfterFault(reply) == IF reply = "unusable" THEN run.held ELSE NoId
HeldAfter(reply) == IF reply \in {"lost", "unusable"} THEN run.held ELSE NoId

Exchange(t, reply, ok) ==
    LET r == [run EXCEPT !.held = HeldAfter(reply)]
        paid == [r EXCEPT !.calls = @ + 1] IN
    /\ caller[t].at = "exchange"
    /\ effect' = [effect EXCEPT ![run.held] =
                    CASE reply = "lost" -> "open"
                      [] reply \in {"paused", "refused"} -> "refused"
                      [] OTHER -> "settled"]
    /\ UNCHANGED exchanges
    /\ CASE reply \in {"action", "none", "unusable"} -> Decided(t, paid, reply, ok)
         [] reply = "lost" -> Unknown(t, r)
         [] reply = "paused" -> Applies(t, r, "Running") /\ UNCHANGED lease
         [] reply = "refused" -> Fails(t, r, ok)

\* finish_receipt of a resolved operation.
Finish(t, receipt, verified, ok) ==
    LET r == [run EXCEPT !.pending = NoId, !.resolved = "no"] IN
    CASE receipt = "refused" -> Advances(t, r, "Error", ok)
      [] receipt # "refused" /\ verified -> Advances(t, [r EXCEPT !.fresh = FALSE], "Ok", ok)
      [] OTHER -> Fails(t, r, ok)

\* execute_action with a pending operation.
FinishPending(t, verified, ok) ==
    /\ AtNode(t, "act")
    /\ run.pending # NoId
    /\ IF run.resolved = "no" THEN Unknown(t, run) ELSE Finish(t, run.resolved, verified, ok)
    /\ UNCHANGED <<effect, exchanges>>

\* execute_action up to the dispatch.
InstallPending(t, ok) ==
    /\ AtNode(t, "act")
    /\ run.pending = NoId
    /\ IF ~run.fresh
       THEN Fails(t, run, ok) /\ UNCHANGED <<effect, exchanges>>
       ELSE /\ Mintable
            /\ UNCHANGED exchanges
            /\ IF IntentAccepted(caller[t].command)
               THEN /\ run' = [run EXCEPT !.pending = FirstUnused]
                    /\ snapshot' = [snapshot EXCEPT !.pending = FirstUnused]
                    /\ effect' = [effect EXCEPT ![FirstUnused] = "intent"]
                    /\ caller' = [caller EXCEPT ![t].at = "dispatch"]
                    /\ UNCHANGED <<row, expected, registered, lock, submission, lease>>
               ELSE Fails(t, run, ok) /\ UNCHANGED effect

\* dispatch_action and the wait after it.  "unknown" stands for every failure of
\* the two: the operation may have been sent.
Dispatch(t, receipt, verified, ok) ==
    /\ caller[t].at = "dispatch"
    /\ effect' = [effect EXCEPT ![run.pending] = IF receipt = "unknown" THEN "open" ELSE receipt]
    /\ UNCHANGED exchanges
    /\ IF receipt = "unknown" THEN Unknown(t, run) ELSE Finish(t, receipt, verified, ok)

----------------------------------------------------------------------------
(* The submission, the game and the process.                               *)

\* update_run_snapshot at the end of the submission, which compares revisions.
SubmissionRecorded ==
    /\ submission = "registered"
    /\ snapshot.revision = 1
    /\ snapshot' = [snapshot EXCEPT !.status = "Running", !.pending = NoId]
    /\ submission' = "done"
    /\ UNCHANGED <<row, expected, run, registered, lock, caller, outside>>

\* The revision moved: persist_reserved_failure aborts the run, and cannot
\* record it either, for the same reason.
SubmissionAborts ==
    /\ submission = "registered"
    /\ snapshot.revision # 1
    /\ registered' = FALSE
    /\ submission' = "aborting"
    /\ UNCHANGED <<durable, run, lock, caller, outside>>

AbortCleanup(ok) ==
    /\ submission = "aborting"
    /\ lock = NoCaller
    /\ run' = Cleaned(run, ok)
    /\ lease' \in LeasesAfter(ok)
    /\ submission' = "done"
    /\ UNCHANGED <<durable, registered, lock, caller, effect, exchanges>>

\* The game makes up its mind about an action whose reply was lost.
GameResolves(i, how) ==
    /\ effect[i] = "open" /\ i \notin exchanges
    /\ effect' = [effect EXCEPT ![i] = how]
    /\ UNCHANGED <<durable, run, registered, lock, caller, submission, exchanges, lease>>

\* The service dies.  An exchange or a dispatch under way may have been sent.
Crash ==
    /\ registered
    /\ registered' = FALSE
    /\ caller' = [t \in Callers |-> Idle]
    /\ lock' = NoCaller
    /\ submission' = "done"
    /\ effect' = [i \in Ids |-> IF /\ effect[i] = "intent"
                                   /\ \E t \in Callers : caller[t].at \in {"exchange", "dispatch"}
                                THEN "open" ELSE effect[i]]
    /\ UNCHANGED <<durable, run, exchanges, lease>>

NodeStep(t) ==
    \/ \E ok \in BOOLEAN :
        \/ NotSteppable(t, ok) \/ StepsExhausted(t, ok) \/ End(t, ok)
        \/ InstallPending(t, ok)
        \/ \E seen \in BOOLEAN : Observe(t, seen, ok) \/ HoldAttempt(t, seen, ok)
        \/ \E catalog \in {"same", "changed", "unreadable"} : RetryHeld(t, catalog, ok)
        \/ \E reply \in Replies : Exchange(t, reply, ok)
        \/ \E verified \in BOOLEAN : FinishPending(t, verified, ok)
        \/ \E receipt \in {"settled", "refused", "unknown"}, verified \in BOOLEAN :
              Dispatch(t, receipt, verified, ok)

CallerStep(t) ==
    \/ Lookup(t) \/ HistoryFull(t) \/ Record(t) \/ RecordFails(t) \/ Pause(t) \/ Resume(t)
    \/ \E kind \in Kinds \ {"cancel"} : CancelDominates(t, kind)
    \/ \E answer \in {"none", "unknown", "other", "settled", "refused"} :
        \/ \E ok \in BOOLEAN : Cancel(t, answer, ok)
        \/ \E bound \in {"ok", "Unavailable", "Unresolved"} : StepBegins(t, answer, bound)
    \/ NodeStep(t)

CommandsStep ==
    \/ \E t \in Callers : CallerStep(t) \/ \E c \in setup.commands : Accept(t, c)
    \/ SubmissionRecorded \/ SubmissionAborts \/ \E ok \in BOOLEAN : AbortCleanup(ok)
    \/ \E i \in Ids, how \in {"settled", "refused"} : GameResolves(i, how)
    \/ Crash

CommandsNext == CommandsStep /\ UNCHANGED setup

CommandsSpec == CommandsInit /\ [][CommandsNext]_commandsVars

----------------------------------------------------------------------------
(* Properties.                                                             *)

\* The type invariant.
CommandsTypeOK ==
    /\ snapshot.revision \in 1..(Cardinality(Commands) + 1)
    /\ snapshot.pending \in Ids \cup {NoId}
    /\ row \in [Commands -> {"absent", "inflight", "released", "done"}]
    /\ run.rt \in {"Running", "Paused", "Completed", "Failed", "NeedsOperator"}
    /\ run.node \in Nodes
    /\ {run.pending, run.held} \subseteq Ids \cup {NoId}
    /\ lock \in Callers \cup {NoCaller}
    /\ effect \in [Ids -> {"unused", "intent", "open", "settled", "refused"}]
    /\ exchanges \subseteq Ids

\* Nothing is sent while something else may stand: as long as a provider
\* exchange or an action has an unknown outcome, no other one is even prepared,
\* whatever is re-sent, retried, cancelled or lost (node.rs, node_decision.rs).
OneOpenEffect == Cardinality({i \in Ids : effect[i] \in {"intent", "open"}}) <= 1

\* What may stand outside is published in the durable run, through a crash as
\* well (record_operation_intent, application), where no client re-sends a command
\* that was released: such a one is not in flight, and another may overtake it.
OpenEffectDurable == ~setup.retry => \A i \in Ids : effect[i] \in {"intent", "open"} => snapshot.pending = i

\* Every revision after the first is one command with a stored response.
RevisionsCountCommands == snapshot.revision = 1 + Cardinality({c \in Commands : row[c] = "done"})

\* recovery_admission of the live port on the durable run; it may have no say.
LiveAdmission ==
    CASE snapshot.pending # NoId -> "Reconciling"
      [] /\ snapshot.pending = NoId /\ snapshot.status \in {"Running", "Paused"}
         /\ snapshot.cleanup \in {"NotStarted", "Complete"} ->
            IF registered THEN "SafelyResumable" ELSE "NeedsOperator"
      [] OTHER -> "none"

\* recovery_admission of the service, where the port has no say.
RecoveryAdmission ==
    IF LiveAdmission # "none" THEN LiveAdmission
    ELSE IF snapshot.status \in {"Completed", "Cancelled"} /\ snapshot.cleanup = "Complete"
         THEN "TerminalVerifiedCleanup"
         ELSE "NeedsOperator"

\* The run has used up its steps or its provider calls.
BudgetSpent == run.steps >= setup.maxSteps \/ run.calls >= setup.maxCalls

\* What `status` says of recovery.  A run called resumable (where, as above, no released
\* command was re-sent) has nothing open, and it has its session but in two cases.  Its
\* budget is spent: that stops the session without failing the runtime
\* (execution_commands.rs, `needs_operator`), and the run may be paused after it.  Or a
\* command is still in flight: the live run may be ahead of the durable one, for the moment,
\* or for good when the record of the command failed (service_ops.rs), and then a run whose
\* session was released goes on being called resumable.  A cleanup called verified gave
\* the lease back, always.
AdmissionHonest ==
    /\ RecoveryAdmission = "SafelyResumable" /\ ~setup.retry =>
         /\ \A i \in Ids : effect[i] # "open"
         /\ lease = "held" \/ BudgetSpent \/ \E c \in Commands : row[c] = "inflight"
    /\ RecoveryAdmission = "TerminalVerifiedCleanup" => lease = "released"

\* After a cancellation nothing new is prepared or sent (cancel_dominates).
CancelledSendsNothing ==
    [][run.cancelled => \A i \in Ids : effect[i] = "unused" => effect'[i] = "unused"]_commandsVars

\* However commands, retries, failed records and restarts interleave, at most one paid
\* exchange or action may stand, and every command that was recorded counts once in the
\* revision.  What may stand at the provider or the game is in the durable snapshot, through
\* a crash or a failed record as well, and what `status` says of a recovery is so: nothing
\* open is called resumable, nothing without its lease is unless its budget is spent or a
\* command is in flight, and no lease that is still held is called cleaned up.
CommandsSound ==
    /\ CommandsTypeOK /\ OneOpenEffect /\ RevisionsCountCommands
    /\ OpenEffectDurable /\ AdmissionHonest
=============================================================================
