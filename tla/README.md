# A verification of the sts2-harness durable core

The harness drives a game through an MCP server and a gateway: it observes the game, asks a
policy (often a language model at a provider) for a decision, dispatches the chosen action, waits
for its effect and records everything. What has to be right is what happens to an action or a
provider call *whose outcome is not known*: the process dies, a request or an answer is lost, a
timeout races a late effect, an operator restarts the run, a watchdog changes its mind. The
architecture promises that an uncertain action is never replaced by a new one, that outcomes are
recorded truthfully and for good, and that a job is executed at most once. This directory models
the code that keeps these promises, checks it with TLC and proves part of it with TLAPS.

## Inventory

Paths are relative to `src/crates/harness/src/`. `PROJECT.json` has the complete list of
components, also those not modelled, the hazards at their lines, and the source lines of every
definition.

| Component | State | Operations | Where it is hard | Module |
|---|---|---|---|---|
| execution store (`execution/`) | SQLite tables of runs, episodes, attempts, operations, decisions, provider reservations, checkpoints, completions | start, record intent, dispatch, record result, reconcile, reserve and finish a provider call, save a checkpoint, complete, interrupt, reconstruct | shared by several processes; some operations check the lineage and some do not; several rows per change | `ExecutionStore` |
| worker handoff (`execution/store_worker*`, `store_jobs.rs`, `worker_command.rs`, `worker_runtime*`, `worker_endpoint/execution.rs`) | jobs, handoffs, control row, boots; in memory a permit, a capacity-one lane, an admission gate and a thread with a child process | claim and settle a job, set the control mode, dispatch, start, cancel, look up, project a receipt, acknowledge, release the lane | three transactions per dispatch, an answer between admission and start, a thread beside the command loop, an orphaned child after a crash | `WorkerHandoff` |
| durable run (`bin/runtime_support/runtime_v3_*`) with the episode runner (`episode/`) | in memory the step, the current observation, the checkpoint counter, the resume boundary; everything else in the store | open, resume, observe, decide, dispatch, wait, reconcile, complete, interrupt | crash between any two transactions, lost requests and answers, late effects, nested retry loops | `DurableRun` |
| multi-instance coordinator (`runtime_v2/`) | lanes with queues and an active slot, a turn queue, retained outcomes | register, submit, take work in turn, settle, cancel | a stale entry in the turn queue, an unknown outcome in the only slot, forgotten results | `InstanceScheduler` |
| workflow dynamic plans (`workflow/dynamic*`) | plan, frontier, reservation ledger, branches, join; a registry of accepted plans (not modelled) | order, reserve, infer, settle, cancel, join | parallel branches against one budget, the order in which they end, cancellation beside a late answer | `ParallelRegion`, `PlanOrder` |
| provider session broker (`provider_session/`) | bindings, prepared turns, in-flight operations, maintenance jobs, revocations, generations | prepare, start, interrupt, fork, compact, reconcile, revoke, retire, restore | a turn of an old owner or generation that answers late, a restart in between | `SessionBroker` |
| prepared dispatch (`context_capture/dispatch_*`) | held approvals, receipts, a durable image | draft, commit, cancel, stop, resume, restore | stale input after a stop, a write whose receipt is lost | `PreparedDispatch` |
| managed decision of a served session (`management/node_decision.rs`, `management/production/`) | held attempt, receipts, ledger file | hold, fence, release, retain, consume | a paid exchange and its receipt are two steps | `ServedBoundary` |
| exo lifecycle (`exo_lifecycle/`) | journal of one-shot model calls, the model's process | prepare, admit, send, poll, store, hold, reconcile, recover | an effect without a recorded outcome, a write that fails after it reached the disk | `ExoLifecycle` |
| durable branches and continuation (`exact_transition/`, `bin/runtime_support/branch_continuation*`) | branches with revisions, tombstones, claims, leases | create, attach, ready, prune, collect, claim, restore or replay, publish, play, resume | two claimants, edits under a running process, a crash between claim and publication | `BranchStore`, `BranchContinuation` |
| management service (`management/`) | submissions, sessions, command rows, a live run | submit, pause, resume, cancel, step, record, recover | replayed submissions, a command accepted but not recorded, an open effect at a crash | `RunSubmission`, `RunCommands` |
| control authority (`context_control/state*`) | gate, revision, unresolved operations, command ledger, event log, journal | pause, commit, adopt, resume, stop, observe, admit, settle, recover | late settlements beside a pause, a journal older than the memory, the event bound | `ControlAuthority`, `ControlGate` |
| context owner (`bin/runtime_support/production_context_owner*`, `context_control/store*`) | per process an authority, a catalog, a binding and a captured input; in the store the journal, owner token, receipts, sources, active pointer, drafts, publications; a lease file beside it | first contact, observe, bind, control, publish, adopt, draft, patch, preview, render | two processes over one store, a write that fails after the memory changed, a pointer of an older revision | `ContextOwner` |
| process lifecycle (`management/lifecycle*`, `management/service_process_lifecycle*`, `operation_journal*`) | a journal of attempts with one outcome each, an intent file beside it, their copy in memory | submit, replay, fence, look up, settle, open | two files per change, the lock is free while the gateway answers, a torn record, a resubmission after a crash | `ProcessLifecycle` |
| Studio authoring (`management/authoring*`, `management/service_authoring*`) | drafts with revisions, receipts of mutations, publications, a journal of proposals | create, save, publish, propose | validation and publication are two steps, a provider call between two reads of the draft, repeated requests, a crash after the reservation | `StudioAuthoring` |
| context membership, edits, lifetime, memory (`context_control/`, `context_memory/`) | content and policies | resolve, transform | canonical content rather than concurrency | - |
| seeded launch (`bin/runtime_support/seed_transport_reservation.rs`) | one reservation per seeded run | start once, reconcile afterwards | crash after the start mutation | - |
| cooperative cohort (`coop_native_*`) | peers, intents, receipts | admit, settle, recover | peers that settle in different orders | - |
| contracts, parsers, map analysis, evaluation, benchmark documents, transport security | none, or files | validation and formatting | nothing for a model checker | - |

How the parts interact. A watchdog sends commands to the worker endpoint; the endpoint admits a
handoff in the store, answers, and starts one runtime child; the child is the durable run, which
opens the same store, talks to the provider and, through MCP and the gateway, to the game host; the
endpoint's reaping loop turns the completion that the child recorded into a receipt of the handoff.
These parts meet only in the store, whose mutators are IMMEDIATE transactions, and their modules
extend the store's module, so that they run the very transactions the store's theorems are about.

The management service is a second way in: a client submits a run (`RunSubmission`) and steers it
(`RunCommands`); a Decide node of that run asks for a managed decision (`ServedBoundary`), which
releases the prepared bytes through a one-shot controller (`PreparedDispatch`) to a provider
session (`SessionBroker`). The provider of a durable run may be a subprocess owned by
`ExoLifecycle`. The content of a managed decision comes from the context owner (`ContextOwner`), whose gate
(`ControlAuthority`) an operator pauses. A durable run may start from a branch (`BranchContinuation` over `BranchStore`).
These owners share no variable with one another in the code either: each has its own file, table
or lock, and they meet through calls that return or fail, which is how the models see their
neighbours.

## Plan

Done, in this order:

1. `ExecutionStore`: the tables and every mutator of the episode tables. Proved about.
2. `WorkerHandoff` (on top of 1): admission, start, cancellation, receipts, reboots. Abstract
   specification: the store itself. Proved about, the refinement included.
3. `DurableRun` (on top of 1): one episode with crashes and resumes. Abstract specifications:
   the store and `SerialActions`, both proved.
4. `InstanceScheduler`, `ParallelRegion`, `PlanOrder`, composed for TLC by `MCWorkflow`. Proved about.
5. `RunSubmission`, `RunCommands`, `SessionBroker`, `PreparedDispatch` and `ServedBoundary`, composed
   for TLC by `MCManagement`. Proved about.
6. `ExoLifecycle`, `BranchStore` and `BranchContinuation`, composed for TLC by `MCOwners`. Proved about.
7. `ControlAuthority`, the value; `ControlGate`, one authority under all its calls; and
   `ContextOwner`, processes that each hold one over a shared store. Checked by TLC with the store, in
   `MCStores`. Proved about.
8. `ProcessLifecycle`: journal, intents and handlers, in `MCStores` as well. Proved about.
9. `StudioAuthoring`: drafts, publications and proposals, in `MCManagement`. Proved about.

To come:

10. One more proof: `AtBoundary`, with the history of a branch in the invariant.
11. Seeded launch and recipe invocations: the same begin/settle protocol outside the episode tables.
12. The suite scheduler of the benchmark.

## The modules

**`ExecutionStore`** has one variable per table; a row that is absent is a row in state `"absent"`.
One action is one mutator. A mutator that returns an error rolls back, and one that finds its own
earlier effect returns it: both are stuttering steps, so the guard of an action is exactly the
conjunction of conditions under which the code commits a change. `CurrentLineage` is
`ensure_current_lineage`; where the code does not call it (`reserve_provider`,
`transition_operation`, `finish_provider`), neither does the model. Payloads, results and
checkpoint contents are opaque values, since the code only compares their digests. An attempt id
stands for the pair of attempt and trajectory id, which are minted and compared together. The
event log and the clocks are left out.

`reconstruct_attempt` reads the pending rows before it opens its transaction and does not read them
again in it. It is one step here, as it is for its only callers, tests with a single connection; for a
second connection that records an intent in between, its comment ("cannot be used to evade an unknown
mutation") would promise more than it keeps.

**`WorkerHandoff`** adds the worker tables, the memory of the endpoint (`runtime`), the children and
a history variable counting the children started. `runtime.phase` is where the command loop stands
in a dispatch: `prepare_dispatch` is the transactions `DispatchEpisode`, `DispatchJob` and
`AdmitWorkerHandoff`; the answer is written; then `StartReservation` and, in the same handler,
`TakeExecution`. The execution thread is `runtime.task`; it shares the process with the loop, so
its steps interleave with every command. `Crash` may happen between any two transactions, and the
child may survive it. The control row fences everything: `Authorises` is
`ensure_dispatch_authority`.

**`DurableRun`** adds the memory of the runtime process (`proc`), the host, the wire and the
provider. `proc.phase` names the call the process is about to make or the transaction it is about to
commit. A read of the host is one step with the transaction that installs its answer; a dispatch is
not: the request is put on the wire and may be lost, or arrive after the sender gave up on it or
died. Every error of the runner goes to `"failing"`, where `MarkInterrupted` commits
`interrupted_unknown`; a crash instead leaves the episode active, and `OpenResume` may continue it.

External to the repository, and therefore assumed: the host never lowers its generation, applies an
operation identity at most once and only while the generation it was chosen for is current, and
reports an operation settled or rejected only when it is. It may answer "accepted" or "unknown" at
any later time, and it may lose answers.

`SerialActions` is what an episode promises about its actions: they take effect one at a time, at
most once each, the recorded outcome is the true one and never changes, and nothing is begun while
an earlier action is open.

**`InstanceScheduler`** has one action per `&mut self` method of `RuntimeV2Coordinator`; `lanes` are
its instances, `ready` its turn queue, `retained` its bounded memory of finished ids. **`ParallelRegion`**
is the owner loop `drive`: it asks the ledger what is reserved and, in a second critical section, to
reserve; the branches are threads, and `paid` counts the inferences that may have been made. An
execution of the plan may end and be started again on the same ledger. The executor's answers are fixed
before an execution starts (`verdict`), so that a join can be compared with the join the same answers give
in another order of completion (`InOrderJoin`). **`PlanOrder`** is the scan, the
topological sort and the serial execution of one plan, checked against the definitions of a
topological order and of a cycle.

**`RunSubmission`** follows a call of a client through the claim of its request id, admission,
reservation, opening, launch, registration and publication; every store transaction and every call to
the outside may fail, and the process may crash between any two. **`RunCommands`** is what happens to a
command: accepted in one transaction, applied under the run's lock, recorded in another transaction
after the lock is free. That second transaction may fail (`RecordFails`: the event log is full, the
evidence does not validate, SQLite errs) when the live run has changed already; pause and resume of the
session may fail (`SessionErrors`), and a cleanup gives the lease back even when the stop before it failed
(`LeasesAfter`). `effect` is what stands outside, an exchange with the provider or an action of the
game; `snapshot` is what the durable run says of it. `setup` chooses the graph, the commands clients send
and whether they send one again after it was released.

**`SessionBroker`** has one action per operation of the broker. `profile` holds the capabilities and
limits the broker is created with. Identifiers are positions in sequences; epochs (`owner`,
`revocation`, and per binding `session`, `history`, `compaction`) are the counters the code compares.
`Restart` is the restore of a snapshot in a new process.

**`PreparedDispatch`** is the controller that holds an exact input until it is released: all axes of
its fences are one value, since the code compares them for equality only. `image` is the durable
ledger, written by `SaveImage` at any time and installed by `RestartController`. **`ServedBoundary`** is
the managed decision around one such release. Assumed, because the served binary is built that way
(`validate_runtime_lineage`): a process serves the one run it is configured with, and a run is opened
once. A dispatch identity is the digest of the execution number, hence the number.

**`ExoLifecycle`** has one action per durable write of an exchange (`Proceed` is the next one of them),
so that the owner may die between any two; a write may also fail before or after it reached the disk,
which poisons the owner. The model process runs beside it: it may start late, be reported by the thread
that owns it, or outlive its owner. **`BranchStore`** has one operator per transaction of the branch
store, with the operation ids that make some of them idempotent. **`BranchContinuation`** adds the
processes and the gateway. Assumed of the gateway: it gives an instance to one live process at a time, a
lease whose holder died may be handed out again or expire, and it acknowledges one owner per claim
operation. Prefix and exact claims of a branch share their suffix ids, as in the code. The limit
`MAX_BRANCH_ARTIFACTS` is left out.

**`ControlAuthority`** has no variables: a transition of `ControlAuthority` is a condition (`May...`) and the
authority it leaves, so that one authority may stand in memory, in a journal and in two processes. An
unresolved operation carries the plan it was admitted under, which the code does not keep: it is a
history field. **`ControlGate`** lets every public method be called in any order and the journal be exported
and recovered at any time. **`ContextOwner`** is what the served binary does with it. `owner[p].at` is where a
first contact stands: the lease file is read and written, the journal is read, the token is claimed and
the authority is written, each in a step of its own, and another process may do the same in between. All
later handlers hold the mutex of their process and write in one transaction that verifies the token first;
a handle never claims again, so a handler that still holds the token at its write has held it
throughout, and is one action. `Observe` and `RecordLegalActions` change the memory before the
write and keep it when the write fails, as the code does (`ok`). A render is two steps, since its checks
of memory and its reads of the store are not one transaction. A replayed command is answered from its
stored receipt and changes nothing.

**`ProcessLifecycle`** has the operation journal (`entries`, durable, and `poisoned`), the intent file as the
sequence of its records (`lines`) with where the next write lands (`tail`), the intents in memory, and per
handler how far it is: the code releases the lock between its steps. A write may fail before, half way or
after it reached the disk; a crash during a write is such a failure followed by `Crash`, so the open
(`Opens`, `OpenStore`) meets every pair of files a crash can leave. `MaxIntentRecords` is the number of
records beyond which the code refuses to open the file (4096); nothing bounds what it appends. The gateway is external: it keeps
operations by id, may refuse, work, be blocked or stop, and its answer may be lost or its request arrive
late. `told` is a history variable: the settled outcomes clients were given.

**`StudioAuthoring`** has one variable per table (`drafts`, `receipts`, `publications`, `operations`) and per
handler how far it is. A draft record is its revision and its body; an etag or digest is what it is of, so
comparing revision and etag is comparing records. Creating and saving are one transaction each and one
action. Publishing reads and validates (`ReadForPublication`) before its transaction (`PublishDraft`).
A proposal reads the draft (`AdmitBase`), reserves (`BeginOperation`), calls the provider, admits
the candidate, reads the draft again (`ReadAgain`) and records the outcome (`Propose`); a write that is
refused leaves the reservation pending (`EndOperation`). What compiler, catalogs and guards accept
is the set `Compiles`. A request refused before it changes anything is no step. `versions`, `acknowledged`,
`answered` and `servedBase` are history variables.

`MCStores`, `MCWorkflow`, `MCManagement` and `MCOwners` put independent components into one run. They share no
variable, so a state of the product is a tuple of states of the parts and every property speaks of one
part; it suffices that one part moves (`part`) while the others stay where they began. The composition is
of convenience, not of interaction: where components interact in the code, the modules extend one
another.

The operators called *Fault* or *Mutant* in the modules are not part of any specification. Each is a
mistake one could make in the code; with it in place of the definition that follows it, the
property named in `PROJECT.json` is violated.

## The runs

| Run | Bounds | States | What it shows |
|---|---|---|---|
| `stores` | see below | 983,004 | whatever the order of mutators, `RowsAgree`, `PendingAnchored`, `ReconstructionFaithful`, `StoreStepsSound`; `GateSound`; `OwnerSound`, `OwnerSteps`; `LifecycleSound` |
| `worker_handoff` | one episode, two handoffs, jobs and attempts, three boot ids, two mode sequences, two modes | 574,693 | `HandoffRowsSound`, `OneExecution`, `HeldUntilReceipt`, `AuthorityFence`, `NeverBack`; the worker implements the store (`ImplementsStore`); under fairness a cancelled execution ends with its handoff unknown or terminal (`CancelledIsRetained`) |
| `durable_run` | five generations (decision, unnamed screen, animation, decision, end), two operations, three steps, seven checkpoints | 679,263 | `RunSound`, `DecidesOnSettledWorld`, `CompletionSound`, `ResumesSafely`; the episode implements `SerialActions`; under fairness every runtime process ends (`RunEnds`) |
| `management` | see below | 2,103,539 | `CommandsSound`, `CancelledSendsNothing`; `SubmissionSound`; `BindingsSound`, `BrokerStepsSound`; `PreparedSound`; `BoundarySound`; `AuthoringSound` |
| `durable_owners` | see below | 944,128 | `EffectsSound`, `HeldStaysHeld`, `ExchangeEnds`; `ContinuationSound`, `BranchStepsSound` |
| `workflow` | see below | 414,917 | `SchedulerSound`, `OutcomesKept`, `IdleInstanceServed`; `RegionSound`, `LoopEnds`; `PlanOrderSound` |
| `provider_called_twice`, `resumed_run_cannot_decide` | the game of `durable_run`, four steps, nine checkpoints | - | violation, see below |
| `start_after_stop` | three commands, one handler, one crash | - | violation, see below |
| `resume_refused` | one exact branch, two starts | - | violation, see below |
| `approval_of_another_run` | two runs, two provider calls | - | violation, see below |
| `join_depends_on_order` | two chains of two nodes, two in flight, a budget for three | - | violation, see below |

Most properties are conjunctions of named parts, each with its own statement in its module:

| Property | Parts |
|---|---|
| `RowsAgree` | `TypeOK`; an episode and its current attempt agree (`CurrentAttemptAgrees`), a reservation and its decision agree (`ProviderLockstep`), a completion rests on a checkpoint of its attempt (`CompletionAnchored`) |
| `PendingAnchored` | nothing is pending behind a superseded (`PendingIsCurrent`) or completed (`TerminalEpisodeQuiescent`) attempt |
| `StoreStepsSound` | resolved rows, checkpoints and completions are not rewritten (`OutcomesFinal`), an unknown provider call holds its episode (`UnknownProviderBlocks`) |
| `HandoffRowsSound` | `WorkerTypeOK`; no row the readers refuse is ever written (`RowsReadable`); receipts are completions (`ReceiptAnchored`) |
| `HeldUntilReceipt` | the claim of the job (`ClaimRetained`) and the lane (`LaneHeld`) are kept until then |
| `NeverBack` | handoffs only move forward (`HandoffForward`), a lapsed authority stays lapsed (`LapsedForever`) |
| `RunSound` | `RunTypeOK`; an action is on its way only if the store says so (`DispatchRecorded`) |
| `CompletionSound` | a terminal episode can be completed (`CompletionAdmissible`) and is completed at the true end (`CompletedAtTheEnd`) |
| `ResumesSafely` | a resumed run continues its trajectory (`ResumeContinues`) and does not repeat an uncertain call (`UncertainCallNotRepeated`) |
| `CommandsSound` | `CommandsTypeOK`; at most one effect stands (`OneOpenEffect`); revisions count the applied commands (`RevisionsCountCommands`); what stands is durable, through a crash or a failed record too (`OpenEffectDurable`); nothing open is called resumable, nothing without its session is unless its budget is spent or a command is still in flight, and a cleanup called verified released the lease (`AdmissionHonest`) |
| `SubmissionSound` | `SubmissionTypeOK`, `LaunchedOnce`, `SubmittedIsLive`, `NoHiddenSession` |
| `BindingsSound` | `BrokerTypeOK`; one binding may dispatch (`OneExecutable`); the turn in flight is open (`InflightOpen`) |
| `BrokerStepsSound` | an owner change leaves nothing usable of what the former owner began but the two things named under *Observations* (`OwnerChangeFences`), a revocation makes prepared turns inadmissible and its dependents unusable (`RevocationFences`), a fork never dispatches and is published from an unchanged source only (`ForksEvaluate`; together `StaleWorkFenced`); what was given up does not come back (`LeftForGood`: `RetiredStaysRetired`, `QuarantineHolds`, `TurnOutcomesFinal`) |
| `PreparedSound` | `PreparedTypeOK`; an image can be restored and its receipts are of writes (`ImageTrusted`); `ReleasedOnce` |
| `BoundarySound` | `BoundaryTypeOK`; one exchange per decision (`ReachedOnce`); no receipt is lost (`ReceiptsComplete`) |
| `EffectsSound` | `LifecycleTypeOK`, `OneEffect`, `OneLiveProcess`, `EffectRecorded`, `JournalReadable`, `ResultReachable`, `DeliveredDurably` |
| `ContinuationSound` | `ContinuationTypeOK`, `ReadyAssured`, `ClaimAcknowledged`, `OneFreshDriver`, `DrivenOnVerifiedHost` |
| `BranchStepsSound` | `AtBoundary`, `PrunedFrozen`, `CollectsUnreferenced` |
| `SchedulerSound` | `WithinBounds`, `NoLostTurn`, `SerialSlot`, `OnePlace` |
| `OutcomesKept` | an unknown outcome keeps its slot (`UnknownHoldsSlot`); a finished id is forgotten only by a full memory, oldest first (`FinishedRemembered`, `ForgetsOldest`) |
| `RegionSound` | `WithinBudget`, `InferredOnce`, `FailureIsDefinite`; a join has the executor's answer for every node it could run, calls a node exhausted only if the budget had and has no room for it, and unknown only if another execution dispatched it (`JoinFaithful`) |
| `PlanOrderSound` | `OrderIsTopological`, `CycleIsReal` |
| `GateSound` | of the authority in memory and of its journal: no revision is retired under its work (`PlanHeldByWork`), readiness and latches agree (`StatusTruthful`), a control version is spent once (`VersionsSpentOnce`), the journal can be recovered; a journalled stop holds |
| `OwnerSound` | the process that holds the token decides on the journal (`HolderMirrorsJournal`), the active source is of the active revision (`ActiveOfRevision`), accepted commands have receipts (`CommandsReceipted`), a current catalog is of the current observation (`CatalogOfObservation`) |
| `OwnerSteps` | a source is served only while it is active and the gate is open (`ServedIsActive`); receipts stay, and a journalled command is lost to a takeover only (`CommandKept`) |
| `LifecycleSound` | `LifecycleTypeOK`; nothing reaches the gateway without a durable intent (`IntentPrecedesEffect`); memory and journal agree (`MemoryAgrees`); without a failed write the two files pass the cross-check, and only the bound on records keeps the store from opening again (`WrittenOpens`); an outcome given to a client stays (`ToldIsKept`); what is recorded as refused had no effect (`RefusedWithoutEffect`) |
| `AuthoringSound` | `AuthoringTypeOK`; a mutation is applied once and kept (`AppliedOnce`); what is published was validated (`PublishedWasValidated`); one provider call per request identity (`ContactedOnce`); a proposal is for the draft that was served when it was generated (`ProposalFresh`); what a client was told stays recorded (`ToldIsRecorded`) |

### Bounds, and why they are enough

*Stores.* Two runs, one episode, three attempts, one operation, one provider call, two checkpoints per
attempt. Three attempts allow a reconstruction of a reconstruction; the mutators touch one operation
and one provider call at a time, so the interplay is between rows of different tables, which one row
per table shows; two runs are needed because `start_episode` does not compare the run of a stored
episode. Gate: two operations, three keys, two generations, four events (so that every transition meets
the bound) and two recoveries. Context owner: two processes and leases, two first contacts, two keys, two
generations, one configured source, one draft, one publication, two mutation requests, and `MaxEffort`
five on what the store takes up in all: enough to publish a source, adopt it, draft, publish and adopt the
draft, or for both processes to command and observe. The first of each kind of interchangeable name is
used first (`StartedInOrder`, `KeysInOrder`, `InOrder`): runs, attempts, keys and requests are never given
back, so every behaviour is one of these up to their names; the second process has the newer lease, the
other order being refused by the lease file except in the race described below. Process lifecycle: a
launch, a stop, and a launch that reuses the id of the one and the operation of the other; two handlers
that overlap until the first fault and follow one another after it; three records, one failed write and one
crash, which is enough to tear a record, open the file and write behind it; and a fourth record, with
which a service that met no fault leaves a file that cannot be opened (`RestartedWhenFull`).

*Worker.* The lane holds one handoff, so two handoffs are the smallest number that compete for it;
three boot ids allow two boots of the worker and a change of the watchdog; the mode sequence needs two
values to be stale.

*Run.* Two operations allow an uncertain first and a wrongly chosen second; the two decisions of the game
lie on either side of a screen the harness cannot name and of an animation; three steps and seven checkpoints
take a run through the game with a crash and a reconciliation, and let both limits be met; two attempts and two polls are
the smallest budgets that distinguish a retry from the last one. `MaxSequence` stands for the exhausted
sequence counter, which is an error of the run; it would also end a loop that saves checkpoints for ever, so
what `RunEnds` shows is the end of the loops that save none (retries, polls, reconciliations).

*Management.* Commands: three steps (observe, decide, act), pause, resume and cancel on a graph that
ends after one action; on a cycle with commands re-sent after a release, three steps, and two steps with a
cancel; and the first graph with no provider calls and with one step to spend, so that either budget runs out;
two threads, three effect identities, one crash, but none where commands are re-sent, since nothing is
applied after it (`KeptWhileReSent`). Submissions: five calls over three request ids, one of
them with two payloads and two actors, two threads, two of three claims admitted, two crashes. Broker: one
profile each for turns (two bindings, four operations, two owners, a restart), reconnections (two bindings
with three operations, and one with four), maintenance (two jobs, and one with refreshed histories),
revocation (two sources, revoked twice) and one-shot bindings (expiry, a restart). Prepared
dispatches: two identities, two fence values, one stop, one restart. Boundary: two runs, three provider
calls, with and without a ledger file. Authoring: one draft with three mutations, so that a body can return
under a later revision, two layouts of a document that compiles and one that does not, one request identity
for two handlers, one restart. The run names interchangeable steps and mutations in the order in which they
are accepted (`NamedInOrder`), and its threads are symmetric; both are sound because they are only compared with others of their kind and the run has no liveness property.

*Owners.* Lifecycle: three executions for a journal of two entries, so that one must be turned out, and
four owner epochs, hence three restarts. Continuations: two processes and three leases of two
instances, in five worlds: an exact branch with three starts; a prefix branch with four (a branch is
resumed twice only after the fourth); each with two starts while operators edit it up to revision
four; and operators alone on two branches that share artifacts.

*Workflow.* Two of three instances with capacities 2 and 3, five operations and a memory of two finished
ids, so that every limit is met and an id is forgotten; three plan shapes (a chain beside a free node, a
join of two, a cycle) with a budget for two of three nodes and a second execution, by one loop (several
loops that race for the budget are covered by the theorem `BudgetAndJoinHold`); every plan of three
nodes with up to four edges and every order of listing them. The order of a join matters only when the
budget runs out between the dependents of two branches in flight: four nodes, two in flight, three paid.

Deadlock is not checked: every one of these systems may stop, since identities are finite, an episode, a
loop or an exchange ends, and nobody need start a process or send a command again.

### What the violations show

* `provider_called_twice`. `reserve_provider` is documented to let a restart retain a call
  "instead of charging twice", but hands back an existing reservation whatever its state is. A
  process that dies between `fail_provider` and `mark_interrupted_unknown` and is resumed calls the
  provider again for the same decision. The weaker `UncertainCallNotRepeated` holds: only a call
  recorded as *failed* is ever repeated.
* `resumed_run_cannot_decide`. The execution id of a decision is the step number plus one, which
  restarts with the process, while it is the primary key of a table that outlives the process. A run
  that is resumed after its first decision, with everything reconciled, meets the row of an earlier
  step and is refused by `record_decision`; it ends as `interrupted_unknown`.
* `start_after_stop`. "A start is never replayed after a stop settled", the doc of
  `is_effect_bearing` says. The fence compares the sequence numbers under which intents were first
  recorded: a launch whose process died before it was sent, submitted again after a stop that was recorded
  later has settled, has the earlier number and is issued (`StartsFenced`).
* `resume_refused`. A crash after an exact branch is published as running "always leaves the resume
  claim eligible for the same owner", a comment says. The process that first plays a branch holds
  the claim as it was before the launch acknowledged it, so it publishes `Running` without the claim
  `BoundaryVerified`, which a resume asks for (`ResumeEligible`).
* `approval_of_another_run`. The receipts in the ledger file are named by a number that starts at one in
  every run of a deployment, so a run's first decision is refused because of a receipt an earlier run
  wrote (`ApprovalsOwned`). No exchange is repeated by it (`ReachedOnce` holds with a file as well): the
  run is held as unresolved.
* `join_depends_on_order`. "Results are joined by node identity, so the joined ordering and `join_digest` do
  not depend on completion timing", says the head of `dynamic_parallel.rs` (9-10), and `dynamic_join.rs`
  (4-5) and ADR 0049 (65-66) say the same. When the budget does not cover every node they do: of 1 -> 3 and
  2 -> 4 with three units, whichever of 1 and 2 ends first decides whether 3 or 4 is `BudgetExhausted`
  (`JoinOrderFree`). With a budget for all four the property holds on the same instance.

### Observations without a run

Met while modelling; each is visible in the model but either contradicts no sentence of the repository
clearly enough, or is outside what the shipped binaries reach.

* A quarantined binding of the broker is released by a restart: `restore_operations`
  (`broker_snapshot.rs`) rebuilds it as recovering. `QuarantineHolds` is therefore stated for one
  process.
* `recover` leaves a pending one-shot binding executable (`broker_retirement.rs:175-198`), though its doc says
  that every binding is held. And `fence_pending_maintenance` quarantines only fork targets that are
  candidates: one that `fence_automatic_transform` made recovering (`broker_transforms.rs:21-46`) survives an
  owner change, and `complete_fork` publishes it under the next owner, for evaluation, which the comment at
  `broker_maintenance.rs:22-24` rules out. `OwnerChangeFences` states both exceptions.
* The record of an applied command may fail after the live run changed (`service_ops.rs:287`). The command
  then stays in flight, no other is accepted, and `status` goes on calling a run resumable whose session was
  released. `AdmissionHonest` excepts a run with a command in flight.
* The 4096 records an intent file may hold are counted by the open only (`lifecycle_intent_recovery.rs:62`).
  Appends are not counted, two or more per operation, so a service that never met a fault can write a file
  that no later start opens (`lifecycle_intent_capacity`).
* The operation id of the startup reconciliation of branches omits the revision, so a branch that is
  revived and left half-created a second time makes every later startup refused.
* Only resumes take the file lock of the branch store. Two first starts at one revision share their
  operation ids, so idempotency answers the loser too, and its `mark_failed` may flip the winner's
  branch; a startup may fail the restoring branch of another live process. `OneFreshDriver` holds
  nevertheless, by the owner claim.
* An exact resume binds to the first claim of a branch, so a branch that was revived cannot be resumed.
* A budget ledger shared by two owner loops at once would let both infer a node
  (`dynamic_budget.rs:283`): its two questions to the ledger are two critical sections. Outside
  tests nothing in the repository runs such loops yet; `Owners` has one member, whose executions follow one
  another.
* `ServedBoundaryLedger` saves the receipts it knows over the whole file: two sessions open at once
  would lose receipts of one another. The served binary opens one.
* `ContextControlStore::load` reads the journal and only then claims the owner token (`store.rs:123-165`).
  A command the old owner persists in between is overwritten when the new owner writes the authority it
  had read, although its receipt stays; and since `recover` advances the controller epoch in memory only,
  two loads before a write get the same epoch. `state/journal.rs` says that "a journal can never be
  replayed by a second live owner". It takes two service processes over one store at that moment.
  `CommandKept` therefore excepts `FirstPersist`.
* The lease file is read, and written, before the store is claimed: a process admitted with an older lease
  may write it or claim the store after one with a newer lease did.
* `control_current` validates the receipt after it changed the authority and does not undo the change when
  that fails (`binding_control.rs:153`). No receipt the authority makes fails there.
* At the control-event bound a resume, a stop and a settlement are refused as well, so a run paused at the
  bound stays paused. A gate that went stale is ready again only through a resume, and a boundary change
  turns `Stopped` into `PausedStale` (the stop latch holds, which is what `admit_plan` reads).
* `open_intent_file` cuts a torn record off and leaves the file position behind it, where the journal's
  `replay` seeks to the end. The next record is written past a hole, reports success, and makes every later
  open refuse the store as corrupt (`tail = "past"`). `IntentPrecedesEffect` therefore excepts a file with
  an unreadable record; the journal still has the attempt.
* A crash between the journal write and the intent record makes the store refuse to open, as documented;
  a failed append of the record does not poison the store, which goes on with a journal entry it has no
  intent for, or with an outcome in memory that the file does not have.
* `Stopped` and `Accepted` are one outcome in the journal, so a "stopping" answer that is recorded late
  replaces `Stopped`, and the fence against launches is gone.
* An operation that never reached the gateway is looked up as unavailable, recorded `Unknown`, and from
  then on answered with it: it is neither sent nor settled.
* Admission and settlement of operations are called by tests only; the served owner runs the gate with an
  empty ledger of operations.
* A request for a proposal that is repeated after the draft changed is refused as a base conflict: the base is
  admitted before the journal is asked, although `authoring_inference_journal.rs` says that "a repeated key
  with byte-identical input replays the recorded outcome". The outcome stays readable by its identity.
* A proposal whose handler dies, or whose outcome the database refuses, stays pending: the key is answered
  "already reserved and unresolved" for good. A draft saved between the second read and the record is not
  noticed; the base in the proposal tells a consumer. The SQLite store answers a repeated create with the
  draft as it is now and without a conflict, where the store in memory answers with the draft it created.
* One lease may serve two branches: the gateway gives a lease to the process of another branch while the
  first branch is resumed on it. The game of the second is then past its boundary before its own process
  played, so `AtBoundary` is stated for hosts no other branch shares (`Shared`).
* A run whose budget is spent gives its session back while it is still called live, and `status` goes on
  calling it safely resumable; nothing promises otherwise, and the next step ends it (`BudgetSpent`).
* A command released and sent again may overtake the record of the first (`setup.retry`), so
  `OpenEffectDurable` is stated without it; `OneOpenEffect` and the revisions hold in both.

### Fairness

`FairRunSpec` assumes weak fairness of `RunStep`: every call of the runtime process to the host, the
provider and the store has a timeout, and a timeout is a step like an answer. Nothing is assumed of
the host, the wire or of whoever restarts the process. `WorkerFairness` assumes that the execution
thread, which polls its child and the cancellation signal, goes on (`TaskCancelled`,
`TaskRetainsUnknown`/`TaskFindsStoreBusy`), and that the endpoint's loop, which reaps the thread on
every turn, does (`LoopStep`). It assumes nothing of the child or of the watchdog. `OwnersSpec` assumes
that an exchange proceeds (`Proceed`: it polls with a deadline) and that the thread of a model process
reports (`ThreadReports`: it kills the process at its deadline), as long as the owner lives.
`WorkflowSpec` assumes that the dispatcher keeps asking for work (`NextWork`), that an owner loop runs
and that a started branch ends, as each is a thread that is joined. Management, broker, prepared dispatch,
boundary, branches, authoring, gate and context owner have no fairness and no liveness property: they wait for clients and operators.

## The proofs

Every theorem holds for all values of the constants that satisfy the named assumption of its module.

`ExecutionStoreProofs`, under `ConstantsAssumption` (bounds are natural numbers, and `None` is not one
of the identities): `TablesAgree` (`RowsAgree`), `PendingStaysAnchored` (`PendingAnchored`),
`UnknownIsAbsorbing` and `ResolvedIsFinal`, together `StoreStepsStaySound` (`StoreStepsSound`), all from
`StoreInvariant`.

The inductive invariant `IInv` is the conjunction of six parts, none of which is inductive alone. That
nothing is pending behind a completion is preserved by `reserve_provider` only because a decision
without a reservation is itself still pending, which is `ProviderLockstep`; by
`reconstruct_attempt` because it requires an active episode, which a completed one is not
(`CompletionAnchored`). That pending rows belong to the current attempt is preserved by the
operations that do not look at the lineage because they only move rows from one unresolved state to
another or out of them, and by `reconstruct_attempt` because it finds no row pending. Agreement of
episode and attempt is needed to know that `SetCurrentState` changes the row of the current attempt
and no other. `ResolvedIsFinal` needs one lemma more, `OwnedCheckpoints`: a checkpoint belongs to an
attempt the store holds, so a reconstruction writes into a place that is empty. `StepPreserves` has one
step per action and below it one per conjunct of the invariant; `ActiveEpisode` is the fact that the
current attempt of an active episode exists, is active and has the episode's lineage.

`DurableRunProofs`, for every game (`MaxGeneration`, and `Stage` of each generation), every budget of
steps, attempts and polls and every number of operations (`ConstantsAssumption`, `RunAssumption`):

* `RunStaysSound` (`RunSound`). `RunTypeOK` is more than shape: the continuation of every phase finds the
  operation or the observation it uses, and the step number and the checkpoint counter stay within
  their bounds. `DispatchRecorded` is why a resumed process finds every action that may still take
  effect among the pending operations.
* `RunImplementsStore`: `RunSpec => Spec`. Every transaction of the run is one of the store's, with
  arguments of the types the store is proved about, so each theorem of `ExecutionStoreProofs`
  holds of the tables a run writes.

The inductive invariant `RunInv` adds three things to the store's `IInv`. `ProcessOK` says which
fields of the memory each phase relies on; without it a step that records a result would not be
known to name an operation. The phase `"send"` implies that the row of its operation is no longer
`intent_recorded`: `DispatchRecorded` alone is not preserved by the step that puts the request on the
wire. And no operation of the store takes a row back to `absent` or `intent_recorded`
(`DispatchedForever`, the one lemma about all steps of the store), which is why a request that arrives
after the sender died is still covered. `NextSequence` is the successor of the greatest sequence
number written, so the proof needs that a bounded set of numbers has one (`GreatestExists`, from the
library's theorem on well-founded orders).

The second invariant of the run, `SettledInv`, is what `AlwaysDecidesOnSettledWorld`
(`DecidesOnSettledWorld`), `CompletionsSound` (`CompletionSound`), `ResumesAreSafe` (`ResumesSafely`) and
`RunImplementsSerialActions` (`ImplementsSerialActions`) rest on. It relates five things that no one step
writes together: the memory of the process, the rows, the host, the wire and the provider.
`Fits` says what each phase may rely on of the world; `OwnRows` that the store holds this run only;
`OutcomesTrue` that one operation at a time awaits its outcome and a recorded outcome is the host's;
`StandsStill` that the game waits for an action while a provider call awaits its outcome; `Trajectory`
that the process has the last checkpoint for its observation; `Ended` that a completed episode ended where the game did. The
phases fall into three classes by how much they need (nothing, no open operation, none but their own), so
a step between two phases of one class is one lemma. The refinement of `SerialActions` is then
one lemma per action of the run: it begins, performs or records an abstract action, or stutters.

`WorkerHandoffProofs`, for any jobs, handoffs, boots and mode sequences: `ExecutedOnce` (`OneExecution`),
`HeldUntilReceiptAlways` (`HeldUntilReceipt`), `AuthorityFenced` (`AuthorityFence`), `HandoffRowsStaySound`
(`HandoffRowsSound`), `NothingComesBack` (`NeverBack`) and `WorkerImplementsStore` (`ImplementsStore`); hence
`WorkerKeepsStore`: what is proved of the store holds of the tables a worker writes. `OneExecution` is not
inductive: it needs that a child exists only behind a handoff that left `admitted` (`SpawnedOnce`), that a
permit for an admitted handoff is the lane's (`EndpointSound`), and that a tuple belongs to one handoff
(`TuplesDistinct`). `AuthorityFence` needs that no authority comes back after it lapsed, which rests on the
mode sequence and on the generation of a boot being the number of boots recorded (`AuthoritiesPast`,
`ControlSound`).

`RunCommandsProofs`, for any threads, commands, effect identities, graphs and limits: `CommandsStaySound`
(`CommandsSound`) and `CancelledSendsNothingMore` (`CancelledSendsNothing`), from `CommandsInvariant`. Its
parts: the lock covers a step from its head to its end (`Locked`); whatever may stand outside, the live run
holds on to (`Custody`); a lease is given back only with the run (`CleanedUp`, `LeaseKept`); and, where no
released command is sent again, one command at a time is at work and the durable run publishes what the live one
holds (`Solo`), from which `OpenEffectDurable` and `AdmissionHonest` follow. The durable run is not always
level with the live one: a record that failed leaves its command in flight with nobody at work on it, for
good, and what `Solo` says of the lease is said of the other states (`Level`). What stands outside is
published before it is sent, so a failed record does not hide it.

`OwnersProofs` has two components.

* The exo owner, for any executions, entries and restarts: `EffectsStaySound` (`EffectsSound`) and
  `HeldStaysHeldForGood` (`HeldStaysHeld`), from `ExoInvariant`. The invariant says how far the journal on disk,
  the store, the model process and the answer of an execution may be apart (`EntriesAgree`), that at
  most one entry is open (`OneUnsettled`), what an exchange under way has written at each of its steps
  (`Exchanges`, by `Stands`), and that a process is counted when it is created (`Counted`); a journal write that is refused, fails, or succeeds and is reported as failed is one lemma.
* Branches and continuations, for any branches, processes, instances and situations
  (`BranchAssumption`, `ContinuationAssumption`): `ContinuationStaysSound` (`ContinuationSound`) and
  `PrunesAreFinal` (`PrunedFrozen` and `CollectsUnreferenced`, two of the three parts of
  `BranchStepsSound`), from `ContinuationInvariant`. `OneFreshDriver` is not inductive: two processes admitted
  at one revision may both drive the branch as far as the claim of the owner. The invariant says what a process has at each of its
  steps (`Standing`: from the claim on, the lease that is the durable owner; later the acknowledgement, then
  a host past its beginning), that what the claim file calls verified was verified on its owner (`ClaimsOK`), and
  that two processes that began a branch have different leases (`Apart`). The first claim of a restore is the least revision
  that has one, so the proof uses the well-ordering of the numbers (`Least`).

`ManagementProofs` has five components.

Submission, for any threads, calls, claims and crashes (`SubmissionAssumption`):
`SubmissionStaysSound` (`SubmissionSound`) and `ClaimsAreFinal`, from `SubmissionInvariant`.
`LaunchedOnce` is not inductive: nothing in it says that a thread about to launch has not launched. The
invariant adds that a thread at work holds the claim of its id, alone (`ClaimHeld`), that claim, run,
launch, session and registration of an id come in this order (`InOrder`), what store, registry and gateway hold of an id in each phase
(`PhasesOK`), that a stored outcome is what happened (`OutcomesTrue`), and that what a client was told
is still so (`ToldTrue`, needed for `SubmittedIsLive`).

The served boundary, for any runs and any number of provider calls (`BoundaryAssumption`):
`BoundaryStaysSound` (`BoundarySound`). Its invariant adds that numbers above the held one have not
reached the provider and the held one only after its release (`Progress`), that a run not yet opened
has reached nothing (`Unopened`), and that the receipts of the session contain the file's (`Receipts`),
without which the save that replaces the file might lose one.

Prepared dispatches, for any identities, fences, stops and restarts (`PreparedAssumption`):
`PreparedStaysSound` (`PreparedSound`). Its invariant adds that what the image once held
is still settled in the image and in the ledger (`SettledKept`), so a new draft of it is refused, and
that a pending approval of the current stop epoch was drafted since the last stop (`PendingFresh`).

The provider session broker, for every set of profiles (`BrokerAssumption`): `BindingsStaySound`
(`BindingsSound`) and `BrokerStaysFenced` (`BrokerStepsSound`), from `BrokerInvariant`. The broker has
thirty operations over five tables, so what any of them may do is said once (`SafeStep`: no row leaves
retirement or, within a process, quarantine; operations keep their kind, binding and owner; only one
binding comes to dispatch; an owner change leaves nothing of the former owner usable but a pending one-shot
binding that is recovered and a fork target that is recovering), each operation is
shown to be within it, and invariant and step properties follow from it. The invariant adds to
`BindingsSound` that prepared turns carry no later owner or revocation epoch than now, without which an epoch
change would not fence them; that the binding of a job is no candidate any more and that no creation names
the target of a fork, without which a compaction or a late creation could publish one; and that fork targets are
distinct evaluation bindings.

Studio authoring, for any handlers, drafts, mutations, requests, documents and bounds
(`AuthoringAssumption`): `AuthoringStaysSound` (`AuthoringSound`), from `AuthoringInvariant`. Its invariant
adds that a draft is the last of its versions (`Lineage`) and that receipts name versions, no two the
same one (`ReceiptsOwn`): a create cannot overwrite a receipt, and a base that equals the current draft at
the second read was current all the time in between, since revisions only grow (`BasesServed`).
`ContactedOnce` and `ToldIsRecorded` rest on a pending row having at most one handler (`OneOwner`) and
on an operation whose end was told having none (`ToldIsOver`).

`ControlProofs` has three components.

The gate, for any keys, operations, observations, event bound and recoveries
(`AuthorityAssumption`, `GateAssumption`): `GateStaysSound` (`GateSound`). `GateSound` is inductive as it
stands, because it speaks of the journal as well as of the memory: a recovery brings back an old
authority, which has to be sound by itself. One lemma per kind of transition shows that it keeps a sound
authority sound. That a control version is spent once rests on every accepted command having a version
below or at the current one, and on each command advancing it before its receipt is made
(`CommandKeeps`); that a revision is not retired under its work rests on `StatusTruthful`, which lets a
commit conclude from `PausedReady` that the ledger is empty.

The context owner, for any processes, leases, sources, requests and failed writes (`OwnerAssumption`):
`OwnerStaysSound` (`OwnerSound`) and `OwnerStepsStaySound` (`OwnerSteps`), from `OwnerInvariant`, and
`OwnedAuthoritiesSound`: every journal and every memory is sound in the sense of the gate. `OwnerSound` is
not inductive, since it speaks of the process that holds the token and any process may come to hold it. The
invariant says of the memory of every process, replaced ones too, what it needs to become the journal
(`Held`: sound, of an observation, its commands with their receipts); that the holder's memory is the journal
up to an observation not yet written (`Mirrors`); and that a render under way at the holder reads the
active source of an open gate (`Serving`). A step that leaves the journal alone, one that writes it and one
that moves a single process are each one lemma.

The process-lifecycle commands, for any handlers, commands, failed writes and crashes
(`LifecycleAssumption`): `LifecycleStaysSound` (`LifecycleSound`), from `LifecycleInvariant`. `MemoryAgrees`
speaks only of a journal that accepts writes; behind a failed write of the journal the memory may be older
than the entry on disk, and the invariant says how much: only without a settled outcome (`Backed`). That
is why a replay from a poisoned store answers nothing a restart takes back. `WrittenOpens`, the exact condition
under which a store without a failed write opens again, needs the whole state of both files while no write
has failed (`Clean`): the records of an operation form a chain of allowed transitions, and the memory is the
latest of each; the number of records remains as the only reason to refuse. That an outcome given out is final rests on
`JournalTransition`, and that a rejection had no effect on the gateway keeping operations by id.

`WorkflowProofs` has three components.

The bounded route, for any plans, budget, parallelism and number of executions (`RegionAssumption`):
`BudgetAndJoinHold` (`WithinBudget` and `JoinFaithful`) for any number of loops over one ledger, and
`RegionStaysSound` (`RegionSound`) for one loop, from `RegionInvariant`. The hypothesis of the second
(`OneOwner`) is the code's: nothing in the repository runs two loops over one ledger, and with two of them a
branch can be inferred twice, since the ledger is read before it is written. The invariant says that
what is ready, in flight or being admitted is the frontier of the plan (`Frontier`), without which a join
could miss a node; that an outcome is the executor's or says why there is none (`Answers`); that threads are
of nodes in flight (`Threads`); and which state of its reservation a loop may rely on (`PaidFor`), so
that a reservation open to a retry has not been paid. Why a node has no answer is a second invariant
(`ReasonsInv`): units reserved are never given back, so a budget without room for a node stays without it
(`RoomLost`); and in the first execution every reservation is of a node the loop has in flight or has
joined, so none of its nodes finds itself reserved by somebody else.

The coordinator, for any instances, bindings, operations and capacities (`SchedulerAssumption`):
`SchedulerStaysSound` (`SchedulerSound`) and `OutcomesStayKept` (`OutcomesKept`), from
`SchedulerInvariant`. To `SchedulerSound` it adds that an unregistered lane is empty and an uncertain
operation active (`Tidy`), that the counted sets are finite (`Limits`), and which operation has which slot
(`Slots`); the number in `SerialSlot` follows. A cancellation may leave a stale entry in `ready`, and
`next_work` may drop every entry up to the one it serves, because `Turns` speaks of lanes with work only.
What `retain_operation` forgets, and that it forgets the oldest, is a lemma about a list and its last
`MaxRetained` items (`RetainKeeps`).

The order of a plan, for any finite set of nodes, any edges and any listing (`PlanAssumption`):
`PlanOrderStaysSound` (`PlanOrderSound`), from `OrderInvariant`. The count of a node is that of its edges
from nodes not ordered yet, and it is queued or ordered exactly when there are none (`Sorting`). When the queue is
empty, the nodes left over each have a predecessor among themselves; in the other direction, a cycle in an
accepted plan would have a first node in the order, which has a predecessor before it.

Only model-checked: the liveness properties, since the prover does not handle fairness, and `AtBoundary`.
Its argument goes through the history of a branch (which restores and replays its operation ids have
answered, at which revision), which the invariant of `ContinuationInvariant` does not keep.

## Not modelled

* Store: the event log, clocks, payload limits, schema migrations and the tables of exact checkpoints,
  retention and recipe invocations.
* Worker: framing, authentication of the peer, transport and operating-system security; several
  profiles or owners per endpoint; attempt numbers, which travel with attempt ids.
* Run: the expert and rest profiles, catalog refreshes, a reconcile chosen by the policy itself, a
  host that lowers its generation, the allocation of the lease, the seeded launch, exact restore,
  replay and demo modes, malformed stored payloads, the bounds on abstentions and on repeated
  situations, the budget of reconnections (a spent one is a lost answer here).
* Scheduler: metric counters and service times. Workflow: loops and subworkflow frames of a static
  graph, which `RunCommands` sees as the edges of one graph; digests of plans.
* Management: seeded submissions, the supervisor's processes, wire formats and authentication. Authoring: the checks on document and candidate. Broker: byte limits, event texts, the wire protocol.
* Owners: encryption, atomic replacement of files, descriptors and permissions; labels, ages and paging
  of branches.
* Process lifecycle: several instances over one store, profiles, stop modes and epochs, the readiness
  predicate, foreign or malformed gateway answers.
* Context owner: content of sources and drafts, grants, encryption, expiry times (an expired item refuses,
  as any error does), several actors, the query operations.
* Workflow: the registry of accepted plans (`DynamicPlanRegistry::accept`, `invalidate_for_dependencies`),
  which only tests call.
* Where a definition is coarser than the lines it is mapped to, without a property that could tell:
  `DispatchJob` inserts a job only for an approved episode, where `worker_command.rs:88-96` commits the
  admitted row first and validates after it; `PublishSource` leaves out the bound of 16 sources per run
  (`store_render_sources.rs:76-78`); the owner step of `BranchContinuation` always marks the claim unknown,
  where a failed read or a lost race (`continuation_owner.rs:88`, `:122`) leaves it; `PersistSent` has no refusal
  before the write (`exo_lifecycle`, `start.rs:88-90`), nor a poll's errors before it has its handle
  (`recovery.rs:54-72`); `Scan` starts from distinct identifiers and known, distinct edges, the others being
  refused at once (`dynamic.rs:282-300`); `Goto` has no catalog refresh (`runner_steps.rs:65-108`);
  `BeginOperation` reserves and contacts the provider in one step (`service_authoring_inference.rs:76-111`),
  so its count of contacts is an upper bound.
* Context membership, edits, lifetime ledger and memory, the cooperative cohort, the seeded launch: see their notes in
  `PROJECT.json`. The pure parsers, validators, documents and offline analyses, which are most of
  the repository's lines, have no protocol to check.

## Running it

    tlc -workers 2 -config Stores.cfg MCStores                      (about three minutes)
    tlc -workers 2 -config WorkerHandoff.cfg MCWorkerHandoff
    tlc -workers 2 -config DurableRun.cfg MCDurableRun              (about two minutes)
    tlc -workers 2 -config Management.cfg MCManagement              (about three minutes)
    tlc -workers 2 -config Owners.cfg MCOwners                      (about two minutes)
    tlc -workers 2 -config Workflow.cfg MCWorkflow

    tlc -workers 2 -config RepeatedProviderCall.cfg MCDurableRun    (violations from here on)
    tlc -workers 2 -config ResumedDecision.cfg MCDurableRun
    tlc -workers 2 -config StartsFenced.cfg MCProcessLifecycle
    tlc -workers 2 -config ResumeRefused.cfg MCOwners
    tlc -workers 2 -config ApprovalsOwned.cfg ServedBoundary
    tlc -workers 2 -config JoinOrder.cfg MCJoinOrder

    tlapm ExecutionStoreProofs.tla      (and WorkerHandoffProofs, DurableRunProofs,
                                         RunCommandsProofs, ManagementProofs, ControlProofs,
                                         OwnersProofs, WorkflowProofs)
